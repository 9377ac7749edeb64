--------------------------- MODULE SourceDownload ---------------------------
(***************************************************************************)
(* The download of one source object into the source cache, and what the    *)
(* handler makes of the cached file.  downloadFromR2 resumes a partial file *)
(* from its size with a Range request, up to eight times a call; the file   *)
(* survives the call, the job and the process, and every later job of the   *)
(* version starts from it.  Jobs of a version are kept apart by FileVersion, *)
(* so calls follow one another here; but a handler whose lock a cancellation *)
(* deleted may still be at work when the next call comes, with an input that *)
(* is a hard link to the cached file.  /sources/delete may come at any time. *)
(*                                                                         *)
(* A chunk is the unit of data.  handleJob passes the size that the HEAD    *)
(* request gave, never null, and a size within the upload limit.            *)
(***************************************************************************)
EXTENDS Integers, Sequences

CONSTANTS
  Size,         \* expectedBytes, in chunks
  MaxAttempts,  \* maxDownloadAttempts
  MaxBreaks,    \* bound: requests or streams that fail, in a behaviour
  MaxCrashes,   \* bound: process crashes in a behaviour
  MaxDeletes,   \* bound: requests to delete the cached file
  MaxLate       \* bound: times the write in progress when the stream is
                \* destroyed ends after the stat that follows

ASSUME DownloadAssumption ==
  /\ Size \in Nat \ {0} /\ MaxAttempts \in Nat \ {0}
  /\ MaxBreaks \in Nat /\ MaxCrashes \in Nat /\ MaxDeletes \in Nat
  /\ MaxLate \in Nat

VARIABLES
  exists, disk,  \* the cached file: is it there, the source chunks in it
  buffer,        \* chunks given to the write stream and not yet on disk
  next,          \* the source chunk the response delivers next
  written,       \* writtenBytes
  attempt,
  pc,            \* where the call, or the handler after it, is
  input,         \* the input of the handler that got one last
  linked,        \* is that the cached file itself, and not a file of its own?
  breaks, crashes, deletes, late

fileVars == <<exists, disk>>
boundVars == <<breaks, crashes, deletes, late>>
inputVars == <<input, linked>>
vars == <<fileVars, buffer, next, written, attempt, pc, inputVars, boundVars>>

\* "done" is the successful return of downloadFromR2; the handler then uses the
\* file, or rejects it for good; "gaveUp" has thrown the last error.
Ends == {"idle", "used", "rejected", "gaveUp"}

\* Contents of a file, or of a buffer.
Chunks == Seq(1 .. Size)

TypeOK ==
  /\ exists \in BOOLEAN
  /\ disk \in Chunks /\ buffer \in Chunks
  /\ next \in Nat
  /\ written \in Nat
  /\ attempt \in 0 .. MaxAttempts
  /\ pc \in Ends \cup {"request", "stream", "catch", "done"}
  /\ input \in Chunks /\ linked \in BOOLEAN
  /\ breaks \in 0 .. MaxBreaks /\ crashes \in 0 .. MaxCrashes
  /\ deletes \in 0 .. MaxDeletes /\ late \in 0 .. MaxLate

Init ==
  /\ exists = FALSE /\ disk = <<>>
  /\ buffer = <<>> /\ next = 1 /\ written = 0 /\ attempt = 0
  /\ pc = "idle" /\ input = <<>> /\ linked = FALSE
  /\ breaks = 0 /\ crashes = 0 /\ deletes = 0 /\ late = 0

-----------------------------------------------------------------------------
(* Deliberately wrong variants, for the mutation runs. *)

\* The resumed request starts one chunk late.
RangeSkipsOne == IF written + 2 <= Size THEN written + 2 ELSE written + 1

\* A file that is complete is not taken for what it is, but downloaded anew.
CallAnew ==
  /\ pc \in Ends
  /\ attempt' = 0 /\ buffer' = <<>> /\ next' = 1
  /\ written' = IF Len(disk) < Size THEN Len(disk) ELSE 0
  /\ pc' = "request"
  /\ UNCHANGED <<fileVars, inputVars, boundVars>>

\* The size of the file is not looked at after the stream has ended.
CompleteByCount == written >= Size

\* A file that is too long is resumed like a partial one.
NeverTooLong == FALSE

\* One attempt too few.
LastButOne == attempt >= MaxAttempts - 1

\* One attempt too many.
OneMore == attempt > MaxAttempts

-----------------------------------------------------------------------------
(* The call. *)

\* An unlinked file that is still open takes the writes with it.
Landed(chunks) == IF exists THEN disk \o chunks ELSE disk

\* What is written to the cached file is written to an input that is linked to it.
Write(contents) ==
  /\ disk' = contents
  /\ input' = IF linked THEN contents ELSE input
  /\ UNCHANGED linked

\* What is at the path is taken away; a link to it keeps the file.
Unlink == exists' = FALSE /\ disk' = <<>> /\ linked' = FALSE /\ UNCHANGED input

TooLong == exists /\ Len(disk) > Size

\* A job reaches the download: the file on disk is taken as it is, resumed from its
\* size, or thrown away.
Call ==
  /\ pc \in Ends
  /\ attempt' = 0 /\ buffer' = <<>> /\ next' = 1
  /\ IF TooLong THEN Unlink /\ written' = 0
                ELSE written' = Len(disk) /\ UNCHANGED <<fileVars, inputVars>>
  /\ pc' = IF Len(disk) = Size THEN "done" ELSE "request"
  /\ UNCHANGED boundVars

\* Range: bytes={writtenBytes}-
RangeStart == written + 1

\* The response arrives and the file is opened, to append if there is something to
\* resume, and empty otherwise.
Request ==
  /\ pc = "request"
  /\ attempt' = attempt + 1
  /\ pc' = "stream"
  /\ next' = RangeStart
  /\ exists' = TRUE
  /\ Write(IF written > 0 THEN disk ELSE <<>>)
  /\ UNCHANGED <<buffer, written, boundVars>>

\* The request fails before there is a stream.
RequestFails ==
  /\ pc = "request"
  /\ breaks < MaxBreaks
  /\ breaks' = breaks + 1
  /\ attempt' = attempt + 1
  /\ pc' = "catch"
  /\ UNCHANGED <<fileVars, buffer, next, written, inputVars, crashes, deletes, late>>

\* The "data" event.  No response is longer than what is left of the object.
Receive ==
  /\ pc = "stream"
  /\ next <= Size
  /\ written' = written + 1
  /\ buffer' = Append(buffer, next)
  /\ next' = next + 1
  /\ UNCHANGED <<fileVars, attempt, pc, inputVars, boundVars>>

Flush ==
  /\ pc = "stream"
  /\ buffer # <<>>
  /\ Write(Landed(<<Head(buffer)>>))
  /\ buffer' = Tail(buffer)
  /\ UNCHANGED <<exists, next, written, attempt, pc, boundVars>>

Complete == exists /\ Len(disk) >= Size

\* The response has ended and everything is written: stat, and the comparison with
\* the expected size.  A missing file and a short one both throw.
StreamEnds ==
  /\ pc = "stream"
  /\ next > Size /\ buffer = <<>>
  /\ pc' = IF Complete THEN "done" ELSE "catch"
  /\ written' = IF exists THEN Len(disk) ELSE written
  /\ UNCHANGED <<fileVars, buffer, next, attempt, inputVars, boundVars>>

\* An error on the stream destroys the response and the write stream.
StreamBreaks ==
  /\ pc = "stream"
  /\ breaks < MaxBreaks
  /\ breaks' = breaks + 1
  /\ pc' = "catch"
  /\ UNCHANGED <<fileVars, buffer, next, written, attempt, inputVars, crashes, deletes,
                 late>>

LastAttempt == attempt >= MaxAttempts

\* The catch block: writtenBytes is set to the size of the file, unless the stat
\* fails.  Of the buffer only the write in progress, some chunks at its head, still
\* reaches the disk; it does before the backoff is over, but perhaps not before
\* the stat.
CatchUp ==
  /\ pc = "catch"
  /\ \E k \in 0 .. Len(buffer) :
       /\ Write(Landed(SubSeq(buffer, 1, k)))
       /\ \E seen \in 0 .. k :
            /\ written' = IF exists THEN Len(disk) + seen ELSE written
            /\ late' = IF seen < k THEN late + 1 ELSE late
  /\ late' <= MaxLate
  /\ pc' = IF written' >= Size THEN "done"
           ELSE IF LastAttempt THEN "gaveUp" ELSE "request"
  /\ buffer' = <<>>
  /\ UNCHANGED <<exists, next, attempt, breaks, crashes, deletes>>

-----------------------------------------------------------------------------
\* handleJob links the cached file into the job's directory, or copies it where it
\* cannot; throws if it is gone; and rejects one that is longer than the source.
Materialize ==
  /\ pc = "done"
  /\ IF exists THEN input' = disk /\ linked' \in BOOLEAN ELSE UNCHANGED inputVars
  /\ pc' = IF ~ exists THEN "idle" ELSE IF Len(disk) > Size THEN "rejected" ELSE "used"
  /\ UNCHANGED <<fileVars, buffer, next, written, attempt, boundVars>>

\* deleteSourceCache.
Delete ==
  /\ deletes < MaxDeletes
  /\ exists
  /\ deletes' = deletes + 1
  /\ Unlink
  /\ UNCHANGED <<buffer, next, written, attempt, pc, breaks, crashes, late>>

Crash ==
  /\ crashes < MaxCrashes
  /\ crashes' = crashes + 1
  /\ \E k \in 0 .. Len(buffer) : disk' = Landed(SubSeq(buffer, 1, k))
  /\ input' = <<>> /\ linked' = FALSE
  /\ buffer' = <<>>
  /\ pc' = "idle"
  /\ UNCHANGED <<exists, next, written, attempt, breaks, deletes, late>>

-----------------------------------------------------------------------------
Proceed ==
  \/ Call \/ Request \/ Receive \/ Flush \/ StreamEnds \/ CatchUp \/ Materialize

Next == Proceed \/ RequestFails \/ StreamBreaks \/ Delete \/ Crash

Spec == Init /\ [][Next]_vars

\* The event loop and the network go on, and there are jobs that want the source.
FairSpec == Spec /\ WF_vars(Proceed)

-----------------------------------------------------------------------------
(* Properties *)

\* What the handler takes for the source is the source, however often and wherever
\* the download broke off before (downloadFromR2's resumption).
InputWhole == pc = "used" /\ exists => disk = [i \in 1 .. Size |-> i]

\* So it is as long as nobody deletes the file under a download and the stat in the
\* catch block sees what the destroyed stream has written.
InputIntact == deletes = 0 /\ late = 0 => InputWhole

\* A download that is reported complete left a file that is not too short, unless
\* it was deleted in the meantime (the stat after the stream, and in the catch).
NeverShort == pc \in {"done", "used"} /\ exists => Len(disk) >= Size

\* An input that a handler has got is written to by nobody, although it may be the
\* cached file itself and later calls find that file under its path (the link of
\* handleJob, and what downloadFromR2 does to a file that is there).
InputUntouched == [][pc # "done" /\ pc' # "idle" => input' = input]_vars

\* A call gives up only after as many failures as it is allowed attempts; a deletion
\* under the download makes at most one fail.
NoEarlySurrender == pc = "gaveUp" => breaks + deletes >= MaxAttempts

\* Whatever is left on disk by failures, late writes and crashes, a later job gets
\* past it: no cached file is rejected again and again.
Heals == []<>(pc = "used")

=============================================================================
