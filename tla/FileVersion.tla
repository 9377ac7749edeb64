---------------------------- MODULE FileVersion ----------------------------
(***************************************************************************)
(* The two Redis keys that keep jobs of one file version apart, for one     *)
(* version: queued:{version}, taken by enqueueFile and kept until the job   *)
(* is over, and active:{version}, taken by handleJob and kept while it      *)
(* works.  POST /jobs, the handler, onBullJobFailed and /job/cancel all     *)
(* read and delete them with separate commands; a step here is one command  *)
(* or the code between two.                                                 *)
(***************************************************************************)
EXTENDS Integers, FiniteSets

CONSTANTS
  Jobs,        \* jobs for this file version
  NoJob,       \* null value, not a job
  MaxMishaps   \* bound: crashes, /job/cancel requests and active keys that end under a
               \* handler that uses them, together, in a behaviour

ASSUME VersionAssumption == NoJob \notin Jobs /\ MaxMishaps \in Nat

VARIABLES
  queued,    \* owner in the queued key, or NoJob
  active,    \* owner in the active key, or NoJob
  pc,        \* pc[j]: where job j is
  status,    \* status[j]: "over" is COMPLETED or FAILED
  clear,     \* jobs whose handler has set clearQueuedFileVersionIndex
  held,      \* jobs whose handler has set fileVersionSlotHeld
  passed,    \* jobs whose handler passed the claim on an empty GET
  stalls,    \* stalls[j]: BullMQ's stalledCounter, whose limit is 1
  cancel,    \* [job, pc, ownQueued, ownActive]: /job/cancel and what it has read
  crashes, cancels, lapses

keyVars == <<queued, active>>
flagVars == <<clear, held, passed>>
boundVars == <<crashes, cancels, lapses>>
vars == <<keyVars, pc, status, flagVars, stalls, cancel, boundVars>>

\* The submission; in BullMQ; the handler; its finally; a failed BullMQ job.
Submitting == {"checked", "reserved"}
Handling == {"claim", "owner", "work", "getQueued", "delQueued", "getActive",
             "delActive", "return"}
Failing == {"failed", "failedQueued"}
JobStates == {"new", "waiting", "stalled", "ended"} \cup Submitting \cup Handling \cup Failing

Owners == Jobs \cup {NoJob}

TypeOK ==
  /\ queued \in Owners /\ active \in Owners
  /\ pc \in [Jobs -> JobStates]
  /\ status \in [Jobs -> {"open", "cancelled", "over"}]
  /\ clear \subseteq Jobs /\ held \subseteq Jobs /\ passed \subseteq Jobs
  /\ stalls \in [Jobs -> 0 .. 2]
  /\ cancel \in [job : Owners, pc : {"get", "delQueued", "delActive"},
                 ownQueued : BOOLEAN, ownActive : BOOLEAN]
  /\ crashes \in Nat /\ cancels \in Nat /\ lapses \in Nat
  /\ crashes + cancels + lapses <= MaxMishaps

\* One more of them is within the bound.
Mishap == crashes + cancels + lapses < MaxMishaps

Step(j, from, to) == pc[j] = from /\ pc' = [pc EXCEPT ![j] = to]

Init ==
  /\ queued = NoJob /\ active = NoJob
  /\ pc = [j \in Jobs |-> "new"]
  /\ status = [j \in Jobs |-> "open"]
  /\ clear = {} /\ held = {} /\ passed = {} /\ stalls = [j \in Jobs |-> 0]
  /\ cancel = [job |-> NoJob, pc |-> "get", ownQueued |-> FALSE, ownActive |-> FALSE]
  /\ crashes = 0 /\ cancels = 0 /\ lapses = 0

-----------------------------------------------------------------------------
(* Deliberately wrong variants, for the mutation runs. *)

\* The claim goes by the submission's check alone.
ClaimRegardless(j) == TRUE

\* SET without NX.
AlwaysReservable(j) == TRUE

\* The claim is not recorded for the finally block.
HeldForgotten(j) == held

-----------------------------------------------------------------------------
(* enqueueFile. *)

\* The active key of another job refuses the submission.
Check(j) ==
  /\ active \in {NoJob, j}
  /\ Step(j, "new", "checked")
  /\ UNCHANGED <<keyVars, status, flagVars, stalls, cancel, boundVars>>

Reservable(j) == queued \in {NoJob, j}

\* SET NX of the queued key: granted, own already, or another job's.
Reserve(j) ==
  /\ \/ Reservable(j) /\ Step(j, "checked", "reserved") /\ queued' = j
     \/ ~ Reservable(j) /\ Step(j, "checked", "new") /\ UNCHANGED queued
  /\ UNCHANGED <<active, status, flagVars, stalls, cancel, boundVars>>

Add(j) ==
  /\ Step(j, "reserved", "waiting")
  /\ UNCHANGED <<keyVars, status, flagVars, stalls, cancel, boundVars>>

-----------------------------------------------------------------------------
(* handleJob.  The per-job lock is JobLifecycle's subject: one handler a job. *)

Dispatch(j) ==
  /\ IF status[j] = "cancelled" THEN Step(j, "waiting", "ended")
                                ELSE Step(j, "waiting", "claim")
  /\ UNCHANGED <<keyVars, status, flagVars, stalls, cancel, boundVars>>

HeldAfterClaim(j) == held \cup {j}

\* The claim has succeeded: fileVersionSlotHeld is set, and the stage writes that follow
\* overwrite whatever the status was.
Claimed(j, from) ==
  /\ Step(j, from, "work")
  /\ held' = HeldAfterClaim(j)
  /\ status' = [status EXCEPT ![j] = "open"]
  /\ UNCHANGED <<queued, clear, stalls, cancel, boundVars>>

\* SET NX of the active key.
ClaimSet(j) ==
  \/ active = NoJob /\ Claimed(j, "claim") /\ active' = j /\ UNCHANGED passed
  \/ /\ active # NoJob
     /\ Step(j, "claim", "owner")
     /\ UNCHANGED <<keyVars, status, flagVars, stalls, cancel, boundVars>>

\* The owner that the GET returns is no other job: there may be none any more.
Claimable(j) == active \in {NoJob, j}

\* GET, when the key was taken, and PEXPIRE, which sets no key that is gone; or
\* DuplicateActiveFileVersionError, which fails the job for good.
ClaimGet(j) ==
  \/ /\ Claimable(j)
     /\ Claimed(j, "owner")
     /\ passed' = IF active = NoJob THEN passed \cup {j} ELSE passed
     /\ UNCHANGED active
  \/ /\ ~ Claimable(j)
     /\ Step(j, "owner", "getQueued")
     /\ status' = [status EXCEPT ![j] = "over"]
     /\ clear' = clear \cup {j}
     /\ UNCHANGED <<keyVars, held, passed, stalls, cancel, boundVars>>

\* The try block ends, and the catch block: success or failure for good, a retry
\* or a resource wait to come, or a cancellation noticed.
Finish(j) ==
  /\ Step(j, "work", "getQueued")
  /\ \/ status' = [status EXCEPT ![j] = "over"] /\ clear' = clear \cup {j}
     \/ status[j] = "open" /\ UNCHANGED <<status, clear>>
     \/ status[j] = "cancelled" /\ clear' = clear \cup {j} /\ UNCHANGED status
  /\ UNCHANGED <<keyVars, held, passed, stalls, cancel, boundVars>>

\* The finally block: GET of the queued key, only when no retry is to come.
GetQueued(j) ==
  /\ IF j \in clear /\ queued = j THEN Step(j, "getQueued", "delQueued")
                                  ELSE Step(j, "getQueued", "getActive")
  /\ UNCHANGED <<keyVars, status, flagVars, stalls, cancel, boundVars>>

DelQueued(j) ==
  /\ Step(j, "delQueued", "getActive")
  /\ queued' = NoJob
  /\ UNCHANGED <<active, status, flagVars, stalls, cancel, boundVars>>

GetActive(j) ==
  /\ IF j \in held /\ active = j THEN Step(j, "getActive", "delActive")
                                 ELSE Step(j, "getActive", "return")
  /\ UNCHANGED <<keyVars, status, flagVars, stalls, cancel, boundVars>>

DelActive(j) ==
  /\ Step(j, "delActive", "return")
  /\ active' = NoJob
  /\ UNCHANGED <<queued, status, flagVars, stalls, cancel, boundVars>>

\* BullMQ has the job back; the handler's flags are gone.
Return(j) ==
  /\ Step(j, "return", IF j \in clear THEN "ended" ELSE "waiting")
  /\ clear' = clear \ {j} /\ held' = held \ {j} /\ passed' = passed \ {j}
  /\ UNCHANGED <<keyVars, status, stalls, cancel, boundVars>>

-----------------------------------------------------------------------------
(* Crash, and what follows it. *)

\* A submission is lost with its connection, a handler leaves its job to BullMQ.
AfterCrash(s) ==
  CASE s \in Submitting -> "new"
    [] s \in Handling -> "stalled"
    [] s \in Failing -> "ended"
    [] OTHER -> s

Crash ==
  /\ Mishap
  /\ crashes' = crashes + 1
  /\ pc' = [j \in Jobs |-> AfterCrash(pc[j])]
  /\ clear' = {} /\ held' = {} /\ passed' = {}
  /\ cancel' = [cancel EXCEPT !.job = NoJob]
  /\ UNCHANGED <<keyVars, status, stalls, cancels, lapses>>

\* BullMQ gives the job to a handler again, or fails it once too often.
Stalled(j) ==
  /\ Step(j, "stalled", IF stalls[j] = 0 THEN "waiting" ELSE "failed")
  /\ stalls' = [stalls EXCEPT ![j] = @ + 1]
  /\ UNCHANGED <<keyVars, status, flagVars, cancel, boundVars>>

\* onBullJobFailed: both keys of the version go, whoever owns them, unless the
\* status is already COMPLETED or FAILED.
FailedActive(j) ==
  /\ \/ status[j] = "over" /\ Step(j, "failed", "ended") /\ UNCHANGED <<active, status>>
     \/ /\ status[j] # "over"
        /\ Step(j, "failed", "failedQueued")
        /\ active' = NoJob
        /\ status' = [status EXCEPT ![j] = "over"]
  /\ UNCHANGED <<queued, flagVars, stalls, cancel, boundVars>>

FailedQueued(j) ==
  /\ Step(j, "failedQueued", "ended")
  /\ queued' = NoJob
  /\ UNCHANGED <<active, status, flagVars, stalls, cancel, boundVars>>

\* The active key reaches its time to live, three minutes, which only a heartbeat
\* extends: that of a dead handler; or of one that is slow before its heartbeat is armed,
\* or blocks the event loop, which counts as a lapse where it uses the key.
Expire ==
  /\ active # NoJob
  /\ \/ pc[active] \notin {"work", "delActive"} /\ UNCHANGED lapses
     \/ /\ pc[active] \in {"work", "delActive"}
        /\ Mishap
        /\ lapses' = lapses + 1
  /\ active' = NoJob
  /\ UNCHANGED <<queued, pc, status, flagVars, stalls, cancel, crashes, cancels>>

-----------------------------------------------------------------------------
(* /job/cancel. *)

\* A job that waits leaves BullMQ; a handler, or BullMQ's lock of a dead one, keeps
\* it there.  The status becomes CANCELLED in any case.
CancelMark(j) ==
  /\ Mishap /\ cancel.job = NoJob
  /\ pc[j] \in {"waiting", "stalled"} \cup Handling
  /\ cancels' = cancels + 1
  /\ cancel' = [cancel EXCEPT !.job = j, !.pc = "get"]
  /\ pc' = [pc EXCEPT ![j] = IF @ = "waiting" THEN "ended" ELSE @]
  /\ status' = [status EXCEPT ![j] = "cancelled"]
  /\ UNCHANGED <<keyVars, flagVars, stalls, crashes, lapses>>

CancelGet ==
  /\ cancel.job # NoJob /\ cancel.pc = "get"
  /\ cancel' = [cancel EXCEPT !.pc = "delQueued", !.ownQueued = (queued = cancel.job),
                              !.ownActive = (active = cancel.job)]
  /\ UNCHANGED <<keyVars, pc, status, flagVars, stalls, boundVars>>

CancelDelQueued ==
  /\ cancel.job # NoJob /\ cancel.pc = "delQueued"
  /\ cancel' = [cancel EXCEPT !.pc = "delActive"]
  /\ queued' = IF cancel.ownQueued THEN NoJob ELSE queued
  /\ UNCHANGED <<active, pc, status, flagVars, stalls, boundVars>>

CancelDelActive ==
  /\ cancel.job # NoJob /\ cancel.pc = "delActive"
  /\ cancel' = [cancel EXCEPT !.job = NoJob]
  /\ active' = IF cancel.ownActive THEN NoJob ELSE active
  /\ UNCHANGED <<queued, pc, status, flagVars, stalls, boundVars>>

-----------------------------------------------------------------------------
Submit(j) == Check(j) \/ Reserve(j) \/ Add(j)

Handler(j) ==
  \/ Dispatch(j) \/ ClaimSet(j) \/ ClaimGet(j) \/ Finish(j)
  \/ GetQueued(j) \/ DelQueued(j) \/ GetActive(j) \/ DelActive(j)
  \/ Return(j)

Failed(j) == Stalled(j) \/ FailedActive(j) \/ FailedQueued(j)

Next ==
  \/ \E j \in Jobs : Submit(j) \/ Handler(j) \/ Failed(j) \/ CancelMark(j)
  \/ CancelGet \/ CancelDelQueued \/ CancelDelActive
  \/ Crash \/ Expire

Spec == Init /\ [][Next]_vars

-----------------------------------------------------------------------------
(* Properties *)

\* The jobs at work that have found the key free or their own.
Workers == {j \in Jobs : pc[j] = "work"} \ passed

\* Nothing has deleted a key whoever owns it: no cancellation, no failure handler, and no
\* end of a time to live under a handler.
Calm == cancels = 0 /\ lapses = 0 /\ \A j \in Jobs : stalls[j] < 2

\* While it is calm, two jobs of a file version are worked on together only if one of
\* them has found the key taken and then gone: through submissions, retries, crashes
\* and keys of dead handlers that end, in any order, the commands of the finally block
\* delete nobody else's key (DuplicateActiveFileVersionError).
OneWorker == Calm => Cardinality(Workers) <= 1

\* The same jobs, as users of a semaphore of one.
Gate == INSTANCE Semaphore WITH
  Users <- Jobs, Limit <- 1, inside <- Workers, calm <- Calm

\* While it is calm the active key, taken with SET NX and deleted after a GET, implements
\* a semaphore of one for those who have found it free or their own.
ImplementsSemaphore == Gate!Spec

\* Until a crash or a cancellation, BullMQ never has two jobs of a file version that
\* are not over, whatever becomes of the active key (duplicate_queued_file_version).
AdmittedOnce ==
  crashes = 0 /\ cancels = 0 =>
    Cardinality({j \in Jobs : pc[j] \in {"waiting", "claim", "owner", "work"}}) <= 1

\* When every job is over, and every cancellation answered, the version is free
\* for the next one: neither key is left to its time to live, unless a crash did it.
KeysReleased ==
  /\ crashes = 0 /\ cancel.job = NoJob
  /\ \A j \in Jobs : pc[j] \in {"new", "ended"}
  => queued = NoJob /\ active = NoJob

=============================================================================
