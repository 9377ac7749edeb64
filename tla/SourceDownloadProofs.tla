------------------------ MODULE SourceDownloadProofs ------------------------
(* Proofs about SourceDownload, for a source of any size, any number of         *)
(* attempts, and any number of breaks, crashes, deletions and late writes.      *)
EXTENDS SourceDownload, SequenceTheorems, TLAPS

-----------------------------------------------------------------------------
(* Sequences of chunks.                                                     *)

\* The file s has the beginning of the source in it, and t continues it.
Mirrors(s) == \A i \in 1 .. Len(s) : s[i] = i
Continues(s, t) == \A i \in 1 .. Len(t) : t[i] = Len(s) + i

\* The empty sequence.
LEMMA Nothing == <<>> \in Chunks /\ Len(<<>>) = 0
  BY EmptySeq DEF Chunks

LEMMA NothingIsWrong == Mirrors(<<>>) /\ \A s : Continues(s, <<>>)
  BY Nothing DEF Mirrors, Continues

\* The first chunk of the buffer t reaches the end of the file s (Flush).
LEMMA HeadLands ==
  ASSUME NEW s \in Chunks, NEW t \in Chunks, t # <<>>
  PROVE  /\ s \o <<Head(t)>> \in Chunks
         /\ Len(s \o <<Head(t)>>) = Len(s) + 1
         /\ Tail(t) \in Chunks
         /\ Len(t) \in Nat /\ Len(t) > 0 /\ Len(Tail(t)) = Len(t) - 1
         /\ Mirrors(s) /\ Continues(s, t) =>
              Mirrors(s \o <<Head(t)>>) /\ Continues(s \o <<Head(t)>>, Tail(t))
  <1> DEFINE S == 1 .. Size
  <1> HIDE DEF S
  <1>1. s \in Seq(S) /\ t \in Seq(S)
    BY DEF Chunks, S
  <1>2. Len(s) \in Nat /\ Len(t) \in Nat /\ Len(t) > 0
    BY <1>1, EmptySeq, LenProperties
  <1>3. /\ Head(t) \in S /\ Tail(t) \in Seq(S) /\ Len(Tail(t)) = Len(t) - 1
        /\ \A i \in 1 .. Len(Tail(t)) : Tail(t)[i] = t[i + 1]
    BY <1>1, HeadTailProperties
  <1>4. <<Head(t)>> \in Seq(S) /\ Len(<<Head(t)>>) = 1 /\ <<Head(t)>>[1] = t[1]
    BY <1>1, <1>2, <1>3
  <1>5. /\ s \o <<Head(t)>> \in Seq(S)
        /\ Len(s \o <<Head(t)>>) = Len(s) + 1
        /\ \A i \in 1 .. Len(s) + 1 :
             (s \o <<Head(t)>>)[i] = IF i <= Len(s) THEN s[i] ELSE <<Head(t)>>[i - Len(s)]
    BY <1>1, <1>4, ConcatProperties
  <1>6. ASSUME Mirrors(s), Continues(s, t)
        PROVE  Mirrors(s \o <<Head(t)>>) /\ Continues(s \o <<Head(t)>>, Tail(t))
    <2>1. ASSUME NEW i \in 1 .. Len(s) + 1 PROVE (s \o <<Head(t)>>)[i] = i
      <3>1. CASE i <= Len(s)
        BY <3>1, <1>2, <1>5, <1>6 DEF Mirrors
      <3>2. CASE i = Len(s) + 1
        <4>1. (s \o <<Head(t)>>)[i] = <<Head(t)>>[1]
          BY <3>2, <1>2, <1>5
        <4> QED
          BY <3>2, <4>1, <1>2, <1>4, <1>6 DEF Continues
      <3> QED
        BY <3>1, <3>2, <1>2
    <2>2. ASSUME NEW i \in 1 .. Len(Tail(t)) PROVE Tail(t)[i] = Len(s) + 1 + i
      BY <1>2, <1>3, <1>6 DEF Continues
    <2> QED
      BY <2>1, <2>2, <1>5 DEF Mirrors, Continues
  <1> QED
    BY <1>2, <1>3, <1>5, <1>6 DEF Chunks, S

\* The first k chunks of the buffer reach the file (CatchUp, Crash).
LEMMA SomeLand ==
  ASSUME NEW s \in Chunks, NEW t \in Chunks, NEW k \in 0 .. Len(t)
  PROVE  /\ s \o SubSeq(t, 1, k) \in Chunks
         /\ Len(s \o SubSeq(t, 1, k)) = Len(s) + k
         /\ Mirrors(s) /\ Continues(s, t) => Mirrors(s \o SubSeq(t, 1, k))
  <1> DEFINE S == 1 .. Size
             u == SubSeq(t, 1, k)
  <1> HIDE DEF S
  <1>1. s \in Seq(S) /\ t \in Seq(S)
    BY DEF Chunks, S
  <1>2. Len(s) \in Nat /\ Len(t) \in Nat
    BY <1>1, LenProperties
  <1>3. \A i \in 1 .. k : t[i] \in S
    BY <1>1, <1>2, ElementOfSeq
  <1>4. u \in Seq(S) /\ Len(u) = k /\ \A i \in 1 .. k : u[i] = t[i]
    <2>1. /\ SubSeq(t, 1, k) \in Seq(S)
          /\ Len(SubSeq(t, 1, k)) = IF 1 <= k THEN k - 1 + 1 ELSE 0
          /\ \A i \in 1 .. k - 1 + 1 : SubSeq(t, 1, k)[i] = t[1 + i - 1]
      BY <1>2, <1>3, SubSeqProperties
    <2> QED
      BY <2>1, <1>2
  <1> HIDE DEF u
  <1>5. /\ s \o u \in Seq(S)
        /\ Len(s \o u) = Len(s) + k
        /\ \A i \in 1 .. Len(s) + k :
             (s \o u)[i] = IF i <= Len(s) THEN s[i] ELSE u[i - Len(s)]
    BY <1>1, <1>4, ConcatProperties
  <1>6. ASSUME Mirrors(s), Continues(s, t) PROVE Mirrors(s \o u)
    <2>1. ASSUME NEW i \in 1 .. Len(s) + k PROVE (s \o u)[i] = i
      <3>1. CASE i <= Len(s)
        BY <3>1, <1>2, <1>5, <1>6 DEF Mirrors
      <3>2. CASE ~ (i <= Len(s))
        <4>1. i - Len(s) \in 1 .. k
          BY <3>2, <1>2
        <4>2. (s \o u)[i] = u[i - Len(s)]
          BY <3>2, <1>5
        <4>3. u[i - Len(s)] = Len(s) + (i - Len(s))
          BY <4>1, <1>2, <1>4, <1>6 DEF Continues
        <4> QED
          BY <4>2, <4>3, <1>2
      <3> QED
        BY <3>1, <3>2, <1>2
    <2> QED
      BY <2>1, <1>5 DEF Mirrors
  <1> QED
    BY <1>5, <1>6 DEF Chunks, S, u

\* A chunk reaches the buffer (Receive).
LEMMA OneArrives ==
  ASSUME NEW s \in Chunks, NEW t \in Chunks, NEW n \in 1 .. Size
  PROVE  /\ Append(t, n) \in Chunks
         /\ Len(Append(t, n)) = Len(t) + 1
         /\ Continues(s, t) /\ n = Len(s) + Len(t) + 1 => Continues(s, Append(t, n))
  <1> DEFINE S == 1 .. Size
  <1>1. s \in Seq(S) /\ t \in Seq(S) /\ n \in S
    BY DEF Chunks
  <1> HIDE DEF S
  <1>2. Len(s) \in Nat /\ Len(t) \in Nat
    BY <1>1, LenProperties
  <1>3. /\ Append(t, n) \in Seq(S) /\ Len(Append(t, n)) = Len(t) + 1
        /\ \A i \in 1 .. Len(t) + 1 : Append(t, n)[i] = IF i <= Len(t) THEN t[i] ELSE n
    BY <1>1, <1>2
  <1> QED
    BY <1>2, <1>3 DEF Chunks, S, Continues

-----------------------------------------------------------------------------
(* Types, and what the file and its link are after a call. *)

\* The next chunk is one of the source's and whoever makes a request has an attempt
\* left.  A file that is reported complete, or that is an input, is not short; and
\* no call that would write to a linked file finds one.
DownloadInv ==
  /\ TypeOK
  /\ next >= 1
  /\ pc = "request" => attempt < MaxAttempts
  /\ ~ exists => Len(disk) = 0
  /\ pc \in {"done", "used"} /\ exists => Len(disk) >= Size
  /\ linked => exists /\ Len(disk) >= Size /\ pc \in Ends \cup {"done"}

LEMMA Lengths == TypeOK => Len(disk) \in Nat /\ Len(buffer) \in Nat
  BY LenProperties DEF TypeOK, Chunks

LEMMA DownloadInvInductive ==
  /\ Init => DownloadInv
  /\ DownloadInv /\ [Next]_vars => DownloadInv'
  <1> USE DownloadAssumption
  <1>1. Init => DownloadInv
    <2>1. Init => disk \in Chunks /\ buffer \in Chunks /\ input \in Chunks /\ Len(disk) = 0
      BY Nothing DEF Init
    <2>2. Init => exists \in BOOLEAN /\ linked \in BOOLEAN /\ ~ linked
      BY DEF Init
    <2> QED
      BY <2>1, <2>2 DEF Init, DownloadInv, TypeOK, Ends
  <1>2. ASSUME DownloadInv, [Next]_vars PROVE DownloadInv'
    <2> USE <1>2, Lengths DEF DownloadInv, TypeOK, Ends, fileVars, inputVars, boundVars
    <2>1. CASE Call
      <3>1. disk' \in Chunks /\ buffer' \in Chunks /\ (~ exists' => Len(disk') = 0)
        BY <2>1, Nothing DEF Call, Unlink
      <3>2. exists' \in BOOLEAN /\ linked' \in BOOLEAN
        BY <2>1 DEF Call, Unlink
      <3> QED
        BY <2>1, <3>1, <3>2 DEF Call, Unlink, TooLong
    <2>2. CASE Request
      <3>1. disk' \in Chunks /\ input' = input
        BY <2>2, Nothing DEF Request, Write
      <3> QED
        BY <2>2, <3>1 DEF Request, RangeStart, Write
    <2>3. CASE RequestFails
      BY <2>3 DEF RequestFails
    <2>4. CASE Receive
      BY <2>4, OneArrives DEF Receive
    <2>5. CASE Flush
      BY <2>5, HeadLands DEF Flush, Write, Landed
    <2>6. CASE StreamEnds
      BY <2>6 DEF StreamEnds, Complete
    <2>7. CASE StreamBreaks
      BY <2>7 DEF StreamBreaks
    <2>8. CASE CatchUp
      <3>1. PICK k \in 0 .. Len(buffer) :
              /\ Write(Landed(SubSeq(buffer, 1, k)))
              /\ \E seen \in 0 .. k :
                   /\ written' = IF exists THEN Len(disk) + seen ELSE written
                   /\ late' = IF seen < k THEN late + 1 ELSE late
        BY <2>8 DEF CatchUp
      <3>2. PICK seen \in 0 .. k :
              /\ written' = IF exists THEN Len(disk) + seen ELSE written
              /\ late' = IF seen < k THEN late + 1 ELSE late
        BY <3>1
      <3>3. disk' \in Chunks /\ input' = input /\ linked' = linked
        BY <2>8, <3>1, SomeLand DEF Write, Landed, CatchUp
      <3>4. IF exists THEN Len(disk') = Len(disk) + k ELSE disk' = disk
        BY <3>1, SomeLand DEF Write, Landed
      <3>5. written' \in Nat /\ late' \in Nat
        BY <3>2
      <3>6. buffer' \in Chunks
        BY <2>8, Nothing DEF CatchUp
      <3>7. pc' \in {"done", "gaveUp", "request"} /\ (pc' = "done" => written' >= Size)
        BY <2>8 DEF CatchUp
      <3> QED
        BY <2>8, <3>1, <3>2, <3>3, <3>4, <3>5, <3>6, <3>7 DEF CatchUp, LastAttempt
    <2>9. CASE Materialize
      BY <2>9 DEF Materialize
    <2>10. CASE Delete
      <3>1. disk' \in Chunks /\ Len(disk') = 0
        BY <2>10, Nothing DEF Delete, Unlink
      <3>2. exists' \in BOOLEAN /\ linked' \in BOOLEAN /\ ~ linked' /\ ~ exists'
        BY <2>10 DEF Delete, Unlink
      <3> QED
        BY <2>10, <3>1, <3>2 DEF Delete, Unlink
    <2>11. CASE Crash
      <3>1. disk' \in Chunks /\ (~ exists => Len(disk') = 0)
        BY <2>11, SomeLand DEF Crash, Landed
      <3>2. input' \in Chunks /\ buffer' \in Chunks
        BY <2>11, Nothing DEF Crash
      <3>3. linked' \in BOOLEAN /\ ~ linked'
        BY <2>11 DEF Crash
      <3> QED
        BY <2>11, <3>1, <3>2, <3>3 DEF Crash
    <2>12. CASE UNCHANGED vars
      BY <2>12 DEF vars
    <2> QED
      BY <2>1, <2>2, <2>3, <2>4, <2>5, <2>6, <2>7, <2>8, <2>9, <2>10, <2>11, <2>12
      DEF Next, Proceed
  <1> QED
    BY <1>1, <1>2

\* Every variable of the download keeps its type; in particular no call exceeds its
\* attempts.
THEOREM Typing == Spec => []TypeOK
  <1>1. DownloadInv => TypeOK
    BY DEF DownloadInv
  <1> QED
    BY <1>1, DownloadInvInductive, PTL DEF Spec

\* A download that is reported complete did not leave a short file: the stat after the
\* stream and the one in the catch block, whatever breaks, is deleted or comes late.
THEOREM CompleteIsNotShort == Spec => []NeverShort
  <1>1. DownloadInv => NeverShort
    BY DEF DownloadInv, NeverShort
  <1> QED
    BY <1>1, DownloadInvInductive, PTL DEF Spec

\* An input is written to by nobody once a handler has it, although it may be the
\* cached file: downloadFromR2 opens only a file that is short, and a linked one is not.
THEOREM InputLeftAlone == Spec => InputUntouched
  <1>1. DownloadInv /\ [Next]_vars => [pc # "done" /\ pc' # "idle" => input' = input]_vars
    <2> SUFFICES ASSUME DownloadInv, [Next]_vars, pc # "done", pc' # "idle"
                 PROVE  input' = input
      OBVIOUS
    <2> USE DEF DownloadInv, Ends, inputVars
    <2>1. CASE Call \/ Request \/ Flush \/ CatchUp
      BY <2>1 DEF Call, Unlink, Request, Flush, CatchUp, Write
    <2>2. CASE RequestFails \/ Receive \/ StreamEnds \/ StreamBreaks \/ Delete
      BY <2>2 DEF RequestFails, Receive, StreamEnds, StreamBreaks, Delete, Unlink
    <2>3. CASE Materialize \/ Crash
      BY <2>3 DEF Materialize, Crash
    <2>4. CASE UNCHANGED vars
      BY <2>4 DEF vars
    <2> QED
      BY <2>1, <2>2, <2>3, <2>4 DEF Next, Proceed
  <1> QED
    BY <1>1, DownloadInvInductive, PTL DEF Spec, InputUntouched

-----------------------------------------------------------------------------
(* The contents, as long as nothing is deleted and no write comes late. *)

\* The file has the beginning of the source in it, the buffer what follows, and
\* writtenBytes counts both while a stream is open, and the file otherwise.
ResumeInv ==
  deletes = 0 /\ late = 0 =>
    /\ Mirrors(disk)
    /\ Len(disk) + Len(buffer) <= Size
    /\ pc \notin {"stream", "catch"} => Len(buffer) = 0
    /\ pc = "request" => written = Len(disk)
    /\ pc = "stream" => exists /\ written = Len(disk) + Len(buffer) /\ next = written + 1
    /\ pc \in {"stream", "catch"} => Continues(disk, buffer)
    /\ pc = "catch" /\ ~ exists => written = Len(disk)

\* A stream and what is left of one when it breaks, the resumed request, a complete
\* file found on disk and a crash all keep the file a beginning of the source.
LEMMA ResumeInvInductive ==
  /\ Init => ResumeInv
  /\ DownloadInv /\ ResumeInv /\ [Next]_vars => ResumeInv'
  <1> USE DownloadAssumption
  <1>1. Init => ResumeInv
    <2> SUFFICES ASSUME Init PROVE ResumeInv
      OBVIOUS
    <2>1. disk = <<>> /\ buffer = <<>> /\ pc = "idle"
      BY DEF Init
    <2>2. Mirrors(disk) /\ Len(disk) = 0 /\ Len(buffer) = 0
      BY <2>1, Nothing, NothingIsWrong
    <2> QED
      BY <2>1, <2>2 DEF ResumeInv
  <1>2. ASSUME DownloadInv, ResumeInv, [Next]_vars PROVE ResumeInv'
    <2>1. disk \in Chunks /\ buffer \in Chunks /\ Len(disk) \in Nat /\ Len(buffer) \in Nat
          /\ written \in Nat /\ deletes \in Nat /\ late \in Nat
      BY <1>2, Lengths DEF DownloadInv, TypeOK
    <2> USE <1>2, <2>1 DEF ResumeInv, Ends, fileVars, boundVars
    <2>2. CASE Call
      <3>1. buffer' = <<>> /\ Len(buffer') = 0
        BY <2>2, Nothing DEF Call
      <3>2. deletes = 0 /\ late = 0 => ~ TooLong
        BY DEF TooLong
      <3> QED
        BY <2>2, <3>1, <3>2 DEF Call
    <2>3. CASE Request
      <3>1. ASSUME deletes = 0, late = 0
            PROVE  Mirrors(disk') /\ Len(disk') = written
        BY <2>3, <3>1, Nothing, NothingIsWrong DEF Request, Write
      <3>2. ASSUME deletes = 0, late = 0 PROVE buffer = <<>>
        BY <2>3, <3>2, EmptySeq DEF Request, Chunks
      <3> QED
        BY <2>3, <3>1, <3>2, Nothing, NothingIsWrong DEF Request, RangeStart
    <2>4. CASE RequestFails
      <3>1. ASSUME deletes = 0, late = 0 PROVE buffer = <<>>
        BY <2>4, <3>1, EmptySeq DEF RequestFails, Chunks
      <3> QED
        BY <2>4, <3>1, NothingIsWrong DEF RequestFails
    <2>5. CASE Receive
      <3>1. ASSUME deletes = 0, late = 0
            PROVE  /\ Len(buffer') = Len(buffer) + 1 /\ Continues(disk, buffer')
                   /\ next <= Size /\ disk' = disk
        <4>1. /\ buffer' = Append(buffer, next) /\ disk' = disk
              /\ pc = "stream" /\ next <= Size
          BY <2>5 DEF Receive
        <4>2. Continues(disk, buffer) /\ next = Len(disk) + Len(buffer) + 1
          BY ONLY ResumeInv, <2>1, <3>1, <4>1 DEF ResumeInv
        <4>3. next \in 1 .. Size
          BY ONLY <2>1, <4>1, <4>2, DownloadAssumption
        <4> QED
          BY <4>1, <4>2, <4>3, OneArrives
      <3> QED
        BY <2>5, <3>1 DEF Receive
    <2>6. CASE Flush
      <3>1. ASSUME deletes = 0, late = 0
            PROVE  /\ Mirrors(disk') /\ Continues(disk', buffer')
                   /\ Len(disk') = Len(disk) + 1 /\ Len(buffer') = Len(buffer) - 1
        <4>1. buffer # <<>> /\ pc = "stream" /\ buffer' = Tail(buffer)
          BY <2>6 DEF Flush
        <4>2. exists /\ Mirrors(disk) /\ Continues(disk, buffer)
          BY <3>1, <4>1
        <4>3. disk' = disk \o <<Head(buffer)>>
          BY <2>6, <4>2 DEF Flush, Write, Landed
        <4> QED
          BY <4>1, <4>2, <4>3, HeadLands
      <3>2. /\ pc = "stream" /\ pc' = pc /\ exists' = exists /\ next' = next
            /\ written' = written /\ deletes' = deletes /\ late' = late
        BY <2>6 DEF Flush
      <3>3. deletes = 0 /\ late = 0 => Len(disk') + Len(buffer') = Len(disk) + Len(buffer)
        BY ONLY <2>1, <3>1
      <3> QED
        BY <3>1, <3>2, <3>3
    <2>7. CASE StreamEnds
      BY <2>7, Nothing DEF StreamEnds, Complete
    <2>8. CASE StreamBreaks
      BY <2>8 DEF StreamBreaks
    <2>9. CASE CatchUp
      <3>1. PICK k \in 0 .. Len(buffer) :
              /\ Write(Landed(SubSeq(buffer, 1, k)))
              /\ \E seen \in 0 .. k :
                   /\ written' = IF exists THEN Len(disk) + seen ELSE written
                   /\ late' = IF seen < k THEN late + 1 ELSE late
        BY <2>9 DEF CatchUp
      <3>2. ASSUME deletes = 0, late' = 0
            PROVE  late = 0 /\ (exists => written' = Len(disk) + k)
                            /\ (~ exists => written' = written)
        BY <3>1, <3>2
      <3>3. IF exists THEN disk' = disk \o SubSeq(buffer, 1, k) ELSE disk' = disk
        BY <3>1 DEF Write, Landed
      <3>4. ASSUME deletes = 0, late' = 0
            PROVE  Mirrors(disk') /\ Len(disk') = written' /\ Len(disk') <= Size
        <4>1. pc = "catch" /\ deletes = 0 /\ late = 0
          BY <2>9, <3>2, <3>4 DEF CatchUp
        <4>2. Mirrors(disk) /\ Continues(disk, buffer) /\ Len(disk) + Len(buffer) <= Size
          BY <4>1
        <4>3. CASE exists
          <5>1. disk' = disk \o SubSeq(buffer, 1, k) /\ written' = Len(disk) + k
            BY <3>2, <3>3, <3>4, <4>3
          <5>2. /\ Mirrors(disk \o SubSeq(buffer, 1, k))
                /\ Len(disk \o SubSeq(buffer, 1, k)) = Len(disk) + k
            BY <4>2, SomeLand
          <5> QED
            BY <4>2, <5>1, <5>2
        <4>4. CASE ~ exists
          BY <3>2, <3>3, <3>4, <4>1, <4>2, <4>4
        <4> QED
          BY <4>3, <4>4
      <3>5. Len(buffer') = 0 /\ pc' \in {"done", "gaveUp", "request"} /\ deletes' = deletes
        BY <2>9, Nothing DEF CatchUp
      <3> QED
        BY <3>4, <3>5
    <2>10. CASE Materialize
      BY <2>10 DEF Materialize
    <2>11. CASE Delete
      BY <2>11 DEF Delete
    <2>12. CASE Crash
      <3>1. PICK k \in 0 .. Len(buffer) : disk' = Landed(SubSeq(buffer, 1, k))
        BY <2>12 DEF Crash
      <3>2. Len(buffer') = 0 /\ pc' = "idle" /\ deletes' = deletes /\ late' = late
        BY <2>12, Nothing DEF Crash
      <3>3. ASSUME deletes = 0, late = 0 PROVE Mirrors(disk') /\ Len(disk') <= Size
        <4>1. Continues(disk, buffer)
          <5>1. CASE pc \in {"stream", "catch"}
            BY <3>3, <5>1
          <5>2. CASE pc \notin {"stream", "catch"}
            BY <3>3, <5>2, EmptySeq, NothingIsWrong DEF Chunks
          <5> QED
            BY <5>1, <5>2
        <4>2. /\ Mirrors(disk \o SubSeq(buffer, 1, k))
              /\ Len(disk \o SubSeq(buffer, 1, k)) = Len(disk) + k
          BY <3>3, <4>1, SomeLand
        <4>3. CASE exists
          <5>1. disk' = disk \o SubSeq(buffer, 1, k)
            BY <3>1, <4>3 DEF Landed
          <5> QED
            BY <3>3, <4>2, <5>1
        <4>4. CASE ~ exists
          BY <3>1, <3>3, <4>4 DEF Landed
        <4> QED
          BY <4>3, <4>4
      <3> QED
        BY <3>2, <3>3
    <2>13. CASE UNCHANGED vars
      BY <2>13 DEF vars
    <2> QED
      BY <2>2, <2>3, <2>4, <2>5, <2>6, <2>7, <2>8, <2>9, <2>10, <2>11, <2>12, <2>13
      DEF Next, Proceed
  <1> QED
    BY <1>1, <1>2

\* What a handler takes for the source is the source, for every size and however often
\* the download breaks off, in a call, between calls or with the process, as long as
\* the file is not deleted and no write comes after the stat of the catch block.
THEOREM InputIsTheSource == Spec => []InputIntact
  <1>1. DownloadInv /\ ResumeInv => InputIntact
    <2> SUFFICES ASSUME DownloadInv, ResumeInv, deletes = 0, late = 0, pc = "used", exists
                 PROVE  disk = [i \in 1 .. Size |-> i]
      BY DEF InputIntact, InputWhole
    <2>1. disk \in Seq(1 .. Size) /\ Len(disk) \in Nat /\ Len(buffer) \in Nat
      BY Lengths DEF DownloadInv, TypeOK, Chunks
    <2>2. Len(disk) = Size /\ Mirrors(disk)
      BY <2>1, DownloadAssumption DEF DownloadInv, ResumeInv
    <2>3. disk \in [1 .. Size -> 1 .. Size]
      BY <2>1, <2>2, LenProperties
    <2> QED
      BY <2>2, <2>3 DEF Mirrors
  <1> QED
    BY <1>1, DownloadInvInductive, ResumeInvInductive, PTL DEF Spec

-----------------------------------------------------------------------------
(* What a failed attempt is charged to. *)

\* A deletion has made writtenBytes larger than what is at the path: the next request,
\* or the stream that is open, will fail for it.
Stale ==
  CASE pc = "request" -> written > Len(disk)
    [] pc = "stream"  -> ~ exists \/ next - 1 > Len(disk) + Len(buffer)
    [] pc = "catch"   -> ~ exists /\ 0 < written /\ written < Size
    [] OTHER          -> FALSE

\* Each failed attempt of the call has a break or a deletion of its own, and so has
\* the failure that a deletion is still to cause.
ChargeInv ==
  /\ pc = "stream" => written = next - 1 /\ attempt >= 1
  /\ pc = "gaveUp" => attempt >= MaxAttempts
  /\ pc \in {"request", "stream", "catch", "gaveUp"} =>
       (IF pc = "stream" THEN attempt - 1 ELSE attempt) + (IF Stale THEN 1 ELSE 0)
         <= breaks + deletes

\* An attempt fails only for a break or where a deletion has left writtenBytes stale,
\* and the catch block puts writtenBytes right.
LEMMA ChargeInvInductive ==
  /\ Init => ChargeInv
  /\ DownloadInv /\ ChargeInv /\ [Next]_vars => ChargeInv'
  <1> USE DownloadAssumption
  <1>1. Init => ChargeInv
    BY DEF Init, ChargeInv
  <1>2. ASSUME DownloadInv, ChargeInv, [Next]_vars PROVE ChargeInv'
    <2>1. /\ disk \in Chunks /\ buffer \in Chunks /\ Len(disk) \in Nat /\ Len(buffer) \in Nat
          /\ written \in Nat /\ next \in Nat /\ deletes \in Nat /\ breaks \in Nat
          /\ attempt \in Nat
          /\ (~ exists => Len(disk) = 0)
      BY <1>2, Lengths DEF DownloadInv, TypeOK
    <2> USE <1>2, <2>1 DEF ChargeInv, Ends, fileVars, boundVars
    <2>2. CASE Call
      <3>1. pc' = "request" => written' = Len(disk')
        BY <2>2, Nothing DEF Call, Unlink
      <3>2. ~ Stale'
        BY <2>2, <3>1 DEF Call, Stale
      <3> QED
        BY <2>2, <3>2 DEF Call
    <2>3. CASE Request
      <3>1. exists' /\ (written > 0 => disk' = disk) /\ (written = 0 => Len(disk') = 0)
        BY <2>3, Nothing DEF Request, Write
      <3>2. /\ pc = "request" /\ pc' = "stream" /\ attempt' = attempt + 1
            /\ written' = written /\ buffer' = buffer /\ next' = RangeStart
            /\ breaks' = breaks /\ deletes' = deletes
        BY <2>3 DEF Request
      <3>3. next' - 1 = written' /\ attempt' >= 1
        BY <3>2 DEF RangeStart
      <3>4. Stale' => Stale
        BY <3>1, <3>2, <3>3 DEF Stale
      <3> QED
        BY <3>2, <3>3, <3>4
    <2>4. CASE RequestFails
      BY <2>4 DEF RequestFails, Stale
    <2>5. CASE Receive
      <3>1. next \in 1 .. Size /\ buffer' = Append(buffer, next)
        BY <2>5 DEF Receive, DownloadInv
      <3>2. Len(buffer') = Len(buffer) + 1
        BY <3>1, OneArrives
      <3>3. /\ pc = "stream" /\ pc' = pc /\ next' = next + 1 /\ written' = written + 1
            /\ exists' = exists /\ disk' = disk
            /\ attempt' = attempt /\ breaks' = breaks /\ deletes' = deletes
        BY <2>5 DEF Receive
      <3>4. next' - 1 > Len(disk') + Len(buffer') <=> next - 1 > Len(disk) + Len(buffer)
        BY <3>2, <3>3
      <3>5. Stale' <=> Stale
        BY ONLY <3>3, <3>4 DEF Stale
      <3> QED
        BY <3>3, <3>5
    <2>6. CASE Flush
      <3>1. /\ Len(buffer') = Len(buffer) - 1
            /\ exists => Len(disk') = Len(disk) + 1
        BY <2>6, HeadLands DEF Flush, Write, Landed
      <3>2. /\ pc = "stream" /\ pc' = pc /\ next' = next /\ written' = written
            /\ exists' = exists
            /\ attempt' = attempt /\ breaks' = breaks /\ deletes' = deletes
        BY <2>6 DEF Flush
      <3>3. exists => (next' - 1 > Len(disk') + Len(buffer')
                         <=> next - 1 > Len(disk) + Len(buffer))
        BY ONLY <2>1, <3>1, <3>2
      <3>4. Stale' <=> Stale
        BY ONLY <3>2, <3>3 DEF Stale
      <3> QED
        BY <3>2, <3>4
    <2>7. CASE StreamEnds
      <3>1. Len(buffer) = 0
        BY <2>7, Nothing DEF StreamEnds
      <3> QED
        <4>1. /\ pc = "stream" /\ next > Size /\ exists' = exists
              /\ ~ exists => written' = written
              /\ pc' = IF exists /\ Len(disk) >= Size THEN "done" ELSE "catch"
              /\ attempt' = attempt /\ breaks' = breaks /\ deletes' = deletes
          BY <2>7 DEF StreamEnds, Complete
        <4>2. pc' = "catch" => Stale
          BY ONLY <2>1, <3>1, <4>1, DownloadAssumption DEF Stale
        <4>3. pc' # "catch" => ~ Stale'
          BY ONLY <4>1 DEF Stale
        <4>4. pc' = "catch" => ~ Stale'
          BY ONLY ChargeInv, <2>1, <4>1, DownloadAssumption DEF ChargeInv, Stale
        <4> QED
          BY <4>1, <4>2, <4>3, <4>4
    <2>8. CASE StreamBreaks
      <3>1. /\ pc = "stream" /\ pc' = "catch" /\ breaks' = breaks + 1
            /\ exists' = exists /\ written' = written
            /\ attempt' = attempt /\ deletes' = deletes
        BY <2>8 DEF StreamBreaks
      <3>2. Stale' => Stale
        BY <3>1 DEF Stale
      <3> QED
        BY <3>1, <3>2
    <2>9. CASE CatchUp
      <3>1. PICK k \in 0 .. Len(buffer) :
              /\ Write(Landed(SubSeq(buffer, 1, k)))
              /\ \E seen \in 0 .. k : written' = IF exists THEN Len(disk) + seen ELSE written
        BY <2>9 DEF CatchUp
      <3>2. IF exists THEN Len(disk') = Len(disk) + k ELSE disk' = disk
        BY <3>1, SomeLand DEF Write, Landed
      <3>3. exists => written' <= Len(disk')
        BY <3>1, <3>2
      <3>4. /\ pc = "catch" /\ pc' \in {"done", "gaveUp", "request"}
            /\ pc' = "request" => written' < Size
            /\ pc' = "gaveUp" => attempt >= MaxAttempts
            /\ exists' = exists
            /\ attempt' = attempt /\ breaks' = breaks /\ deletes' = deletes
        BY <2>9, <2>1, <3>1, DownloadAssumption DEF CatchUp, LastAttempt
      <3>5. ~ exists => written' = written /\ Len(disk') = 0
        BY <2>1, <3>1, <3>2
      <3>6. written' \in Nat /\ Len(disk') \in Nat
        BY <2>1, <3>1, <3>2
      <3>7. pc' = "request" /\ ~ exists => (Stale' => Stale)
        BY ONLY <2>1, <3>4, <3>5, DownloadAssumption DEF Stale
      <3>8. pc' = "request" /\ exists => ~ Stale'
        BY ONLY <3>3, <3>4, <3>6 DEF Stale
      <3>9. pc' # "request" => ~ Stale'
        BY ONLY <3>4 DEF Stale
      <3> QED
        BY <3>4, <3>7, <3>8, <3>9
    <2>10. CASE Materialize
      BY <2>10 DEF Materialize
    <2>11. CASE Delete
      <3>1. /\ pc' = pc /\ attempt' = attempt /\ written' = written /\ next' = next
            /\ breaks' = breaks /\ deletes' = deletes + 1
        BY <2>11 DEF Delete
      <3> QED
        BY <3>1
    <2>12. CASE Crash
      BY <2>12 DEF Crash
    <2>13. CASE UNCHANGED vars
      BY <2>13 DEF vars, Stale
    <2> QED
      BY <2>2, <2>3, <2>4, <2>5, <2>6, <2>7, <2>8, <2>9, <2>10, <2>11, <2>12, <2>13
      DEF Next, Proceed
  <1> QED
    BY <1>1, <1>2

\* A call gives up only after as many breaks and deletions as it is allowed attempts:
\* no attempt is lost to a resumed file, a late write or what a crash has left.
THEOREM SurrenderIsEarned == Spec => []NoEarlySurrender
  <1>1. DownloadInv /\ ChargeInv => NoEarlySurrender
    BY DownloadAssumption DEF DownloadInv, TypeOK, ChargeInv, Stale, NoEarlySurrender
  <1> QED
    BY <1>1, DownloadInvInductive, ChargeInvInductive, PTL DEF Spec

=============================================================================
