------------------------- MODULE FileVersionProofs -------------------------
(* Proofs about FileVersion, for any set of jobs and any number of crashes,    *)
(* cancellations and lapses: what holds until one of them; that the keys end   *)
(* with the jobs; and that the active key implements a semaphore.              *)
EXTENDS FileVersion, FiniteSetTheorems, TLAPS

Counted == crashes \in Nat /\ cancels \in Nat /\ lapses \in Nat

\* A set whose members are all the same one has at most one.
LEMMA AtMostOne ==
  ASSUME NEW S, \A x, y \in S : x = y
  PROVE  Cardinality(S) <= 1
  <1>1. CASE S = {}
    BY <1>1, FS_EmptySet
  <1>2. CASE S # {}
    <2>1. PICK x \in S : S = {x}
      BY <1>2
    <2> QED
      BY <2>1, FS_Singleton
  <1> QED
    BY <1>1, <1>2

-----------------------------------------------------------------------------
(* The queued key, until a crash or a cancellation. *)

\* Job j has passed SET NX and has not given the queued key up again.
Admitted(j) ==
  \/ pc[j] \in {"reserved", "waiting", "claim", "owner", "work", "getQueued", "delQueued"}
  \/ pc[j] \in {"getActive", "delActive", "return"} /\ j \notin clear

\* Whoever is admitted owns the queued key; clear is set in the finally block only.
AdmissionInv ==
  /\ pc \in [Jobs -> JobStates]
  /\ Counted
  /\ crashes = 0 /\ cancels = 0 =>
       /\ cancel.job = NoJob
       /\ \A j \in Jobs :
            /\ pc[j] \notin {"stalled"} \cup Failing
            /\ pc[j] = "delQueued" => j \in clear
            /\ j \in clear => pc[j] \in {"getQueued", "delQueued", "getActive",
                                         "delActive", "return"}
            /\ Admitted(j) => queued = j

\* Every step of an undisturbed system keeps the queued key with the job that was
\* admitted with it, and lets no second job in.
LEMMA AdmissionInvInductive ==
  /\ Init => AdmissionInv
  /\ AdmissionInv /\ [Next]_vars => AdmissionInv'
  <1>1. Init => AdmissionInv
    BY DEF Init, AdmissionInv, Counted, Admitted, JobStates, Failing
  <1>2. ASSUME AdmissionInv, [Next]_vars PROVE AdmissionInv'
    <2> USE <1>2, VersionAssumption DEF AdmissionInv, Counted, Admitted, JobStates, Submitting,
                Handling, Failing, Step, keyVars, flagVars, boundVars
    <2>1. ASSUME NEW j \in Jobs, Check(j) PROVE AdmissionInv'
      BY <2>1 DEF Check
    <2>2. ASSUME NEW j \in Jobs, Reserve(j) PROVE AdmissionInv'
      BY <2>2 DEF Reserve, Reservable
    <2>3. ASSUME NEW j \in Jobs, Add(j) PROVE AdmissionInv'
      BY <2>3 DEF Add
    <2>4. ASSUME NEW j \in Jobs, Dispatch(j) PROVE AdmissionInv'
      BY <2>4 DEF Dispatch
    <2>5. ASSUME NEW j \in Jobs, ClaimSet(j) \/ ClaimGet(j) PROVE AdmissionInv'
      <3>1. CASE ClaimSet(j)
        BY <3>1 DEF ClaimSet, Claimed, HeldAfterClaim
      <3>2. CASE ClaimGet(j)
        BY <3>2 DEF ClaimGet, Claimed, Claimable, HeldAfterClaim
      <3> QED
        BY <2>5, <3>1, <3>2
    <2>6. ASSUME NEW j \in Jobs, Finish(j) PROVE AdmissionInv'
      BY <2>6 DEF Finish
    <2>7. ASSUME NEW j \in Jobs, GetQueued(j) PROVE AdmissionInv'
      BY <2>7 DEF GetQueued
    <2>8. ASSUME NEW j \in Jobs, DelQueued(j) PROVE AdmissionInv'
      BY <2>8 DEF DelQueued
    <2>9. ASSUME NEW j \in Jobs, GetActive(j) PROVE AdmissionInv'
      BY <2>9 DEF GetActive
    <2>10. ASSUME NEW j \in Jobs, DelActive(j) PROVE AdmissionInv'
      BY <2>10 DEF DelActive
    <2>11. ASSUME NEW j \in Jobs, Return(j) PROVE AdmissionInv'
      BY <2>11 DEF Return
    <2>12. ASSUME NEW j \in Jobs, Stalled(j) PROVE AdmissionInv'
      BY <2>12 DEF Stalled
    <2>13. ASSUME NEW j \in Jobs, FailedActive(j) PROVE AdmissionInv'
      BY <2>13 DEF FailedActive
    <2>14. ASSUME NEW j \in Jobs, FailedQueued(j) PROVE AdmissionInv'
      BY <2>14 DEF FailedQueued
    <2>15. ASSUME NEW j \in Jobs, CancelMark(j) PROVE AdmissionInv'
      BY <2>15 DEF CancelMark
    <2>16. CASE CancelGet \/ CancelDelQueued \/ CancelDelActive
      BY <2>16 DEF CancelGet, CancelDelQueued, CancelDelActive
    <2>17. CASE Crash
      BY <2>17 DEF Crash, AfterCrash
    <2>18. CASE Expire
      BY <2>18 DEF Expire
    <2>19. CASE UNCHANGED vars
      BY <2>19 DEF vars
    <2>20. ASSUME NEW j \in Jobs, Submit(j) \/ Handler(j) \/ Failed(j)
           PROVE  AdmissionInv'
      BY <2>20, <2>1, <2>2, <2>3, <2>4, <2>5, <2>6, <2>7, <2>8, <2>9, <2>10, <2>11,
         <2>12, <2>13, <2>14
      DEF Submit, Handler, Failed
    <2> QED
      BY <2>15, <2>16, <2>17, <2>18, <2>19, <2>20 DEF Next
  <1> QED
    BY <1>1, <1>2

\* As long as nothing crashes and nobody cancels, BullMQ never holds two jobs of one
\* file version that are still to be done: SET NX in enqueueFile, and the finally
\* block that gives the key up only when no retry is to come.
THEOREM AdmittedOneAtATime == Spec => []AdmittedOnce
  <1>1. AdmissionInv => AdmittedOnce
    <2> DEFINE S == {j \in Jobs : pc[j] \in {"waiting", "claim", "owner", "work"}}
    <2> SUFFICES ASSUME AdmissionInv, crashes = 0, cancels = 0 PROVE Cardinality(S) <= 1
      BY DEF AdmittedOnce
    <2>1. \A x, y \in S : x = y
      BY DEF AdmissionInv, Admitted
    <2> QED
      BY <2>1, AtMostOne
  <1> QED
    BY <1>1, AdmissionInvInductive, PTL DEF Spec

-----------------------------------------------------------------------------
(* The active key, while it is calm. *)

\* Job j relies on the active key: it works with it, or is about to delete it.
Keyed(j) == (pc[j] = "work" /\ j \notin passed) \/ pc[j] = "delActive"

\* Whoever relies on the key owns it.  BullMQ fails a job only after its handler has died
\* twice; until then nobody but the owner, or the time to live when the owner does not
\* use it, gives the key up.
ClaimInv ==
  /\ pc \in [Jobs -> JobStates]
  /\ stalls \in [Jobs -> Nat]
  /\ Counted
  /\ cancels = 0 => cancel.job = NoJob
  /\ \A j \in Jobs :
       /\ j \in passed => pc[j] \in Handling \ {"claim", "owner"}
       /\ pc[j] \in Failing => stalls[j] >= 2
       /\ Calm /\ Keyed(j) => active = j

\* SET NX, the ownership tests of the finally block and BullMQ's stalled counter keep
\* the active key with the job that claimed it.
LEMMA ClaimInvInductive ==
  /\ Init => ClaimInv
  /\ ClaimInv /\ [Next]_vars => ClaimInv'
  <1>1. Init => ClaimInv
    BY DEF Init, ClaimInv, Counted, Keyed, JobStates, Failing
  <1>2. ASSUME ClaimInv, [Next]_vars PROVE ClaimInv'
    <2> USE <1>2, VersionAssumption DEF ClaimInv, Counted, Keyed, Calm, JobStates, Submitting,
                Handling, Failing, Step, keyVars, flagVars, boundVars
    <2>1. ASSUME NEW j \in Jobs, Check(j) PROVE ClaimInv'
      BY <2>1 DEF Check
    <2>2. ASSUME NEW j \in Jobs, Reserve(j) PROVE ClaimInv'
      BY <2>2 DEF Reserve, Reservable
    <2>3. ASSUME NEW j \in Jobs, Add(j) PROVE ClaimInv'
      BY <2>3 DEF Add
    <2>4. ASSUME NEW j \in Jobs, Dispatch(j) PROVE ClaimInv'
      BY <2>4 DEF Dispatch
    <2>5. ASSUME NEW j \in Jobs, ClaimSet(j) \/ ClaimGet(j) PROVE ClaimInv'
      <3>1. CASE ClaimSet(j)
        BY <3>1 DEF ClaimSet, Claimed, HeldAfterClaim
      <3>2. CASE ClaimGet(j)
        BY <3>2 DEF ClaimGet, Claimed, Claimable, HeldAfterClaim
      <3> QED
        BY <2>5, <3>1, <3>2
    <2>6. ASSUME NEW j \in Jobs, Finish(j) PROVE ClaimInv'
      BY <2>6 DEF Finish
    <2>7. ASSUME NEW j \in Jobs, GetQueued(j) PROVE ClaimInv'
      BY <2>7 DEF GetQueued
    <2>8. ASSUME NEW j \in Jobs, DelQueued(j) PROVE ClaimInv'
      BY <2>8 DEF DelQueued
    <2>9. ASSUME NEW j \in Jobs, GetActive(j) PROVE ClaimInv'
      BY <2>9 DEF GetActive
    <2>10. ASSUME NEW j \in Jobs, DelActive(j) PROVE ClaimInv'
      BY <2>10 DEF DelActive
    <2>11. ASSUME NEW j \in Jobs, Return(j) PROVE ClaimInv'
      BY <2>11 DEF Return
    <2>12. ASSUME NEW j \in Jobs, Stalled(j) PROVE ClaimInv'
      BY <2>12 DEF Stalled
    <2>13. ASSUME NEW j \in Jobs, FailedActive(j) PROVE ClaimInv'
      BY <2>13 DEF FailedActive
    <2>14. ASSUME NEW j \in Jobs, FailedQueued(j) PROVE ClaimInv'
      BY <2>14 DEF FailedQueued
    <2>15. ASSUME NEW j \in Jobs, CancelMark(j) PROVE ClaimInv'
      BY <2>15 DEF CancelMark
    <2>16. CASE CancelGet \/ CancelDelQueued \/ CancelDelActive
      BY <2>16 DEF CancelGet, CancelDelQueued, CancelDelActive
    <2>17. CASE Crash
      BY <2>17 DEF Crash, AfterCrash
    <2>18. CASE Expire
      BY <2>18 DEF Expire
    <2>19. CASE UNCHANGED vars
      BY <2>19 DEF vars
    <2>20. ASSUME NEW j \in Jobs, Submit(j) \/ Handler(j) \/ Failed(j)
           PROVE  ClaimInv'
      BY <2>20, <2>1, <2>2, <2>3, <2>4, <2>5, <2>6, <2>7, <2>8, <2>9, <2>10, <2>11,
         <2>12, <2>13, <2>14
      DEF Submit, Handler, Failed
    <2> QED
      BY <2>15, <2>16, <2>17, <2>18, <2>19, <2>20 DEF Next
  <1> QED
    BY <1>1, <1>2

\* While it is calm, of two jobs of a file version that are worked on together one has
\* found the key taken and then gone, whatever the queued key says: SET NX of the active
\* key, and its release by the owner only.
THEOREM WorkedOnOneAtATime == Spec => []OneWorker
  <1>1. ClaimInv => OneWorker
    <2> SUFFICES ASSUME ClaimInv, Calm PROVE Cardinality(Workers) <= 1
      BY DEF OneWorker
    <2>1. \A x, y \in Workers : x = y
      BY DEF ClaimInv, Keyed, Workers
    <2> QED
      BY <2>1, AtMostOne
  <1> QED
    BY <1>1, ClaimInvInductive, PTL DEF Spec

-----------------------------------------------------------------------------
(* The end of both keys. *)

\* A cancellation of job j is still to delete the queued key that it finds, or has
\* found, to be j's.
ToBeDeleted(j) ==
  /\ cancel.job = j
  /\ cancel.pc = "get" \/ (cancel.pc = "delQueued" /\ cancel.ownQueued)

\* Job j has claimed the active key, and its finally block is still to release it.
Holding(j) ==
  \/ pc[j] \in {"work", "delActive"}
  \/ pc[j] \in {"getQueued", "delQueued", "getActive"} /\ j \in held

\* Until a crash, a key that names a job has somebody who will delete it: the job on
\* its way through BullMQ and the finally block, or the cancellation that took the
\* job out of BullMQ, or that BullMQ will drop it for.
ReleaseInv ==
  /\ queued \in Owners /\ active \in Owners
  /\ pc \in [Jobs -> JobStates]
  /\ status \in [Jobs -> {"open", "cancelled", "over"}]
  /\ cancel \in [job : Owners, pc : {"get", "delQueued", "delActive"},
                 ownQueued : BOOLEAN, ownActive : BOOLEAN]
  /\ Counted
  /\ crashes = 0 =>
       \A j \in Jobs :
         /\ pc[j] \notin {"stalled"} \cup Failing
         /\ pc[j] \in {"new", "checked"} => status[j] = "open"
         /\ pc[j] = "work" => j \in held
         /\ active = j => Holding(j)
         /\ queued = j => Admitted(j) \/ ToBeDeleted(j)
         /\ queued = j /\ status[j] = "cancelled" => ToBeDeleted(j)

\* Every step that takes a job out of the region where it gives its keys back has
\* deleted them, or leaves them to the cancellation.
LEMMA ReleaseInvInductive ==
  /\ Init => ReleaseInv
  /\ ReleaseInv /\ [Next]_vars => ReleaseInv'
  <1>1. Init => ReleaseInv
    BY VersionAssumption DEF Init, ReleaseInv, Counted, Owners, JobStates, Failing
  <1>2. ASSUME ReleaseInv, [Next]_vars PROVE ReleaseInv'
    <2> USE <1>2, VersionAssumption DEF ReleaseInv, Counted, Admitted, Holding, ToBeDeleted,
                Owners, JobStates, Submitting, Handling, Failing, Step, keyVars, flagVars, boundVars
    <2>1. ASSUME NEW j \in Jobs, Check(j) PROVE ReleaseInv'
      BY <2>1 DEF Check
    <2>2. ASSUME NEW j \in Jobs, Reserve(j) PROVE ReleaseInv'
      BY <2>2 DEF Reserve, Reservable
    <2>3. ASSUME NEW j \in Jobs, Add(j) PROVE ReleaseInv'
      BY <2>3 DEF Add
    <2>4. ASSUME NEW j \in Jobs, Dispatch(j) PROVE ReleaseInv'
      BY <2>4 DEF Dispatch
    <2>5. ASSUME NEW j \in Jobs, ClaimSet(j) \/ ClaimGet(j) PROVE ReleaseInv'
      <3>1. CASE ClaimSet(j)
        BY <3>1 DEF ClaimSet, Claimed, HeldAfterClaim
      <3>2. CASE ClaimGet(j)
        BY <3>2 DEF ClaimGet, Claimed, Claimable, HeldAfterClaim
      <3> QED
        BY <2>5, <3>1, <3>2
    <2>6. ASSUME NEW j \in Jobs, Finish(j) PROVE ReleaseInv'
      BY <2>6 DEF Finish
    <2>7. ASSUME NEW j \in Jobs, GetQueued(j) PROVE ReleaseInv'
      BY <2>7 DEF GetQueued
    <2>8. ASSUME NEW j \in Jobs, DelQueued(j) PROVE ReleaseInv'
      BY <2>8 DEF DelQueued
    <2>9. ASSUME NEW j \in Jobs, GetActive(j) PROVE ReleaseInv'
      BY <2>9 DEF GetActive
    <2>10. ASSUME NEW j \in Jobs, DelActive(j) PROVE ReleaseInv'
      BY <2>10 DEF DelActive
    <2>11. ASSUME NEW j \in Jobs, Return(j) PROVE ReleaseInv'
      BY <2>11 DEF Return
    <2>12. ASSUME NEW j \in Jobs, Stalled(j) PROVE ReleaseInv'
      BY <2>12 DEF Stalled
    <2>13. ASSUME NEW j \in Jobs, FailedActive(j) PROVE ReleaseInv'
      BY <2>13 DEF FailedActive
    <2>14. ASSUME NEW j \in Jobs, FailedQueued(j) PROVE ReleaseInv'
      BY <2>14 DEF FailedQueued
    <2>15. ASSUME NEW j \in Jobs, CancelMark(j) PROVE ReleaseInv'
      <3> USE <2>15 DEF CancelMark
      <3>1. /\ cancel' \in [job : Owners, pc : {"get", "delQueued", "delActive"},
                           ownQueued : BOOLEAN, ownActive : BOOLEAN]
            /\ cancel'.job = j /\ cancel'.pc = "get"
        OBVIOUS
      <3>2. /\ pc' \in [Jobs -> JobStates]
            /\ \A k \in Jobs : pc'[k] = IF k = j /\ pc[j] = "waiting" THEN "ended" ELSE pc[k]
        OBVIOUS
      <3>3. \A k \in Jobs : ~ ToBeDeleted(k)
        OBVIOUS
      <3> QED
        BY <3>1, <3>2, <3>3
    <2>16. CASE CancelGet
      BY <2>16 DEF CancelGet
    <2>17. CASE CancelDelQueued
      BY <2>17 DEF CancelDelQueued
    <2>18. CASE CancelDelActive
      BY <2>18 DEF CancelDelActive
    <2>19. CASE Crash
      BY <2>19 DEF Crash, AfterCrash
    <2>20. CASE Expire
      BY <2>20 DEF Expire
    <2>21. CASE UNCHANGED vars
      BY <2>21 DEF vars
    <2>22. ASSUME NEW j \in Jobs, Submit(j) \/ Handler(j) \/ Failed(j)
           PROVE  ReleaseInv'
      BY <2>22, <2>1, <2>2, <2>3, <2>4, <2>5, <2>6, <2>7, <2>8, <2>9, <2>10, <2>11,
         <2>12, <2>13, <2>14
      DEF Submit, Handler, Failed
    <2> QED
      BY <2>15, <2>16, <2>17, <2>18, <2>19, <2>20, <2>21, <2>22 DEF Next
  <1> QED
    BY <1>1, <1>2

\* When every job of a file version is over and every cancellation answered, neither
\* key is left to its time to live, unless something crashed: on each of the ways a
\* job can end, refused, retried, cancelled while it waits or works, somebody deletes
\* what it held.
THEOREM KeysAlwaysReleased == Spec => []KeysReleased
  <1>1. ReleaseInv => KeysReleased
    BY VersionAssumption DEF ReleaseInv, KeysReleased, Owners, Admitted, Holding, ToBeDeleted
  <1> QED
    BY <1>1, ReleaseInvInductive, PTL DEF Spec

-----------------------------------------------------------------------------
(* The semaphore. *)

\* The semaphore counts as OneWorker does.
LEMMA SameCount == ASSUME NEW S PROVE Gate!Cardinality(S) = Cardinality(S)
  BY DEF Cardinality, Gate!Cardinality

\* Nothing but a claim with the key in hand lets a worker in, and nothing restores the
\* calm.
LEMMA WorkersAndCalm ==
  ASSUME ClaimInv, [Next]_vars
  PROVE  /\ \/ Workers' \subseteq Workers
            \/ \E j \in Jobs :
                 /\ j \notin Workers /\ Workers' = Workers \cup {j}
                 /\ active \in {NoJob, j} /\ Calm' = Calm
         /\ Calm' => Calm
  <1> USE VersionAssumption DEF ClaimInv, Counted, Workers, JobStates, Submitting, Handling,
          Failing, Step, keyVars, flagVars, boundVars
  <1>1. ASSUME NEW j \in Jobs, ClaimSet(j) \/ ClaimGet(j)
        PROVE  /\ \/ Workers' \subseteq Workers
                  \/ /\ j \notin Workers /\ Workers' = Workers \cup {j}
                     /\ active \in {NoJob, j}
               /\ cancels' = cancels /\ lapses' = lapses /\ stalls' = stalls
    <2>1. CASE ClaimSet(j)
      BY <2>1 DEF ClaimSet, Claimed
    <2>2. CASE ClaimGet(j)
      BY <2>2 DEF ClaimGet, Claimed, Claimable
    <2> QED
      BY <1>1, <2>1, <2>2
  <1>2. ASSUME NEW j \in Jobs, Submit(j) \/ Dispatch(j) \/ Finish(j)
        PROVE  Workers' \subseteq Workers /\ cancels' = cancels /\ lapses' = lapses
               /\ stalls' = stalls
    BY <1>2 DEF Submit, Check, Reserve, Add, Dispatch, Finish
  <1>3. ASSUME NEW j \in Jobs, GetQueued(j) \/ DelQueued(j) \/ GetActive(j) \/ DelActive(j)
                                \/ Return(j)
        PROVE  Workers' \subseteq Workers /\ cancels' = cancels /\ lapses' = lapses
               /\ stalls' = stalls
    BY <1>3 DEF GetQueued, DelQueued, GetActive, DelActive, Return
  <1>4. ASSUME NEW j \in Jobs, Failed(j)
        PROVE  /\ Workers' \subseteq Workers /\ cancels' = cancels /\ lapses' = lapses
               /\ \A i \in Jobs : stalls'[i] \in Nat /\ stalls'[i] >= stalls[i]
    BY <1>4 DEF Failed, Stalled, FailedActive, FailedQueued
  <1>5. ASSUME NEW j \in Jobs, CancelMark(j)
        PROVE  Workers' \subseteq Workers /\ cancels' = cancels + 1
    BY <1>5 DEF CancelMark
  <1>6. CASE CancelGet \/ CancelDelQueued \/ CancelDelActive \/ UNCHANGED vars
    BY <1>6 DEF CancelGet, CancelDelQueued, CancelDelActive, vars, Calm
  <1>7. CASE Crash
    BY <1>7 DEF Crash, AfterCrash, Calm
  <1>8. CASE Expire
    BY <1>8 DEF Expire, Calm
  <1>9. ASSUME NEW j \in Jobs, Submit(j) \/ Handler(j) \/ Failed(j)
        PROVE  /\ \/ Workers' \subseteq Workers
                  \/ /\ j \notin Workers /\ Workers' = Workers \cup {j}
                     /\ active \in {NoJob, j} /\ Calm' = Calm
               /\ Calm' => Calm
    <2>1. CASE Submit(j) \/ Handler(j)
      BY <2>1, <1>1, <1>2, <1>3 DEF Handler, Calm
    <2>2. CASE Failed(j)
      BY <2>2, <1>4 DEF Calm
    <2> QED
      BY <1>9, <2>1, <2>2
  <1> QED
    BY <1>5, <1>6, <1>7, <1>8, <1>9 DEF Next, Calm

\* While it is calm the active key implements a semaphore of one for the jobs that have
\* found it free or their own.
THEOREM KeyIsSemaphore == Spec => ImplementsSemaphore
  <1>1. Init => Gate!Init
    <2> SUFFICES ASSUME Init PROVE Workers = {} /\ Calm \in BOOLEAN
      BY DEF Gate!Init
    <2> QED
      BY DEF Init, Workers, Calm
  <1>2. ClaimInv /\ [Next]_vars => [Gate!Next]_Gate!vars
    <2> SUFFICES ASSUME ClaimInv, [Next]_vars PROVE Gate!Next
      OBVIOUS
    <2>1. Calm \in BOOLEAN /\ Calm' \in BOOLEAN
      BY Zenon DEF Calm
    <2>2. CASE Workers' \subseteq Workers
      <3>1. Calm' = Calm \/ Calm' = FALSE
        BY <2>1, WorkersAndCalm, Zenon
      <3> QED
        BY <2>2, <3>1, Zenon DEF Gate!Next, Gate!Leave, Gate!Disturb
    <2>3. ASSUME NEW j \in Jobs, j \notin Workers, Workers' = Workers \cup {j},
                 active \in {NoJob, j}, Calm' = Calm
          PROVE  Gate!Next
      <3>1. Calm => Workers = {}
        BY <2>3, VersionAssumption DEF ClaimInv, Keyed, Workers
      <3>2. Calm => Gate!Cardinality(Workers) < 1
        BY <3>1, SameCount, FS_EmptySet
      <3> QED
        BY <2>3, <3>2, Zenon DEF Gate!Next, Gate!Enter
    <2> QED
      BY <2>2, <2>3, WorkersAndCalm
  <1> QED
    BY <1>1, <1>2, ClaimInvInductive, PTL DEF Spec, ImplementsSemaphore, Gate!Spec

=============================================================================
