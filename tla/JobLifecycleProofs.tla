------------------------ MODULE JobLifecycleProofs ------------------------
(***************************************************************************)
(* What holds of every behaviour of JobLifecycle, whatever the number of    *)
(* runs and the bounds: its type, with the bounds on the two retry          *)
(* counters; HoldingsOwned, the invariant that no reservation, user slot or *)
(* lock outlives the runs that would give it back; ExecutedOnce, that one   *)
(* run at a time works on the job while BullMQ's lock is not lost, and      *)
(* Abortable, that a cancellation finds it.  Then, on terms that each       *)
(* theorem states: no run takes lock:{id} over from one at work, a job      *)
(* BullMQ is done with has ended and its success been told, and the service *)
(* implements the safety part of JobContract.                               *)
(***************************************************************************)
EXTENDS JobLifecycle, FiniteSetTheorems, TLAPS

-----------------------------------------------------------------------------
(* Types and the retry counters. *)

\* The provers do not see it by themselves in the steps below.
LEMMA TruthValues == TRUE \in BOOLEAN /\ FALSE \in BOOLEAN
  OBVIOUS

\* A write of one of its timestamps leaves the selected stamp a stamp.
LEMMA TouchedType ==
  ASSUME stamp \in Stamps, NEW field \in {"queuedAt", "updatedAt", "heartbeatAt"},
         Touched(field)
  PROVE  stamp' \in Stamps
  <1>1. [field |-> field, fresh |-> TRUE] \in Stamps
    BY Zenon DEF Stamps
  <1> QED
    BY <1>1, Zenon DEF Touched

\* So does updateJobStage, and the status is the one it was given.
LEMMA StageType ==
  ASSUME stamp \in Stamps, NEW s \in Statuses, Stage(s)
  PROVE  status' \in Statuses /\ stamp' \in Stamps
  BY TouchedType, Zenon DEF Stage

\* And so does the time that passes.
LEMMA AgedType ==
  ASSUME stamp \in Stamps
  PROVE  stamp.fresh \in BOOLEAN /\ [stamp EXCEPT !.fresh = FALSE] \in Stamps
  BY Zenon DEF Stamps

\* Between passes and failures, and on from one step to the next.
LEMMA PassTypes ==
  /\ NoPass \in Passes /\ NoPass.pc = "idle"
  /\ NoFailure \in Failures /\ NoFailure.pc = "idle"
  BY TruthValues, Zenon DEF NoPass, NoFailure, Passes, Failures, Statuses

LEMMA RecoveryAtType ==
  ASSUME NEW from,
         NEW to \in {"idle", "probe", "release", "mark", "remove", "enqueue", "add",
                     "fail", "failRemove", "failRelease", "failReport"},
         RecoveryAt(from, to)
  PROVE  recovery' \in Passes /\ recovery.pc = from /\ recovery'.pc = to
  <1>1. recovery' = [pc |-> to, status |-> "queued"]
    BY DEF RecoveryAt, NoPass
  <1>2. [pc |-> to, status |-> "queued"] \in Passes
    BY Zenon DEF Passes, Statuses
  <1> QED
    BY <1>1, <1>2 DEF RecoveryAt

LEMMA FailureAtType ==
  ASSUME NEW from, NEW to \in {"idle", "read", "mark", "release", "report"},
         FailureAt(from, to)
  PROVE  /\ failure' \in Failures
         /\ failure.pc = from /\ failure'.pc = to /\ ~ failure'.terminal
  <1>1. failure' = [pc |-> to, terminal |-> FALSE]
    BY DEF FailureAt, NoFailure
  <1>2. [pc |-> to, terminal |-> FALSE] \in Failures
    BY TruthValues, Zenon DEF Failures
  <1>3. failure'.pc = to
    BY <1>1, Zenon
  <1>4. ~ failure'.terminal
    BY <1>1, Zenon
  <1>5. failure.pc = from
    BY DEF FailureAt
  <1> QED
    BY <1>1, <1>2, <1>3, <1>4, <1>5, Zenon

\* A failed attempt that BullMQ reports.
LEMMA FailureRaised ==
  ASSUME NEW last \in BOOLEAN, failure' = [pc |-> "read", terminal |-> last]
  PROVE  failure' \in Failures /\ failure'.pc = "read" /\ (failure'.terminal <=> last)
  BY Zenon DEF Failures

LEMMA RecReadType ==
  ASSUME status \in Statuses, recovery' = [pc |-> "probe", status |-> status]
  PROVE  recovery' \in Passes /\ recovery'.pc = "probe"
  BY Zenon DEF Passes

\* Recovery that has decided to put the job back has found a manual retry left,
\* and nobody else counts manual retries.
RetryInv ==
  /\ TypeOK
  /\ recovery.pc \in {"release", "mark"} => manual < MaxManual

\* RetryInv holds at first and every step keeps it.
LEMMA RetryInvInductive ==
  /\ Init => RetryInv
  /\ RetryInv /\ [Next]_vars => RetryInv'
  <1> USE LifecycleAssumption, TruthValues
  <1>1. Init => RetryInv
    <2> SUFFICES ASSUME Init PROVE RetryInv
      OBVIOUS
    <2>1. stamp \in Stamps /\ reserved \in BOOLEAN /\ slot \in BOOLEAN
      BY Zenon DEF Init, Stamps
    <2>2. failure \in Failures /\ recovery \in Passes /\ recovery.pc = "idle"
      BY PassTypes DEF Init
    <2> QED
      BY <2>1, <2>2
      DEF Init, RetryInv, TypeOK, BullStates, Statuses, Terminal, HandlerStates
  <1>2. ASSUME RetryInv, [Next]_vars PROVE RetryInv'
    <2> USE <1>2 DEF RetryInv, TypeOK, BullStates, Statuses, Terminal,
                     HandlerStates, Entering, Trying, Catching, Finishing, bullVars,
                     metaVars, holdVars, flagVars, runVars, procVars, boundVars
    <2>1. ASSUME NEW r \in Runs, Dispatch(r) PROVE RetryInv'
      BY <2>1 DEF Dispatch, Step
    <2>2. ASSUME NEW r \in Runs, Progress(r) PROVE RetryInv'
      BY <2>2, StageType DEF Progress
    <2>3. ASSUME NEW r \in Runs, Block(r) PROVE RetryInv'
      BY <2>3 DEF Block
    <2>4. ASSUME NEW r \in Runs, Start(r) PROVE RetryInv'
      BY <2>4 DEF Start, Step
    <2>5. ASSUME NEW r \in Runs, Register(r) PROVE RetryInv'
      BY <2>5 DEF Register, Step
    <2>6. ASSUME NEW r \in Runs, TakeLock(r) PROVE RetryInv'
      BY <2>6 DEF TakeLock, Step
    <2>7. ASSUME NEW r \in Runs, Contend(r) PROVE RetryInv'
      BY <2>7 DEF Contend, Step
    <2>8. ASSUME NEW r \in Runs, Claim(r) PROVE RetryInv'
      BY <2>8 DEF Claim, Step
    <2>9. ASSUME NEW r \in Runs, Setup(r) PROVE RetryInv'
      BY <2>9 DEF Setup, Step, Throw
    <2>10. ASSUME NEW r \in Runs, Reserve(r) PROVE RetryInv'
      <3>1. reserved' \in BOOLEAN
        BY <2>10, Zenon DEF Reserve
      <3> QED
        BY <2>10, <3>1 DEF Reserve, Step, Throw
    <2>11. ASSUME NEW r \in Runs, StageReserved(r) PROVE RetryInv'
      BY <2>11, StageType DEF StageReserved, Step
    <2>12. ASSUME NEW r \in Runs, TakeUserSlot(r) PROVE RetryInv'
      <3>1. slot' \in BOOLEAN
        BY <2>12, Zenon DEF TakeUserSlot
      <3> QED
        BY <2>12, <3>1 DEF TakeUserSlot, Step, Throw
    <2>13. ASSUME NEW r \in Runs, Arm(r) PROVE RetryInv'
      BY <2>13, TouchedType DEF Arm, Step, Throw
    <2>14. ASSUME NEW r \in Runs, Work(r) PROVE RetryInv'
      BY <2>14, StageType DEF Work, Step, Throw
    <2>15. ASSUME NEW r \in Runs, Upload(r) PROVE RetryInv'
      BY <2>15 DEF Upload, Step, Throw
    <2>16. ASSUME NEW r \in Runs, Complete(r) PROVE RetryInv'
      BY <2>16, StageType DEF Complete, Step
    <2>17. ASSUME NEW r \in Runs, Report(r) PROVE RetryInv'
      <3>1. /\ pc' \in [Runs -> HandlerStates]
            /\ err' \in [Runs -> {"none", "resource", "fatal", "transient"}]
        BY <2>17 DEF Report, Step, Throw
      <3>2. announced' \subseteq {"completed", "failed"}
        BY <2>17 DEF Report
      <3> QED
        BY <2>17, <3>1, <3>2 DEF Report
    <2>18. ASSUME NEW r \in Runs, Catch(r) PROVE RetryInv'
      BY <2>18 DEF Catch, Step
    <2>19. ASSUME NEW r \in Runs, ScheduleWait(r) PROVE RetryInv'
      BY <2>19, StageType DEF ScheduleWait, Step
    <2>20. ASSUME NEW r \in Runs, Delay(r) PROVE RetryInv'
      BY <2>20 DEF Delay, Step
    <2>21. ASSUME NEW r \in Runs, Fail(r) PROVE RetryInv'
      BY <2>21, StageType DEF Fail, Step
    <2>22. ASSUME NEW r \in Runs, ReportFailure(r) PROVE RetryInv'
      BY <2>22 DEF ReportFailure, Step
    <2>23. ASSUME NEW r \in Runs, FinSlot(r) PROVE RetryInv'
      <3>1. slot' \in BOOLEAN
        BY <2>23, Zenon DEF FinSlot
      <3> QED
        BY <2>23, <3>1 DEF FinSlot, Step
    <2>24. ASSUME NEW r \in Runs, FinDisk(r) PROVE RetryInv'
      <3>1. reserved' \in BOOLEAN
        BY <2>24, Zenon DEF FinDisk
      <3> QED
        BY <2>24, <3>1 DEF FinDisk, Step
    <2>25. ASSUME NEW r \in Runs, FinLock(r) PROVE RetryInv'
      BY <2>25 DEF FinLock, Step
    <2>26. ASSUME NEW r \in Runs, FinUnlock(r) PROVE RetryInv'
      BY <2>26 DEF FinUnlock, Step
    <2>27. ASSUME NEW r \in Runs, Return(r) PROVE RetryInv'
      <3>1. failure' \in Failures
        <4>1. CASE UNCHANGED failure
          BY <4>1
        <4>2. CASE \E last \in BOOLEAN : failure' = [pc |-> "read", terminal |-> last]
          BY <4>2, FailureRaised
        <4> QED
          BY <2>27, <4>1, <4>2, Zenon DEF Return
      <3>2. /\ pc' \in [Runs -> HandlerStates]
            /\ tries' \in [Runs -> Nat]
            /\ err' \in [Runs -> {"none", "resource", "fatal", "transient"}]
            /\ verdict' \in [Runs -> {"ok", "delayed", "error", "fatal"}]
        BY <2>27 DEF Return, Step
      <3>3. bull' \in BullStates /\ bullLock' \in Runs \cup {NoRun} /\ attempts' \in Nat
        BY <2>27 DEF Return
      <3>4. controller' \in Runs \cup {NoRun} /\ aborted' \subseteq Runs
        BY <2>27 DEF Return
      <3>5. UNCHANGED <<stalls, metaVars, holdVars, armed, diskHeld, slotHeld, recovery,
                        cancel, boundVars>>
        BY <2>27 DEF Return
      <3> QED
        BY <3>1, <3>2, <3>3, <3>4, <3>5
    <2>28. CASE RecRead
      BY <2>28, RecReadType DEF RecRead
    <2>29. CASE RecProbe
      BY <2>29, RecoveryAtType DEF RecProbe, Exhausted
    <2>30. CASE RecRelease
      <3>1. reserved' \in BOOLEAN
        BY <2>30, Zenon DEF RecRelease
      <3> QED
        BY <2>30, <3>1, RecoveryAtType DEF RecRelease
    <2>31. CASE RecMark
      BY <2>31, StageType, RecoveryAtType DEF RecMark
    <2>32. CASE RecRemove
      BY <2>32, RecoveryAtType DEF RecRemove, Remove, Removable
    <2>33. CASE RecEnqueue
      BY <2>33, TouchedType, RecoveryAtType DEF RecEnqueue
    <2>34. CASE RecAdd
      BY <2>34, RecoveryAtType DEF RecAdd
    <2>35. CASE RecFail
      BY <2>35, StageType, RecoveryAtType DEF RecFail
    <2>36. CASE RecReport
      BY <2>36, RecoveryAtType DEF RecReport
    <2>37. CASE CancelAbort
      BY <2>37 DEF CancelAbort
    <2>38. CASE CancelRemove
      BY <2>38 DEF CancelRemove, Remove, Removable
    <2>39. CASE CancelMark
      BY <2>39, StageType DEF CancelMark
    <2>40. CASE CancelUnlock
      BY <2>40 DEF CancelUnlock
    <2>41. CASE CancelFree
      <3>1. reserved' \in BOOLEAN /\ slot' \in BOOLEAN
        BY <2>41, Zenon DEF CancelFree
      <3> QED
        BY <2>41, <3>1 DEF CancelFree
    <2>42. CASE FailureRead
      BY <2>42, FailureAtType DEF FailureRead
    <2>43. CASE FailureMark
      BY <2>43, StageType, FailureAtType DEF FailureMark
    <2>44. CASE FailureRelease
      <3>1. reserved' \in BOOLEAN
        BY <2>44, Zenon DEF FailureRelease
      <3> QED
        BY <2>44, <3>1, FailureAtType DEF FailureRelease
    <2>45. CASE FailureReport
      BY <2>45, FailureAtType DEF FailureReport
    <2>46. CASE Promote
      BY <2>46 DEF Promote
    <2>47. CASE Stalled
      <3>1. failure' \in Failures
        BY <2>47, FailureRaised, Zenon DEF Stalled
      <3> QED
        BY <2>47, <3>1 DEF Stalled
    <2>48. CASE BullLockExpire
      BY <2>48 DEF BullLockExpire
    <2>49. CASE LockExpire
      BY <2>49 DEF LockExpire
    <2>50. CASE Age
      BY <2>50, AgedType DEF Age
    <2>51. CASE Crash
      <3>1. /\ recovery' \in Passes /\ recovery'.pc = "idle" /\ failure' \in Failures
            /\ cancel' \in {"idle", "done"}
        BY <2>51, PassTypes DEF Crash
      <3>2. stamp' \in Stamps /\ lock' \in Runs \cup {NoRun}
            /\ bullLock' \in Runs \cup {NoRun}
        BY <2>51, AgedType, Zenon DEF Crash
      <3>3. /\ pc' = [r \in Runs |-> "off"] /\ tries' = [r \in Runs |-> 0]
            /\ err' = [r \in Runs |-> "none"] /\ verdict' = [r \in Runs |-> "ok"]
            /\ armed' = {} /\ diskHeld' = {} /\ slotHeld' = {}
            /\ controller' = NoRun /\ aborted' = {}
        BY <2>51 DEF Crash
      <3>4. /\ crashes' \in 0 .. MaxCrashes
            /\ UNCHANGED <<bull, attempts, stalls, status, waits, manual, announced,
                          reserved, slot, blocks>>
        BY <2>51 DEF Crash
      <3> QED
        BY <3>1, <3>2, <3>3, <3>4
    <2>52. CASE UNCHANGED vars
      BY <2>52 DEF vars
    <2>53. ASSUME NEW r \in Runs, Running(r) PROVE RetryInv'
      BY <2>53, <2>4, <2>5, <2>6, <2>7, <2>8, <2>9, <2>10, <2>11, <2>12, <2>13,
         <2>14, <2>15, <2>16, <2>17, <2>18, <2>19, <2>20, <2>21, <2>22, <2>23,
         <2>24, <2>25, <2>26, <2>27 DEF Running
    <2>54. CASE Recovering
      BY <2>54, <2>28, <2>29, <2>30, <2>31, <2>32, <2>33, <2>34, <2>35, <2>36
         DEF Recovering
    <2>55. CASE Cancelling
      BY <2>55, <2>38, <2>39, <2>40, <2>41 DEF Cancelling
    <2>56. CASE HandlingFailure
      BY <2>56, <2>42, <2>43, <2>44, <2>45 DEF HandlingFailure
    <2>57. CASE Passing
      BY <2>57, <2>46, <2>47, <2>48, <2>49, <2>50 DEF Passing
    <2> QED
      BY <2>1, <2>2, <2>3, <2>53, <2>54, <2>37, <2>55, <2>56, <2>57, <2>51, <2>52
         DEF Next
  <1> QED
    BY <1>1, <1>2

\* Every variable keeps its type, and no job gets more resource waits or manual
\* retries than MAX_RESOURCE_WAIT_COUNT and MAX_MANUAL_RETRIES allow: the counters
\* of scheduleResourceWait and recoverStuckJobs.
THEOREM Typing == Spec => []TypeOK
  <1>1. RetryInv => TypeOK
    BY DEF RetryInv
  <1> QED
    BY <1>1, RetryInvInductive, PTL DEF Spec

-----------------------------------------------------------------------------
(* Holdings. *)

\* Without a crash, HoldingsOwned is inductive: whoever sets a key records itself
\* as its holder, and a holder gives the key up before it forgets that it holds it.
LEMMA HoldingsOwnedInductive ==
  /\ Init => HoldingsOwned
  /\ TypeOK /\ HoldingsOwned /\ [Next]_vars => HoldingsOwned'
  <1> USE LifecycleAssumption
  <1>1. Init => HoldingsOwned
    BY DEF Init, HoldingsOwned
  <1>2. ASSUME TypeOK, HoldingsOwned, [Next]_vars PROVE HoldingsOwned'
    <2> USE <1>2 DEF TypeOK, HoldingsOwned, Trying, Catching, Finishing, bullVars,
                     metaVars, holdVars, flagVars, runVars, procVars, boundVars
    <2>1. ASSUME NEW r \in Runs, Dispatch(r) PROVE HoldingsOwned'
      BY <2>1 DEF Dispatch, Step
    <2>2. ASSUME NEW r \in Runs, Progress(r) PROVE HoldingsOwned'
      BY <2>2 DEF Progress
    <2>3. ASSUME NEW r \in Runs, Block(r) PROVE HoldingsOwned'
      BY <2>3 DEF Block
    <2>4. ASSUME NEW r \in Runs, Start(r) PROVE HoldingsOwned'
      BY <2>4 DEF Start, Step
    <2>5. ASSUME NEW r \in Runs, Register(r) PROVE HoldingsOwned'
      BY <2>5 DEF Register, Step
    <2>6. ASSUME NEW r \in Runs, TakeLock(r) PROVE HoldingsOwned'
      BY <2>6 DEF TakeLock, Step
    <2>7. ASSUME NEW r \in Runs, Contend(r) PROVE HoldingsOwned'
      BY <2>7 DEF Contend, Step
    <2>8. ASSUME NEW r \in Runs, Claim(r) PROVE HoldingsOwned'
      BY <2>8 DEF Claim, Step
    <2>9. ASSUME NEW r \in Runs, Setup(r) PROVE HoldingsOwned'
      BY <2>9 DEF Setup, Step, Throw
    <2>10. ASSUME NEW r \in Runs, Reserve(r) PROVE HoldingsOwned'
      BY <2>10 DEF Reserve, Step, Throw
    <2>11. ASSUME NEW r \in Runs, StageReserved(r) PROVE HoldingsOwned'
      BY <2>11 DEF StageReserved, Step
    <2>12. ASSUME NEW r \in Runs, TakeUserSlot(r) PROVE HoldingsOwned'
      BY <2>12 DEF TakeUserSlot, Step, Throw
    <2>13. ASSUME NEW r \in Runs, Arm(r) PROVE HoldingsOwned'
      BY <2>13 DEF Arm, Step, Throw
    <2>14. ASSUME NEW r \in Runs, Work(r) PROVE HoldingsOwned'
      BY <2>14 DEF Work, Step, Throw
    <2>15. ASSUME NEW r \in Runs, Upload(r) PROVE HoldingsOwned'
      BY <2>15 DEF Upload, Step, Throw
    <2>16. ASSUME NEW r \in Runs, Complete(r) PROVE HoldingsOwned'
      BY <2>16 DEF Complete, Step
    <2>17. ASSUME NEW r \in Runs, Report(r) PROVE HoldingsOwned'
      BY <2>17 DEF Report, Step, Throw
    <2>18. ASSUME NEW r \in Runs, Catch(r) PROVE HoldingsOwned'
      BY <2>18 DEF Catch, Step
    <2>19. ASSUME NEW r \in Runs, ScheduleWait(r) PROVE HoldingsOwned'
      BY <2>19 DEF ScheduleWait, Step
    <2>20. ASSUME NEW r \in Runs, Delay(r) PROVE HoldingsOwned'
      BY <2>20 DEF Delay, Step
    <2>21. ASSUME NEW r \in Runs, Fail(r) PROVE HoldingsOwned'
      BY <2>21 DEF Fail, Step
    <2>22. ASSUME NEW r \in Runs, ReportFailure(r) PROVE HoldingsOwned'
      BY <2>22 DEF ReportFailure, Step
    <2>23. ASSUME NEW r \in Runs, FinSlot(r) PROVE HoldingsOwned'
      <3>1. slot' => slot /\ r \notin slotHeld
        BY <2>23, Zenon DEF FinSlot
      <3>2. slotHeld' = slotHeld \ {r}
        BY <2>23 DEF FinSlot
      <3>3. slot' => (crashes = 0 => slotHeld' # {})
        BY <3>1, <3>2
      <3> QED
        BY <2>23, <3>3 DEF FinSlot, Step
    <2>24. ASSUME NEW r \in Runs, FinDisk(r) PROVE HoldingsOwned'
      <3>1. reserved' => reserved /\ r \notin diskHeld
        BY <2>24, Zenon DEF FinDisk
      <3>2. diskHeld' = diskHeld \ {r}
        BY <2>24 DEF FinDisk
      <3>3. reserved' => (crashes = 0 => diskHeld' # {})
        BY <3>1, <3>2
      <3> QED
        BY <2>24, <3>3 DEF FinDisk, Step
    <2>25. ASSUME NEW r \in Runs, FinLock(r) PROVE HoldingsOwned'
      BY <2>25 DEF FinLock, Step
    <2>26. ASSUME NEW r \in Runs, FinUnlock(r) PROVE HoldingsOwned'
      BY <2>26 DEF FinUnlock, Step
    <2>27. ASSUME NEW r \in Runs, Return(r) PROVE HoldingsOwned'
      BY <2>27 DEF Return, Step
    <2>28. CASE RecRead
      BY <2>28 DEF RecRead
    <2>29. CASE RecProbe
      BY <2>29 DEF RecProbe, RecoveryAt
    <2>30. CASE RecRelease
      BY <2>30 DEF RecRelease, RecoveryAt
    <2>31. CASE RecMark
      BY <2>31 DEF RecMark, RecoveryAt
    <2>32. CASE RecRemove
      BY <2>32 DEF RecRemove, RecoveryAt
    <2>33. CASE RecEnqueue
      BY <2>33 DEF RecEnqueue, RecoveryAt
    <2>34. CASE RecAdd
      BY <2>34 DEF RecAdd, RecoveryAt
    <2>35. CASE RecFail
      BY <2>35 DEF RecFail, RecoveryAt
    <2>36. CASE RecReport
      BY <2>36 DEF RecReport, RecoveryAt
    <2>37. CASE CancelAbort
      BY <2>37 DEF CancelAbort
    <2>38. CASE CancelRemove
      BY <2>38 DEF CancelRemove
    <2>39. CASE CancelMark
      BY <2>39 DEF CancelMark
    <2>40. CASE CancelUnlock
      BY <2>40 DEF CancelUnlock
    <2>41. CASE CancelFree
      BY <2>41 DEF CancelFree
    <2>42. CASE FailureRead
      BY <2>42 DEF FailureRead, FailureAt
    <2>43. CASE FailureMark
      BY <2>43 DEF FailureMark, FailureAt
    <2>44. CASE FailureRelease
      BY <2>44 DEF FailureRelease, FailureAt
    <2>45. CASE FailureReport
      BY <2>45 DEF FailureReport, FailureAt
    <2>46. CASE Promote
      BY <2>46 DEF Promote
    <2>47. CASE Stalled
      BY <2>47 DEF Stalled
    <2>48. CASE BullLockExpire
      BY <2>48 DEF BullLockExpire
    <2>49. CASE LockExpire
      BY <2>49 DEF LockExpire
    <2>50. CASE Age
      BY <2>50 DEF Age
    <2>51. CASE Crash
      BY <2>51 DEF Crash
    <2>52. CASE UNCHANGED vars
      BY <2>52 DEF vars
    <2>53. ASSUME NEW r \in Runs, Running(r) PROVE HoldingsOwned'
      BY <2>53, <2>4, <2>5, <2>6, <2>7, <2>8, <2>9, <2>10, <2>11, <2>12, <2>13,
         <2>14, <2>15, <2>16, <2>17, <2>18, <2>19, <2>20, <2>21, <2>22, <2>23,
         <2>24, <2>25, <2>26, <2>27 DEF Running
    <2>54. CASE Recovering
      BY <2>54, <2>28, <2>29, <2>30, <2>31, <2>32, <2>33, <2>34, <2>35, <2>36
         DEF Recovering
    <2>55. CASE Cancelling
      BY <2>55, <2>38, <2>39, <2>40, <2>41 DEF Cancelling
    <2>56. CASE HandlingFailure
      BY <2>56, <2>42, <2>43, <2>44, <2>45 DEF HandlingFailure
    <2>57. CASE Passing
      BY <2>57, <2>46, <2>47, <2>48, <2>49, <2>50 DEF Passing
    <2> QED
      BY <2>1, <2>2, <2>3, <2>53, <2>54, <2>37, <2>55, <2>56, <2>57, <2>51, <2>52
         DEF Next
  <1> QED
    BY <1>1, <1>2

\* As long as the worker process does not crash, a disk reservation, a user slot
\* and the job's lock in Redis each belong to a run whose finally block gives them
\* up, however runs, recoverStuckJobs, /job/cancel and onBullJobFailed interleave.
THEOREM HoldingsAlwaysOwned == Spec => []HoldingsOwned
  <1> QED
    BY Typing, HoldingsOwnedInductive, PTL DEF Spec

-----------------------------------------------------------------------------
(* One run at a time. *)

\* A run that has not reached its finally block holds BullMQ's lock of the job,
\* unless some run has lost it to a blocked event loop; and only an active job is
\* locked.
OnceInv ==
  /\ bullLock # NoRun => bull = "active"
  /\ blocks = 0 =>
       \A r \in Runs : pc[r] \in Entering \cup Trying \cup Catching => bullLock = r

\* Every step keeps BullMQ's lock with the run that works.
LEMMA OnceInvInductive ==
  /\ Init => OnceInv
  /\ TypeOK /\ OnceInv /\ [Next]_vars => OnceInv'
  <1> USE LifecycleAssumption
  <1>1. Init => OnceInv
    BY DEF Init, OnceInv, Entering, Trying, Catching
  <1>2. ASSUME TypeOK, OnceInv, [Next]_vars PROVE OnceInv'
    <2> USE <1>2 DEF TypeOK, OnceInv, Entering, Trying, Catching, Finishing, bullVars,
                     metaVars, holdVars, flagVars, runVars, procVars, boundVars
    <2>1. ASSUME NEW r \in Runs, Dispatch(r) PROVE OnceInv'
      BY <2>1 DEF Dispatch, Step
    <2>2. ASSUME NEW r \in Runs, Progress(r) PROVE OnceInv'
      BY <2>2 DEF Progress
    <2>3. ASSUME NEW r \in Runs, Block(r) PROVE OnceInv'
      BY <2>3 DEF Block
    <2>4. ASSUME NEW r \in Runs, Start(r) PROVE OnceInv'
      BY <2>4 DEF Start, Step
    <2>5. ASSUME NEW r \in Runs, Register(r) PROVE OnceInv'
      BY <2>5 DEF Register, Step
    <2>6. ASSUME NEW r \in Runs, TakeLock(r) PROVE OnceInv'
      BY <2>6 DEF TakeLock, Step
    <2>7. ASSUME NEW r \in Runs, Contend(r) PROVE OnceInv'
      BY <2>7 DEF Contend, Step
    <2>8. ASSUME NEW r \in Runs, Claim(r) PROVE OnceInv'
      BY <2>8 DEF Claim, Step
    <2>9. ASSUME NEW r \in Runs, Setup(r) PROVE OnceInv'
      BY <2>9 DEF Setup, Step, Throw
    <2>10. ASSUME NEW r \in Runs, Reserve(r) PROVE OnceInv'
      BY <2>10 DEF Reserve, Step, Throw
    <2>11. ASSUME NEW r \in Runs, StageReserved(r) PROVE OnceInv'
      BY <2>11 DEF StageReserved, Step
    <2>12. ASSUME NEW r \in Runs, TakeUserSlot(r) PROVE OnceInv'
      BY <2>12 DEF TakeUserSlot, Step, Throw
    <2>13. ASSUME NEW r \in Runs, Arm(r) PROVE OnceInv'
      BY <2>13 DEF Arm, Step, Throw
    <2>14. ASSUME NEW r \in Runs, Work(r) PROVE OnceInv'
      BY <2>14 DEF Work, Step, Throw
    <2>15. ASSUME NEW r \in Runs, Upload(r) PROVE OnceInv'
      BY <2>15 DEF Upload, Step, Throw
    <2>16. ASSUME NEW r \in Runs, Complete(r) PROVE OnceInv'
      BY <2>16 DEF Complete, Step
    <2>17. ASSUME NEW r \in Runs, Report(r) PROVE OnceInv'
      BY <2>17 DEF Report, Step, Throw
    <2>18. ASSUME NEW r \in Runs, Catch(r) PROVE OnceInv'
      BY <2>18 DEF Catch, Step
    <2>19. ASSUME NEW r \in Runs, ScheduleWait(r) PROVE OnceInv'
      BY <2>19 DEF ScheduleWait, Step
    <2>20. ASSUME NEW r \in Runs, Delay(r) PROVE OnceInv'
      BY <2>20 DEF Delay, Step
    <2>21. ASSUME NEW r \in Runs, Fail(r) PROVE OnceInv'
      BY <2>21 DEF Fail, Step
    <2>22. ASSUME NEW r \in Runs, ReportFailure(r) PROVE OnceInv'
      BY <2>22 DEF ReportFailure, Step
    <2>23. ASSUME NEW r \in Runs, FinSlot(r) PROVE OnceInv'
      BY <2>23 DEF FinSlot, Step
    <2>24. ASSUME NEW r \in Runs, FinDisk(r) PROVE OnceInv'
      BY <2>24 DEF FinDisk, Step
    <2>25. ASSUME NEW r \in Runs, FinLock(r) PROVE OnceInv'
      BY <2>25 DEF FinLock, Step
    <2>26. ASSUME NEW r \in Runs, FinUnlock(r) PROVE OnceInv'
      BY <2>26 DEF FinUnlock, Step
    <2>27. ASSUME NEW r \in Runs, Return(r) PROVE OnceInv'
      BY <2>27 DEF Return, Step
    <2>28. CASE RecRead
      BY <2>28 DEF RecRead
    <2>29. CASE RecProbe
      BY <2>29 DEF RecProbe, RecoveryAt
    <2>30. CASE RecRelease
      BY <2>30 DEF RecRelease, RecoveryAt
    <2>31. CASE RecMark
      BY <2>31 DEF RecMark, RecoveryAt
    <2>32. CASE RecRemove
      BY <2>32 DEF RecRemove, Remove, Removable
    <2>33. CASE RecEnqueue
      BY <2>33 DEF RecEnqueue, RecoveryAt
    <2>34. CASE RecAdd
      BY <2>34 DEF RecAdd, RecoveryAt
    <2>35. CASE RecFail
      BY <2>35 DEF RecFail, RecoveryAt
    <2>36. CASE RecReport
      BY <2>36 DEF RecReport, RecoveryAt
    <2>37. CASE CancelAbort
      BY <2>37 DEF CancelAbort
    <2>38. CASE CancelRemove
      BY <2>38 DEF CancelRemove, Remove, Removable
    <2>39. CASE CancelMark
      BY <2>39 DEF CancelMark
    <2>40. CASE CancelUnlock
      BY <2>40 DEF CancelUnlock
    <2>41. CASE CancelFree
      BY <2>41 DEF CancelFree
    <2>42. CASE FailureRead
      BY <2>42 DEF FailureRead, FailureAt
    <2>43. CASE FailureMark
      BY <2>43 DEF FailureMark, FailureAt
    <2>44. CASE FailureRelease
      BY <2>44 DEF FailureRelease, FailureAt
    <2>45. CASE FailureReport
      BY <2>45 DEF FailureReport, FailureAt
    <2>46. CASE Promote
      BY <2>46 DEF Promote
    <2>47. CASE Stalled
      <3>1. bullLock = NoRun
        BY <2>47, Zenon DEF Stalled
      <3>2. bullLock' = bullLock /\ pc' = pc /\ blocks' = blocks
        BY <2>47, Zenon DEF Stalled
      <3> QED
        BY <3>1, <3>2
    <2>48. CASE BullLockExpire
      BY <2>48 DEF BullLockExpire, Live
    <2>49. CASE LockExpire
      BY <2>49 DEF LockExpire
    <2>50. CASE Age
      BY <2>50 DEF Age
    <2>51. CASE Crash
      BY <2>51 DEF Crash
    <2>52. CASE UNCHANGED vars
      BY <2>52 DEF vars
    <2>53. ASSUME NEW r \in Runs, Running(r) PROVE OnceInv'
      BY <2>53, <2>4, <2>5, <2>6, <2>7, <2>8, <2>9, <2>10, <2>11, <2>12, <2>13,
         <2>14, <2>15, <2>16, <2>17, <2>18, <2>19, <2>20, <2>21, <2>22, <2>23,
         <2>24, <2>25, <2>26, <2>27 DEF Running
    <2>54. CASE Recovering
      BY <2>54, <2>28, <2>29, <2>30, <2>31, <2>32, <2>33, <2>34, <2>35, <2>36
         DEF Recovering
    <2>55. CASE Cancelling
      BY <2>55, <2>38, <2>39, <2>40, <2>41 DEF Cancelling
    <2>56. CASE HandlingFailure
      BY <2>56, <2>42, <2>43, <2>44, <2>45 DEF HandlingFailure
    <2>57. CASE Passing
      BY <2>57, <2>46, <2>47, <2>48, <2>49, <2>50 DEF Passing
    <2> QED
      BY <2>1, <2>2, <2>3, <2>53, <2>54, <2>37, <2>55, <2>56, <2>57, <2>51, <2>52
         DEF Next
  <1> QED
    BY <1>1, <1>2

\* As long as no live run loses BullMQ's lock of the job, two runs never work on it
\* together: whatever recovery removes and enqueues, and however the process crashes.
THEOREM WorkedOnByOneRun == Spec => []ExecutedOnce
  <1>1. OnceInv => ExecutedOnce
    <2> SUFFICES ASSUME OnceInv, blocks = 0 PROVE Cardinality(Executing) <= 1
      BY DEF ExecutedOnce
    <2>1. Executing = {} \/ Executing = {bullLock}
      BY DEF OnceInv, Executing, Entering, Trying, Catching
    <2>2. Cardinality({}) = 0 /\ Cardinality({bullLock}) = 1
      BY FS_EmptySet, FS_Singleton
    <2> QED
      BY <2>1, <2>2
  <1> QED
    BY <1>1, Typing, OnceInvInductive, PTL DEF Spec

-----------------------------------------------------------------------------
(* The abort controller. *)

\* Until a run has lost BullMQ's lock or given it back for a resource wait, whoever is
\* in the handler holds it, so that there is one; and between setting its controller
\* and its finally block it finds it where it has put it.
AbortInv ==
  /\ \A r \in Runs : pc[r] = "delay" => waits > 0
  /\ blocks = 0 /\ waits = 0 =>
       \A r \in Runs :
         /\ pc[r] # "off" => bullLock = r
         /\ pc[r] \in {"lock", "contend", "claim"} \cup Trying \cup Catching =>
              controller = r

\* Every step keeps the controller of the run that works.
LEMMA AbortInvInductive ==
  /\ Init => AbortInv
  /\ TypeOK /\ OnceInv /\ AbortInv /\ [Next]_vars => AbortInv'
  <1> USE LifecycleAssumption
  <1>1. Init => AbortInv
    BY DEF Init, AbortInv, Entering, Trying, Catching
  <1>2. ASSUME TypeOK, OnceInv, AbortInv, [Next]_vars PROVE AbortInv'
    <2> USE <1>2 DEF TypeOK, OnceInv, AbortInv, Entering, Trying, Catching,
                     Finishing, bullVars, metaVars, holdVars, flagVars, runVars,
                     procVars, boundVars
    <2>1. ASSUME NEW r \in Runs, Dispatch(r) PROVE AbortInv'
      BY <2>1 DEF Dispatch, Step
    <2>2. ASSUME NEW r \in Runs, Progress(r) PROVE AbortInv'
      BY <2>2 DEF Progress
    <2>3. ASSUME NEW r \in Runs, Block(r) PROVE AbortInv'
      BY <2>3 DEF Block
    <2>4. ASSUME NEW r \in Runs, Start(r) PROVE AbortInv'
      BY <2>4 DEF Start, Step
    <2>5. ASSUME NEW r \in Runs, Register(r) PROVE AbortInv'
      BY <2>5 DEF Register, Step
    <2>6. ASSUME NEW r \in Runs, TakeLock(r) PROVE AbortInv'
      BY <2>6 DEF TakeLock, Step
    <2>7. ASSUME NEW r \in Runs, Contend(r) PROVE AbortInv'
      BY <2>7 DEF Contend, Step
    <2>8. ASSUME NEW r \in Runs, Claim(r) PROVE AbortInv'
      BY <2>8 DEF Claim, Step
    <2>9. ASSUME NEW r \in Runs, Setup(r) PROVE AbortInv'
      BY <2>9 DEF Setup, Step, Throw
    <2>10. ASSUME NEW r \in Runs, Reserve(r) PROVE AbortInv'
      BY <2>10 DEF Reserve, Step, Throw
    <2>11. ASSUME NEW r \in Runs, StageReserved(r) PROVE AbortInv'
      BY <2>11 DEF StageReserved, Step
    <2>12. ASSUME NEW r \in Runs, TakeUserSlot(r) PROVE AbortInv'
      BY <2>12 DEF TakeUserSlot, Step, Throw
    <2>13. ASSUME NEW r \in Runs, Arm(r) PROVE AbortInv'
      BY <2>13 DEF Arm, Step, Throw
    <2>14. ASSUME NEW r \in Runs, Work(r) PROVE AbortInv'
      BY <2>14 DEF Work, Step, Throw
    <2>15. ASSUME NEW r \in Runs, Upload(r) PROVE AbortInv'
      BY <2>15 DEF Upload, Step, Throw
    <2>16. ASSUME NEW r \in Runs, Complete(r) PROVE AbortInv'
      BY <2>16 DEF Complete, Step
    <2>17. ASSUME NEW r \in Runs, Report(r) PROVE AbortInv'
      BY <2>17 DEF Report, Step, Throw
    <2>18. ASSUME NEW r \in Runs, Catch(r) PROVE AbortInv'
      BY <2>18 DEF Catch, Step
    <2>19. ASSUME NEW r \in Runs, ScheduleWait(r) PROVE AbortInv'
      BY <2>19 DEF ScheduleWait, Step
    <2>20. ASSUME NEW r \in Runs, Delay(r) PROVE AbortInv'
      BY <2>20 DEF Delay, Step
    <2>21. ASSUME NEW r \in Runs, Fail(r) PROVE AbortInv'
      BY <2>21 DEF Fail, Step
    <2>22. ASSUME NEW r \in Runs, ReportFailure(r) PROVE AbortInv'
      BY <2>22 DEF ReportFailure, Step
    <2>23. ASSUME NEW r \in Runs, FinSlot(r) PROVE AbortInv'
      BY <2>23 DEF FinSlot, Step
    <2>24. ASSUME NEW r \in Runs, FinDisk(r) PROVE AbortInv'
      BY <2>24 DEF FinDisk, Step
    <2>25. ASSUME NEW r \in Runs, FinLock(r) PROVE AbortInv'
      BY <2>25 DEF FinLock, Step
    <2>26. ASSUME NEW r \in Runs, FinUnlock(r) PROVE AbortInv'
      BY <2>26 DEF FinUnlock, Step
    <2>27. ASSUME NEW r \in Runs, Return(r) PROVE AbortInv'
      BY <2>27 DEF Return, Step
    <2>28. CASE RecRead
      BY <2>28 DEF RecRead
    <2>29. CASE RecProbe
      BY <2>29 DEF RecProbe, RecoveryAt
    <2>30. CASE RecRelease
      BY <2>30 DEF RecRelease, RecoveryAt
    <2>31. CASE RecMark
      BY <2>31 DEF RecMark, RecoveryAt
    <2>32. CASE RecRemove
      BY <2>32 DEF RecRemove, Remove, Removable
    <2>33. CASE RecEnqueue
      BY <2>33 DEF RecEnqueue, RecoveryAt
    <2>34. CASE RecAdd
      BY <2>34 DEF RecAdd, RecoveryAt
    <2>35. CASE RecFail
      BY <2>35 DEF RecFail, RecoveryAt
    <2>36. CASE RecReport
      BY <2>36 DEF RecReport, RecoveryAt
    <2>37. CASE CancelAbort
      BY <2>37 DEF CancelAbort
    <2>38. CASE CancelRemove
      BY <2>38 DEF CancelRemove, Remove, Removable
    <2>39. CASE CancelMark
      BY <2>39 DEF CancelMark
    <2>40. CASE CancelUnlock
      BY <2>40 DEF CancelUnlock
    <2>41. CASE CancelFree
      BY <2>41 DEF CancelFree
    <2>42. CASE FailureRead
      BY <2>42 DEF FailureRead, FailureAt
    <2>43. CASE FailureMark
      BY <2>43 DEF FailureMark, FailureAt
    <2>44. CASE FailureRelease
      BY <2>44 DEF FailureRelease, FailureAt
    <2>45. CASE FailureReport
      BY <2>45 DEF FailureReport, FailureAt
    <2>46. CASE Promote
      BY <2>46 DEF Promote
    <2>47. CASE Stalled
      <3>1. pc' = pc /\ bullLock' = bullLock /\ blocks' = blocks /\ waits' = waits
            /\ controller' = controller
        BY <2>47, Zenon DEF Stalled
      <3> QED
        BY <3>1
    <2>48. CASE BullLockExpire
      BY <2>48 DEF BullLockExpire, Live
    <2>49. CASE LockExpire
      BY <2>49 DEF LockExpire
    <2>50. CASE Age
      BY <2>50 DEF Age
    <2>51. CASE Crash
      BY <2>51 DEF Crash
    <2>52. CASE UNCHANGED vars
      BY <2>52 DEF vars
    <2>53. ASSUME NEW r \in Runs, Running(r) PROVE AbortInv'
      BY <2>53, <2>4, <2>5, <2>6, <2>7, <2>8, <2>9, <2>10, <2>11, <2>12, <2>13,
         <2>14, <2>15, <2>16, <2>17, <2>18, <2>19, <2>20, <2>21, <2>22, <2>23,
         <2>24, <2>25, <2>26, <2>27 DEF Running
    <2>54. CASE Recovering
      BY <2>54, <2>28, <2>29, <2>30, <2>31, <2>32, <2>33, <2>34, <2>35, <2>36
         DEF Recovering
    <2>55. CASE Cancelling
      BY <2>55, <2>38, <2>39, <2>40, <2>41 DEF Cancelling
    <2>56. CASE HandlingFailure
      BY <2>56, <2>42, <2>43, <2>44, <2>45 DEF HandlingFailure
    <2>57. CASE Passing
      BY <2>57, <2>46, <2>47, <2>48, <2>49, <2>50 DEF Passing
    <2> QED
      BY <2>1, <2>2, <2>3, <2>53, <2>54, <2>37, <2>55, <2>56, <2>57, <2>51, <2>52
         DEF Next
  <1> QED
    BY <1>1, <1>2

\* As long as no live run loses BullMQ's lock, and until the first resource wait, the
\* controller under the job's id is that of the run at work: a cancellation reaches it.
THEOREM CancellationReaches == Spec => []Abortable
  <1>1. AbortInv => Abortable
    BY DEF AbortInv, Abortable, Executing
  <1> QED
    BY <1>1, Typing, OnceInvInductive, AbortInvInductive, PTL DEF Spec

-----------------------------------------------------------------------------
(* The lock of a run at work. *)

\* Where the heartbeat is sure to be set.
Beating == {"work", "upload", "complete", "report"}

\* Not yet in its finally block.
Underway == Entering \cup Trying \cup Catching

\* As long as only runs with a heartbeat lose BullMQ's lock of the job, one without
\* holds it; and a heartbeat that owns lock:{id} keeps the stamp fresh, at which a run
\* that contends for the lock turns back.
UsurpInv ==
  /\ \A r \in armed : pc[r] \in Beating \cup Catching \cup {"finSlot"}
  /\ \A r \in Runs : pc[r] \in Beating => r \in armed
  /\ \A r \in Runs : pc[r] \in Underway /\ r \notin armed => bullLock = r
  /\ lock \in armed => stamp.field = "heartbeatAt" /\ stamp.fresh
  /\ \A r \in Runs : pc[r] = "claim" => lock \notin Executing

\* Every step keeps the lock of a run at work from those that would take it over.
LEMMA UsurpInvInductive ==
  ASSUME BlockPhases \subseteq Beating
  PROVE  /\ Init => UsurpInv
         /\ TypeOK /\ OnceInv /\ UsurpInv /\ [Next]_vars => UsurpInv'
  <1> USE LifecycleAssumption
  <1>1. Init => UsurpInv
    BY DEF Init, UsurpInv, Beating, Underway, Entering, Trying, Catching
  <1>2. ASSUME TypeOK, OnceInv, UsurpInv, [Next]_vars PROVE UsurpInv'
    <2> USE <1>2 DEF TypeOK, OnceInv, UsurpInv, Beating, Underway, Executing,
                     Entering, Trying, Catching, Finishing, bullVars, metaVars,
                     holdVars, flagVars, runVars, procVars, boundVars
    <2>1. ASSUME NEW r \in Runs, Dispatch(r) PROVE UsurpInv'
      BY <2>1 DEF Dispatch, Step
    <2>2. ASSUME NEW r \in Runs, Progress(r) PROVE UsurpInv'
      BY <2>2 DEF Progress, Stage, Touched
    <2>3. ASSUME NEW r \in Runs, Block(r) PROVE UsurpInv'
      BY <2>3 DEF Block
    <2>4. ASSUME NEW r \in Runs, Start(r) PROVE UsurpInv'
      BY <2>4 DEF Start, Step
    <2>5. ASSUME NEW r \in Runs, Register(r) PROVE UsurpInv'
      BY <2>5 DEF Register, Step
    <2>6. ASSUME NEW r \in Runs, TakeLock(r) PROVE UsurpInv'
      BY <2>6 DEF TakeLock, Step
    <2>7. ASSUME NEW r \in Runs, Contend(r) PROVE UsurpInv'
      BY <2>7 DEF Contend, Step, PredecessorAlive
    <2>8. ASSUME NEW r \in Runs, Claim(r) PROVE UsurpInv'
      BY <2>8 DEF Claim, Step
    <2>9. ASSUME NEW r \in Runs, Setup(r) PROVE UsurpInv'
      BY <2>9 DEF Setup, Step, Throw
    <2>10. ASSUME NEW r \in Runs, Reserve(r) PROVE UsurpInv'
      BY <2>10 DEF Reserve, Step, Throw
    <2>11. ASSUME NEW r \in Runs, StageReserved(r) PROVE UsurpInv'
      BY <2>11 DEF StageReserved, Step, Stage, Touched
    <2>12. ASSUME NEW r \in Runs, TakeUserSlot(r) PROVE UsurpInv'
      BY <2>12 DEF TakeUserSlot, Step, Throw
    <2>13. ASSUME NEW r \in Runs, Arm(r) PROVE UsurpInv'
      BY <2>13 DEF Arm, Step, Throw, Touched
    <2>14. ASSUME NEW r \in Runs, Work(r) PROVE UsurpInv'
      BY <2>14 DEF Work, Step, Throw, Stage, Touched
    <2>15. ASSUME NEW r \in Runs, Upload(r) PROVE UsurpInv'
      BY <2>15 DEF Upload, Step, Throw
    <2>16. ASSUME NEW r \in Runs, Complete(r) PROVE UsurpInv'
      BY <2>16 DEF Complete, Step, Stage, Touched
    <2>17. ASSUME NEW r \in Runs, Report(r) PROVE UsurpInv'
      BY <2>17 DEF Report, Step, Throw
    <2>18. ASSUME NEW r \in Runs, Catch(r) PROVE UsurpInv'
      BY <2>18 DEF Catch, Step
    <2>19. ASSUME NEW r \in Runs, ScheduleWait(r) PROVE UsurpInv'
      BY <2>19 DEF ScheduleWait, Step, Stage, Touched
    <2>20. ASSUME NEW r \in Runs, Delay(r) PROVE UsurpInv'
      BY <2>20 DEF Delay, Step
    <2>21. ASSUME NEW r \in Runs, Fail(r) PROVE UsurpInv'
      BY <2>21 DEF Fail, Step, Stage, Touched
    <2>22. ASSUME NEW r \in Runs, ReportFailure(r) PROVE UsurpInv'
      BY <2>22 DEF ReportFailure, Step
    <2>23. ASSUME NEW r \in Runs, FinSlot(r) PROVE UsurpInv'
      BY <2>23 DEF FinSlot, Step
    <2>24. ASSUME NEW r \in Runs, FinDisk(r) PROVE UsurpInv'
      BY <2>24 DEF FinDisk, Step
    <2>25. ASSUME NEW r \in Runs, FinLock(r) PROVE UsurpInv'
      BY <2>25 DEF FinLock, Step
    <2>26. ASSUME NEW r \in Runs, FinUnlock(r) PROVE UsurpInv'
      BY <2>26 DEF FinUnlock, Step
    <2>27. ASSUME NEW r \in Runs, Return(r) PROVE UsurpInv'
      BY <2>27 DEF Return, Step
    <2>28. CASE RecRead
      BY <2>28 DEF RecRead
    <2>29. CASE RecProbe
      BY <2>29 DEF RecProbe, RecoveryAt
    <2>30. CASE RecRelease
      BY <2>30 DEF RecRelease, RecoveryAt
    <2>31. CASE RecMark
      BY <2>31 DEF RecMark, RecoveryAt, Stage, Touched
    <2>32. CASE RecRemove
      BY <2>32 DEF RecRemove, RecoveryAt, Remove, Removable
    <2>33. CASE RecEnqueue
      BY <2>33 DEF RecEnqueue, RecoveryAt, Touched
    <2>34. CASE RecAdd
      BY <2>34 DEF RecAdd, RecoveryAt
    <2>35. CASE RecFail
      BY <2>35 DEF RecFail, RecoveryAt, Stage, Touched
    <2>36. CASE RecReport
      BY <2>36 DEF RecReport, RecoveryAt
    <2>37. CASE CancelAbort
      BY <2>37 DEF CancelAbort
    <2>38. CASE CancelRemove
      BY <2>38 DEF CancelRemove, Remove, Removable
    <2>39. CASE CancelMark
      BY <2>39 DEF CancelMark, Stage, Touched
    <2>40. CASE CancelUnlock
      BY <2>40 DEF CancelUnlock
    <2>41. CASE CancelFree
      BY <2>41 DEF CancelFree
    <2>42. CASE FailureRead
      BY <2>42 DEF FailureRead, FailureAt
    <2>43. CASE FailureMark
      BY <2>43 DEF FailureMark, FailureAt, Stage, Touched
    <2>44. CASE FailureRelease
      BY <2>44 DEF FailureRelease, FailureAt
    <2>45. CASE FailureReport
      BY <2>45 DEF FailureReport, FailureAt
    <2>46. CASE Promote
      BY <2>46 DEF Promote
    <2>47. CASE Stalled
      BY <2>47 DEF Stalled
    <2>48. CASE BullLockExpire
      BY <2>48 DEF BullLockExpire, Live
    <2>49. CASE LockExpire
      BY <2>49 DEF LockExpire, Live
    <2>50. CASE Age
      BY <2>50 DEF Age, Renewing
    <2>51. CASE Crash
      BY <2>51 DEF Crash
    <2>52. CASE UNCHANGED vars
      BY <2>52 DEF vars
    <2>53. ASSUME NEW r \in Runs, Running(r) PROVE UsurpInv'
      BY <2>53, <2>4, <2>5, <2>6, <2>7, <2>8, <2>9, <2>10, <2>11, <2>12, <2>13, <2>14,
         <2>15, <2>16, <2>17, <2>18, <2>19, <2>20, <2>21, <2>22, <2>23, <2>24, <2>25,
         <2>26, <2>27
         DEF Running
    <2>54. CASE Recovering
      BY <2>54, <2>28, <2>29, <2>30, <2>31, <2>32, <2>33, <2>34, <2>35, <2>36
         DEF Recovering
    <2>55. CASE Cancelling
      BY <2>55, <2>38, <2>39, <2>40, <2>41
         DEF Cancelling
    <2>56. CASE HandlingFailure
      BY <2>56, <2>42, <2>43, <2>44, <2>45
         DEF HandlingFailure
    <2>57. CASE Passing
      BY <2>57, <2>46, <2>47, <2>48, <2>49, <2>50
         DEF Passing
    <2> QED
      BY <2>1, <2>2, <2>3, <2>53, <2>54, <2>37, <2>55, <2>56, <2>57, <2>51, <2>52
         DEF Next
  <1> QED
    BY <1>1, <1>2

\* If a live run loses BullMQ's lock of the job only once its heartbeat is set, then no
\* run takes lock:{id} over from one that is at work.
THEOREM LockNotUsurped ==
  ASSUME BlockPhases \subseteq Beating
  PROVE  Spec => NeverUsurped
  <1>1. UsurpInv /\ TypeOK /\ [Next]_vars =>
          [\A r \in Runs : pc[r] = "claim" /\ pc'[r] = "setup" => lock \notin
             Executing]_vars
    BY DEF UsurpInv
  <1> QED
    BY <1>1, Typing, OnceInvInductive, UsurpInvInductive, PTL DEF Spec, NeverUsurped

-----------------------------------------------------------------------------
(* What is left of a job that has ended. *)

\* Past the catch block.
Leaving == Finishing \cup {"return"}

\* Recovery that acts on a job does so alone.
ApartInv == recovery.pc \notin {"idle", "probe"} => \A r \in Runs : ~ Live(r)

\* It checks that when it begins to, and BullMQ gives the job to nobody meanwhile.
LEMMA ApartInvInductive ==
  ASSUME Apart
  PROVE  /\ Init => ApartInv
         /\ TypeOK /\ ApartInv /\ [Next]_vars => ApartInv'
  <1> USE LifecycleAssumption
  <1>1. Init => ApartInv
    BY PassTypes DEF Init, ApartInv
  <1>2. ASSUME TypeOK, ApartInv, [Next]_vars PROVE ApartInv'
    <2> USE <1>2 DEF TypeOK, ApartInv, Live, Entering, Trying, Catching, Finishing,
                     bullVars, metaVars, holdVars, flagVars, runVars, procVars,
                     boundVars
    <2>1. ASSUME NEW r \in Runs, Dispatch(r) PROVE ApartInv'
      BY <2>1 DEF Dispatch, Step
    <2>2. ASSUME NEW r \in Runs, Progress(r) PROVE ApartInv'
      BY <2>2 DEF Progress
    <2>3. ASSUME NEW r \in Runs, Block(r) PROVE ApartInv'
      BY <2>3 DEF Block
    <2>4. ASSUME NEW r \in Runs, Start(r) PROVE ApartInv'
      BY <2>4 DEF Start, Step
    <2>5. ASSUME NEW r \in Runs, Register(r) PROVE ApartInv'
      BY <2>5 DEF Register, Step
    <2>6. ASSUME NEW r \in Runs, TakeLock(r) PROVE ApartInv'
      BY <2>6 DEF TakeLock, Step
    <2>7. ASSUME NEW r \in Runs, Contend(r) PROVE ApartInv'
      BY <2>7 DEF Contend, Step
    <2>8. ASSUME NEW r \in Runs, Claim(r) PROVE ApartInv'
      BY <2>8 DEF Claim, Step
    <2>9. ASSUME NEW r \in Runs, Setup(r) PROVE ApartInv'
      BY <2>9 DEF Setup, Step, Throw
    <2>10. ASSUME NEW r \in Runs, Reserve(r) PROVE ApartInv'
      BY <2>10 DEF Reserve, Step, Throw
    <2>11. ASSUME NEW r \in Runs, StageReserved(r) PROVE ApartInv'
      BY <2>11 DEF StageReserved, Step
    <2>12. ASSUME NEW r \in Runs, TakeUserSlot(r) PROVE ApartInv'
      BY <2>12 DEF TakeUserSlot, Step, Throw
    <2>13. ASSUME NEW r \in Runs, Arm(r) PROVE ApartInv'
      BY <2>13 DEF Arm, Step, Throw
    <2>14. ASSUME NEW r \in Runs, Work(r) PROVE ApartInv'
      BY <2>14 DEF Work, Step, Throw
    <2>15. ASSUME NEW r \in Runs, Upload(r) PROVE ApartInv'
      BY <2>15 DEF Upload, Step, Throw
    <2>16. ASSUME NEW r \in Runs, Complete(r) PROVE ApartInv'
      BY <2>16 DEF Complete, Step
    <2>17. ASSUME NEW r \in Runs, Report(r) PROVE ApartInv'
      BY <2>17 DEF Report, Step, Throw
    <2>18. ASSUME NEW r \in Runs, Catch(r) PROVE ApartInv'
      BY <2>18 DEF Catch, Step
    <2>19. ASSUME NEW r \in Runs, ScheduleWait(r) PROVE ApartInv'
      BY <2>19 DEF ScheduleWait, Step
    <2>20. ASSUME NEW r \in Runs, Delay(r) PROVE ApartInv'
      BY <2>20 DEF Delay, Step
    <2>21. ASSUME NEW r \in Runs, Fail(r) PROVE ApartInv'
      BY <2>21 DEF Fail, Step
    <2>22. ASSUME NEW r \in Runs, ReportFailure(r) PROVE ApartInv'
      BY <2>22 DEF ReportFailure, Step
    <2>23. ASSUME NEW r \in Runs, FinSlot(r) PROVE ApartInv'
      BY <2>23 DEF FinSlot, Step
    <2>24. ASSUME NEW r \in Runs, FinDisk(r) PROVE ApartInv'
      BY <2>24 DEF FinDisk, Step
    <2>25. ASSUME NEW r \in Runs, FinLock(r) PROVE ApartInv'
      BY <2>25 DEF FinLock, Step
    <2>26. ASSUME NEW r \in Runs, FinUnlock(r) PROVE ApartInv'
      BY <2>26 DEF FinUnlock, Step
    <2>27. ASSUME NEW r \in Runs, Return(r) PROVE ApartInv'
      BY <2>27 DEF Return, Step
    <2>28. CASE RecRead
      BY <2>28 DEF RecRead
    <2>29. CASE RecProbe
      <3>1. recovery'.pc \in {"idle", "probe"} \/ (\A r \in Runs : ~ Live(r))
        BY <2>29, RecoveryAtType, Zenon DEF RecProbe
      <3>2. UNCHANGED <<bullVars, metaVars, holdVars, runVars, cancel, failure,
         boundVars>>
        BY <2>29, Zenon DEF RecProbe
      <3> QED
        BY <3>1, <3>2
    <2>30. CASE RecRelease
      BY <2>30 DEF RecRelease, RecoveryAt
    <2>31. CASE RecMark
      BY <2>31 DEF RecMark, RecoveryAt
    <2>32. CASE RecRemove
      BY <2>32 DEF RecRemove, RecoveryAt, Remove, Removable
    <2>33. CASE RecEnqueue
      BY <2>33 DEF RecEnqueue, RecoveryAt
    <2>34. CASE RecAdd
      BY <2>34 DEF RecAdd, RecoveryAt
    <2>35. CASE RecFail
      BY <2>35 DEF RecFail, RecoveryAt
    <2>36. CASE RecReport
      BY <2>36 DEF RecReport, RecoveryAt
    <2>37. CASE CancelAbort
      BY <2>37 DEF CancelAbort
    <2>38. CASE CancelRemove
      BY <2>38 DEF CancelRemove, Remove, Removable
    <2>39. CASE CancelMark
      BY <2>39 DEF CancelMark
    <2>40. CASE CancelUnlock
      BY <2>40 DEF CancelUnlock
    <2>41. CASE CancelFree
      BY <2>41 DEF CancelFree
    <2>42. CASE FailureRead
      BY <2>42 DEF FailureRead, FailureAt
    <2>43. CASE FailureMark
      BY <2>43 DEF FailureMark, FailureAt
    <2>44. CASE FailureRelease
      BY <2>44 DEF FailureRelease, FailureAt
    <2>45. CASE FailureReport
      BY <2>45 DEF FailureReport, FailureAt
    <2>46. CASE Promote
      BY <2>46 DEF Promote
    <2>47. CASE Stalled
      BY <2>47 DEF Stalled
    <2>48. CASE BullLockExpire
      BY <2>48 DEF BullLockExpire, Live
    <2>49. CASE LockExpire
      BY <2>49 DEF LockExpire, Live
    <2>50. CASE Age
      BY <2>50 DEF Age
    <2>51. CASE Crash
      BY <2>51 DEF Crash
    <2>52. CASE UNCHANGED vars
      BY <2>52 DEF vars
    <2>53. ASSUME NEW r \in Runs, Running(r) PROVE ApartInv'
      BY <2>53, <2>4, <2>5, <2>6, <2>7, <2>8, <2>9, <2>10, <2>11, <2>12, <2>13, <2>14,
         <2>15, <2>16, <2>17, <2>18, <2>19, <2>20, <2>21, <2>22, <2>23, <2>24, <2>25,
         <2>26, <2>27
         DEF Running
    <2>54. CASE Recovering
      BY <2>54, <2>28, <2>29, <2>30, <2>31, <2>32, <2>33, <2>34, <2>35, <2>36
         DEF Recovering
    <2>55. CASE Cancelling
      BY <2>55, <2>38, <2>39, <2>40, <2>41
         DEF Cancelling
    <2>56. CASE HandlingFailure
      BY <2>56, <2>42, <2>43, <2>44, <2>45
         DEF HandlingFailure
    <2>57. CASE Passing
      BY <2>57, <2>46, <2>47, <2>48, <2>49, <2>50
         DEF Passing
    <2> QED
      BY <2>1, <2>2, <2>3, <2>53, <2>54, <2>37, <2>55, <2>56, <2>57, <2>51, <2>52
         DEF Next
  <1> QED
    BY <1>1, <1>2

\* Nobody cancels the job, no run loses BullMQ's lock, and a crash outlasts the locks.
Undisturbed == blocks = 0 /\ cancel = "idle" /\ (crashes = 0 \/ LongOutages)

\* One run lives at a time, the owner of BullMQ's lock until it has put the job off;
\* when it is about to return as if all were well, the status is terminal, and it
\* stays so once BullMQ has accepted the result, since recovery does not act then.
SettledInv ==
  Undisturbed =>
    /\ aborted = {}
    /\ lock # NoRun => pc[lock] \in Trying \cup Catching \cup Finishing
    /\ \A r, s \in Runs : Live(r) /\ Live(s) => r = s
    /\ \A r \in Runs :
         Live(r) => bullLock = r \/ (bull = "delayed" /\ pc[r] \in Leaving)
    /\ \A r \in Runs : pc[r] = "reportFailure" => verdict[r] # "ok"
    /\ \A r \in Runs :
         pc[r] = "report" \/ (pc[r] \in Leaving /\ verdict[r] = "ok") =>
           status \in Terminal
    /\ bull = "completed" => status \in Terminal /\ recovery.pc \in {"idle", "probe"}

\* Every step keeps it so.
LEMMA SettledInvInductive ==
  ASSUME Apart
  PROVE  /\ Init => SettledInv
         /\ TypeOK /\ OnceInv /\ ApartInv /\ SettledInv /\ [Next]_vars => SettledInv'
  <1> USE LifecycleAssumption
  <1>1. Init => SettledInv
    BY PassTypes DEF Init, SettledInv, Live, Leaving, Finishing
  <1>2. ASSUME TypeOK, OnceInv, ApartInv, SettledInv, [Next]_vars PROVE SettledInv'
    <2> USE <1>2 DEF TypeOK, OnceInv, ApartInv, SettledInv, Undisturbed, Leaving,
                     Terminal, Live, Entering, Trying, Catching, Finishing, bullVars,
                     metaVars, holdVars, flagVars, runVars, procVars, boundVars
    <2>1. ASSUME NEW r \in Runs, Dispatch(r) PROVE SettledInv'
      BY <2>1 DEF Dispatch, Step
    <2>2. ASSUME NEW r \in Runs, Progress(r) PROVE SettledInv'
      BY <2>2 DEF Progress, Stage
    <2>3. ASSUME NEW r \in Runs, Block(r) PROVE SettledInv'
      BY <2>3 DEF Block
    <2>4. ASSUME NEW r \in Runs, Start(r) PROVE SettledInv'
      BY <2>4 DEF Start, Step
    <2>5. ASSUME NEW r \in Runs, Register(r) PROVE SettledInv'
      BY <2>5 DEF Register, Step
    <2>6. ASSUME NEW r \in Runs, TakeLock(r) PROVE SettledInv'
      BY <2>6 DEF TakeLock, Step
    <2>7. ASSUME NEW r \in Runs, Contend(r) PROVE SettledInv'
      BY <2>7 DEF Contend, Step, PredecessorAlive
    <2>8. ASSUME NEW r \in Runs, Claim(r) PROVE SettledInv'
      BY <2>8 DEF Claim, Step
    <2>9. ASSUME NEW r \in Runs, Setup(r) PROVE SettledInv'
      BY <2>9 DEF Setup, Step, Throw
    <2>10. ASSUME NEW r \in Runs, Reserve(r) PROVE SettledInv'
      BY <2>10 DEF Reserve, Step, Throw
    <2>11. ASSUME NEW r \in Runs, StageReserved(r) PROVE SettledInv'
      BY <2>11 DEF StageReserved, Step, Stage
    <2>12. ASSUME NEW r \in Runs, TakeUserSlot(r) PROVE SettledInv'
      BY <2>12 DEF TakeUserSlot, Step, Throw
    <2>13. ASSUME NEW r \in Runs, Arm(r) PROVE SettledInv'
      BY <2>13 DEF Arm, Step, Throw
    <2>14. ASSUME NEW r \in Runs, Work(r) PROVE SettledInv'
      BY <2>14 DEF Work, Step, Throw, Stage
    <2>15. ASSUME NEW r \in Runs, Upload(r) PROVE SettledInv'
      BY <2>15 DEF Upload, Step, Throw
    <2>16. ASSUME NEW r \in Runs, Complete(r) PROVE SettledInv'
      BY <2>16 DEF Complete, Step, Stage
    <2>17. ASSUME NEW r \in Runs, Report(r) PROVE SettledInv'
      BY <2>17 DEF Report, Step, Throw
    <2>18. ASSUME NEW r \in Runs, Catch(r) PROVE SettledInv'
      BY <2>18 DEF Catch, Step
    <2>19. ASSUME NEW r \in Runs, ScheduleWait(r) PROVE SettledInv'
      BY <2>19 DEF ScheduleWait, Step, Stage
    <2>20. ASSUME NEW r \in Runs, Delay(r) PROVE SettledInv'
      BY <2>20 DEF Delay, Step
    <2>21. ASSUME NEW r \in Runs, Fail(r) PROVE SettledInv'
      BY <2>21 DEF Fail, Step, Stage
    <2>22. ASSUME NEW r \in Runs, ReportFailure(r) PROVE SettledInv'
      BY <2>22 DEF ReportFailure, Step
    <2>23. ASSUME NEW r \in Runs, FinSlot(r) PROVE SettledInv'
      BY <2>23 DEF FinSlot, Step
    <2>24. ASSUME NEW r \in Runs, FinDisk(r) PROVE SettledInv'
      BY <2>24 DEF FinDisk, Step
    <2>25. ASSUME NEW r \in Runs, FinLock(r) PROVE SettledInv'
      BY <2>25 DEF FinLock, Step
    <2>26. ASSUME NEW r \in Runs, FinUnlock(r) PROVE SettledInv'
      BY <2>26 DEF FinUnlock, Step
    <2>27. ASSUME NEW r \in Runs, Return(r) PROVE SettledInv'
      BY <2>27 DEF Return, Step
    <2>28. CASE RecRead
      BY <2>28 DEF RecRead
    <2>29. CASE RecProbe
      <3>1. recovery'.pc \in {"idle", "probe"} \/ (bull # "completed")
        BY <2>29, RecoveryAtType, Zenon DEF RecProbe, LeftAlone
      <3>2. UNCHANGED <<bullVars, metaVars, holdVars, runVars, cancel, failure,
         boundVars>>
        BY <2>29, Zenon DEF RecProbe
      <3> QED
        BY <3>1, <3>2
    <2>30. CASE RecRelease
      BY <2>30 DEF RecRelease, RecoveryAt
    <2>31. CASE RecMark
      BY <2>31 DEF RecMark, RecoveryAt, Stage
    <2>32. CASE RecRemove
      BY <2>32 DEF RecRemove, RecoveryAt, Remove, Removable
    <2>33. CASE RecEnqueue
      BY <2>33 DEF RecEnqueue, RecoveryAt
    <2>34. CASE RecAdd
      BY <2>34 DEF RecAdd, RecoveryAt
    <2>35. CASE RecFail
      BY <2>35 DEF RecFail, RecoveryAt, Stage
    <2>36. CASE RecReport
      BY <2>36 DEF RecReport, RecoveryAt
    <2>37. CASE CancelAbort
      BY <2>37 DEF CancelAbort
    <2>38. CASE CancelRemove
      BY <2>38 DEF CancelRemove, Remove, Removable
    <2>39. CASE CancelMark
      BY <2>39 DEF CancelMark, Stage
    <2>40. CASE CancelUnlock
      BY <2>40 DEF CancelUnlock
    <2>41. CASE CancelFree
      BY <2>41 DEF CancelFree
    <2>42. CASE FailureRead
      BY <2>42 DEF FailureRead, FailureAt
    <2>43. CASE FailureMark
      BY <2>43 DEF FailureMark, FailureAt, Stage
    <2>44. CASE FailureRelease
      BY <2>44 DEF FailureRelease, FailureAt
    <2>45. CASE FailureReport
      BY <2>45 DEF FailureReport, FailureAt
    <2>46. CASE Promote
      BY <2>46 DEF Promote
    <2>47. CASE Stalled
      BY <2>47 DEF Stalled
    <2>48. CASE BullLockExpire
      BY <2>48 DEF BullLockExpire, Live
    <2>49. CASE LockExpire
      BY <2>49 DEF LockExpire, Live
    <2>50. CASE Age
      BY <2>50 DEF Age
    <2>51. CASE Crash
      <3>1. recovery'.pc = "idle" /\ pc' = [r \in Runs |-> "off"] /\ aborted' = {}
        BY <2>51, PassTypes DEF Crash
      <3>2. /\ blocks' = blocks /\ bull' = bull /\ status' = status
            /\ cancel' = "idle" => cancel = "idle"
            /\ crashes' # 0
        BY <2>51 DEF Crash
      <3>3. LongOutages => lock' = NoRun
        BY <2>51, Zenon DEF Crash
      <3>4. Undisturbed' => lock' = NoRun /\ (bull = "completed" => status \in Terminal)
        BY <3>2, <3>3
      <3> QED
        BY <3>1, <3>2, <3>4
    <2>52. CASE UNCHANGED vars
      BY <2>52 DEF vars
    <2>53. ASSUME NEW r \in Runs, Running(r) PROVE SettledInv'
      BY <2>53, <2>4, <2>5, <2>6, <2>7, <2>8, <2>9, <2>10, <2>11, <2>12, <2>13, <2>14,
         <2>15, <2>16, <2>17, <2>18, <2>19, <2>20, <2>21, <2>22, <2>23, <2>24, <2>25,
         <2>26, <2>27
         DEF Running
    <2>54. CASE Recovering
      BY <2>54, <2>28, <2>29, <2>30, <2>31, <2>32, <2>33, <2>34, <2>35, <2>36
         DEF Recovering
    <2>55. CASE Cancelling
      BY <2>55, <2>38, <2>39, <2>40, <2>41
         DEF Cancelling
    <2>56. CASE HandlingFailure
      BY <2>56, <2>42, <2>43, <2>44, <2>45
         DEF HandlingFailure
    <2>57. CASE Passing
      BY <2>57, <2>46, <2>47, <2>48, <2>49, <2>50
         DEF Passing
    <2> QED
      BY <2>1, <2>2, <2>3, <2>53, <2>54, <2>37, <2>55, <2>56, <2>57, <2>51, <2>52
         DEF Next
  <1> QED
    BY <1>1, <1>2

\* If recovery keeps apart from live runs, nobody cancels the job, no run loses BullMQ's
\* lock and a crash outlasts the locks, then a job BullMQ is done with, and recovery
\* therefore leaves alone, is done: completed, failed or cancelled.
THEOREM NoJobLost ==
  ASSUME Apart
  PROVE  Spec => [](Undisturbed => NotLost)
  <1>1. SettledInv => (Undisturbed => NotLost)
    BY DEF SettledInv, NotLost
  <1> QED
    BY <1>1, Typing, OnceInvInductive, ApartInvInductive, SettledInvInductive, PTL
       DEF Spec

\* The job is COMPLETED, and nobody has reported success yet.
Untold == status = "completed" /\ "completed" \notin announced

\* Then the run that owns BullMQ's lock is still in its try block, or in its catch block
\* and about to overwrite the status, nobody's lock:{id} keeps the next run away, and
\* recovery, if it is at work after all, cannot remove the job, so that BullMQ has it
\* still, but for a job that it has given up.
ToldInv ==
  Undisturbed =>
    /\ aborted = {}
    /\ \A r \in Runs :
         pc[r] \in Leaving \cup {"reportFailure", "delay"} /\ bullLock = r => ~ Untold
    /\ lock # NoRun /\ Executing = {} => ~ Untold
    /\ recovery.pc # "idle" /\ Untold => bullLock # NoRun /\ Live(bullLock)
    /\ Untold => stalls > MaxStalled \/ bull \in {"waiting", "active"}

\* Every step keeps it so.
LEMMA ToldInvInductive ==
  /\ Init => ToldInv
  /\ TypeOK /\ OnceInv /\ ToldInv /\ [Next]_vars => ToldInv'
  <1> USE LifecycleAssumption
  <1>1. Init => ToldInv
    BY PassTypes DEF Init, ToldInv, Untold
  <1>2. ASSUME TypeOK, OnceInv, ToldInv, [Next]_vars PROVE ToldInv'
    <2> USE <1>2 DEF TypeOK, OnceInv, ToldInv, Untold, Executing, Undisturbed,
                     Leaving, Terminal, Live, Entering, Trying, Catching, Finishing,
                     bullVars, metaVars, holdVars, flagVars, runVars, procVars,
                     boundVars
    <2>1. ASSUME NEW r \in Runs, Dispatch(r) PROVE ToldInv'
      BY <2>1 DEF Dispatch, Step
    <2>2. ASSUME NEW r \in Runs, Progress(r) PROVE ToldInv'
      BY <2>2 DEF Progress, Stage
    <2>3. ASSUME NEW r \in Runs, Block(r) PROVE ToldInv'
      BY <2>3 DEF Block
    <2>4. ASSUME NEW r \in Runs, Start(r) PROVE ToldInv'
      BY <2>4 DEF Start, Step
    <2>5. ASSUME NEW r \in Runs, Register(r) PROVE ToldInv'
      BY <2>5 DEF Register, Step
    <2>6. ASSUME NEW r \in Runs, TakeLock(r) PROVE ToldInv'
      BY <2>6 DEF TakeLock, Step
    <2>7. ASSUME NEW r \in Runs, Contend(r) PROVE ToldInv'
      BY <2>7 DEF Contend, Step, PredecessorAlive
    <2>8. ASSUME NEW r \in Runs, Claim(r) PROVE ToldInv'
      BY <2>8 DEF Claim, Step
    <2>9. ASSUME NEW r \in Runs, Setup(r) PROVE ToldInv'
      BY <2>9 DEF Setup, Step, Throw
    <2>10. ASSUME NEW r \in Runs, Reserve(r) PROVE ToldInv'
      BY <2>10 DEF Reserve, Step, Throw
    <2>11. ASSUME NEW r \in Runs, StageReserved(r) PROVE ToldInv'
      BY <2>11 DEF StageReserved, Step, Stage
    <2>12. ASSUME NEW r \in Runs, TakeUserSlot(r) PROVE ToldInv'
      BY <2>12 DEF TakeUserSlot, Step, Throw
    <2>13. ASSUME NEW r \in Runs, Arm(r) PROVE ToldInv'
      BY <2>13 DEF Arm, Step, Throw
    <2>14. ASSUME NEW r \in Runs, Work(r) PROVE ToldInv'
      BY <2>14 DEF Work, Step, Throw, Stage
    <2>15. ASSUME NEW r \in Runs, Upload(r) PROVE ToldInv'
      BY <2>15 DEF Upload, Step, Throw
    <2>16. ASSUME NEW r \in Runs, Complete(r) PROVE ToldInv'
      BY <2>16 DEF Complete, Step, Stage
    <2>17. ASSUME NEW r \in Runs, Report(r) PROVE ToldInv'
      BY <2>17 DEF Report, Step, Throw
    <2>18. ASSUME NEW r \in Runs, Catch(r) PROVE ToldInv'
      BY <2>18 DEF Catch, Step
    <2>19. ASSUME NEW r \in Runs, ScheduleWait(r) PROVE ToldInv'
      BY <2>19 DEF ScheduleWait, Step, Stage
    <2>20. ASSUME NEW r \in Runs, Delay(r) PROVE ToldInv'
      BY <2>20 DEF Delay, Step
    <2>21. ASSUME NEW r \in Runs, Fail(r) PROVE ToldInv'
      BY <2>21 DEF Fail, Step, Stage
    <2>22. ASSUME NEW r \in Runs, ReportFailure(r) PROVE ToldInv'
      BY <2>22 DEF ReportFailure, Step
    <2>23. ASSUME NEW r \in Runs, FinSlot(r) PROVE ToldInv'
      BY <2>23 DEF FinSlot, Step
    <2>24. ASSUME NEW r \in Runs, FinDisk(r) PROVE ToldInv'
      BY <2>24 DEF FinDisk, Step
    <2>25. ASSUME NEW r \in Runs, FinLock(r) PROVE ToldInv'
      BY <2>25 DEF FinLock, Step
    <2>26. ASSUME NEW r \in Runs, FinUnlock(r) PROVE ToldInv'
      BY <2>26 DEF FinUnlock, Step
    <2>27. ASSUME NEW r \in Runs, Return(r) PROVE ToldInv'
      BY <2>27 DEF Return, Step
    <2>28. CASE RecRead
      BY <2>28 DEF RecRead
    <2>29. CASE RecProbe
      BY <2>29, RecoveryAtType DEF RecProbe, RecoveryAt
    <2>30. CASE RecRelease
      BY <2>30 DEF RecRelease, RecoveryAt
    <2>31. CASE RecMark
      BY <2>31 DEF RecMark, RecoveryAt, Stage
    <2>32. CASE RecRemove
      BY <2>32 DEF RecRemove, RecoveryAt, Remove, Removable
    <2>33. CASE RecEnqueue
      BY <2>33 DEF RecEnqueue, RecoveryAt
    <2>34. CASE RecAdd
      BY <2>34 DEF RecAdd, RecoveryAt
    <2>35. CASE RecFail
      BY <2>35 DEF RecFail, RecoveryAt, Stage
    <2>36. CASE RecReport
      BY <2>36 DEF RecReport, RecoveryAt
    <2>37. CASE CancelAbort
      BY <2>37 DEF CancelAbort
    <2>38. CASE CancelRemove
      BY <2>38 DEF CancelRemove, Remove, Removable
    <2>39. CASE CancelMark
      BY <2>39 DEF CancelMark, Stage
    <2>40. CASE CancelUnlock
      BY <2>40 DEF CancelUnlock
    <2>41. CASE CancelFree
      BY <2>41 DEF CancelFree
    <2>42. CASE FailureRead
      BY <2>42 DEF FailureRead, FailureAt
    <2>43. CASE FailureMark
      BY <2>43 DEF FailureMark, FailureAt, Stage
    <2>44. CASE FailureRelease
      BY <2>44 DEF FailureRelease, FailureAt
    <2>45. CASE FailureReport
      BY <2>45 DEF FailureReport, FailureAt
    <2>46. CASE Promote
      BY <2>46 DEF Promote
    <2>47. CASE Stalled
      BY <2>47 DEF Stalled
    <2>48. CASE BullLockExpire
      BY <2>48 DEF BullLockExpire, Live
    <2>49. CASE LockExpire
      BY <2>49 DEF LockExpire, Live
    <2>50. CASE Age
      BY <2>50 DEF Age
    <2>51. CASE Crash
      <3>1. recovery'.pc = "idle" /\ pc' = [r \in Runs |-> "off"] /\ aborted' = {}
        BY <2>51, PassTypes DEF Crash
      <3>2. /\ UNCHANGED <<blocks, bull, status, announced, stalls>>
            /\ cancel' = "idle" => cancel = "idle"
            /\ crashes' # 0
        BY <2>51 DEF Crash
      <3>3. LongOutages => lock' = NoRun
        BY <2>51, Zenon DEF Crash
      <3>4. Undisturbed' => Undisturbed /\ lock' = NoRun
        BY <3>2, <3>3
      <3> QED
        BY <3>1, <3>2, <3>4
    <2>52. CASE UNCHANGED vars
      BY <2>52 DEF vars
    <2>53. ASSUME NEW r \in Runs, Running(r) PROVE ToldInv'
      BY <2>53, <2>4, <2>5, <2>6, <2>7, <2>8, <2>9, <2>10, <2>11, <2>12, <2>13, <2>14,
         <2>15, <2>16, <2>17, <2>18, <2>19, <2>20, <2>21, <2>22, <2>23, <2>24, <2>25,
         <2>26, <2>27
         DEF Running
    <2>54. CASE Recovering
      BY <2>54, <2>28, <2>29, <2>30, <2>31, <2>32, <2>33, <2>34, <2>35, <2>36
         DEF Recovering
    <2>55. CASE Cancelling
      BY <2>55, <2>38, <2>39, <2>40, <2>41
         DEF Cancelling
    <2>56. CASE HandlingFailure
      BY <2>56, <2>42, <2>43, <2>44, <2>45
         DEF HandlingFailure
    <2>57. CASE Passing
      BY <2>57, <2>46, <2>47, <2>48, <2>49, <2>50
         DEF Passing
    <2> QED
      BY <2>1, <2>2, <2>3, <2>53, <2>54, <2>37, <2>55, <2>56, <2>57, <2>51, <2>52
         DEF Next
  <1> QED
    BY <1>1, <1>2

\* If nobody cancels the job, no run loses BullMQ's lock and a crash outlasts the locks,
\* then a job that is COMPLETED and that BullMQ is done with has been reported as a
\* success, or else has stalled too often: a crash between the status and the record of
\* the callback loses no outcome otherwise, however recovery acts on live runs.
THEOREM SuccessAlwaysTold == Spec => [](Undisturbed => SuccessTold)
  <1>1. ToldInv => (Undisturbed => SuccessTold)
    BY DEF ToldInv, SuccessTold, Untold
  <1> QED
    BY <1>1, Typing, OnceInvInductive, ToldInvInductive, PTL DEF Spec

-----------------------------------------------------------------------------
(* The contract. *)

\* What BullMQ and onBullJobFailed will make of the end of r: no more attempts.
LastTry(r) ==
  verdict[r] = "fatal" \/ (verdict[r] = "error" /\ tries[r] + 1 >= MaxAttempts)

\* Before a crash, the client is told last: nobody has the job any more, or will have
\* it, once it is told, and a failure BullMQ reports as the last was told by the run.
ToldLast ==
  crashes = 0 =>
    /\ bull = "active" => bullLock # NoRun /\ Live(bullLock)
    /\ bull \in {"waiting", "delayed"} => announced = {}
    /\ \A r \in Runs : pc[r] \in Underway => announced = {}
    /\ recovery.pc \notin {"idle", "probe"} => announced = {}
    /\ recovery.pc \in {"failRelease", "failReport"} => bull = "none"
    /\ \A r \in Runs : pc[r] \notin Leaving \cup {"reportFailure"} => verdict[r] = "ok"
    /\ \A r \in Runs : pc[r] \in Leaving /\ verdict[r] # "delayed" => bullLock = r
    /\ \A r \in Runs : pc[r] = "reportFailure" => LastTry(r)
    /\ \A r \in Runs : pc[r] \in Leaving /\ LastTry(r) => announced = {"failed"}
    /\ \A r \in Runs :
         pc[r] \in Leaving /\ verdict[r] = "error" /\ ~ LastTry(r) => announced = {}
    /\ \/ failure.pc \in {"mark", "release", "report"}
       \/ failure.pc = "read" /\ failure.terminal
       => announced = {"failed"}

\* And by then the status is terminal.
ToldSettled ==
  crashes = 0 =>
    /\ announced # {} => status \in Terminal
    /\ \A r \in Runs : pc[r] \in {"report", "reportFailure"} => status \in Terminal
    /\ recovery.pc \in {"failRemove", "failRelease", "failReport"} =>
         status \in Terminal

\* OnceInv where no run can lose BullMQ's lock.
OneUnderway ==
  /\ bullLock # NoRun => bull = "active"
  /\ \A r \in Runs : pc[r] \in Underway => bullLock = r

\* It follows from OnceInv there.
LEMMA OneUnderwayHolds ==
  ASSUME MaxBlocks = 0
  PROVE  TypeOK /\ OnceInv => OneUnderway
  BY DEF TypeOK, OnceInv, OneUnderway, Underway

\* Of a job that a run works on nothing has been told yet, and nobody else has it.
LEMMA AtWorkUntold ==
  ASSUME TypeOK, OneUnderway, ApartInv, ToldLast, crashes = 0,
         NEW r \in Runs, pc[r] \in Underway
  PROVE  /\ announced = {} /\ bull = "active" /\ bullLock = r
         /\ recovery.pc \in {"idle", "probe"}
         /\ \A s \in Runs : pc[s] \in Underway => s = r
  BY LifecycleAssumption
     DEF TypeOK, OneUnderway, ApartInv, ToldLast, Live, Underway, Entering, Trying,
         Catching

\* The same of recovery.
LEMMA RecoveringUntold ==
  ASSUME ApartInv, ToldLast, crashes = 0, recovery.pc \notin {"idle", "probe"}
  PROVE  announced = {} /\ \A r \in Runs : pc[r] = "off"
  BY DEF ApartInv, ToldLast, Live

\* Every step keeps ToldLast.
LEMMA ToldLastStep ==
  ASSUME Apart, MaxBlocks = 0, TypeOK, OneUnderway, ApartInv, ToldLast, ToldSettled,
         [Next]_vars
  PROVE  ToldLast'
  <1> USE LifecycleAssumption DEF TypeOK, OneUnderway, ApartInv, ToldLast, LastTry,
                                  Underway, Leaving, Live, Entering, Trying, Catching,
                                  Finishing, bullVars, metaVars, holdVars, flagVars,
                                  runVars, procVars, boundVars
  <1>1. ASSUME NEW r \in Runs, Dispatch(r) PROVE ToldLast'
    BY <1>1 DEF Dispatch, Step
  <1>2. ASSUME NEW r \in Runs, Progress(r) PROVE ToldLast'
    BY <1>2 DEF Progress
  <1>3. ASSUME NEW r \in Runs, Block(r) PROVE ToldLast'
    BY <1>3 DEF Block
  <1>4. ASSUME NEW r \in Runs, Start(r) PROVE ToldLast'
    BY <1>4 DEF Start, Step
  <1>5. ASSUME NEW r \in Runs, Register(r) PROVE ToldLast'
    BY <1>5 DEF Register, Step
  <1>6. ASSUME NEW r \in Runs, TakeLock(r) PROVE ToldLast'
    BY <1>6 DEF TakeLock, Step
  <1>7. ASSUME NEW r \in Runs, Contend(r) PROVE ToldLast'
    BY <1>7 DEF Contend, Step
  <1>8. ASSUME NEW r \in Runs, Claim(r) PROVE ToldLast'
    BY <1>8 DEF Claim, Step
  <1>9. ASSUME NEW r \in Runs, Setup(r) PROVE ToldLast'
    BY <1>9 DEF Setup, Step, Throw
  <1>10. ASSUME NEW r \in Runs, Reserve(r) PROVE ToldLast'
    BY <1>10 DEF Reserve, Step, Throw
  <1>11. ASSUME NEW r \in Runs, StageReserved(r) PROVE ToldLast'
    BY <1>11 DEF StageReserved, Step
  <1>12. ASSUME NEW r \in Runs, TakeUserSlot(r) PROVE ToldLast'
    BY <1>12 DEF TakeUserSlot, Step, Throw
  <1>13. ASSUME NEW r \in Runs, Arm(r) PROVE ToldLast'
    BY <1>13 DEF Arm, Step, Throw
  <1>14. ASSUME NEW r \in Runs, Work(r) PROVE ToldLast'
    BY <1>14 DEF Work, Step, Throw
  <1>15. ASSUME NEW r \in Runs, Upload(r) PROVE ToldLast'
    BY <1>15 DEF Upload, Step, Throw
  <1>16. ASSUME NEW r \in Runs, Complete(r) PROVE ToldLast'
    BY <1>16 DEF Complete, Step
  <1>17. ASSUME NEW r \in Runs, Report(r) PROVE ToldLast'
    <2>1. CASE crashes # 0
      BY <1>17, <2>1 DEF Report
    <2>2. CASE crashes = 0 /\ announced' = announced /\ pc' = [pc EXCEPT ![r] = "catch"]
      BY <1>17, <2>2 DEF Report, Step, Throw
    <2>3. CASE /\ crashes = 0 /\ announced' = announced \cup {"completed"}
               /\ pc' = [pc EXCEPT ![r] = "finSlot"]
      <3>1. /\ announced = {} /\ bull = "active" /\ bullLock = r
            /\ recovery.pc \in {"idle", "probe"}
            /\ \A s \in Runs : pc[s] \in Underway => s = r
        BY <1>17, <2>3, AtWorkUntold DEF Report, Step, Throw
      <3>2. /\ UNCHANGED <<bull, bullLock, recovery, tries, verdict, failure>>
            /\ pc[r] = "report"
        BY <1>17 DEF Report, Step, Throw
      <3> QED
        BY <2>3, <3>1, <3>2
    <2> QED
      BY <1>17, <2>1, <2>2, <2>3 DEF Report, Step, Throw
  <1>18. ASSUME NEW r \in Runs, Catch(r) PROVE ToldLast'
    BY <1>18 DEF Catch, Step
  <1>19. ASSUME NEW r \in Runs, ScheduleWait(r) PROVE ToldLast'
    BY <1>19 DEF ScheduleWait, Step
  <1>20. ASSUME NEW r \in Runs, Delay(r) PROVE ToldLast'
    BY <1>20 DEF Delay, Step
  <1>21. ASSUME NEW r \in Runs, Fail(r) PROVE ToldLast'
    BY <1>21 DEF Fail, Step
  <1>22. ASSUME NEW r \in Runs, ReportFailure(r) PROVE ToldLast'
    <2>1. CASE crashes # 0
      BY <1>22, <2>1 DEF ReportFailure
    <2>2. CASE crashes = 0
      <3>1. /\ announced = {} /\ bull = "active" /\ bullLock = r
            /\ recovery.pc \in {"idle", "probe"}
            /\ \A s \in Runs : pc[s] \in Underway => s = r
        BY <1>22, <2>2, AtWorkUntold DEF ReportFailure, Step
      <3>2. /\ UNCHANGED <<bull, bullLock, recovery, tries, verdict, failure>>
            /\ pc[r] = "reportFailure" /\ pc' = [pc EXCEPT ![r] = "finSlot"]
            /\ announced' = {"failed"}
        BY <1>22, <3>1 DEF ReportFailure, Step
      <3> QED
        BY <2>2, <3>1, <3>2
    <2> QED
      BY <2>1, <2>2
  <1>23. ASSUME NEW r \in Runs, FinSlot(r) PROVE ToldLast'
    BY <1>23 DEF FinSlot, Step
  <1>24. ASSUME NEW r \in Runs, FinDisk(r) PROVE ToldLast'
    BY <1>24 DEF FinDisk, Step
  <1>25. ASSUME NEW r \in Runs, FinLock(r) PROVE ToldLast'
    BY <1>25 DEF FinLock, Step
  <1>26. ASSUME NEW r \in Runs, FinUnlock(r) PROVE ToldLast'
    BY <1>26 DEF FinUnlock, Step
  <1>27. ASSUME NEW r \in Runs, Return(r) PROVE ToldLast'
    <2>1. CASE UNCHANGED <<bullVars, failure>>
      BY <1>27, <2>1 DEF Return, Step
    <2>2. CASE bullLock = r /\ verdict[r] = "ok" /\ bull' = "completed" /\ UNCHANGED
       failure
      BY <1>27, <2>2 DEF Return, Step
    <2>3. CASE /\ bullLock = r /\ verdict[r] \in {"error", "fatal"}
               /\ LET last == verdict[r] = "fatal" \/ tries[r] + 1 >= MaxAttempts
                  IN  /\ bull' = IF last THEN "failed" ELSE "delayed"
                      /\ failure' = [pc |-> "read", terminal |-> last]
      <3>1. failure'.pc = "read" /\ (failure'.terminal <=> LastTry(r))
        BY <2>3, FailureRaised DEF LastTry
      <3> QED
        BY <1>27, <2>3, <3>1 DEF Return, Step
    <2> QED
      BY <1>27, <2>1, <2>2, <2>3, Zenon DEF Return
  <1>28. CASE RecRead
    BY <1>28 DEF RecRead
  <1>29. CASE RecProbe
    <2>1. recovery'.pc \in {"idle", "probe"} \/ status \notin Terminal
      BY <1>29, RecoveryAtType, Zenon DEF RecProbe
    <2>2. recovery'.pc \notin {"failRemove", "failRelease", "failReport"}
      BY <1>29, RecoveryAtType, Zenon DEF RecProbe
    <2>3. UNCHANGED <<bullVars, metaVars, holdVars, runVars, cancel, failure,
       boundVars>>
      BY <1>29, Zenon DEF RecProbe
    <2> QED
      BY <2>1, <2>2, <2>3 DEF ToldSettled
  <1>30. CASE RecRelease
    BY <1>30, RecoveryAtType DEF RecRelease, RecoveryAt
  <1>31. CASE RecMark
    BY <1>31 DEF RecMark, RecoveryAt
  <1>32. CASE RecRemove
    BY <1>32, RecoveringUntold, RecoveryAtType
       DEF RecRemove, RecoveryAt, Remove, Removable
  <1>33. CASE RecEnqueue
    BY <1>33, RecoveryAtType DEF RecEnqueue, RecoveryAt
  <1>34. CASE RecAdd
    BY <1>34 DEF RecAdd, RecoveryAt
  <1>35. CASE RecFail
    BY <1>35 DEF RecFail, RecoveryAt
  <1>36. CASE RecReport
    <2>1. CASE crashes # 0
      BY <1>36, <2>1 DEF RecReport
    <2>2. CASE crashes = 0
      <3>1. /\ recovery.pc = "failReport" /\ recovery'.pc = "idle"
            /\ announced = {} /\ bull = "none" /\ \A s \in Runs : pc[s] = "off"
        BY <1>36, <2>2, RecoveryAtType, RecoveringUntold DEF RecReport
      <3>2. /\ UNCHANGED <<bull, bullLock, pc, tries, verdict, failure>>
            /\ announced' = {"failed"}
        BY <1>36, <3>1 DEF RecReport
      <3> QED
        BY <2>2, <3>1, <3>2
    <2> QED
      BY <2>1, <2>2
  <1>37. CASE CancelAbort
    BY <1>37 DEF CancelAbort
  <1>38. CASE CancelRemove
    BY <1>38 DEF CancelRemove, Remove, Removable
  <1>39. CASE CancelMark
    BY <1>39 DEF CancelMark
  <1>40. CASE CancelUnlock
    BY <1>40 DEF CancelUnlock
  <1>41. CASE CancelFree
    BY <1>41 DEF CancelFree
  <1>42. CASE FailureRead
    BY <1>42, FailureAtType DEF FailureRead, FailureAt
  <1>43. CASE FailureMark
    BY <1>43 DEF FailureMark, FailureAt
  <1>44. CASE FailureRelease
    BY <1>44 DEF FailureRelease, FailureAt
  <1>45. CASE FailureReport
    BY <1>45 DEF FailureReport, FailureAt
  <1>46. CASE Promote
    BY <1>46 DEF Promote
  <1>47. CASE Stalled
    BY <1>47 DEF Stalled
  <1>48. CASE BullLockExpire
    BY <1>48 DEF BullLockExpire, Live
  <1>49. CASE LockExpire
    BY <1>49 DEF LockExpire, Live
  <1>50. CASE Age
    BY <1>50 DEF Age
  <1>51. CASE Crash
    BY <1>51 DEF Crash
  <1>52. CASE UNCHANGED vars
    BY <1>52 DEF vars
  <1>53. ASSUME NEW r \in Runs, Running(r) PROVE ToldLast'
    BY <1>53, <1>4, <1>5, <1>6, <1>7, <1>8, <1>9, <1>10, <1>11, <1>12, <1>13, <1>14,
       <1>15, <1>16, <1>17, <1>18, <1>19, <1>20, <1>21, <1>22, <1>23, <1>24, <1>25,
       <1>26, <1>27
       DEF Running
  <1>54. CASE Recovering
    BY <1>54, <1>28, <1>29, <1>30, <1>31, <1>32, <1>33, <1>34, <1>35, <1>36
       DEF Recovering
  <1>55. CASE Cancelling
    BY <1>55, <1>38, <1>39, <1>40, <1>41
       DEF Cancelling
  <1>56. CASE HandlingFailure
    BY <1>56, <1>42, <1>43, <1>44, <1>45
       DEF HandlingFailure
  <1>57. CASE Passing
    BY <1>57, <1>46, <1>47, <1>48, <1>49, <1>50
       DEF Passing
  <1> QED
    BY <1>1, <1>2, <1>3, <1>53, <1>54, <1>37, <1>55, <1>56, <1>57, <1>51, <1>52
       DEF Next

\* And the status of what was told.
LEMMA ToldSettledStep ==
  ASSUME Apart, MaxBlocks = 0, TypeOK, OneUnderway, ApartInv, ToldLast, ToldSettled,
         [Next]_vars
  PROVE  ToldSettled'
  <1> USE LifecycleAssumption DEF TypeOK, ToldSettled, Underway, Entering, Trying,
                                  Catching, Finishing, bullVars, metaVars, holdVars,
                                  flagVars, runVars, procVars, boundVars, Terminal
  <1>1. ASSUME NEW r \in Runs, Dispatch(r) PROVE ToldSettled'
    BY <1>1 DEF Dispatch, Step
  <1>2. ASSUME NEW r \in Runs, Progress(r) PROVE ToldSettled'
    <2>1. pc[r] \in {"work", "upload"} /\ pc[r] \in Underway
      BY <1>2 DEF Progress
    <2>2. CASE crashes = 0
      <3>1. /\ announced = {} /\ recovery.pc \in {"idle", "probe"}
            /\ \A s \in Runs : pc[s] \in Underway => s = r
        BY <2>1, <2>2, AtWorkUntold
      <3>2. UNCHANGED <<announced, recovery, pc>>
        BY <1>2 DEF Progress
      <3> QED
        BY <2>1, <3>1, <3>2
    <2> QED
      BY <1>2, <2>2 DEF Progress
  <1>3. ASSUME NEW r \in Runs, Block(r) PROVE ToldSettled'
    BY <1>3 DEF Block
  <1>4. ASSUME NEW r \in Runs, Start(r) PROVE ToldSettled'
    BY <1>4 DEF Start, Step
  <1>5. ASSUME NEW r \in Runs, Register(r) PROVE ToldSettled'
    BY <1>5 DEF Register, Step
  <1>6. ASSUME NEW r \in Runs, TakeLock(r) PROVE ToldSettled'
    BY <1>6 DEF TakeLock, Step
  <1>7. ASSUME NEW r \in Runs, Contend(r) PROVE ToldSettled'
    BY <1>7 DEF Contend, Step
  <1>8. ASSUME NEW r \in Runs, Claim(r) PROVE ToldSettled'
    BY <1>8 DEF Claim, Step
  <1>9. ASSUME NEW r \in Runs, Setup(r) PROVE ToldSettled'
    BY <1>9 DEF Setup, Step, Throw
  <1>10. ASSUME NEW r \in Runs, Reserve(r) PROVE ToldSettled'
    BY <1>10 DEF Reserve, Step, Throw
  <1>11. ASSUME NEW r \in Runs, StageReserved(r) PROVE ToldSettled'
    <2>1. pc[r] \in Underway \ {"report", "reportFailure"}
      BY <1>11 DEF StageReserved, Step, Throw
    <2>2. CASE crashes = 0
      <3>1. /\ announced = {} /\ recovery.pc \in {"idle", "probe"}
            /\ \A s \in Runs : pc[s] \in Underway => s = r
        BY <2>1, <2>2, AtWorkUntold
      <3>2. /\ UNCHANGED <<announced, recovery>>
            /\ \E to \in {"user", "work", "upload", "catch", "fail", "delay"} : pc' =
               [pc EXCEPT ![r] = to]
        BY <1>11 DEF StageReserved, Step, Throw
      <3> QED
        BY <3>1, <3>2
    <2> QED
      BY <1>11, <2>2 DEF StageReserved
  <1>12. ASSUME NEW r \in Runs, TakeUserSlot(r) PROVE ToldSettled'
    BY <1>12 DEF TakeUserSlot, Step, Throw
  <1>13. ASSUME NEW r \in Runs, Arm(r) PROVE ToldSettled'
    <2>1. pc[r] \in Underway \ {"report", "reportFailure"}
      BY <1>13 DEF Arm, Step, Throw
    <2>2. CASE crashes = 0
      <3>1. /\ announced = {} /\ recovery.pc \in {"idle", "probe"}
            /\ \A s \in Runs : pc[s] \in Underway => s = r
        BY <2>1, <2>2, AtWorkUntold
      <3>2. /\ UNCHANGED <<announced, recovery>>
            /\ \E to \in {"user", "work", "upload", "catch", "fail", "delay"} : pc' =
               [pc EXCEPT ![r] = to]
        BY <1>13 DEF Arm, Step, Throw
      <3> QED
        BY <3>1, <3>2
    <2> QED
      BY <1>13, <2>2 DEF Arm
  <1>14. ASSUME NEW r \in Runs, Work(r) PROVE ToldSettled'
    <2>1. pc[r] \in Underway \ {"report", "reportFailure"}
      BY <1>14 DEF Work, Step, Throw
    <2>2. CASE crashes = 0
      <3>1. /\ announced = {} /\ recovery.pc \in {"idle", "probe"}
            /\ \A s \in Runs : pc[s] \in Underway => s = r
        BY <2>1, <2>2, AtWorkUntold
      <3>2. /\ UNCHANGED <<announced, recovery>>
            /\ \E to \in {"user", "work", "upload", "catch", "fail", "delay"} : pc' =
               [pc EXCEPT ![r] = to]
        BY <1>14 DEF Work, Step, Throw
      <3> QED
        BY <3>1, <3>2
    <2> QED
      BY <1>14, <2>2 DEF Work
  <1>15. ASSUME NEW r \in Runs, Upload(r) PROVE ToldSettled'
    BY <1>15 DEF Upload, Step, Throw
  <1>16. ASSUME NEW r \in Runs, Complete(r) PROVE ToldSettled'
    BY <1>16, AtWorkUntold DEF Complete, Step, Stage
  <1>17. ASSUME NEW r \in Runs, Report(r) PROVE ToldSettled'
    BY <1>17 DEF Report, Step, Throw
  <1>18. ASSUME NEW r \in Runs, Catch(r) PROVE ToldSettled'
    BY <1>18 DEF Catch, Step
  <1>19. ASSUME NEW r \in Runs, ScheduleWait(r) PROVE ToldSettled'
    <2>1. pc[r] \in Underway \ {"report", "reportFailure"}
      BY <1>19 DEF ScheduleWait, Step, Throw
    <2>2. CASE crashes = 0
      <3>1. /\ announced = {} /\ recovery.pc \in {"idle", "probe"}
            /\ \A s \in Runs : pc[s] \in Underway => s = r
        BY <2>1, <2>2, AtWorkUntold
      <3>2. /\ UNCHANGED <<announced, recovery>>
            /\ \E to \in {"user", "work", "upload", "catch", "fail", "delay"} : pc' =
               [pc EXCEPT ![r] = to]
        BY <1>19 DEF ScheduleWait, Step, Throw
      <3> QED
        BY <3>1, <3>2
    <2> QED
      BY <1>19, <2>2 DEF ScheduleWait
  <1>20. ASSUME NEW r \in Runs, Delay(r) PROVE ToldSettled'
    BY <1>20 DEF Delay, Step
  <1>21. ASSUME NEW r \in Runs, Fail(r) PROVE ToldSettled'
    <2>1. pc[r] = "fail" /\ pc[r] \in Underway
      BY <1>21 DEF Fail, Step
    <2>2. CASE crashes = 0
      <3>1. /\ announced = {} /\ recovery.pc \in {"idle", "probe"}
            /\ \A s \in Runs : pc[s] \in Underway => s = r
        BY <2>1, <2>2, AtWorkUntold
      <3>2. /\ UNCHANGED <<announced, recovery>>
            /\ \/ pc' = [pc EXCEPT ![r] = "finSlot"]
               \/ pc' = [pc EXCEPT ![r] = "reportFailure"] /\ status' = "failed"
        BY <1>21 DEF Fail, Step, Stage
      <3> QED
        BY <2>1, <3>1, <3>2
    <2> QED
      BY <1>21, <2>2 DEF Fail
  <1>22. ASSUME NEW r \in Runs, ReportFailure(r) PROVE ToldSettled'
    BY <1>22 DEF ReportFailure, Step
  <1>23. ASSUME NEW r \in Runs, FinSlot(r) PROVE ToldSettled'
    BY <1>23 DEF FinSlot, Step
  <1>24. ASSUME NEW r \in Runs, FinDisk(r) PROVE ToldSettled'
    BY <1>24 DEF FinDisk, Step
  <1>25. ASSUME NEW r \in Runs, FinLock(r) PROVE ToldSettled'
    BY <1>25 DEF FinLock, Step
  <1>26. ASSUME NEW r \in Runs, FinUnlock(r) PROVE ToldSettled'
    BY <1>26 DEF FinUnlock, Step
  <1>27. ASSUME NEW r \in Runs, Return(r) PROVE ToldSettled'
    BY <1>27 DEF Return, Step
  <1>28. CASE RecRead
    BY <1>28 DEF RecRead
  <1>29. CASE RecProbe
    <2>1. recovery'.pc \in {"idle", "probe"} \/ status \notin Terminal
      BY <1>29, RecoveryAtType, Zenon DEF RecProbe
    <2>2. recovery'.pc \notin {"failRemove", "failRelease", "failReport"}
      BY <1>29, RecoveryAtType, Zenon DEF RecProbe
    <2>3. UNCHANGED <<bullVars, metaVars, holdVars, runVars, cancel, failure,
       boundVars>>
      BY <1>29, Zenon DEF RecProbe
    <2> QED
      BY <2>1, <2>2, <2>3 DEF ToldSettled
  <1>30. CASE RecRelease
    BY <1>30, RecoveryAtType DEF RecRelease, RecoveryAt
  <1>31. CASE RecMark
    BY <1>31, RecoveringUntold, RecoveryAtType DEF RecMark, RecoveryAt, Stage
  <1>32. CASE RecRemove
    BY <1>32, RecoveryAtType DEF RecRemove, RecoveryAt, Remove, Removable
  <1>33. CASE RecEnqueue
    BY <1>33, RecoveringUntold, RecoveryAtType DEF RecEnqueue, RecoveryAt
  <1>34. CASE RecAdd
    BY <1>34 DEF RecAdd, RecoveryAt
  <1>35. CASE RecFail
    BY <1>35, AtWorkUntold DEF RecFail, RecoveryAt, Stage
  <1>36. CASE RecReport
    BY <1>36 DEF RecReport, RecoveryAt
  <1>37. CASE CancelAbort
    BY <1>37 DEF CancelAbort
  <1>38. CASE CancelRemove
    BY <1>38 DEF CancelRemove, Remove, Removable
  <1>39. CASE CancelMark
    BY <1>39, AtWorkUntold DEF CancelMark, Stage
  <1>40. CASE CancelUnlock
    BY <1>40 DEF CancelUnlock
  <1>41. CASE CancelFree
    BY <1>41 DEF CancelFree
  <1>42. CASE FailureRead
    BY <1>42 DEF FailureRead, FailureAt
  <1>43. CASE FailureMark
    BY <1>43, AtWorkUntold DEF FailureMark, FailureAt, Stage
  <1>44. CASE FailureRelease
    BY <1>44 DEF FailureRelease, FailureAt
  <1>45. CASE FailureReport
    <2>1. crashes = 0 => announced = {"failed"}
      BY <1>45, FailureAtType DEF FailureReport, ToldLast
    <2>2. UNCHANGED <<status, pc, recovery, crashes>> /\ announced' = announced \cup
       {"failed"}
      BY <1>45 DEF FailureReport
    <2> QED
      BY <2>1, <2>2
  <1>46. CASE Promote
    BY <1>46 DEF Promote
  <1>47. CASE Stalled
    BY <1>47 DEF Stalled
  <1>48. CASE BullLockExpire
    BY <1>48 DEF BullLockExpire, Live
  <1>49. CASE LockExpire
    BY <1>49 DEF LockExpire, Live
  <1>50. CASE Age
    BY <1>50 DEF Age
  <1>51. CASE Crash
    BY <1>51 DEF Crash
  <1>52. CASE UNCHANGED vars
    BY <1>52 DEF vars
  <1>53. ASSUME NEW r \in Runs, Running(r) PROVE ToldSettled'
    BY <1>53, <1>4, <1>5, <1>6, <1>7, <1>8, <1>9, <1>10, <1>11, <1>12, <1>13, <1>14,
       <1>15, <1>16, <1>17, <1>18, <1>19, <1>20, <1>21, <1>22, <1>23, <1>24, <1>25,
       <1>26, <1>27
       DEF Running
  <1>54. CASE Recovering
    BY <1>54, <1>28, <1>29, <1>30, <1>31, <1>32, <1>33, <1>34, <1>35, <1>36
       DEF Recovering
  <1>55. CASE Cancelling
    BY <1>55, <1>38, <1>39, <1>40, <1>41
       DEF Cancelling
  <1>56. CASE HandlingFailure
    BY <1>56, <1>42, <1>43, <1>44, <1>45
       DEF HandlingFailure
  <1>57. CASE Passing
    BY <1>57, <1>46, <1>47, <1>48, <1>49, <1>50
       DEF Passing
  <1> QED
    BY <1>1, <1>2, <1>3, <1>53, <1>54, <1>37, <1>55, <1>56, <1>57, <1>51, <1>52
       DEF Next

\* Both hold at first.
LEMMA NothingToldYet == Init => ToldLast /\ ToldSettled
  BY PassTypes, LifecycleAssumption
     DEF Init, ToldLast, ToldSettled, LastTry, Underway, Leaving, Entering, Trying,
         Catching, Finishing

\* The run at work, before and after a step: the only one there is.
LEMMA OneAtWork ==
  /\ \A r \in Runs :
       /\ pc[r] \in Trying \cup Catching
       /\ \A s \in Runs : pc[s] \in Trying \cup Catching => s = r
       => AtWork = r
  /\ \A r \in Runs :
       /\ pc'[r] \in Trying \cup Catching
       /\ \A s \in Runs : pc'[s] \in Trying \cup Catching => s = r
       => AtWork' = r
  BY DEF AtWork, Executing

\* And nobody.
LEMMA NoneAtWork ==
  /\ (\A r \in Runs : pc[r] \notin Trying \cup Catching) => AtWork = NoRun
  /\ (\A r \in Runs : pc'[r] \notin Trying \cup Catching) => AtWork' = NoRun
  BY DEF AtWork, Executing

\* Most steps are none of the contract's business.
LEMMA StutterStep ==
  ASSUME Executing' = Executing, announced' = announced, crashes' = crashes
  PROVE  UNCHANGED Contract!vars
  BY DEF Contract!vars, AtWork

\* A run that leaves its catch block without a word drops the job.
LEMMA DropStep ==
  ASSUME TypeOK, OneUnderway, announced' = announced, crashes' = crashes,
         NEW r \in Runs, pc[r] \in Catching, pc' = [pc EXCEPT ![r] = "finSlot"]
  PROVE  Contract!Next
  <1>1. AtWork' = NoRun
    BY NoneAtWork DEF TypeOK, OneUnderway, Underway, Trying, Catching
  <1> QED
    BY <1>1 DEF Contract!Next, Contract!Drop

\* Every step of the service is a step of the contract, or none.
LEMMA ContractStep ==
  ASSUME Apart, MaxBlocks = 0, TypeOK, OneUnderway, ApartInv, ToldLast, [Next]_vars
  PROVE  [Contract!Next]_(Contract!vars)
  <1> USE LifecycleAssumption DEF TypeOK, Underway, Entering, Trying, Catching,
                                  Finishing, bullVars, metaVars, holdVars, flagVars,
                                  runVars, procVars, boundVars
  <1>1. ASSUME NEW r \in Runs, Dispatch(r) PROVE [Contract!Next]_(Contract!vars)
    BY <1>1, StutterStep DEF Dispatch, Step, Executing
  <1>2. ASSUME NEW r \in Runs, Progress(r) PROVE [Contract!Next]_(Contract!vars)
    BY <1>2, StutterStep DEF Progress, Executing
  <1>3. ASSUME NEW r \in Runs, Block(r) PROVE [Contract!Next]_(Contract!vars)
    BY <1>3, StutterStep DEF Block, Executing
  <1>4. ASSUME NEW r \in Runs, Start(r) PROVE [Contract!Next]_(Contract!vars)
    BY <1>4, StutterStep DEF Start, Step, Executing
  <1>5. ASSUME NEW r \in Runs, Register(r) PROVE [Contract!Next]_(Contract!vars)
    BY <1>5, StutterStep DEF Register, Step, Executing
  <1>6. ASSUME NEW r \in Runs, TakeLock(r) PROVE [Contract!Next]_(Contract!vars)
    <2>1. CASE pc' = [pc EXCEPT ![r] = "setup"]
      <3>1. pc[r] = "lock" /\ announced' = announced /\ crashes' = crashes
        BY <1>6 DEF TakeLock, Step
      <3>2. Contract!Take(r)
        BY <2>1, <3>1, AtWorkUntold, OneAtWork, NoneAtWork
           DEF OneUnderway, Contract!Take
      <3> QED
        BY <3>2 DEF Contract!Next
    <2>2. CASE pc' # [pc EXCEPT ![r] = "setup"]
      BY <1>6, <2>2, StutterStep DEF TakeLock, Step, Executing
    <2> QED
      BY <2>1, <2>2
  <1>7. ASSUME NEW r \in Runs, Contend(r) PROVE [Contract!Next]_(Contract!vars)
    BY <1>7, StutterStep DEF Contend, Step, Executing
  <1>8. ASSUME NEW r \in Runs, Claim(r) PROVE [Contract!Next]_(Contract!vars)
    <2>1. CASE pc' = [pc EXCEPT ![r] = "setup"]
      <3>1. pc[r] = "claim" /\ announced' = announced /\ crashes' = crashes
        BY <1>8 DEF Claim, Step
      <3>2. Contract!Take(r)
        BY <2>1, <3>1, AtWorkUntold, OneAtWork, NoneAtWork
           DEF OneUnderway, Contract!Take
      <3> QED
        BY <3>2 DEF Contract!Next
    <2>2. CASE pc' # [pc EXCEPT ![r] = "setup"]
      BY <1>8, <2>2, StutterStep DEF Claim, Step, Executing
    <2> QED
      BY <2>1, <2>2
  <1>9. ASSUME NEW r \in Runs, Setup(r) PROVE [Contract!Next]_(Contract!vars)
    BY <1>9, StutterStep DEF Setup, Step, Throw, Executing
  <1>10. ASSUME NEW r \in Runs, Reserve(r) PROVE [Contract!Next]_(Contract!vars)
    BY <1>10, StutterStep DEF Reserve, Step, Throw, Executing
  <1>11. ASSUME NEW r \in Runs, StageReserved(r) PROVE [Contract!Next]_(Contract!vars)
    BY <1>11, StutterStep DEF StageReserved, Step, Executing
  <1>12. ASSUME NEW r \in Runs, TakeUserSlot(r) PROVE [Contract!Next]_(Contract!vars)
    BY <1>12, StutterStep DEF TakeUserSlot, Step, Throw, Executing
  <1>13. ASSUME NEW r \in Runs, Arm(r) PROVE [Contract!Next]_(Contract!vars)
    BY <1>13, StutterStep DEF Arm, Step, Throw, Executing
  <1>14. ASSUME NEW r \in Runs, Work(r) PROVE [Contract!Next]_(Contract!vars)
    BY <1>14, StutterStep DEF Work, Step, Throw, Executing
  <1>15. ASSUME NEW r \in Runs, Upload(r) PROVE [Contract!Next]_(Contract!vars)
    BY <1>15, StutterStep DEF Upload, Step, Throw, Executing
  <1>16. ASSUME NEW r \in Runs, Complete(r) PROVE [Contract!Next]_(Contract!vars)
    BY <1>16, StutterStep DEF Complete, Step, Executing
  <1>17. ASSUME NEW r \in Runs, Report(r) PROVE [Contract!Next]_(Contract!vars)
    <2>1. CASE pc' = [pc EXCEPT ![r] = "finSlot"]
      <3>1. pc[r] = "report" /\ announced' = announced \cup {"completed"} /\ crashes'
         = crashes
        BY <1>17, <2>1 DEF Report, Step, Throw
      <3>2. AtWork = r /\ AtWork' = NoRun
        BY <2>1, <3>1, OneAtWork, NoneAtWork DEF OneUnderway
      <3>3. crashes = 0 => announced = {}
        BY <3>1, AtWorkUntold
      <3> QED
        BY <3>1, <3>2, <3>3 DEF Contract!Next, Contract!Tell, Contract!Outcomes
    <2>2. CASE pc' # [pc EXCEPT ![r] = "finSlot"]
      BY <1>17, <2>2, StutterStep DEF Report, Step, Throw, Executing
    <2> QED
      BY <2>1, <2>2
  <1>18. ASSUME NEW r \in Runs, Catch(r) PROVE [Contract!Next]_(Contract!vars)
    <2>1. CASE pc' = [pc EXCEPT ![r] = "finSlot"]
      <3>1. pc[r] \in Catching /\ announced' = announced /\ crashes' = crashes
        BY <1>18 DEF Catch, Step
      <3> QED
        BY <2>1, <3>1, DropStep
    <2>2. CASE pc' # [pc EXCEPT ![r] = "finSlot"]
      BY <1>18, <2>2, StutterStep DEF Catch, Step, Executing
    <2> QED
      BY <2>1, <2>2
  <1>19. ASSUME NEW r \in Runs, ScheduleWait(r) PROVE [Contract!Next]_(Contract!vars)
    BY <1>19, StutterStep DEF ScheduleWait, Step, Executing
  <1>20. ASSUME NEW r \in Runs, Delay(r) PROVE [Contract!Next]_(Contract!vars)
    <2>1. CASE pc' = [pc EXCEPT ![r] = "finSlot"]
      <3>1. pc[r] \in Catching /\ announced' = announced /\ crashes' = crashes
        BY <1>20 DEF Delay, Step
      <3> QED
        BY <2>1, <3>1, DropStep
    <2>2. CASE pc' # [pc EXCEPT ![r] = "finSlot"]
      BY <1>20, <2>2, StutterStep DEF Delay, Step, Executing
    <2> QED
      BY <2>1, <2>2
  <1>21. ASSUME NEW r \in Runs, Fail(r) PROVE [Contract!Next]_(Contract!vars)
    <2>1. CASE pc' = [pc EXCEPT ![r] = "finSlot"]
      <3>1. pc[r] \in Catching /\ announced' = announced /\ crashes' = crashes
        BY <1>21 DEF Fail, Step
      <3> QED
        BY <2>1, <3>1, DropStep
    <2>2. CASE pc' # [pc EXCEPT ![r] = "finSlot"]
      BY <1>21, <2>2, StutterStep DEF Fail, Step, Executing
    <2> QED
      BY <2>1, <2>2
  <1>22. ASSUME NEW r \in Runs, ReportFailure(r) PROVE [Contract!Next]_(Contract!vars)
    <2>1. CASE pc' = [pc EXCEPT ![r] = "finSlot"]
      <3>1. pc[r] = "reportFailure" /\ announced' = announced \cup {"failed"} /\
         crashes' = crashes
        BY <1>22, <2>1 DEF ReportFailure, Step, Throw
      <3>2. AtWork = r /\ AtWork' = NoRun
        BY <2>1, <3>1, OneAtWork, NoneAtWork DEF OneUnderway
      <3>3. crashes = 0 => announced = {}
        BY <3>1, AtWorkUntold
      <3> QED
        BY <3>1, <3>2, <3>3 DEF Contract!Next, Contract!Tell, Contract!Outcomes
    <2>2. CASE pc' # [pc EXCEPT ![r] = "finSlot"]
      BY <1>22, <2>2, StutterStep DEF ReportFailure, Step, Throw, Executing
    <2> QED
      BY <2>1, <2>2
  <1>23. ASSUME NEW r \in Runs, FinSlot(r) PROVE [Contract!Next]_(Contract!vars)
    BY <1>23, StutterStep DEF FinSlot, Step, Executing
  <1>24. ASSUME NEW r \in Runs, FinDisk(r) PROVE [Contract!Next]_(Contract!vars)
    BY <1>24, StutterStep DEF FinDisk, Step, Executing
  <1>25. ASSUME NEW r \in Runs, FinLock(r) PROVE [Contract!Next]_(Contract!vars)
    BY <1>25, StutterStep DEF FinLock, Step, Executing
  <1>26. ASSUME NEW r \in Runs, FinUnlock(r) PROVE [Contract!Next]_(Contract!vars)
    BY <1>26, StutterStep DEF FinUnlock, Step, Executing
  <1>27. ASSUME NEW r \in Runs, Return(r) PROVE [Contract!Next]_(Contract!vars)
    BY <1>27, StutterStep DEF Return, Step, Executing
  <1>28. CASE RecRead
    BY <1>28, StutterStep DEF RecRead, Executing
  <1>29. CASE RecProbe
    BY <1>29, StutterStep DEF RecProbe, RecoveryAt, Executing
  <1>30. CASE RecRelease
    BY <1>30, StutterStep DEF RecRelease, RecoveryAt, Executing
  <1>31. CASE RecMark
    BY <1>31, StutterStep DEF RecMark, RecoveryAt, Executing
  <1>32. CASE RecRemove
    BY <1>32, StutterStep DEF RecRemove, RecoveryAt, Remove, Removable, Executing
  <1>33. CASE RecEnqueue
    BY <1>33, StutterStep DEF RecEnqueue, RecoveryAt, Executing
  <1>34. CASE RecAdd
    BY <1>34, StutterStep DEF RecAdd, RecoveryAt, Executing
  <1>35. CASE RecFail
    BY <1>35, StutterStep DEF RecFail, RecoveryAt, Executing
  <1>36. CASE RecReport
    <2>1. /\ announced' = announced \cup {"failed"}
          /\ crashes' = crashes /\ pc' = pc
      BY <1>36 DEF RecReport
    <2>2. AtWork' = AtWork
      BY <2>1 DEF AtWork, Executing
    <2>3. crashes = 0 => announced \subseteq {"failed"} /\ AtWork = NoRun
      BY <1>36, RecoveryAtType, RecoveringUntold, NoneAtWork DEF RecReport
    <2> QED
      BY <2>1, <2>2, <2>3 DEF Contract!Next, Contract!Tell, Contract!Outcomes
  <1>37. CASE CancelAbort
    BY <1>37, StutterStep DEF CancelAbort, Executing
  <1>38. CASE CancelRemove
    BY <1>38, StutterStep DEF CancelRemove, Remove, Removable, Executing
  <1>39. CASE CancelMark
    BY <1>39, StutterStep DEF CancelMark, Executing
  <1>40. CASE CancelUnlock
    BY <1>40, StutterStep DEF CancelUnlock, Executing
  <1>41. CASE CancelFree
    BY <1>41, StutterStep DEF CancelFree, Executing
  <1>42. CASE FailureRead
    BY <1>42, StutterStep DEF FailureRead, FailureAt, Executing
  <1>43. CASE FailureMark
    BY <1>43, StutterStep DEF FailureMark, FailureAt, Executing
  <1>44. CASE FailureRelease
    BY <1>44, StutterStep DEF FailureRelease, FailureAt, Executing
  <1>45. CASE FailureReport
    <2>1. /\ announced' = announced \cup {"failed"}
          /\ crashes' = crashes /\ pc' = pc
      BY <1>45 DEF FailureReport
    <2>2. AtWork' = AtWork
      BY <2>1 DEF AtWork, Executing
    <2>3. crashes = 0 => announced \subseteq {"failed"} /\ AtWork = NoRun
      <3>1. crashes = 0 => announced = {"failed"}
        BY <1>45, FailureAtType DEF FailureReport, ToldLast
      <3> QED
        BY <3>1, AtWorkUntold, NoneAtWork
    <2> QED
      BY <2>1, <2>2, <2>3 DEF Contract!Next, Contract!Tell, Contract!Outcomes
  <1>46. CASE Promote
    BY <1>46, StutterStep DEF Promote, Executing
  <1>47. CASE Stalled
    BY <1>47, StutterStep DEF Stalled, Executing
  <1>48. CASE BullLockExpire
    BY <1>48, StutterStep DEF BullLockExpire, Live, Executing
  <1>49. CASE LockExpire
    BY <1>49, StutterStep DEF LockExpire, Live, Executing
  <1>50. CASE Age
    BY <1>50, StutterStep DEF Age, Executing
  <1>51. CASE Crash
    <2>1. announced' = announced /\ crashes' # 0 /\ pc' = [r \in Runs |-> "off"]
      BY <1>51 DEF Crash
    <2>2. AtWork' = NoRun
      BY <2>1, NoneAtWork
    <2> QED
      BY <2>1, <2>2 DEF Contract!Next, Contract!Crash
  <1>52. CASE UNCHANGED vars
    BY <1>52, StutterStep DEF vars, Executing
  <1>53. ASSUME NEW r \in Runs, Running(r) PROVE [Contract!Next]_(Contract!vars)
    BY <1>53, <1>4, <1>5, <1>6, <1>7, <1>8, <1>9, <1>10, <1>11, <1>12, <1>13, <1>14,
       <1>15, <1>16, <1>17, <1>18, <1>19, <1>20, <1>21, <1>22, <1>23, <1>24, <1>25,
       <1>26, <1>27
       DEF Running
  <1>54. CASE Recovering
    BY <1>54, <1>28, <1>29, <1>30, <1>31, <1>32, <1>33, <1>34, <1>35, <1>36
       DEF Recovering
  <1>55. CASE Cancelling
    BY <1>55, <1>38, <1>39, <1>40, <1>41
       DEF Cancelling
  <1>56. CASE HandlingFailure
    BY <1>56, <1>42, <1>43, <1>44, <1>45
       DEF HandlingFailure
  <1>57. CASE Passing
    BY <1>57, <1>46, <1>47, <1>48, <1>49, <1>50
       DEF Passing
  <1> QED
    BY <1>1, <1>2, <1>3, <1>53, <1>54, <1>37, <1>55, <1>56, <1>57, <1>51, <1>52
       DEF Next

\* If recovery keeps apart from live runs and no run loses BullMQ's lock, the service
\* keeps the safety part of the contract, with any number of crashes and cancellations:
\* one run at a time, until a crash one outcome and no work after it, and success told
\* by the run at work only.  All of the contract, if it tells the client at all.
THEOREM ContractKept ==
  ASSUME Apart, MaxBlocks = 0
  PROVE  Spec => Contract!Safety /\ (Contract!Told => KeepsContract)
  <1>1. Init => Contract!Init
    <2>1. Init => AtWork = NoRun
      BY NoneAtWork DEF Init, Trying, Catching
    <2> QED
      BY <2>1 DEF Init, Contract!Init
  <1>2. TypeOK /\ OnceInv /\ ApartInv /\ ToldLast /\ ToldSettled /\ [Next]_vars =>
          ToldLast' /\ ToldSettled' /\ [Contract!Next]_(Contract!vars)
    BY OneUnderwayHolds, ToldLastStep, ToldSettledStep, ContractStep
  <1>3. Spec => Contract!Safety
    BY <1>1, <1>2, Typing, OnceInvInductive, ApartInvInductive, NothingToldYet, PTL
       DEF Spec, Contract!Safety
  <1> QED
    BY <1>3, PTL DEF KeepsContract, Contract!Spec

=============================================================================
