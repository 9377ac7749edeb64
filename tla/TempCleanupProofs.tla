------------------------- MODULE TempCleanupProofs -------------------------
(* Proofs about TempCleanup, for any number of submissions, crashes and         *)
(* cancellations.                                                               *)
EXTENDS TempCleanup, TLAPS

-----------------------------------------------------------------------------
(* What a pass has read.                                                    *)

PassRecords == [pc : PassStates, age : 0 .. MaintenanceAge,
                status : {"missing", "blank"} \cup Active \cup Over, met : BOOLEAN]

Statuses == {"missing", "blank"} \cup Active \cup Over

\* No pass.
LEMMA IdlePass == Idle \in PassRecords /\ Idle.pc = "idle" /\ ~ Idle.met
  BY DEF PassRecords, Idle, PassStates, MaintenanceAge

\* A pass begins.
LEMMA PassBegins ==
  ASSUME dir \in Gone .. MaintenanceAge, Begin(TRUE)
  PROVE  pass' \in PassRecords /\ pass'.pc = "lock" /\ ~ pass'.met
  <1>1. dir \in 0 .. MaintenanceAge /\ pass' = [Idle EXCEPT !.pc = "lock", !.age = dir]
    BY DEF Begin, There, Gone, MaintenanceAge
  <1> QED
    BY <1>1 DEF PassRecords, Idle, PassStates, Reads, MaintenanceAge

\* A job is dispatched, perhaps during a pass.
LEMMA PassMeets ==
  ASSUME pass \in PassRecords, Dispatch
  PROVE  pass' \in PassRecords /\ pass'.pc = pass.pc /\ (pass.pc # "idle" => pass'.met)
  <1>1. pass' = [pass EXCEPT !.met = (pass.pc # "idle")]
    BY DEF Dispatch
  <1> QED
    BY <1>1 DEF PassRecords

\* The next read: an objection ends the pass, otherwise it goes on.
LEMMA PassReads ==
  ASSUME pass \in PassRecords, hash.status \in Statuses, Read
  PROVE  /\ pass' \in PassRecords
         /\ \/ pass'.pc = "idle"
            \/ /\ ~ Objection(pass.pc)
               /\ pass'.met = pass.met
               /\ \/ pass.pc = "lock" /\ pass'.pc = "reservation"
                  \/ pass.pc = "reservation" /\ pass'.pc = "meta"
                  \/ pass.pc = "meta" /\ pass'.pc = "bull"
                  \/ pass.pc = "bull" /\ pass'.pc = "rm"
  <1>1. CASE Objection(pass.pc)
    BY <1>1, IdlePass DEF Read
  <1>2. CASE ~ Objection(pass.pc)
    <2>1. CASE pass.pc = "lock"
      <3>1. pass' = [pass EXCEPT !.pc = "reservation"]
        BY <1>2, <2>1 DEF Read, Following
      <3> QED
        BY <1>2, <2>1, <3>1 DEF PassRecords, PassStates, Reads
    <2>2. CASE pass.pc = "reservation"
      <3>1. pass' = [pass EXCEPT !.pc = "meta"]
        BY <1>2, <2>2 DEF Read, Following
      <3> QED
        BY <1>2, <2>2, <3>1 DEF PassRecords, PassStates, Reads
    <2>3. CASE pass.pc = "meta"
      <3>1. pass' = [pass EXCEPT !.pc = "bull", !.status = hash.status]
        BY <1>2, <2>3 DEF Read
      <3> QED
        BY <1>2, <2>3, <3>1 DEF PassRecords, PassStates, Reads, Statuses
    <2>4. CASE pass.pc = "bull"
      <3>1. pass' = [Idle EXCEPT !.pc = "rm", !.met = pass.met]
        BY <1>2, <2>4 DEF Read
      <3>2. pass' = [pc |-> "rm", age |-> 0, status |-> "missing", met |-> pass.met]
        BY <3>1 DEF Idle
      <3>3. pass.met \in BOOLEAN
        BY DEF PassRecords
      <3>4. pass' \in PassRecords
        BY <3>2, <3>3 DEF PassRecords, PassStates, MaintenanceAge
      <3> QED
        BY <1>2, <2>4, <3>2, <3>4
    <2> QED
      BY <2>1, <2>2, <2>3, <2>4 DEF Read, Reads
  <1> QED
    BY <1>1, <1>2

-----------------------------------------------------------------------------
(* What is written to the job hash.                                         *)

LEMMA StatusSet ==
  ASSUME hash \in Hash, NEW s \in Statuses, SetStatus(s)
  PROVE  /\ hash' \in Hash /\ hash'.status = s /\ hash'.due = hash.due
         /\ s # "FAILED" => recent' = "nobody"
         /\ recent' = "handler" => lock
  BY DEF SetStatus, Hash, Statuses

LEMMA Patched ==
  ASSUME hash \in Hash, NEW s \in Statuses, Patch(s)
  PROVE  /\ hash' \in Hash /\ hash'.status = s /\ hash'.due = hash.due
         /\ s # "FAILED" => recent' = "nobody"
         /\ recent' # "handler"
  BY DEF Patch, Hash, Statuses

LEMMA DueSet ==
  ASSUME hash \in Hash, NEW d \in {"none", "later", "past"}, SetDue(d)
  PROVE  /\ hash' \in Hash /\ hash'.due = d
         /\ hash.status # "missing" => hash'.status = hash.status
  BY DEF SetDue, Hash

LEMMA DueCleared ==
  ASSUME hash \in Hash, ClearDue
  PROVE  hash' \in Hash /\ hash'.status = hash.status
  BY DEF ClearDue, Hash

LEMMA NoHash == Missing \in Hash /\ Blank \in Hash
  BY DEF Missing, Blank, Hash

-----------------------------------------------------------------------------
(* What holds of directory, hash, pass and handler whoever interferes. *)

\* A recorded failure is there to be read, and a handler before its finally block has
\* its job active in BullMQ.
TempInv ==
  /\ dir \in Gone .. MaintenanceAge /\ hash \in Hash /\ pass \in PassRecords
  /\ recent # "nobody" => hash.status = "FAILED"
  /\ pc \in Running => bull = "active"

LEMMA TempInvInductive ==
  /\ Init => TempInv
  /\ TempInv /\ [Next]_vars => TempInv'
  <1>1. Init => TempInv
    BY IdlePass, NoHash DEF Init, TempInv, Running, MaintenanceAge, Gone
  <1>2. ASSUME TempInv, [Next]_vars PROVE TempInv'
    <2> USE <1>2 DEF TempInv, Running, redisVars, handlerVars, boundVars, bullVars
    <2>1. CASE Submit
      BY <2>1, StatusSet DEF Submit, Statuses, Active
    <2>2. CASE Dispatch
      BY <2>2, PassMeets DEF Dispatch
    <2>3. CASE Reserve
      BY <2>3, StatusSet DEF Reserve, Statuses, Active
    <2>4. CASE MakeDir
      BY <2>4, StatusSet DEF MakeDir, Statuses, Active, MaintenanceAge, Gone
    <2>5. CASE Work
      BY <2>5, StatusSet DEF Work, Statuses, Active, MaintenanceAge, Gone
    <2>6. CASE Stop
      BY <2>6, StatusSet, DueCleared DEF Stop, Statuses, Active, Over, MaintenanceAge, Gone
    <2>7. CASE Free
      BY <2>7 DEF Free
    <2>8. CASE Mark
      BY <2>8, DueSet, DueCleared DEF Mark, RemoveOrMark, MaintenanceAge, Gone
    <2>9. CASE Unlock
      BY <2>9 DEF Unlock
    <2>10. CASE Return
      BY <2>10, Patched DEF Return, OnFailed, Statuses, Over
    <2>11. CASE Stalled
      BY <2>11, Patched DEF Stalled, OnFailed, Statuses, Over
    <2>12. CASE Recover
      BY <2>12, StatusSet, Patched DEF Recover, Statuses, Active, Over
    <2>13. CASE CancelMark
      BY <2>13, Patched DEF CancelMark, Statuses, Over
    <2>14. CASE CancelFree
      BY <2>14, DueCleared DEF CancelFree, MaintenanceAge, Gone
    <2>15. CASE Crash
      BY <2>15, IdlePass DEF Crash
    <2>16. CASE Age
      BY <2>16 DEF Age, There, MaintenanceAge, Gone
    <2>17. CASE HalfHour
      BY <2>17 DEF HalfHour, Hash
    <2>18. CASE LockLapse
      BY <2>18 DEF LockLapse
    <2>19. CASE HashExpire
      BY <2>19, NoHash DEF HashExpire
    <2>20. CASE Purge
      BY <2>20, NoHash DEF Purge
    <2>21. CASE Clean
      BY <2>21 DEF Clean
    <2>22. CASE View
      BY <2>22, NoHash DEF View, Missing, Blank
    <2>23. CASE Begin(TRUE)
      BY <2>23, PassBegins DEF Begin
    <2>24. CASE Read
      BY <2>24, PassReads DEF Read, Hash, Statuses
    <2>25. CASE Remove
      BY <2>25, IdlePass DEF Remove, MaintenanceAge, Gone
    <2>26. CASE UNCHANGED vars
      BY <2>26 DEF vars
    <2> QED
      BY <2>1, <2>2, <2>3, <2>4, <2>5, <2>6, <2>7, <2>8, <2>9, <2>10, <2>11, <2>12, <2>13,
         <2>14, <2>15, <2>16, <2>17, <2>18, <2>19, <2>20, <2>21, <2>22, <2>23, <2>24, <2>25, <2>26
      DEF Next, Job, Handler, Finally, Time, Pass
  <1> QED
    BY <1>1, <1>2

-----------------------------------------------------------------------------
(* Types: flags and places, for which the rest of the state does not matter. *)

Flags ==
  /\ stalled \in BOOLEAN /\ lock \in BOOLEAN /\ reserved \in BOOLEAN
  /\ held \in BOOLEAN /\ viewing \in BOOLEAN /\ cancelling \in BOOLEAN

Places ==
  /\ bull \in {"waiting", "active", "completed", "none"}
  /\ pc \in {"idle", "locked", "reserved", "work", "free", "mark", "unlock", "return"}
  /\ outcome \in {"none", "aborted", "waiting", "RETRYING"} \cup Over
  /\ recent \in {"nobody", "handler", "other"}
  /\ submits \in 0 .. MaxSubmits /\ crashes \in 0 .. MaxCrashes /\ cancels \in 0 .. MaxCancels

LEMMA FlagsInductive ==
  /\ Init => Flags
  /\ Flags /\ [Next]_vars => Flags'
  <1> USE CleanupAssumption
  <1>1. Init => Flags
    BY DEF Init, Flags
  <1>2. ASSUME Flags, [Next]_vars PROVE Flags'
    <2> USE <1>2 DEF Flags, redisVars, handlerVars, boundVars, bullVars
    <2>1. CASE Submit
      BY <2>1 DEF Submit, SetStatus
    <2>2. CASE Dispatch
      BY <2>2 DEF Dispatch
    <2>3. CASE Reserve
      BY <2>3 DEF Reserve, SetStatus
    <2>4. CASE MakeDir
      BY <2>4 DEF MakeDir, SetStatus
    <2>5. CASE Work
      BY <2>5 DEF Work, SetStatus
    <2>6. CASE Stop
      BY <2>6 DEF Stop, SetStatus
    <2>7. CASE Finally
      BY <2>7 DEF Finally, Free, Mark, RemoveOrMark, Unlock, Return, OnFailed, Patch
    <2>8. CASE Stalled
      BY <2>8 DEF Stalled, OnFailed, Patch
    <2>9. CASE Recover
      BY <2>9 DEF Recover, SetStatus, Patch
    <2>10. CASE CancelMark \/ CancelFree
      BY <2>10 DEF CancelMark, CancelFree, Patch
    <2>11. CASE Crash
      BY <2>11 DEF Crash
    <2>12. CASE Time
      BY <2>12 DEF Time, Age, HalfHour, LockLapse, HashExpire, Purge, Clean
    <2>13. CASE View
      BY <2>13 DEF View
    <2>14. CASE Pass
      BY <2>14 DEF Pass, Begin, Read, Remove
    <2>15. CASE UNCHANGED vars
      BY <2>15 DEF vars
    <2> QED
      BY <2>1, <2>2, <2>3, <2>4, <2>5, <2>6, <2>7, <2>8, <2>9, <2>10, <2>11, <2>12, <2>13,
         <2>14, <2>15
      DEF Next, Job, Handler
  <1> QED
    BY <1>1, <1>2

LEMMA PlacesInductive ==
  /\ Init => Places
  /\ Places /\ [Next]_vars => Places'
  <1> USE CleanupAssumption
  <1>1. Init => Places
    BY DEF Init, Places
  <1>2. ASSUME Places, [Next]_vars PROVE Places'
    <2> USE <1>2 DEF Places, Over, redisVars, handlerVars, boundVars, bullVars
    <2>1. CASE Submit
      BY <2>1 DEF Submit, SetStatus
    <2>2. CASE Dispatch
      BY <2>2 DEF Dispatch
    <2>3. CASE Reserve
      BY <2>3 DEF Reserve, SetStatus
    <2>4. CASE MakeDir
      BY <2>4 DEF MakeDir, SetStatus
    <2>5. CASE Work
      BY <2>5 DEF Work, SetStatus
    <2>6. CASE Stop
      BY <2>6 DEF Stop, SetStatus
    <2>7. CASE Finally
      BY <2>7 DEF Finally, Free, Mark, RemoveOrMark, Unlock, Return, OnFailed, Patch
    <2>8. CASE Stalled
      BY <2>8 DEF Stalled, OnFailed, Patch
    <2>9. CASE Recover
      BY <2>9 DEF Recover, SetStatus, Patch
    <2>10. CASE CancelMark \/ CancelFree
      BY <2>10 DEF CancelMark, CancelFree, Patch
    <2>11. CASE Crash
      BY <2>11 DEF Crash
    <2>12. CASE Time
      BY <2>12 DEF Time, Age, HalfHour, LockLapse, HashExpire, Purge, Clean
    <2>13. CASE View
      BY <2>13 DEF View
    <2>14. CASE Pass
      BY <2>14 DEF Pass, Begin, Read, Remove
    <2>15. CASE UNCHANGED vars
      BY <2>15 DEF vars
    <2> QED
      BY <2>1, <2>2, <2>3, <2>4, <2>5, <2>6, <2>7, <2>8, <2>9, <2>10, <2>11, <2>12, <2>13,
         <2>14, <2>15
      DEF Next, Job, Handler
  <1> QED
    BY <1>1, <1>2

\* Every variable keeps its type, and a failure that counts as recent is in the job hash.
THEOREM Typing == Spec => []TypeOK
  <1>1. TempInv /\ Flags /\ Places => TypeOK
    BY DEF TempInv, Flags, Places, TypeOK, PassRecords
  <1> QED
    BY <1>1, TempInvInductive, FlagsInductive, PlacesInductive, PTL DEF Spec

-----------------------------------------------------------------------------
(* The handler at work, and the pass about to remove. *)

\* A pass that has made up its mind has no handler before its finally block beside it.
RemovalInv == pass.pc = "rm" => pc \notin Running

\* If no job is dispatched after a pass's last read, that read shows the handler.
LEMMA RemovalInvInductive ==
  ASSUME "rm" \notin Overlap
  PROVE  Spec => []RemovalInv
  <1>1. Init => RemovalInv
    BY DEF Init, RemovalInv, Running
  <1>2. TempInv /\ RemovalInv /\ [Next]_vars => RemovalInv'
    <2> SUFFICES ASSUME TempInv, RemovalInv, [Next]_vars PROVE RemovalInv'
      OBVIOUS
    <2> USE DEF TempInv, RemovalInv, Running, redisVars, handlerVars, boundVars, bullVars
    <2>1. CASE Submit
      BY <2>1 DEF Submit
    <2>2. CASE Dispatch
      BY <2>2, PassMeets DEF Dispatch
    <2>3. CASE Reserve \/ MakeDir \/ Work
      BY <2>3 DEF Reserve, MakeDir, Work
    <2>4. CASE Stop
      BY <2>4 DEF Stop
    <2>5. CASE Finally
      BY <2>5 DEF Finally, Free, Mark, Unlock, Return
    <2>6. CASE Stalled \/ Recover
      BY <2>6 DEF Stalled, Recover
    <2>7. CASE CancelMark \/ CancelFree
      BY <2>7 DEF CancelMark, CancelFree
    <2>8. CASE Crash
      BY <2>8, IdlePass DEF Crash
    <2>9. CASE Time \/ View
      BY <2>9 DEF Time, Age, HalfHour, LockLapse, HashExpire, Purge, Clean, View
    <2>10. CASE Begin(TRUE)
      BY <2>10, PassBegins DEF Begin
    <2>11. CASE Read
      BY <2>11, PassReads DEF Read, Objection, Hash, Statuses
    <2>12. CASE Remove
      BY <2>12, IdlePass DEF Remove
    <2>13. CASE UNCHANGED vars
      BY <2>13 DEF vars
    <2> QED
      BY <2>1, <2>2, <2>3, <2>4, <2>5, <2>6, <2>7, <2>8, <2>9, <2>10, <2>11, <2>12, <2>13
      DEF Next, Job, Handler, Finally, Time, Pass
  <1> QED
    BY <1>1, <1>2, TempInvInductive, PTL DEF Spec

\* Under that hypothesis a cleanup pass never removes the directory that a handler works
\* in, whatever keys recovery, a cancellation or a snapshot has deleted or written while
\* the pass was reading: the last thing it reads is BullMQ's state.
THEOREM DirectoryStays ==
  ASSUME "rm" \notin Overlap
  PROVE  Spec => NotPulledAway
  <1>1. RemovalInv /\ [Next]_vars => [Remove => pc # "work"]_vars
    BY DEF RemovalInv, Running, Remove
  <1> QED
    BY <1>1, RemovalInvInductive, PTL DEF Spec, NotPulledAway

-----------------------------------------------------------------------------
(* The half hour after a failure, until a crash. *)

\* A failure that a handler has just recorded is protected by the handler's lock until
\* its finally block sets the mark, and by the mark from then on.  A pass that has
\* found no lock will not find a handler with one, unless it is dispatched meanwhile;
\* so it finds the mark, and does not get past its reading of the metadata.
RetentionInv ==
  /\ crashes \in Nat
  /\ pc = "idle" => outcome = "none"
  /\ crashes = 0 =>
       /\ pc \in Running /\ outcome = "aborted" => recent # "handler"
       /\ pc \in {"free", "mark"} /\ recent = "handler" => outcome = "FAILED"
       /\ There /\ recent = "handler" => (pc \in {"free", "mark"} /\ lock) \/ hash.due = "later"
       /\ pass.pc \in {"reservation", "meta", "bull", "rm"} /\ ~ pass.met
            /\ pc \in Running \cup {"free", "mark"} => ~ lock
       /\ pass.pc \in {"bull", "rm"} /\ ~ pass.met => ~ (There /\ recent = "handler")

LEMMA RetentionInvInductive ==
  /\ Init => RetentionInv
  /\ TempInv /\ RetentionInv /\ [Next]_vars => RetentionInv'
  <1>1. Init => RetentionInv
    BY DEF Init, RetentionInv, Running, Idle
  <1>2. ASSUME TempInv, RetentionInv, [Next]_vars PROVE RetentionInv'
    <2> USE <1>2, CleanupAssumption DEF TempInv, RetentionInv, There, Running, redisVars,
                                        handlerVars, boundVars, bullVars
    <2>1. CASE Submit
      BY <2>1, StatusSet DEF Submit, Statuses, Active
    <2>2. CASE Dispatch
      BY <2>2, PassMeets DEF Dispatch
    <2>3. CASE Reserve
      BY <2>3, StatusSet DEF Reserve, Statuses, Active
    <2>4. CASE MakeDir
      BY <2>4, StatusSet DEF MakeDir, Statuses, Active, There
    <2>5. CASE Work
      BY <2>5, StatusSet DEF Work, Statuses, Active, There
    <2>6. CASE Stop
      BY <2>6, StatusSet, DueCleared DEF Stop, Statuses, Active, Over, Cancelled
    <2>7. CASE Free
      BY <2>7 DEF Free
    <2>8. CASE Mark
      BY <2>8, DueSet, DueCleared DEF Mark, RemoveOrMark, There
    <2>9. CASE Unlock
      BY <2>9 DEF Unlock
    <2>10. CASE Return
      BY <2>10, Patched DEF Return, OnFailed, Statuses, Over
    <2>11. CASE Stalled
      BY <2>11, Patched DEF Stalled, OnFailed, Statuses, Over
    <2>12. CASE Recover
      BY <2>12, StatusSet, Patched DEF Recover, Statuses, Active, Over
    <2>13. CASE CancelMark
      BY <2>13, Patched DEF CancelMark, Statuses, Over
    <2>14. CASE CancelFree
      BY <2>14, DueCleared DEF CancelFree, There
    <2>15. CASE Crash
      BY <2>15, IdlePass DEF Crash
    <2>16. CASE Age
      BY <2>16 DEF Age, There, MaintenanceAge, Gone
    <2>17. CASE HalfHour
      BY <2>17 DEF HalfHour, Hash
    <2>18. CASE LockLapse
      BY <2>18 DEF LockLapse
    <2>19. CASE HashExpire
      BY <2>19, NoHash DEF HashExpire
    <2>20. CASE Purge
      BY <2>20, NoHash DEF Purge
    <2>21. CASE Clean
      BY <2>21 DEF Clean
    <2>22. CASE View
      BY <2>22, NoHash DEF View, Missing, Blank
    <2>23. CASE Begin(TRUE)
      BY <2>23, PassBegins DEF Begin
    <2>24. CASE Read
      BY <2>24, PassReads DEF Read, Objection, Protected, Hash, Statuses
    <2>25. CASE Remove
      BY <2>25, IdlePass DEF Remove, There
    <2>26. CASE UNCHANGED vars
      BY <2>26 DEF vars
    <2> QED
      BY <2>1, <2>2, <2>3, <2>4, <2>5, <2>6, <2>7, <2>8, <2>9, <2>10, <2>11, <2>12, <2>13,
         <2>14, <2>15, <2>16, <2>17, <2>18, <2>19, <2>20, <2>21, <2>22, <2>23, <2>24, <2>25, <2>26
      DEF Next, Job, Handler, Finally, Time, Pass
  <1> QED
    BY <1>1, <1>2

\* Until a crash, a cleanup pass leaves a directory for half an hour after its handler has
\* recorded a failure, whatever its age and whatever mark an earlier attempt has left,
\* unless the whole run fell into the pass.
THEOREM FailureRetained == Spec => KeptAfterFailure
  <1>1. RetentionInv /\ [Next]_vars =>
          [Remove /\ There /\ ~pass.met /\ crashes = 0 => recent # "handler"]_vars
    BY DEF RetentionInv, Remove
  <1> QED
    BY <1>1, TempInvInductive, RetentionInvInductive, PTL DEF Spec, KeptAfterFailure

=============================================================================
