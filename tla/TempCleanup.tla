------------------------------ MODULE TempCleanup ------------------------------
(***************************************************************************)
(* One job's temp directory, from the mkdir in handleJob to its removal by  *)
(* the handler, by /job/cancel or by a cleanup pass (cleanupTempDir when    *)
(* disk is low, runPeriodicMaintenance every 12 hours).  A pass decides     *)
(* from four reads, in the order lock, reservation, metadata, BullMQ state, *)
(* and removes afterwards; a step here is one of these, or what another     *)
(* actor does between two.  BullMQ loses a run only through a crash here:   *)
(* JobLifecycle has the runs that block.                                    *)
(***************************************************************************)
EXTENDS Integers

CONSTANTS
  Overlap,     \* states of a pass in which a job may be dispatched
  Viewed,      \* whether getSystemSnapshot runs
  Recovers,    \* whether recoverStuckJobs finds the job without a heartbeat
  MaxSubmits,  \* bound: submissions of the id
  MaxCrashes,  \* bound: process crashes in a behaviour
  MaxCancels   \* bound: /job/cancel requests in a behaviour

Reads == {"lock", "reservation", "meta", "bull"}
PassStates == {"idle", "rm"} \cup Reads

ASSUME CleanupAssumption ==
  /\ Overlap \subseteq PassStates /\ "idle" \in Overlap
  /\ Viewed \in BOOLEAN /\ Recovers \in BOOLEAN
  /\ MaxSubmits \in Nat /\ MaxCrashes \in Nat /\ MaxCancels \in Nat

VARIABLES
  dir,       \* age of the directory by its mtime, or Gone
  hash,      \* [status, ttl, due]: the job hash
  bull,      \* BullMQ's state: "waiting" is also delayed, "none" also failed
  lock, reserved,  \* whether lock:{id} and the disk reservation exist
  stalled,   \* its stalledCounter is at BullMQ's limit, 1
  pc,        \* the handler
  held,      \* its diskReserved
  outcome,   \* "aborted" by /job/cancel; how its try and catch blocks ended
  recent,    \* who has made the job FAILED less than failedTempRetentionMs
             \* ago: a handler that has its lock still, or somebody else
  pass,      \* [pc, age, status, met]: the cleanup pass, what it has read,
             \* and whether the job was dispatched meanwhile
  viewing,   \* getSystemSnapshot has found the job hash
  cancelling,  \* /job/cancel has set the status
  submits, crashes, cancels

redisVars == <<hash, lock, reserved>>
handlerVars == <<pc, held, outcome>>
boundVars == <<submits, crashes, cancels>>
bullVars == <<bull, stalled>>
vars == <<dir, redisVars, bullVars, handlerVars, recent, pass, viewing, cancelling, boundVars>>

\* Ages: below 30 minutes, 30 (failedTempRetentionMs), 60 (tempCleanupMinAgeMs), 72 hours.
RetentionAge == 1
MinAge == 2
MaintenanceAge == 3
Gone == -1
There == dir # Gone
Ended == bull \in {"completed", "none"}

Active == {"QUEUED", "PROCESSING", "RETRYING"}  \* UPLOADING is as PROCESSING
Over == {"COMPLETED", "FAILED", "CANCELLED"}

\* A hash that does not exist, and one without status, stage and time to live.
Missing == [status |-> "missing", ttl |-> FALSE, due |-> "none"]
Blank == [Missing EXCEPT !.status = "blank"]
Hash == [status : {"missing", "blank"} \cup Active \cup Over, ttl : BOOLEAN,
         due : {"none", "later", "past"}]
Idle == [pc |-> "idle", age |-> 0, status |-> "missing", met |-> FALSE]

TypeOK ==
  /\ dir \in Gone .. MaintenanceAge /\ hash \in Hash
  /\ bull \in {"waiting", "active", "completed", "none"} /\ stalled \in BOOLEAN
  /\ lock \in BOOLEAN /\ reserved \in BOOLEAN /\ held \in BOOLEAN
  /\ pc \in {"idle", "locked", "reserved", "work", "free", "mark", "unlock", "return"}
  /\ outcome \in {"none", "aborted", "waiting", "RETRYING"} \cup Over
  /\ pass \in [pc : PassStates, age : 0 .. MaintenanceAge,
              status : {"missing", "blank"} \cup Active \cup Over, met : BOOLEAN]
  /\ recent \in {"nobody", "handler", "other"} /\ {viewing, cancelling} \subseteq BOOLEAN
  /\ recent # "nobody" => hash.status = "FAILED"
  /\ submits \in 0 .. MaxSubmits /\ crashes \in 0 .. MaxCrashes /\ cancels \in 0 .. MaxCancels

Init ==
  /\ dir = Gone /\ hash = Missing /\ bull = "none" /\ stalled = FALSE
  /\ lock = FALSE /\ reserved = FALSE
  /\ pc = "idle" /\ held = FALSE /\ outcome = "none"
  /\ recent = "nobody" /\ pass = Idle /\ viewing = FALSE /\ cancelling = FALSE
  /\ submits = 0 /\ crashes = 0 /\ cancels = 0

\* updateJobStage and enqueueFile: HSET of the status, EXPIRE.
SetStatus(s) ==
  /\ hash' = [hash EXCEPT !.status = s, !.ttl = TRUE]
  /\ recent' = IF s # "FAILED" THEN "nobody" ELSE IF lock THEN "handler" ELSE "other"

\* HSET without EXPIRE: a hash it creates stays.
Patch(s) ==
  /\ hash' = [hash EXCEPT !.status = s]
  /\ recent' = IF s = "FAILED" THEN "other" ELSE "nobody"

\* HSET and HDEL of tempCleanupEligibleAt.
SetDue(d) ==
  hash' = [hash EXCEPT !.status = IF @ = "missing" THEN "blank" ELSE @, !.due = d]
ClearDue == hash' = [hash EXCEPT !.due = "none"]

-----------------------------------------------------------------------------
(* The job: submission, handler, recovery, cancellation.                    *)

\* enqueueFile for a new or ended id.  BullMQ ignores an id it still has.
Submit ==
  /\ submits < MaxSubmits /\ submits' = submits + 1
  /\ pc = "idle" /\ Ended
  /\ SetStatus("QUEUED")
  /\ \/ bull = "none" /\ bull' = "waiting" /\ stalled' = FALSE
     \/ UNCHANGED bullVars
  /\ UNCHANGED <<dir, lock, reserved, handlerVars, pass, viewing, cancelling, crashes, cancels>>

\* A cancelled job is skipped; a lock left by a crash is taken over or respected.
Dispatch ==
  /\ pc = "idle" /\ bull = "waiting" /\ pass.pc \in Overlap
  /\ \/ /\ hash.status # "CANCELLED"
        /\ pc' = "locked" /\ lock' = TRUE /\ bull' = "active"
     \/ /\ hash.status = "CANCELLED" \/ lock
        /\ bull' = "completed" /\ UNCHANGED <<pc, lock>>
  /\ pass' = [pass EXCEPT !.met = (pass.pc # "idle")]
  /\ UNCHANGED <<stalled, dir, hash, reserved, held, outcome, recent, viewing, cancelling, boundVars>>

Reserve ==
  /\ pc = "locked" /\ pc' = "reserved"
  /\ reserved' = TRUE /\ held' = TRUE
  /\ SetStatus("PROCESSING")
  /\ UNCHANGED <<dir, lock, bullVars, outcome, pass, viewing, cancelling, boundVars>>

\* mkdir with recursive leaves a directory that exists as it is.
MakeDir ==
  /\ pc = "reserved" /\ pc' = "work"
  /\ dir' = IF There THEN dir ELSE 0
  /\ SetStatus("PROCESSING")
  /\ UNCHANGED <<lock, reserved, bullVars, held, outcome, pass, viewing, cancelling, boundVars>>

\* Only a new or removed entry changes the directory's mtime.
Work ==
  /\ pc = "work" /\ There
  /\ dir' \in {dir, 0}
  /\ SetStatus("PROCESSING")
  /\ UNCHANGED <<lock, reserved, bullVars, handlerVars, pass, viewing, cancelling, boundVars>>

Running == {"locked", "reserved", "work"}
Cancelled == hash.status = "CANCELLED" \/ outcome = "aborted"

\* The end of the try block, or the catch block: a resource wait removes the
\* directory and delays the job; a cancellation removes it.
Stop ==
  /\ pc \in Running /\ pc' = "free"
  /\ \/ /\ pc = "work" /\ outcome' = "COMPLETED"
        /\ SetStatus("COMPLETED") /\ UNCHANGED <<dir, bull>>
     \/ /\ Cancelled /\ outcome' = "CANCELLED"
        /\ dir' = Gone /\ ClearDue /\ UNCHANGED <<bull, recent>>
     \/ /\ ~Cancelled /\ \E s \in {"FAILED", "RETRYING"} : outcome' = s /\ SetStatus(s)
        /\ UNCHANGED <<dir, bull>>
     \/ /\ ~Cancelled /\ bull' = "waiting"
        /\ \E s \in {"QUEUED", "RETRYING"} : SetStatus(s)
        /\ \/ pc = "work" /\ dir' = Gone /\ outcome' = "waiting"
           \/ outcome' = "RETRYING" /\ UNCHANGED dir  \* nothing created, or rm failed
  /\ UNCHANGED <<stalled, lock, reserved, held, pass, viewing, cancelling, boundVars>>

\* finally: what this run has reserved, the directory, the lock, the return.
Free ==
  /\ pc = "free" /\ pc' = "mark"
  /\ reserved' = (reserved /\ ~held) /\ held' = FALSE
  /\ UNCHANGED <<dir, hash, lock, bullVars, outcome, recent, pass, viewing, cancelling, boundVars>>

\* Wrong variant of RemoveOrMark: the mark of an earlier attempt stays.
KeepFirstMark ==
  \/ outcome \in {"COMPLETED", "CANCELLED", "waiting"} /\ dir' = Gone /\ ClearDue
  \/ /\ outcome \in {"FAILED", "RETRYING"} /\ UNCHANGED dir
     /\ IF hash.due = "none" THEN SetDue("later") ELSE UNCHANGED hash

RemoveOrMark ==
  \/ /\ outcome \in {"COMPLETED", "CANCELLED"}
     /\ \/ dir' = Gone /\ ClearDue
        \/ There /\ SetDue("past") /\ UNCHANGED dir  \* rm failed
  \/ outcome = "waiting" /\ ClearDue /\ UNCHANGED dir
  \/ outcome \in {"FAILED", "RETRYING"} /\ SetDue("later") /\ UNCHANGED dir

Mark ==
  /\ pc = "mark" /\ pc' = "unlock"
  /\ RemoveOrMark
  /\ UNCHANGED <<lock, reserved, bullVars, held, outcome, recent, pass, viewing, cancelling, boundVars>>

Unlock ==
  /\ pc = "unlock" /\ pc' = "return" /\ lock' = FALSE
  /\ UNCHANGED <<dir, hash, reserved, bullVars, held, outcome, recent, pass, viewing, cancelling, boundVars>>

\* onBullJobFailed.
OnFailed ==
  IF hash.status \in {"missing", "COMPLETED", "FAILED"}
    THEN UNCHANGED <<redisVars, recent>>
    ELSE Patch("FAILED") /\ reserved' = FALSE /\ lock' = FALSE

Return ==
  /\ pc = "return" /\ pc' = "idle" /\ outcome' = "none"
  /\ bull' = CASE bull # "active" -> bull
               [] outcome = "RETRYING" -> "waiting"
               [] outcome = "FAILED" -> "none"
               [] OTHER -> "completed"
  /\ IF bull = "active" /\ outcome = "FAILED" THEN OnFailed ELSE UNCHANGED <<redisVars, recent>>
  /\ UNCHANGED <<stalled, dir, held, pass, viewing, cancelling, boundVars>>

\* BullMQ finds the job of a dead process: to the queue, or failed for good.
Stalled ==
  /\ pc = "idle" /\ bull = "active"
  /\ stalled' = TRUE
  /\ \/ ~stalled /\ bull' = "waiting" /\ UNCHANGED <<redisVars, recent>>
     \/ stalled /\ bull' = "none" /\ OnFailed
  /\ UNCHANGED <<dir, handlerVars, pass, viewing, cancelling, boundVars>>

\* recoverStuckJobs, for want of a heartbeat: a dead run, or one still in its
\* set-up.  BullMQ keeps a job that is locked.
Recover ==
  /\ Recovers /\ pc \in {"idle", "locked", "reserved"} /\ hash.status \in Active
  /\ bull # "completed" /\ ~(hash.status = "QUEUED" /\ bull = "waiting")
  /\ reserved' = FALSE /\ lock' = FALSE
  /\ \/ /\ SetStatus("QUEUED")
        /\ IF bull = "active" THEN UNCHANGED bullVars
           ELSE bull' = "waiting" /\ stalled' = FALSE
     \/ /\ Patch("FAILED") /\ UNCHANGED stalled
        /\ bull' = IF bull = "active" THEN bull ELSE "none"
  /\ UNCHANGED <<dir, handlerVars, pass, viewing, cancelling, boundVars>>

CancelMark ==
  /\ cancels < MaxCancels /\ cancels' = cancels + 1 /\ ~cancelling
  /\ cancelling' = TRUE
  /\ bull' = IF bull = "active" THEN bull ELSE "none"
  /\ outcome' = IF pc \in Running THEN "aborted" ELSE outcome
  /\ Patch("CANCELLED")
  /\ UNCHANGED <<stalled, dir, lock, reserved, pc, held, pass, viewing, submits, crashes>>

CancelFree ==
  /\ cancelling /\ cancelling' = FALSE
  /\ lock' = FALSE /\ reserved' = FALSE /\ dir' = Gone /\ ClearDue
  /\ UNCHANGED <<bullVars, handlerVars, recent, pass, viewing, boundVars>>

Crash ==
  /\ crashes < MaxCrashes /\ crashes' = crashes + 1
  /\ pc' = "idle" /\ held' = FALSE /\ outcome' = "none"
  /\ pass' = Idle /\ viewing' = FALSE /\ cancelling' = FALSE
  /\ UNCHANGED <<dir, redisVars, bullVars, recent, submits, cancels>>

-----------------------------------------------------------------------------
(* Time, and what forgets or rewrites the job hash.                         *)

Age ==
  /\ There /\ dir < MaintenanceAge /\ dir' = dir + 1
  /\ UNCHANGED <<redisVars, bullVars, handlerVars, recent, pass, viewing, cancelling, boundVars>>

HalfHour ==
  /\ \/ recent # "nobody" /\ recent' = "nobody" /\ UNCHANGED hash
     \/ /\ recent = "nobody" /\ hash.due = "later" /\ hash' = [hash EXCEPT !.due = "past"]
        /\ UNCHANGED recent
  /\ UNCHANGED <<dir, lock, reserved, bullVars, handlerVars, pass, viewing, cancelling, boundVars>>

LockLapse ==
  /\ lock /\ pc = "idle" /\ lock' = FALSE
  /\ UNCHANGED <<dir, hash, reserved, bullVars, handlerVars, recent, pass, viewing, cancelling, boundVars>>

\* 24 hours without a status: longer than a lock, and not with the job active.
HashExpire ==
  /\ hash.ttl /\ recent = "nobody" /\ ~lock /\ pc = "idle" /\ bull # "active"
  /\ hash' = Missing
  /\ UNCHANGED <<dir, lock, reserved, bullVars, handlerVars, recent, pass, viewing, cancelling, boundVars>>

\* runPeriodicMaintenance: terminal hashes of 72 hours, with no lock.
Purge ==
  /\ hash.status \in Over /\ recent = "nobody" /\ ~lock /\ pc = "idle" /\ bull # "active"
  /\ hash' = Missing
  /\ UNCHANGED <<dir, lock, reserved, bullVars, handlerVars, recent, pass, viewing, cancelling, boundVars>>

\* runPeriodicMaintenance: BullMQ's history of 72 hours.
Clean ==
  /\ bull = "completed" /\ bull' = "none"
  /\ UNCHANGED <<stalled, dir, redisVars, handlerVars, recent, pass, viewing, cancelling, boundVars>>

\* getSystemSnapshot: SCAN job:*, much later HSET queuePosition.
View ==
  /\ Viewed
  /\ \/ ~viewing /\ hash # Missing /\ viewing' = TRUE /\ UNCHANGED hash
     \/ viewing /\ viewing' = FALSE /\ hash' = IF hash = Missing THEN Blank ELSE hash
  /\ UNCHANGED <<dir, lock, reserved, bullVars, handlerVars, recent, pass, cancelling, boundVars>>

-----------------------------------------------------------------------------
(* A cleanup pass.                                                          *)

\* Wrong variant of OldEnough: no case for a job whose hash has expired.
OldEnoughIfKnown(s, age) ==
  \/ s = "COMPLETED" /\ age >= MinAge
  \/ s \in {"FAILED", "CANCELLED"} /\ age >= RetentionAge

\* decideFolderCleanup's two questions: is the metadata against a removal, and
\* is the directory old enough for it?
Protected(h) == h.status \in Active \/ h.due = "later"

OldEnough(s, age) ==
  \/ s = "COMPLETED" /\ age >= MinAge
  \/ s \in {"FAILED", "CANCELLED"} /\ age >= RetentionAge
  \/ s = "missing" /\ age >= MinAge

\* What the pass does with its next read: on to the next one, or leave the directory.
Following == [lock |-> "reservation", reservation |-> "meta"]

\* Wrong variant of Objection: the metadata alone tells whether a handler is at work.
ObjectionIfKnown(read) ==
  CASE read = "lock"        -> lock
    [] read = "reservation" -> reserved
    [] read = "meta"        -> Protected(hash)
    [] read = "bull"        -> ~OldEnough(pass.status, pass.age)

Objection(read) ==
  CASE read = "lock"        -> lock
    [] read = "reservation" -> reserved
    [] read = "meta"        -> Protected(hash)
    [] read = "bull"        -> bull = "active" \/ ~OldEnough(pass.status, pass.age)

\* Wrong variant of Begin: the failed stat of a removed directory is not skipped.
BeginAnyway(low) ==
  /\ pass.pc = "idle" /\ (low \/ dir = MaintenanceAge)
  /\ pass' = [Idle EXCEPT !.pc = "lock", !.age = dir]
  /\ UNCHANGED <<dir, redisVars, bullVars, handlerVars, recent, viewing, cancelling, boundVars>>

\* Low disk, or a directory of 72 hours; the age is that of the stat.
Begin(low) ==
  /\ pass.pc = "idle" /\ There /\ (low \/ dir = MaintenanceAge)
  /\ pass' = [Idle EXCEPT !.pc = "lock", !.age = dir]
  /\ UNCHANGED <<dir, redisVars, bullVars, handlerVars, recent, viewing, cancelling, boundVars>>

Read ==
  /\ pass.pc \in Reads
  /\ pass' = IF Objection(pass.pc) THEN Idle ELSE
               CASE pass.pc = "meta" -> [pass EXCEPT !.pc = "bull", !.status = hash.status]
                 [] pass.pc = "bull" -> [Idle EXCEPT !.pc = "rm", !.met = pass.met]
                 [] OTHER            -> [pass EXCEPT !.pc = Following[@]]
  /\ UNCHANGED <<dir, redisVars, bullVars, handlerVars, recent, viewing, cancelling, boundVars>>

Remove ==
  /\ pass.pc = "rm" /\ pass' = Idle /\ dir' = Gone
  /\ UNCHANGED <<redisVars, bullVars, handlerVars, recent, viewing, cancelling, boundVars>>

-----------------------------------------------------------------------------
Finally == Free \/ Mark \/ Unlock \/ Return
Handler == Reserve \/ MakeDir \/ Work \/ Stop \/ Finally
Job == Submit \/ Dispatch \/ Handler \/ Stalled \/ Recover \/ CancelMark \/ CancelFree \/ Crash
Time == Age \/ HalfHour \/ LockLapse \/ HashExpire \/ Purge \/ Clean
Pass == Begin(TRUE) \/ Read \/ Remove

Next == Job \/ Time \/ View \/ Pass

\* Time passes, keys expire, recovery runs each minute, a finally block ends, the maintenance runs and its passes go on.
Fairness ==
  /\ WF_vars(Age) /\ WF_vars(HalfHour) /\ WF_vars(LockLapse)
  /\ WF_vars(HashExpire) /\ WF_vars(Purge) /\ WF_vars(Clean) /\ WF_vars(Recover)
  /\ WF_vars(Finally) /\ WF_vars(Begin(FALSE)) /\ WF_vars(Read) /\ WF_vars(Remove)

Spec == Init /\ [][Next]_vars /\ Fairness

-----------------------------------------------------------------------------
(* A pass never takes the directory from under the handler that works in it *)
(* (cleanup.ts:146 on the strength of the reads at 54-76).                  *)
NotPulledAway == [][Remove => pc # "work"]_vars

(* A pass leaves the directory of a job whose handler has recorded its      *)
(* failure in the last half hour, whatever its mtime and whatever mark an   *)
(* earlier attempt has left.  Unless the whole run, from its dispatch, fell *)
(* into the pass; or recovery or a cancellation had deleted the run's lock; *)
(* or the process has crashed.                                              *)
KeptAfterFailure ==
  [][Remove /\ There /\ ~pass.met /\ crashes = 0 => recent # "handler"]_vars

(* The directory of a job that BullMQ has done with is removed in the end,  *)
(* unless the job is submitted or recovered again.  Two things keep it for   *)
(* good: a reservation that a crash has left without an owner, and a hash    *)
(* that a snapshot has created anew, without a status.                       *)
Reclaimed ==
  (There /\ Ended) ~> (~There \/ ~Ended \/ reserved \/ hash.status = "blank")

=============================================================================
