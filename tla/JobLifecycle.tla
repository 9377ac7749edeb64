---------------------------- MODULE JobLifecycle ----------------------------
(***************************************************************************)
(* The life of one job: BullMQ's state of it, its metadata, lock and        *)
(* holdings in Redis, the runs of handleJob that work on it, and the three  *)
(* others that reach into the same keys: recoverStuckJobs, /job/cancel and  *)
(* onBullJobFailed.  Every step of a handler below is the code between two  *)
(* awaits whose effects another process can observe.                        *)
(*                                                                         *)
(* Time is what it does to the comparisons the code makes: the stamp that   *)
(* "heartbeatAt || updatedAt || ..." selects is fresh or not, a key exists  *)
(* or has expired.                                                          *)
(***************************************************************************)
EXTENDS Integers, FiniteSets

CONSTANTS
  Runs,         \* identities of handler runs (lockOwner); one is used again
                \* when nothing refers to it any more
  NoRun,        \* null value, not a run
  MaxAttempts,  \* MAX_PROCESSING_ATTEMPTS
  MaxWaits,     \* MAX_RESOURCE_WAIT_COUNT
  MaxManual,    \* MAX_MANUAL_RETRIES
  MaxStalled,   \* BullMQ's maxStalledCount
  MaxCrashes,   \* bound: process crashes in a behaviour
  MaxCancels,   \* bound: /job/cancel requests, 0 or 1
  MaxBlocks,    \* bound: times a live run loses its BullMQ lock
  MaxMishaps,   \* bound: crashes, cancellations and lost locks together
  BlockPhases,  \* where in the handler that can happen to a run
  LongWaits,    \* may a job wait, or prepare, longer than the stuck threshold?
  LongOutages,  \* does a crash outlast the Redis and BullMQ locks?
  Apart         \* does recovery act only on jobs that no run works on and that
                \* have not ended since it read their status?

ASSUME LifecycleAssumption ==
  /\ NoRun \notin Runs
  /\ MaxAttempts \in Nat \ {0}
  /\ MaxWaits \in Nat /\ MaxManual \in Nat /\ MaxStalled \in Nat
  /\ MaxCrashes \in Nat /\ MaxBlocks \in Nat /\ MaxMishaps \in Nat
  /\ MaxCancels \in {0, 1}
  /\ LongWaits \in BOOLEAN /\ LongOutages \in BOOLEAN /\ Apart \in BOOLEAN

VARIABLES
  \* BullMQ
  bull,        \* state of the job
  bullLock,    \* run whose token BullMQ accepts, or NoRun
  attempts,    \* attemptsMade
  stalls,      \* stalledCounter
  \* Redis: job:{id}, lock:{id} and the holdings recorded under the job's id
  status,
  stamp,       \* [field, fresh]: the timestamp the staleness tests look at
  waits,       \* resourceWaitCount
  manual,      \* manualRetryCount
  lock,        \* owner in lock:{id}, or NoRun
  reserved,    \* resource:disk:job:{id} exists
  slot,        \* the job is in its user's holder set
  announced,   \* outcomes put under pending_callback:{id} and sent
  \* the worker process
  pc,          \* pc[r]: where run r is
  tries,       \* tries[r]: attemptsMade of the BullMQ job object r was given
  err,         \* err[r]: what the catch block of r has to deal with
  verdict,     \* verdict[r]: how the handler ends, as seen by BullMQ
  armed,       \* runs whose heartbeat interval is set
  diskHeld, slotHeld,  \* runs with diskReserved, userSlotHeld set
  controller,  \* run in activeJobAbortControllers, or NoRun
  aborted,     \* runs whose signal is aborted
  recovery,    \* [pc, status]: recoverStuckJobs and the status it has read
  cancel,      \* where /job/cancel is
  failure,     \* [pc, terminal]: onBullJobFailed
  crashes, blocks

bullVars == <<bull, bullLock, attempts, stalls>>
metaVars == <<status, stamp, waits, manual, announced>>
holdVars == <<lock, reserved, slot>>
flagVars == <<armed, diskHeld, slotHeld, controller, aborted>>
runVars == <<pc, tries, err, verdict, flagVars>>
procVars == <<recovery, cancel, failure>>
boundVars == <<crashes, blocks>>
vars == <<bullVars, metaVars, holdVars, runVars, procVars, boundVars>>

-----------------------------------------------------------------------------
(* Types *)

BullStates == {"none", "waiting", "delayed", "active", "completed", "failed"}

Terminal == {"completed", "failed", "cancelled"}

Statuses == {"queued", "processing", "uploading", "retrying"} \cup Terminal

Stamps == [field : {"queuedAt", "updatedAt", "heartbeatAt"}, fresh : BOOLEAN]

\* Before the lock; under it, up to the end of the try block; in the catch
\* block; in the finally block.
Entering == {"start", "register", "lock", "contend", "claim"}
Trying == {"setup", "reserve", "stage", "user", "arm", "work", "upload",
           "complete", "report"}
Catching == {"catch", "wait", "delay", "fail", "reportFailure"}
Finishing == {"finSlot", "finDisk", "finLock", "finUnlock"}

HandlerStates == {"off", "return"} \cup Entering \cup Trying \cup Catching \cup Finishing

\* Where recoverStuckJobs and onBullJobFailed may be.
Passes == [pc : {"idle", "probe", "release", "mark", "remove", "enqueue", "add",
                 "fail", "failRemove", "failRelease", "failReport"},
           status : Statuses]

Failures == [pc : {"idle", "read", "mark", "release", "report"}, terminal : BOOLEAN]

\* Between two passes over the job; no failure to handle.
NoPass == [pc |-> "idle", status |-> "queued"]

NoFailure == [pc |-> "idle", terminal |-> FALSE]

TypeOK ==
  /\ bull \in BullStates
  /\ bullLock \in Runs \cup {NoRun}
  /\ attempts \in Nat /\ stalls \in Nat
  /\ waits \in 0 .. MaxWaits /\ manual \in 0 .. MaxManual
  /\ status \in Statuses
  /\ stamp \in Stamps
  /\ lock \in Runs \cup {NoRun}
  /\ reserved \in BOOLEAN /\ slot \in BOOLEAN
  /\ announced \subseteq {"completed", "failed"}
  /\ pc \in [Runs -> HandlerStates]
  /\ tries \in [Runs -> Nat]
  /\ err \in [Runs -> {"none", "resource", "fatal", "transient"}]
  /\ verdict \in [Runs -> {"ok", "delayed", "error", "fatal"}]
  /\ armed \subseteq Runs /\ diskHeld \subseteq Runs /\ slotHeld \subseteq Runs
  /\ aborted \subseteq Runs
  /\ controller \in Runs \cup {NoRun}
  /\ recovery \in Passes
  /\ cancel \in {"idle", "remove", "mark", "unlock", "free", "done"}
  /\ failure \in Failures
  /\ crashes \in 0 .. MaxCrashes /\ blocks \in 0 .. MaxBlocks

Mishaps == crashes + blocks + (IF cancel = "idle" THEN 0 ELSE 1)

Live(r) == pc[r] # "off"

\* Nobody is doing anything about the job at the moment.
Quiet ==
  /\ \A r \in Runs : ~ Live(r)
  /\ recovery.pc \in {"idle", "probe"} /\ failure.pc = "idle"
  /\ cancel \in {"idle", "done"}

\* The heartbeat of r renews the lock and refreshes heartbeatAt.
Renewing(r) == r \in armed /\ lock = r

-----------------------------------------------------------------------------
(* What the code reads from and writes to the metadata. *)

\* A write of updatedAt or queuedAt shows in the selected stamp only as long as
\* no field that precedes it was ever written.
Touched(field) ==
  IF \/ field = "heartbeatAt"
     \/ field = "updatedAt" /\ stamp.field # "heartbeatAt"
     \/ field = "queuedAt" /\ stamp.field = "queuedAt"
  THEN stamp' = [field |-> field, fresh |-> TRUE]
  ELSE UNCHANGED stamp

\* updateJobStage, as far as others can tell.
Stage(s) == status' = s /\ Touched("updatedAt")

\* Deliberately wrong: the comparison with the threshold the wrong way round.
AliveIfStale == lock # NoRun /\ stamp.field # "queuedAt" /\ ~ stamp.fresh

\* handleJob's test for a predecessor that is alive: heartbeatAt || updatedAt.
PredecessorAlive == lock # NoRun /\ stamp.field # "queuedAt" /\ stamp.fresh

Step(r, from, to) == pc[r] = from /\ pc' = [pc EXCEPT ![r] = to]

\* An exception inside the try block.
Throw(r, from, kind) ==
  /\ Step(r, from, "catch")
  /\ err' = [err EXCEPT ![r] = kind]

-----------------------------------------------------------------------------
(* Deliberately wrong variants of what follows, for the mutation runs. *)

\* The callback first, and the log upload, which may throw, after it.
ReportThenLog(r) ==
  /\ \/ Step(r, "report", "finSlot") /\ UNCHANGED err
     \/ Throw(r, "report", "transient")
  /\ announced' = announced \cup {"completed"}
  /\ UNCHANGED <<bullVars, status, stamp, waits, manual, holdVars, tries, verdict,
                 flagVars, procVars, boundVars>>

\* A job that is over is not run again, whoever dispatches it.
StartSkipsEnded(r) ==
  /\ IF status \in Terminal THEN Step(r, "start", "return")
                           ELSE Step(r, "start", "register")
  /\ UNCHANGED <<bullVars, metaVars, holdVars, tries, err, verdict, flagVars, procVars,
                 boundVars>>

\* A transient error is recorded but not thrown on to BullMQ.
FailSwallowed(r) ==
  /\ \/ /\ err[r] = "transient" /\ tries[r] < MaxAttempts - 1
        /\ Step(r, "fail", "finSlot")
        /\ Stage("retrying")
        /\ verdict' = [verdict EXCEPT ![r] = "ok"]
     \/ /\ err[r] = "fatal" \/ tries[r] >= MaxAttempts - 1
        /\ Step(r, "fail", "reportFailure")
        /\ Stage("failed")
        /\ verdict' = [verdict EXCEPT ![r] = IF err[r] = "fatal" THEN "fatal" ELSE "error"]
  /\ UNCHANGED <<bullVars, waits, manual, announced, holdVars, tries, err, flagVars,
                 procVars, boundVars>>

\* The finally block forgets the reservation.
FinDiskForgets(r) ==
  /\ Step(r, "finDisk", "finLock")
  /\ diskHeld' = diskHeld \ {r}
  /\ UNCHANGED <<bullVars, metaVars, holdVars, tries, err, verdict, armed, slotHeld,
                 controller, aborted, procVars, boundVars>>

\* A queued job is left alone whether BullMQ has it or not.
QueuedLeftAlone == recovery.status = "queued" \/ bull = "completed"

\* Manual retries do not count.
ExhaustedByAttempts(made) == made >= MaxManual

\* The controller is removed when it has been used.
AbortAndForget ==
  /\ cancel = "idle" /\ MaxCancels > 0 /\ Mishaps < MaxMishaps
  /\ cancel' = "remove"
  /\ aborted' = aborted \cup ({controller} \ {NoRun})
  /\ controller' = NoRun
  /\ UNCHANGED <<bullVars, metaVars, holdVars, pc, tries, err, verdict, armed, diskHeld,
                 slotHeld, recovery, failure, boundVars>>

\* A locked BullMQ job is removed like any other.
AlwaysRemovable == TRUE

-----------------------------------------------------------------------------
Init ==
  /\ bull = "waiting" /\ bullLock = NoRun /\ attempts = 0 /\ stalls = 0
  /\ status = "queued"
  /\ stamp = [field |-> "queuedAt", fresh |-> TRUE]
  /\ waits = 0 /\ manual = 0 /\ announced = {}
  /\ lock = NoRun /\ reserved = FALSE /\ slot = FALSE
  /\ pc = [r \in Runs |-> "off"]
  /\ tries = [r \in Runs |-> 0]
  /\ err = [r \in Runs |-> "none"]
  /\ verdict = [r \in Runs |-> "ok"]
  /\ armed = {} /\ diskHeld = {} /\ slotHeld = {}
  /\ controller = NoRun /\ aborted = {}
  /\ recovery = NoPass
  /\ cancel = "idle"
  /\ failure = NoFailure
  /\ crashes = 0 /\ blocks = 0

-----------------------------------------------------------------------------
(* BullMQ around the handler. *)

Dispatch(r) ==
  /\ bull = "waiting"
  /\ Apart => recovery.pc \in {"idle", "probe"}
  /\ lock # r
  /\ Step(r, "off", "start")
  /\ bull' = "active"
  /\ bullLock' = r
  /\ tries' = [tries EXCEPT ![r] = attempts]
  /\ UNCHANGED <<attempts, stalls, metaVars, holdVars, err, verdict, flagVars,
                 procVars, boundVars>>

\* A delayed job becomes due.  RESOURCE_RETRY_DELAY_MS and the backoff outlast
\* the finally block of the run that was delayed.
Promote ==
  /\ bull = "delayed"
  /\ \A r \in Runs : pc[r] \notin Finishing \cup {"return"}
  /\ bull' = "waiting"
  /\ UNCHANGED <<bullLock, attempts, stalls, metaVars, holdVars, runVars, procVars,
                 boundVars>>

\* The handler has returned or thrown.  BullMQ accepts the result only from the
\* run that holds the job's lock; a failed attempt raises "failed".
Return(r) ==
  /\ Step(r, "return", "off")
  /\ err' = [err EXCEPT ![r] = "none"]
  /\ verdict' = [verdict EXCEPT ![r] = "ok"]
  /\ tries' = [tries EXCEPT ![r] = 0]
  /\ aborted' = aborted \ {r}
  /\ controller' = IF controller = r THEN NoRun ELSE controller
  /\ \/ /\ bullLock # r
        /\ UNCHANGED <<bullVars, failure>>
     \/ /\ bullLock = r /\ verdict[r] = "ok"
        /\ bull' = "completed" /\ bullLock' = NoRun
        /\ UNCHANGED <<attempts, stalls, failure>>
     \/ /\ bullLock = r /\ verdict[r] \in {"error", "fatal"}
        /\ failure.pc = "idle"
        /\ LET last == verdict[r] = "fatal" \/ tries[r] + 1 >= MaxAttempts
           IN  /\ bull' = IF last THEN "failed" ELSE "delayed"
               /\ failure' = [pc |-> "read", terminal |-> last]
        /\ attempts' = tries[r] + 1
        /\ bullLock' = NoRun
        /\ UNCHANGED stalls
  /\ UNCHANGED <<metaVars, holdVars, armed, diskHeld, slotHeld, recovery, cancel,
                 boundVars>>

\* Nobody renews the job's BullMQ lock: its key expires, and the next check puts
\* the job back or, once too often, fails it.
BullLockExpire ==
  /\ bullLock # NoRun
  /\ ~ Live(bullLock)
  /\ bullLock' = NoRun
  /\ UNCHANGED <<bull, attempts, stalls, metaVars, holdVars, runVars, procVars,
                 boundVars>>

Stalled ==
  /\ bull = "active" /\ bullLock = NoRun
  /\ stalls' = stalls + 1
  /\ IF stalls < MaxStalled
     THEN bull' = "waiting" /\ UNCHANGED failure
     ELSE /\ failure.pc = "idle"
          /\ bull' = "failed"
          /\ failure' = [pc |-> "read", terminal |-> TRUE]
  /\ UNCHANGED <<bullLock, attempts, metaVars, holdVars, runVars, recovery, cancel,
                 boundVars>>

\* A live run loses its BullMQ lock: execFileSync (ffprobe) blocks the event loop
\* of the process for longer than the lock lasts.  Bound: not in the middle of a
\* recovery.
Block(r) ==
  /\ blocks < MaxBlocks /\ Mishaps < MaxMishaps
  /\ bullLock = r /\ pc[r] \in BlockPhases
  /\ recovery.pc = "idle"
  /\ blocks' = blocks + 1
  /\ bullLock' = NoRun
  /\ UNCHANGED <<bull, attempts, stalls, metaVars, holdVars, runVars, procVars, crashes>>

-----------------------------------------------------------------------------
(* handleJob, up to the end of its try block. *)

\* A job cancelled before pickup is skipped.
Start(r) ==
  /\ IF status = "cancelled" THEN Step(r, "start", "return")
                             ELSE Step(r, "start", "register")
  /\ UNCHANGED <<bullVars, metaVars, holdVars, tries, err, verdict, flagVars, procVars,
                 boundVars>>

Register(r) ==
  /\ Step(r, "register", "lock")
  /\ controller' = r
  /\ UNCHANGED <<bullVars, metaVars, holdVars, tries, err, verdict, armed, diskHeld,
                 slotHeld, aborted, procVars, boundVars>>

\* SET NX PX
TakeLock(r) ==
  /\ IF lock = NoRun THEN Step(r, "lock", "setup") /\ lock' = r
                     ELSE Step(r, "lock", "contend") /\ UNCHANGED lock
  /\ UNCHANGED <<bullVars, metaVars, reserved, slot, tries, err, verdict, flagVars,
                 procVars, boundVars>>

\* A predecessor that looks alive: return at once, outside the try block.
Contend(r) ==
  /\ IF PredecessorAlive THEN Step(r, "contend", "return")
                         ELSE Step(r, "contend", "claim")
  /\ UNCHANGED <<bullVars, metaVars, holdVars, tries, err, verdict, flagVars, procVars,
                 boundVars>>

Claim(r) ==
  /\ Step(r, "claim", "setup")
  /\ lock' = r
  /\ UNCHANGED <<bullVars, metaVars, reserved, slot, tries, err, verdict, flagVars,
                 procVars, boundVars>>

\* File-version claim, media checks, HEAD of the source, capacity check.
Setup(r) ==
  /\ \/ Step(r, "setup", "reserve") /\ UNCHANGED err
     \/ \E kind \in {"fatal", "transient"} : Throw(r, "setup", kind)
  /\ UNCHANGED <<bullVars, metaVars, holdVars, tries, verdict, flagVars, procVars,
                 boundVars>>

\* RESERVE_DISK_LUA succeeds on an existing reservation, else as the disk allows.
Reserve(r) ==
  /\ \/ /\ Step(r, "reserve", "stage")
        /\ reserved' = TRUE
        /\ diskHeld' = diskHeld \cup {r}
        /\ UNCHANGED err
     \/ /\ ~ reserved
        /\ Throw(r, "reserve", "resource")
        /\ UNCHANGED <<reserved, diskHeld>>
  /\ UNCHANGED <<bullVars, metaVars, lock, slot, tries, verdict, armed, slotHeld,
                 controller, aborted, procVars, boundVars>>

StageReserved(r) ==
  /\ Step(r, "stage", "user")
  /\ Stage("processing")
  /\ UNCHANGED <<bullVars, waits, manual, announced, holdVars, tries, err, verdict,
                 flagVars, procVars, boundVars>>

TakeUserSlot(r) ==
  /\ \/ /\ Step(r, "user", "arm")
        /\ slot' = TRUE
        /\ slotHeld' = slotHeld \cup {r}
        /\ UNCHANGED err
     \/ /\ ~ slot
        /\ Throw(r, "user", "resource")
        /\ UNCHANGED <<slot, slotHeld>>
  /\ UNCHANGED <<bullVars, metaVars, lock, reserved, tries, verdict, armed, diskHeld,
                 controller, aborted, procVars, boundVars>>

\* The temp directory, for which the disk may be too full; stage VALIDATING with the
\* first heartbeatAt; the heartbeat interval is set.
Arm(r) ==
  /\ \/ /\ Step(r, "arm", "work")
        /\ status' = "processing"
        /\ Touched("heartbeatAt")
        /\ armed' = armed \cup {r}
        /\ UNCHANGED err
     \/ /\ \E kind \in {"resource", "transient"} : Throw(r, "arm", kind)
        /\ UNCHANGED <<status, stamp, armed>>
  /\ UNCHANGED <<bullVars, waits, manual, announced, holdVars, tries, verdict, diskHeld,
                 slotHeld, controller, aborted, procVars, boundVars>>

\* A progress callback, or the next stage, of the download and the processors:
\* none of them looks at the abort signal or at the status.
Progress(r) ==
  /\ \/ pc[r] = "work" /\ Stage("processing")
     \/ pc[r] = "upload" /\ Stage("uploading")
  /\ UNCHANGED <<bullVars, waits, manual, announced, holdVars, runVars, procVars,
                 boundVars>>

\* Download and processing done; stage UPLOADING.  Or no CPU slot, bad input, or
\* any other error.
Work(r) ==
  /\ \/ Step(r, "work", "upload") /\ Stage("uploading") /\ UNCHANGED err
     \/ /\ \E kind \in {"resource", "fatal", "transient"} : Throw(r, "work", kind)
        /\ UNCHANGED <<status, stamp>>
  /\ UNCHANGED <<bullVars, waits, manual, announced, holdVars, tries, verdict, flagVars,
                 procVars, boundVars>>

\* uploadObject is the one call that is given the abort signal.
Upload(r) ==
  /\ \/ r \notin aborted /\ Step(r, "upload", "complete") /\ UNCHANGED err
     \/ \E kind \in {"resource", "fatal", "transient"} : Throw(r, "upload", kind)
  /\ UNCHANGED <<bullVars, metaVars, holdVars, tries, verdict, flagVars, procVars,
                 boundVars>>

Complete(r) ==
  /\ Step(r, "complete", "report")
  /\ Stage("completed")
  /\ UNCHANGED <<bullVars, waits, manual, announced, holdVars, tries, err, verdict,
                 flagVars, procVars, boundVars>>

\* Metrics, upload of the job log, pending callback and first delivery.  The log
\* upload may throw.
Report(r) ==
  /\ \/ /\ Step(r, "report", "finSlot")
        /\ announced' = announced \cup {"completed"}
        /\ UNCHANGED err
     \/ /\ \E kind \in {"resource", "transient"} : Throw(r, "report", kind)
        /\ UNCHANGED announced
  /\ UNCHANGED <<bullVars, status, stamp, waits, manual, holdVars, tries, verdict,
                 flagVars, procVars, boundVars>>

-----------------------------------------------------------------------------
(* Its catch block. *)

\* A cancelled run returns quietly and leaves the status as it is.
Catch(r) ==
  /\ \/ /\ r \in aborted \/ status = "cancelled"
        /\ Step(r, "catch", "finSlot")
     \/ /\ r \notin aborted /\ status # "cancelled"
        /\ err[r] = "resource"
        /\ Step(r, "catch", "wait")
     \/ /\ r \notin aborted /\ status # "cancelled"
        /\ err[r] # "resource"
        /\ Step(r, "catch", "fail")
  /\ UNCHANGED <<bullVars, metaVars, holdVars, tries, err, verdict, flagVars, procVars,
                 boundVars>>

\* scheduleResourceWait: one wait too many is a failure, else the status goes back
\* to what a job that waits for its turn has.
ScheduleWait(r) ==
  /\ \/ /\ waits + 1 > MaxWaits
        /\ Step(r, "wait", "fail")
        /\ err' = [err EXCEPT ![r] = "fatal"]
        /\ UNCHANGED <<status, stamp, waits>>
     \/ /\ waits + 1 <= MaxWaits
        /\ Step(r, "wait", "delay")
        /\ Stage(IF tries[r] > 0 THEN "retrying" ELSE "queued")
        /\ waits' = waits + 1
        /\ UNCHANGED err
  /\ UNCHANGED <<bullVars, manual, announced, holdVars, tries, verdict, flagVars,
                 procVars, boundVars>>

\* moveToDelayed throws when the run's token is not the job's any more.
Delay(r) ==
  /\ Step(r, "delay", "finSlot")
  /\ IF bullLock = r
     THEN /\ bull' = "delayed" /\ bullLock' = NoRun
          /\ verdict' = [verdict EXCEPT ![r] = "delayed"]
     ELSE /\ verdict' = [verdict EXCEPT ![r] = "error"]
          /\ UNCHANGED <<bull, bullLock>>
  /\ UNCHANGED <<attempts, stalls, metaVars, holdVars, tries, err, flagVars, procVars,
                 boundVars>>

\* updateFailedState: RETRYING for a transient error with attempts left, else
\* FAILED, and then the callback is due.
Fail(r) ==
  /\ \/ /\ err[r] = "transient" /\ tries[r] < MaxAttempts - 1
        /\ Step(r, "fail", "finSlot")
        /\ Stage("retrying")
     \/ /\ err[r] = "fatal" \/ tries[r] >= MaxAttempts - 1
        /\ Step(r, "fail", "reportFailure")
        /\ Stage("failed")
  /\ verdict' = [verdict EXCEPT ![r] = IF err[r] = "fatal" THEN "fatal" ELSE "error"]
  /\ UNCHANGED <<bullVars, waits, manual, announced, holdVars, tries, err, flagVars,
                 procVars, boundVars>>

ReportFailure(r) ==
  /\ Step(r, "reportFailure", "finSlot")
  /\ announced' = announced \cup {"failed"}
  /\ UNCHANGED <<bullVars, status, stamp, waits, manual, holdVars, tries, err, verdict,
                 flagVars, procVars, boundVars>>

-----------------------------------------------------------------------------
(* Its finally block. *)

\* The abort controller is removed by job id, whoever's it is.
FinSlot(r) ==
  /\ Step(r, "finSlot", "finDisk")
  /\ controller' = NoRun
  /\ armed' = armed \ {r}
  /\ slot' = (slot /\ r \notin slotHeld)
  /\ slotHeld' = slotHeld \ {r}
  /\ UNCHANGED <<bullVars, metaVars, lock, reserved, tries, err, verdict, diskHeld,
                 aborted, procVars, boundVars>>

FinDisk(r) ==
  /\ Step(r, "finDisk", "finLock")
  /\ reserved' = (reserved /\ r \notin diskHeld)
  /\ diskHeld' = diskHeld \ {r}
  /\ UNCHANGED <<bullVars, metaVars, lock, slot, tries, err, verdict, armed, slotHeld,
                 controller, aborted, procVars, boundVars>>

\* GET, then DEL: two commands.
FinLock(r) ==
  /\ IF lock = r THEN Step(r, "finLock", "finUnlock") ELSE Step(r, "finLock", "return")
  /\ UNCHANGED <<bullVars, metaVars, holdVars, tries, err, verdict, flagVars, procVars,
                 boundVars>>

FinUnlock(r) ==
  /\ Step(r, "finUnlock", "return")
  /\ lock' = NoRun
  /\ UNCHANGED <<bullVars, metaVars, reserved, slot, tries, err, verdict, flagVars,
                 procVars, boundVars>>

-----------------------------------------------------------------------------
(* recoverStuckJobs, for this job's key: the metadata is read, then BullMQ and  *)
(* the lock, then the job is left alone, failed or put back.                   *)

\* What was read is of no use after the probe.
RecoveryAt(from, to) == recovery.pc = from /\ recovery' = [NoPass EXCEPT !.pc = to]

\* What is not stuck although it is stale, on the evidence of both reads.
LeftAlone ==
  \/ recovery.status = "queued" /\ bull \in {"waiting", "delayed"}
  \/ bull = "completed"

Exhausted(made) == manual >= MaxManual \/ made >= MaxManual

\* A pass that reads a fresh stamp leaves the job alone, whatever it reads next.
RecRead ==
  /\ recovery.pc = "idle"
  /\ status \notin Terminal /\ ~ stamp.fresh
  /\ recovery' = [pc |-> "probe", status |-> status]
  /\ UNCHANGED <<bullVars, metaVars, holdVars, runVars, cancel, failure, boundVars>>

\* Without a BullMQ job the attempts are those the metadata last recorded, which
\* may be fewer.
RecProbe ==
  /\ \/ LeftAlone /\ RecoveryAt("probe", "idle")
     \/ Apart /\ status \in Terminal /\ RecoveryAt("probe", "idle")
     \/ /\ ~ LeftAlone
        /\ Apart => status \notin Terminal /\ \A r \in Runs : ~ Live(r)
        /\ \E made \in IF bull = "none" THEN 0 .. attempts ELSE {attempts} :
             \/ Exhausted(made) /\ RecoveryAt("probe", "fail")
             \/ ~ Exhausted(made) /\ RecoveryAt("probe", "release")
  /\ UNCHANGED <<bullVars, metaVars, holdVars, runVars, cancel, failure, boundVars>>

\* releaseDisk and DEL of the lock, on either branch, whoever holds them now.
RecRelease ==
  /\ \/ RecoveryAt("release", "mark")
     \/ RecoveryAt("failRelease", "failReport")
  /\ reserved' = FALSE
  /\ lock' = NoRun
  /\ UNCHANGED <<bullVars, metaVars, slot, runVars, cancel, failure, boundVars>>

\* Stage STUCK_RECOVERY: status and updatedAt, never heartbeatAt.
RecMark ==
  /\ RecoveryAt("mark", "remove")
  /\ Stage("retrying")
  /\ manual' = manual + 1
  /\ UNCHANGED <<bullVars, waits, announced, holdVars, runVars, cancel, failure,
                 boundVars>>

\* job.remove() fails on a job that is locked, and the failure is ignored.
Removable == bullLock = NoRun

Remove == bull' = IF Removable THEN "none" ELSE bull

RecRemove ==
  /\ \/ RecoveryAt("remove", "enqueue")
     \/ RecoveryAt("failRemove", "failRelease")
  /\ Remove
  /\ UNCHANGED <<bullLock, attempts, stalls, metaVars, holdVars, runVars, cancel,
                 failure, boundVars>>

\* enqueueFile, its metadata, and then its queue.add, which does nothing when
\* BullMQ still has a job of that id.  It refuses the job as recovery rebuilds it
\* from the metadata when that has no size or source any more, when another job has
\* its file version, and always when it is an audio job, which comes back as OTHER.
RecEnqueue ==
  /\ \/ RecoveryAt("enqueue", "idle") /\ UNCHANGED <<status, stamp>>
     \/ /\ RecoveryAt("enqueue", "add")
        /\ status' = "queued"
        /\ Touched("queuedAt")
  /\ UNCHANGED <<bullVars, waits, manual, announced, holdVars, runVars, cancel, failure,
                 boundVars>>

RecAdd ==
  /\ RecoveryAt("add", "idle")
  /\ IF bull = "none" THEN bull' = "waiting" /\ attempts' = 0 /\ stalls' = 0
                      ELSE UNCHANGED <<bull, attempts, stalls>>
  /\ UNCHANGED <<bullLock, metaVars, holdVars, runVars, cancel, failure, boundVars>>

RecFail ==
  /\ RecoveryAt("fail", "failRemove")
  /\ Stage("failed")
  /\ UNCHANGED <<bullVars, waits, manual, announced, holdVars, runVars, cancel, failure,
                 boundVars>>

RecReport ==
  /\ RecoveryAt("failReport", "idle")
  /\ announced' = announced \cup {"failed"}
  /\ UNCHANGED <<bullVars, status, stamp, waits, manual, holdVars, runVars, cancel,
                 failure, boundVars>>

-----------------------------------------------------------------------------
(* /job/cancel. *)

\* The request aborts whatever run is registered at this moment.
CancelAbort ==
  /\ cancel = "idle" /\ MaxCancels > 0 /\ Mishaps < MaxMishaps
  /\ cancel' = "remove"
  /\ aborted' = aborted \cup ({controller} \ {NoRun})
  /\ UNCHANGED <<bullVars, metaVars, holdVars, pc, tries, err, verdict, armed, diskHeld,
                 slotHeld, controller, recovery, failure, boundVars>>

CancelRemove ==
  /\ cancel = "remove" /\ cancel' = "mark"
  /\ Remove
  /\ UNCHANGED <<bullLock, attempts, stalls, metaVars, holdVars, runVars, recovery,
                 failure, boundVars>>

CancelMark ==
  /\ cancel = "mark" /\ cancel' = "unlock"
  /\ Stage("cancelled")
  /\ UNCHANGED <<bullVars, waits, manual, announced, holdVars, runVars, recovery,
                 failure, boundVars>>

CancelUnlock ==
  /\ cancel = "unlock" /\ cancel' = "free"
  /\ lock' = NoRun
  /\ UNCHANGED <<bullVars, metaVars, reserved, slot, runVars, recovery, failure,
                 boundVars>>

\* User slot, disk reservation, temp directory; then the answer.
CancelFree ==
  /\ cancel = "free" /\ cancel' = "done"
  /\ slot' = FALSE /\ reserved' = FALSE
  /\ UNCHANGED <<bullVars, metaVars, lock, runVars, recovery, failure, boundVars>>

-----------------------------------------------------------------------------
(* onBullJobFailed. *)

FailureAt(from, to) == failure.pc = from /\ failure' = [NoFailure EXCEPT !.pc = to]

FailureRead ==
  /\ IF status \in {"completed", "failed"} \/ ~ failure.terminal
     THEN FailureAt("read", "idle")
     ELSE FailureAt("read", "mark")
  /\ UNCHANGED <<bullVars, metaVars, holdVars, runVars, recovery, cancel, boundVars>>

FailureMark ==
  /\ FailureAt("mark", "release")
  /\ Stage("failed")
  /\ UNCHANGED <<bullVars, waits, manual, announced, holdVars, runVars, recovery, cancel,
                 boundVars>>

FailureRelease ==
  /\ FailureAt("release", "report")
  /\ reserved' = FALSE
  /\ lock' = NoRun
  /\ UNCHANGED <<bullVars, metaVars, slot, runVars, recovery, cancel, boundVars>>

FailureReport ==
  /\ FailureAt("report", "idle")
  /\ announced' = announced \cup {"failed"}
  /\ UNCHANGED <<bullVars, status, stamp, waits, manual, holdVars, runVars, recovery,
                 cancel, boundVars>>

-----------------------------------------------------------------------------
(* Time and crashes. *)

\* The stuck threshold passes and nobody refreshed the stamp.  A heartbeat that
\* owns the lock does, and a finally block is over long before.  Unless LongWaits
\* holds, waiting for a turn and preparing are quicker than the threshold, too, and
\* so are the others that work on the job.
Age ==
  /\ stamp.fresh
  /\ \A r \in Runs : ~ Renewing(r) /\ pc[r] \notin Finishing
  /\ \/ LongWaits
     \/ armed # {}
     \/ bull \notin {"waiting", "delayed"} /\ Quiet
  /\ stamp' = [stamp EXCEPT !.fresh = FALSE]
  /\ UNCHANGED <<bullVars, status, waits, manual, announced, holdVars, runVars, procVars,
                 boundVars>>

\* Only a dead run lets its lock expire: the others renew it or are quick.
LockExpire ==
  /\ lock # NoRun
  /\ ~ Live(lock)
  /\ lock' = NoRun
  /\ UNCHANGED <<bullVars, metaVars, reserved, slot, runVars, procVars, boundVars>>

\* The process dies and starts again.  What was in Redis is still there, except
\* what expires during a long outage.
Crash ==
  /\ crashes < MaxCrashes /\ Mishaps < MaxMishaps
  /\ crashes' = crashes + 1
  /\ pc' = [r \in Runs |-> "off"]
  /\ tries' = [r \in Runs |-> 0]
  /\ err' = [r \in Runs |-> "none"]
  /\ verdict' = [r \in Runs |-> "ok"]
  /\ armed' = {} /\ diskHeld' = {} /\ slotHeld' = {}
  /\ controller' = NoRun /\ aborted' = {}
  /\ recovery' = NoPass
  /\ cancel' = IF cancel = "idle" THEN "idle" ELSE "done"
  /\ failure' = NoFailure
  /\ IF LongOutages
     THEN /\ lock' = NoRun /\ bullLock' = NoRun
          /\ stamp' = [stamp EXCEPT !.fresh = FALSE]
     ELSE UNCHANGED <<lock, bullLock, stamp>>
  /\ UNCHANGED <<bull, attempts, stalls, status, waits, manual, announced, reserved,
                 slot, blocks>>

-----------------------------------------------------------------------------
Running(r) ==
  \/ Start(r) \/ Register(r) \/ TakeLock(r) \/ Contend(r) \/ Claim(r) \/ Setup(r)
  \/ Reserve(r) \/ StageReserved(r) \/ TakeUserSlot(r) \/ Arm(r) \/ Work(r)
  \/ Upload(r) \/ Complete(r) \/ Report(r)
  \/ Catch(r) \/ ScheduleWait(r) \/ Delay(r) \/ Fail(r) \/ ReportFailure(r)
  \/ FinSlot(r) \/ FinDisk(r) \/ FinLock(r) \/ FinUnlock(r)
  \/ Return(r)

Recovering ==
  \/ RecRead \/ RecProbe \/ RecRelease \/ RecMark \/ RecRemove \/ RecEnqueue \/ RecAdd
  \/ RecFail \/ RecReport

Cancelling == CancelRemove \/ CancelMark \/ CancelUnlock \/ CancelFree

HandlingFailure == FailureRead \/ FailureMark \/ FailureRelease \/ FailureReport

Passing == Promote \/ Stalled \/ BullLockExpire \/ LockExpire \/ Age

Next ==
  \/ \E r \in Runs : Dispatch(r) \/ Running(r) \/ Progress(r) \/ Block(r)
  \/ Recovering
  \/ CancelAbort \/ Cancelling
  \/ HandlingFailure
  \/ Passing
  \/ Crash

Spec == Init /\ [][Next]_vars

\* Handlers that can go on do, BullMQ and the minute timer keep working, and time
\* passes.  Nobody has to crash, to block or to cancel.
Fairness ==
  /\ \A r \in Runs : WF_vars(Running(r))
  /\ WF_vars(\E r \in Runs : Dispatch(r))
  /\ WF_vars(Recovering) /\ WF_vars(Cancelling) /\ WF_vars(HandlingFailure)
  /\ WF_vars(Promote) /\ WF_vars(Stalled)
  /\ WF_vars(BullLockExpire) /\ WF_vars(LockExpire) /\ WF_vars(Age)

FairSpec == Spec /\ Fairness

-----------------------------------------------------------------------------
(* Properties *)

\* A run works on the job when it is past the lock and not yet in its finally.
Executing == {r \in Runs : pc[r] \in Trying \cup Catching}

\* As long as no run loses BullMQ's lock, no two runs work on the job at the same
\* time, whatever recovery, cancellation and crashes do.
ExecutedOnce == blocks = 0 => Cardinality(Executing) <= 1

\* Nor does a run take lock:{id} over from one that is still at work, although
\* BullMQ's lock may be lost to it (handleJob's test of the heartbeat).
NeverUsurped ==
  [][\A r \in Runs : pc[r] = "claim" /\ pc'[r] = "setup" => lock \notin Executing]_vars

\* As long as the process does not crash, whatever is recorded under the job's id
\* belongs to a run that will give it back: on every way out of the handler, and
\* however recovery, cancellation and failure handling cut in.
HoldingsOwned ==
  crashes = 0 =>
    /\ reserved => diskHeld # {}
    /\ slot => slotHeld # {}
    /\ lock # NoRun => pc[lock] \in Trying \cup Catching \cup Finishing

\* For as long, and until the job has to wait for a resource, a cancellation finds the
\* run that works on the job: its controller is under the id and nobody has removed
\* it, although that is done by job id (activeJobAbortControllers).
Abortable == blocks = 0 /\ waits = 0 => \A r \in Executing : controller = r

\* A job BullMQ has finished with, and which recovery will therefore leave alone,
\* has reached a terminal status.
NotLost == Quiet /\ bull = "completed" => status \in Terminal

\* A crash between the status COMPLETED and the record of the callback costs the
\* client the outcome only if BullMQ gives the job up as stalled too often: else
\* the job, COMPLETED as it is, is run again, until somebody has reported success.
SuccessTold ==
  Quiet /\ status = "completed" /\ bull \in {"completed", "failed"} =>
    "completed" \in announced \/ stalls > MaxStalled

\* The run at work, of which there is one as long as no lock is lost.
AtWork == IF Executing = {} THEN NoRun ELSE CHOOSE r \in Executing : TRUE

\* What the client may rely on, seen through what the code keeps.
Contract == INSTANCE JobContract WITH
  Workers <- Runs, Nobody <- NoRun,
  worker <- AtWork,
  told <- announced,
  calm <- (crashes = 0)

\* Where recovery keeps apart from live runs: until a crash the client is told one
\* outcome, not two and not none; a job it was told the outcome of is not taken up
\* again, by BullMQ's attempts or by recovery; and nobody but the run at work tells
\* of success.  One run at a time works on the job, whatever crashes.
KeepsContract == Contract!Spec

\* The job ends, and stays ended.
EventuallySettled == <>[](status \in Terminal)

=============================================================================
