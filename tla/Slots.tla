-------------------------------- MODULE Slots --------------------------------
(***************************************************************************)
(* One holder set of the worker's resource manager: a Redis set of holder  *)
(* ids guarded by ACQUIRE_SET_SLOT_LUA.  The same code serves the four CPU *)
(* lanes, the per-user slots and the global upload slots; kind says which  *)
(* of them this instance is, because their callers differ:                 *)
(*   "cpu"     withCpuSlot around a processor, refusal defers the job      *)
(*   "user"    taken before the download, refusal defers the job, and      *)
(*             /job/cancel gives it back on the job's behalf               *)
(*   "upload"  uploadToR2 polls until it is granted                        *)
(*   "local"   uploadObject with STORAGE_PROVIDER=local                    *)
(*                                                                         *)
(* Beside the handlers run the passes of reconcileHolderSet, which read a  *)
(* holder's job state and later remove the holder.  The minute timer of    *)
(* index.ts starts two at once: one itself, one through recoverStuckJobs.  *)
(***************************************************************************)
EXTENDS Integers, FiniteSets

CONSTANTS
  Jobs,         \* jobs that contend for this set
  Limit,        \* its limit (lane, tier or MAX_PARALLEL_UPLOADS)
  Kinds,        \* the callers to consider
  MaxCrashes,   \* bound: process crashes in a behaviour
  MaxCancels,   \* bound: /job/cancel requests in a behaviour
  Passes,       \* reconcile passes that may run at the same time
  Racing,       \* may a job go from dispatch to its slot between a
                \* reconcile pass's last read and its SREM?
  NoJob         \* null value, not a job

ASSUME SlotsAssumption ==
  /\ IsFiniteSet(Jobs)
  /\ Limit \in Nat \ {0}
  /\ MaxCrashes \in Nat
  /\ MaxCancels \in Nat
  /\ Racing \in BOOLEAN
  /\ Kinds \subseteq {"cpu", "user", "upload", "local"}
  /\ NoJob \notin Jobs

VARIABLES
  kind,      \* which caller this is; chosen once
  holders,   \* the Redis set
  bull,      \* bull[j]: state of the BullMQ job
  vouched,   \* jobs whose status is not terminal, whose lock exists and whose
             \* heartbeat is fresh: what the pass accepts as a sign of life
  pc,        \* pc[j]: where the handler of job j is, in this process
  todo,      \* todo[p]: holders pass p has still to look at
  doomed,    \* doomed[p]: the holder it has decided to remove, or NoJob
  crashes, cancels

jobVars == <<bull, vouched, pc>>
passVars == <<todo, doomed>>
vars == <<kind, holders, bull, vouched, pc, todo, doomed, crashes, cancels>>

BullStates == {"waiting", "active", "finished"}

\* "idle": no handler of the job runs here; "running": one runs, outside the
\* section this set guards; "inside": it is in that section.
HandlerStates == {"idle", "running", "inside"}

TypeOK ==
  /\ kind \in Kinds
  /\ holders \subseteq Jobs
  /\ bull \in [Jobs -> BullStates]
  /\ vouched \subseteq Jobs
  /\ pc \in [Jobs -> HandlerStates]
  /\ todo \in [Passes -> SUBSET Jobs]
  /\ doomed \in [Passes -> Jobs \cup {NoJob}]
  /\ crashes \in 0 .. MaxCrashes
  /\ cancels \in 0 .. MaxCancels

Inside == {j \in Jobs : pc[j] = "inside"}

-----------------------------------------------------------------------------
(* Deliberately wrong variants, for the mutation runs. *)

GrantedAtLimit(j) == j \in holders \/ Cardinality(holders) <= Limit

StaleThoughActive(j) == j \notin vouched

StaleOnlyIfWaiting(j) == bull[j] = "waiting" /\ j \notin vouched

-----------------------------------------------------------------------------
(* The decisions: ACQUIRE_SET_SLOT_LUA's, and the reconcile pass's. *)

Granted(j) == j \in holders \/ Cardinality(holders) < Limit

Stale(j) == bull[j] # "active" /\ j \notin vouched

-----------------------------------------------------------------------------
(* The handler. *)

Init ==
  /\ kind \in Kinds
  /\ holders = {}
  /\ bull = [j \in Jobs |-> "waiting"]
  /\ vouched = {}
  /\ pc = [j \in Jobs |-> "idle"]
  /\ todo = [p \in Passes |-> {}]
  /\ doomed = [p \in Passes |-> NoJob]
  /\ crashes = 0
  /\ cancels = 0

\* BullMQ hands the job to handleJob, which takes the lock and arms the
\* heartbeat before it asks for any slot.
Dispatch(j) ==
  /\ bull[j] = "waiting"
  /\ Racing \/ \A p \in Passes : doomed[p] # j
  /\ bull' = [bull EXCEPT ![j] = "active"]
  /\ pc' = [pc EXCEPT ![j] = "running"]
  /\ vouched' = vouched \cup {j}
  /\ UNCHANGED <<kind, holders, passVars, crashes, cancels>>

\* The script grants the slot and the guarded section begins.
Enter(j) ==
  /\ pc[j] = "running"
  /\ Granted(j)
  /\ holders' = holders \cup {j}
  /\ pc' = [pc EXCEPT ![j] = "inside"]
  /\ UNCHANGED <<kind, bull, vouched, passVars, crashes, cancels>>

\* The script refuses: ResourceUnavailableError defers the job and the handler's
\* finally drops its lock.  uploadToR2 sleeps and asks again instead, which
\* changes nothing, and the local driver goes on without looking at the answer.
Refused(j) ==
  /\ pc[j] = "running"
  /\ ~ Granted(j)
  /\ \/ /\ kind \in {"cpu", "user"}
        /\ bull' = [bull EXCEPT ![j] = "waiting"]
        /\ pc' = [pc EXCEPT ![j] = "idle"]
        /\ vouched' = vouched \ {j}
     \/ /\ kind = "local"
        /\ pc' = [pc EXCEPT ![j] = "inside"]
        /\ UNCHANGED <<bull, vouched>>
  /\ UNCHANGED <<kind, holders, passVars, crashes, cancels>>

\* End of the section, by success or by error: the finally releases the slot.
Leave(j) ==
  /\ pc[j] = "inside"
  /\ holders' = holders \ {j}
  /\ pc' = [pc EXCEPT ![j] = "running"]
  /\ UNCHANGED <<kind, bull, vouched, passVars, crashes, cancels>>

\* The handler returns or throws; BullMQ finishes the job or puts it back.
Finish(j) ==
  /\ pc[j] = "running"
  /\ pc' = [pc EXCEPT ![j] = "idle"]
  /\ vouched' = vouched \ {j}
  /\ \E s \in {"waiting", "finished"} : bull' = [bull EXCEPT ![j] = s]
  /\ UNCHANGED <<kind, holders, passVars, crashes, cancels>>

\* /job/cancel: the job leaves BullMQ unless a handler's BullMQ lock keeps it
\* there, in which case it runs on; in both cases the status becomes CANCELLED,
\* the lock is deleted and the user slot is given back.  CPU and upload slots
\* are left to the handler.
Cancel(j) ==
  /\ cancels < MaxCancels
  /\ cancels' = cancels + 1
  /\ \/ bull[j] = "active" /\ UNCHANGED bull
     \/ pc[j] = "idle" /\ bull' = [bull EXCEPT ![j] = "finished"]
  /\ vouched' = vouched \ {j}
  /\ holders' = IF kind = "user" THEN holders \ {j} ELSE holders
  /\ UNCHANGED <<kind, pc, passVars, crashes>>

-----------------------------------------------------------------------------
(* Crash, and what time does to what it leaves behind. *)

\* The process dies and is restarted: handlers and the pass are gone, Redis stays.
Crash ==
  /\ crashes < MaxCrashes
  /\ crashes' = crashes + 1
  /\ pc' = [j \in Jobs |-> "idle"]
  /\ todo' = [p \in Passes |-> {}]
  /\ doomed' = [p \in Passes |-> NoJob]
  /\ UNCHANGED <<kind, holders, bull, vouched, cancels>>

\* BullMQ notices that nobody renews the job: back to waiting, or failed.
Stalled(j) ==
  /\ bull[j] = "active"
  /\ pc[j] = "idle"
  /\ \E s \in {"waiting", "finished"} : bull' = [bull EXCEPT ![j] = s]
  /\ UNCHANGED <<kind, holders, vouched, pc, passVars, crashes, cancels>>

\* The lock of a dead handler expires, its heartbeat grows old.
Lapse(j) ==
  /\ j \in vouched
  /\ pc[j] = "idle"
  /\ vouched' = vouched \ {j}
  /\ UNCHANGED <<kind, holders, bull, pc, passVars, crashes, cancels>>

-----------------------------------------------------------------------------
(* reconcileHolderSet: SMEMBERS, then for each holder three reads, a          *)
(* decision, and an SREM that is a separate command.                          *)

PassBegin(p) ==
  /\ todo[p] = {} /\ doomed[p] = NoJob
  /\ holders # {}
  /\ todo' = [todo EXCEPT ![p] = holders]
  /\ UNCHANGED <<kind, holders, jobVars, doomed, crashes, cancels>>

PassInspect(p) ==
  /\ doomed[p] = NoJob
  /\ \E j \in todo[p] :
       /\ todo' = [todo EXCEPT ![p] = @ \ {j}]
       /\ doomed' = [doomed EXCEPT ![p] = IF Stale(j) THEN j ELSE NoJob]
  /\ UNCHANGED <<kind, holders, jobVars, crashes, cancels>>

PassRemove(p) ==
  /\ doomed[p] # NoJob
  /\ holders' = holders \ {doomed[p]}
  /\ doomed' = [doomed EXCEPT ![p] = NoJob]
  /\ UNCHANGED <<kind, jobVars, todo, crashes, cancels>>

-----------------------------------------------------------------------------
Handler(j) == Dispatch(j) \/ Enter(j) \/ Refused(j) \/ Leave(j) \/ Finish(j)

Pass(p) == PassBegin(p) \/ PassInspect(p) \/ PassRemove(p)

Next ==
  \/ \E j \in Jobs : Handler(j) \/ Cancel(j) \/ Stalled(j) \/ Lapse(j)
  \/ \E p \in Passes : Pass(p)
  \/ Crash

Spec == Init /\ [][Next]_vars

\* The timers of index.ts and BullMQ keep firing and a handler that can go on
\* does; nobody has to crash or to cancel.
Fairness ==
  /\ \A p \in Passes : WF_vars(Pass(p))
  /\ \A j \in Jobs : WF_vars(Handler(j)) /\ WF_vars(Stalled(j)) /\ WF_vars(Lapse(j))

FairSpec == Spec /\ Fairness

-----------------------------------------------------------------------------
(* Properties *)

\* The Redis set never holds more ids than its limit, whatever crashes, cancels
\* and reconcile passes do (ACQUIRE_SET_SLOT_LUA).
HoldersWithinLimit == Cardinality(holders) <= Limit

\* The local driver does not heed a refusal, and /job/cancel gives back the user slot
\* of a handler that runs on.
Heeded == kind # "local" /\ (kind = "user" => cancels = 0)

\* What the limit is for: where refusals are heeded, no more handlers are in the
\* guarded section than it allows, leftovers of crashed handlers and the passes
\* notwithstanding (withCpuSlot, tryAcquireUserSlot, uploadToR2).
SectionsWithinLimit == Heeded => Cardinality(Inside) <= Limit

\* The handlers in the section, as users of a semaphore.
Gate == INSTANCE Semaphore WITH
  Users <- Jobs, Limit <- Limit, inside <- Inside, calm <- Heeded

\* The Redis set with its script, its careless removals and its reconcile passes
\* implements the semaphore that withCpuSlot, tryAcquireUserSlot and uploadToR2 take
\* it for: also whoever enters beside a leftover finds room.
ImplementsSemaphore == Gate!Spec

\* A slot that a dead handler left behind is taken from it, or its job runs
\* again and will give it back itself (reconcileHolderSet).
LeakReclaimed ==
  \A j \in Jobs :
    (j \in holders /\ pc[j] = "idle") ~> (j \notin holders \/ pc[j] # "idle")

=============================================================================
