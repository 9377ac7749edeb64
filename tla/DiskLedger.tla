----------------------------- MODULE DiskLedger -----------------------------
(***************************************************************************)
(* The disk reservations of the worker: one Redis counter with the total,  *)
(* one key per job, RESERVE_DISK_LUA and RELEASE_DISK_LUA, and the disk    *)
(* they are meant to protect.  A job reserves what it may write, writes    *)
(* its temp directory, gives the reservation back and leaves some of the   *)
(* files behind: the source cache, and the temp directory of a failure.    *)
(*                                                                         *)
(* statfs is sampled in the same turn of the event loop that sends the     *)
(* script, on the connection every other command of the process uses, so   *)
(* sampling and script are one action.                                     *)
(***************************************************************************)
EXTENDS Integers, FiniteSetsExt

CONSTANTS
  Jobs,
  Need,         \* Need[j]: estimateRequiredDisk, in units of disk
  Capacity,     \* size of the file system
  MinFree,      \* MIN_FREE_DISK, which no reservation may eat into
  MaxCrashes,   \* bound: process crashes in a behaviour
  MaxCancels,   \* bound: /job/cancel requests in a behaviour
  MaxOvertaken  \* bound: recoveries of a job that is being written, in a behaviour

ASSUME LedgerAssumption ==
  /\ IsFiniteSet(Jobs)
  /\ Need \in [Jobs -> Nat \ {0}]
  /\ Capacity \in Nat /\ MinFree \in Nat /\ MinFree <= Capacity
  /\ MaxCrashes \in Nat /\ MaxCancels \in Nat /\ MaxOvertaken \in Nat

VARIABLES
  total,        \* resource:disk:reserved_total
  reservation,  \* reservation[j]: resource:disk:job:j, 0 when the key is missing
  used,         \* used[j]: what job j's files occupy
  pc,           \* pc[j]: where the handler of job j is
  overtaken,    \* how often recovery has released what a live handler writes under
  crashes, cancels

boundVars == <<overtaken, crashes, cancels>>
vars == <<total, reservation, used, pc, boundVars>>

\* "idle": no handler; "writing": between a granted reservation and the last
\* byte; "stopped": writes nothing more, in the finally.
HandlerStates == {"idle", "writing", "stopped"}

TypeOK ==
  /\ total \in Nat
  /\ reservation \in [Jobs -> Nat]
  /\ used \in [Jobs -> Nat]
  /\ pc \in [Jobs -> HandlerStates]
  /\ overtaken \in 0 .. MaxOvertaken
  /\ crashes \in 0 .. MaxCrashes
  /\ cancels \in 0 .. MaxCancels

Sum(f) == MapThenSumSet(LAMBDA j : f[j], Jobs)

-----------------------------------------------------------------------------
(* Deliberately wrong variants, for the mutation runs. *)

FitsIgnoringReservations(j) == Capacity - Sum(used) - MinFree >= Need[j]

ReservedAgain(j) ==
  /\ total' = total + Need[j]
  /\ reservation' = [reservation EXCEPT ![j] = Need[j]]

-----------------------------------------------------------------------------
(* What the scripts decide and do. *)

Free == Capacity - Sum(used)

CanEverFit(j) == Capacity - MinFree >= Need[j]

Fits(j) == Free - total - MinFree >= Need[j]

Reserved(j) ==
  IF reservation[j] > 0
  THEN UNCHANGED <<total, reservation>>
  ELSE /\ total' = total + Need[j]
       /\ reservation' = [reservation EXCEPT ![j] = Need[j]]

Released(j) ==
  IF reservation[j] = 0
  THEN UNCHANGED <<total, reservation>>
  ELSE /\ total' = Max({0, total - reservation[j]})
       /\ reservation' = [reservation EXCEPT ![j] = 0]

-----------------------------------------------------------------------------
(* The handler. *)

Init ==
  /\ total = 0
  /\ reservation = [j \in Jobs |-> 0]
  /\ used = [j \in Jobs |-> 0]
  /\ pc = [j \in Jobs |-> "idle"]
  /\ overtaken = 0
  /\ crashes = 0
  /\ cancels = 0

\* A job that can never fit fails; one that cannot fit now is deferred.  Either
\* way nothing changes here.
Reserve(j) ==
  /\ pc[j] = "idle"
  /\ CanEverFit(j)
  /\ reservation[j] > 0 \/ Fits(j)
  /\ Reserved(j)
  /\ pc' = [pc EXCEPT ![j] = "writing"]
  /\ UNCHANGED <<used, boundVars>>

\* Download, remux, encode.  A later attempt overwrites the files of an earlier
\* one, so a job never occupies more than its estimate.
Write(j) ==
  /\ pc[j] = "writing"
  /\ used[j] < Need[j]
  /\ used' = [used EXCEPT ![j] = @ + 1]
  /\ UNCHANGED <<total, reservation, pc, boundVars>>

\* removeTempForResourceWait: the job waits for another resource and removes its
\* temp directory before it gives the reservation back.
RemoveForWait(j) ==
  /\ pc[j] = "writing"
  /\ \E left \in 0 .. used[j] : used' = [used EXCEPT ![j] = left]
  /\ pc' = [pc EXCEPT ![j] = "stopped"]
  /\ UNCHANGED <<total, reservation, boundVars>>

\* Any other end: success, failure, cancellation.
Stop(j) ==
  /\ pc[j] = "writing"
  /\ pc' = [pc EXCEPT ![j] = "stopped"]
  /\ UNCHANGED <<total, reservation, used, boundVars>>

\* The finally block gives the reservation back before it removes the temp
\* directory, which Remove then does, now or after the retention time.
Release(j) ==
  /\ pc[j] = "stopped"
  /\ Released(j)
  /\ pc' = [pc EXCEPT ![j] = "idle"]
  /\ UNCHANGED <<used, boundVars>>

\* The finally block, or the clean-up of a directory no handler uses any more.
\* What stays is the source cache.
Remove(j) ==
  /\ pc[j] = "idle"
  /\ used[j] > 0
  /\ \E left \in 0 .. used[j] - 1 : used' = [used EXCEPT ![j] = left]
  /\ UNCHANGED <<total, reservation, pc, boundVars>>

-----------------------------------------------------------------------------
(* Crash, recovery, cancellation. *)

Crash ==
  /\ crashes < MaxCrashes
  /\ crashes' = crashes + 1
  /\ pc' = [j \in Jobs |-> "idle"]
  /\ UNCHANGED <<total, reservation, used, overtaken, cancels>>

\* recoverStuckJobs and onBullJobFailed, for a job that is left over; or for one whose
\* handler goes on: heartbeatAt may be an earlier attempt's until the heartbeat is armed,
\* and the heartbeat stops once its lock is gone.
Recover(j) ==
  /\ reservation[j] > 0
  /\ Released(j)
  /\ \/ pc[j] # "writing" /\ UNCHANGED overtaken
     \/ pc[j] = "writing" /\ overtaken < MaxOvertaken /\ overtaken' = overtaken + 1
  /\ UNCHANGED <<used, pc, crashes, cancels>>

\* /job/cancel releases the reservation and removes the temp directory at once,
\* whether or not a handler is still writing: the processors know no abort.
Cancel(j) ==
  /\ cancels < MaxCancels
  /\ cancels' = cancels + 1
  /\ Released(j)
  /\ \E left \in 0 .. used[j] : used' = [used EXCEPT ![j] = left]
  /\ UNCHANGED <<pc, overtaken, crashes>>

-----------------------------------------------------------------------------
Handler(j) ==
  \/ Reserve(j) \/ Write(j) \/ RemoveForWait(j) \/ Stop(j) \/ Release(j) \/ Remove(j)

Next ==
  \/ \E j \in Jobs : Handler(j) \/ Recover(j) \/ Cancel(j)
  \/ Crash

Spec == Init /\ [][Next]_vars

-----------------------------------------------------------------------------
(* Properties *)

\* The counter is the sum of the reservations, through repeated attempts,
\* crashes, recoveries and cancellations: it neither drifts up, which would
\* starve later jobs, nor down, which would overcommit (the two scripts).
LedgerExact == total = Sum(reservation)

Undisturbed == cancels = 0 /\ overtaken = 0

\* Until a cancellation or the recovery of a live run, jobs that hold a reservation can
\* all write everything they reserved without eating into the floor: the bytes still to
\* come are covered.
ReservationsCovered ==
  LET toCome == [j \in Jobs |-> IF pc[j] = "writing" THEN Need[j] - used[j] ELSE 0]
  IN  Undisturbed => Free - Sum(toCome) >= MinFree

=============================================================================
