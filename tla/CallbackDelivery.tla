-------------------------- MODULE CallbackDelivery --------------------------
(***************************************************************************)
(* How the outcomes of one job reach the client.  Whoever decides on an      *)
(* outcome (handleJob, recoverStuckJobs, onBullJobFailed) puts its payload   *)
(* under pending_callback:{id}, over whatever is there, posts it once and    *)
(* deletes the key when the client answers.  A timer posts what it finds     *)
(* under the key again, and deletes the key likewise.  The key has no time   *)
(* to live; the job's hash, from which the timer takes the URL, has a day.   *)
(***************************************************************************)
EXTENDS Integers, FiniteSets

CONSTANTS
  Outcomes,     \* outcomes somebody decides on, one sender each
  FromQueue,    \* those of handleJob, which has the URL from BullMQ's job
  None,         \* no outcome
  MaxRefusals,  \* bound: posts that fail, in a behaviour
  MaxCrashes    \* bound: process crashes in a behaviour

ASSUME CallbackAssumption ==
  None \notin Outcomes /\ FromQueue \subseteq Outcomes /\ MaxRefusals \in Nat /\ MaxCrashes \in Nat

VARIABLES
  pending,   \* payload under the key, or None
  latest,    \* the outcome recorded last, or None
  received,  \* outcomes the client got
  url,       \* callbackUrl is in the job's hash
  pc,        \* pc[o]: where the sender of o is
  retry,     \* [pc, read]: the pass of the retry timer and what it has read
  refusals, crashes

vars == <<pending, latest, received, url, pc, retry, refusals, crashes>>

TypeOK ==
  /\ pending \in Outcomes \cup {None} /\ latest \in Outcomes \cup {None}
  /\ received \subseteq Outcomes /\ url \in BOOLEAN
  /\ pc \in [Outcomes -> {"undecided", "post", "delete", "done"}]
  /\ retry \in [pc : {"idle", "post", "delete"}, read : Outcomes \cup {None}]
  /\ refusals \in 0 .. MaxRefusals /\ crashes \in 0 .. MaxCrashes

Init ==
  /\ pending = None /\ latest = None /\ received = {} /\ url = TRUE
  /\ pc = [o \in Outcomes |-> "undecided"]
  /\ retry = [pc |-> "idle", read |-> None]
  /\ refusals = 0 /\ crashes = 0

-----------------------------------------------------------------------------
(* A deliberately wrong variant, for the mutation runs: an HTTP error counts *)
(* as an answer.                                                             *)

AnyAnswerWill(ok) == TRUE

\* Is this what the client's answer has to be for the key to be deleted?
Accepted(ok) == ok

\* The client gets o and answers; or it gets it and the answer is lost; or it
\* does not get it.
Post(o, ok) ==
  \/ ok /\ received' = received \cup {o} /\ UNCHANGED refusals
  \/ /\ ~ ok
     /\ refusals < MaxRefusals
     /\ refusals' = refusals + 1
     /\ received' \in {received, received \cup {o}}

-----------------------------------------------------------------------------
(* The sender.  Recovery and the failure handler report only what the hash has a *)
(* URL for.                                                                      *)

Record(o) ==
  /\ pc[o] = "undecided" /\ (url \/ o \in FromQueue)
  /\ pc' = [pc EXCEPT ![o] = "post"]
  /\ pending' = o
  /\ latest' = o
  /\ UNCHANGED <<received, url, retry, refusals, crashes>>

\* notifyCallback.
Notify(o) ==
  /\ pc[o] = "post"
  /\ \E ok \in BOOLEAN :
       /\ Post(o, ok)
       /\ pc' = [pc EXCEPT ![o] = IF Accepted(ok) THEN "delete" ELSE "done"]
  /\ UNCHANGED <<pending, latest, url, retry, crashes>>

\* DEL of the key, whatever is under it now.
Delete(o) ==
  /\ pc[o] = "delete"
  /\ pc' = [pc EXCEPT ![o] = "done"]
  /\ pending' = None
  /\ UNCHANGED <<latest, received, url, retry, refusals, crashes>>

-----------------------------------------------------------------------------
(* retryPendingCallbacks; "running" admits one pass at a time. *)

RetryRead ==
  /\ retry.pc = "idle" /\ pending # None /\ url
  /\ retry' = [pc |-> "post", read |-> pending]
  /\ UNCHANGED <<pending, latest, received, url, pc, refusals, crashes>>

RetryPost ==
  /\ retry.pc = "post"
  /\ \E ok \in BOOLEAN :
       /\ Post(retry.read, ok)
       /\ retry' = [retry EXCEPT !.pc = IF Accepted(ok) THEN "delete" ELSE "idle"]
  /\ UNCHANGED <<pending, latest, url, pc, crashes>>

RetryDelete ==
  /\ retry.pc = "delete"
  /\ retry' = [retry EXCEPT !.pc = "idle"]
  /\ pending' = None
  /\ UNCHANGED <<latest, received, url, pc, refusals, crashes>>

-----------------------------------------------------------------------------
\* Requests under way are lost; the key has no time to live.
Crash ==
  /\ crashes < MaxCrashes
  /\ crashes' = crashes + 1
  /\ pc' = [o \in Outcomes |-> IF pc[o] = "undecided" THEN "undecided" ELSE "done"]
  /\ retry' = [retry EXCEPT !.pc = "idle"]
  /\ UNCHANGED <<pending, latest, received, url, refusals>>

\* The hash expires a day after its last update, that of a job still in the queue
\* as well; what writes to it later does not bring the URL back.  No request lasts
\* as long.
Expire ==
  /\ url /\ retry.pc = "idle" /\ \A o \in Outcomes : pc[o] \in {"undecided", "done"}
  /\ url' = FALSE
  /\ UNCHANGED <<pending, latest, received, pc, retry, refusals, crashes>>

Retry == RetryRead \/ RetryPost \/ RetryDelete

Next ==
  \/ \E o \in Outcomes : Record(o) \/ Notify(o) \/ Delete(o)
  \/ Retry
  \/ Crash
  \/ Expire

Spec == Init /\ [][Next]_vars

\* The retry timer keeps firing.
FairSpec == Spec /\ WF_vars(Retry)

-----------------------------------------------------------------------------
(* Properties *)

\* A recorded outcome is not dropped before the client has been told something:
\* the key goes only after an answer (callbackRetry.ts, notifyCallback).
NothingDroppedUntold == latest # None /\ pending = None => received # {}

\* Once an outcome is recorded, the client is told one, whatever crashes and
\* refusals come between (startCallbackRetryWorker), within the day the hash with
\* the URL lasts; after that the record stays, and nobody sends it.
ClientTold == (latest # None) ~> (received # {} \/ ~ url)

=============================================================================
