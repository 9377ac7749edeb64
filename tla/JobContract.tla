---------------------------- MODULE JobContract ----------------------------
(***************************************************************************)
(* What the service promises about one submitted job, with nothing of how:  *)
(* one worker at a time, and one outcome, after which nobody works on the   *)
(* job again.  A crash ends the promises about the outcome, since nobody    *)
(* knows any more what the client was told, but not the one about workers.  *)
(***************************************************************************)
EXTENDS Integers

CONSTANTS
  Workers,
  Nobody   \* null value, not a worker

VARIABLES
  worker,  \* who works on the job, or Nobody
  told,    \* outcomes the client has been told of
  calm     \* nothing has crashed so far

vars == <<worker, told, calm>>

Outcomes == {"completed", "failed"}

Init == worker = Nobody /\ told = {} /\ calm = TRUE

Take(w) ==
  /\ worker = Nobody
  /\ calm => told = {}
  /\ worker' = w
  /\ UNCHANGED <<told, calm>>

\* Finished with it, or put off, for whatever reason.
Drop ==
  /\ worker' = Nobody
  /\ UNCHANGED <<told, calm>>

\* Only somebody who works on the job knows that it is completed.  Telling is the
\* last thing a worker does; after a crash others may tell of a job it works on.
Tell(o) ==
  /\ calm => told \subseteq {o}
  /\ o = "completed" => worker # Nobody
  /\ told' = told \cup {o}
  /\ worker' \in {worker, Nobody} /\ (calm => worker' = Nobody)
  /\ UNCHANGED calm

Crash ==
  /\ worker' = Nobody
  /\ calm' = FALSE
  /\ UNCHANGED told

Next ==
  \/ \E w \in Workers : Take(w)
  \/ \E o \in Outcomes : Tell(o)
  \/ Drop
  \/ Crash

\* The client is told, unless a crash comes between.
Told == <>(told # {} \/ ~ calm)

Safety == Init /\ [][Next]_vars

Spec == Safety /\ Told

=============================================================================
