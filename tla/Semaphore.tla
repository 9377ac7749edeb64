----------------------------- MODULE Semaphore -----------------------------
(***************************************************************************)
(* What every guard of the worker promises: at most Limit users are inside  *)
(* at a time, and whoever enters finds room.  The promise lasts as long as   *)
(* it is calm; what ends the calm is for the guard that implements this to   *)
(* say.                                                                     *)
(***************************************************************************)
EXTENDS Integers, FiniteSets

CONSTANTS
  Users,
  Limit    \* how many may be inside, at least one

VARIABLES
  inside,  \* the users that are in
  calm     \* nothing has ended the promise yet

vars == <<inside, calm>>

Init == inside = {} /\ calm \in BOOLEAN

Enter(u) ==
  /\ u \notin inside
  /\ calm => Cardinality(inside) < Limit
  /\ inside' = inside \cup {u}
  /\ UNCHANGED calm

\* One leaves, or several at once: a crash puts them all out.
Leave ==
  /\ inside' \subseteq inside
  /\ UNCHANGED calm

Disturb ==
  /\ calm' = FALSE
  /\ inside' \subseteq inside

Next == (\E u \in Users : Enter(u)) \/ Leave \/ Disturb

Spec == Init /\ [][Next]_vars

=============================================================================
