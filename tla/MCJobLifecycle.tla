--------------------------- MODULE MCJobLifecycle ---------------------------
(* JobLifecycle with at most two runs at a time: the one that works and one *)
(* that BullMQ starts beside it or after it.                                *)
EXTENDS JobLifecycle, TLC

\* Runs are interchangeable; only for runs without liveness properties.
RunSymmetry == Permutations(Runs)

\* The phases in which a handler may be when its process blocks.
WhileArmed == {"work", "upload"}
Nowhere == {}

=============================================================================
