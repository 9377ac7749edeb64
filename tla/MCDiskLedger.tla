---------------------------- MODULE MCDiskLedger ----------------------------
(* DiskLedger on three jobs of different size: the big one never fits beside *)
(* either of the others once the floor is taken off.                         *)
EXTENDS DiskLedger

CONSTANTS small, medium, big

MCJobs == {small, medium, big}
MCNeed == [j \in MCJobs |-> CASE j = small -> 1 [] j = medium -> 2 [] j = big -> 3]

=============================================================================
