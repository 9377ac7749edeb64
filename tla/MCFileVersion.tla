---------------------------- MODULE MCFileVersion ----------------------------
(* FileVersion with three jobs that are submitted for one file version. *)
EXTENDS FileVersion, TLC

\* Jobs are interchangeable.
VersionSymmetry == Permutations(Jobs)

=============================================================================
