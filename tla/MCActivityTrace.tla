--------------------------- MODULE MCActivityTrace ---------------------------
(* Instances of ActivityTrace for TLC. *)
EXTENDS ActivityTrace, TLC

\* Runs differ in nothing but their name.
MCSymmetry == Permutations(Run)

=============================================================================
