--------------------------- MODULE MCDistribution ---------------------------
(* Instances of Distribution for TLC. *)
EXTENDS Distribution, TLC

\* Runs differ in nothing but their identity.
Symmetry == Permutations(Runs)
=============================================================================
