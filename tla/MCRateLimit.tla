---------------------------- MODULE MCRateLimit ----------------------------
(* Instances of RateLimit for TLC; the bounds are in the cfg files. *)
EXTENDS RateLimit, TLC

Symmetry == Permutations(IPs)
=============================================================================
