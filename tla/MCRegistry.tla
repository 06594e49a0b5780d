----------------------------- MODULE MCRegistry -----------------------------
(* Instances of Registry for TLC. *)
EXTENDS Registry, TLC

CONSTANTS
  n1, n2,      \* the namespaces
  p1,          \* the plugin
  v1, v2,      \* versions
  d1, d2, d3,  \* digests
  textA, textB \* descriptions

\* All users have one local part and compete for one name; the other name is
\* there from the beginning, or never.
MCHome == [u \in Owners |-> n1]

MCContent ==
  [d \in Digests |->
     [name |-> p1, version |-> IF d = d3 THEN v2 ELSE v1,
      description |-> IF d = d2 THEN textB ELSE textA, readme |-> d]]

\* From the beginning, asked for by a number below it too, and from the second.
MCOffsets == {-1, 1}

Symmetry == Permutations(Requests) \cup Permutations(Owners)
=============================================================================
