----------------------------- MODULE MCPublish -----------------------------
(* Instances of Publish for TLC. *)
EXTENDS Publish, TLC

CONSTANTS
  p1, p2,          \* plugin names
  v1, v2,          \* versions
  d1, d2, d3, d4,  \* digests
  textA, textB     \* descriptions

\* Two builds of version v1 with different descriptions, one of v2 that shares
\* the description of the first and has no README, and an image without a
\* valid plugin.yaml.
MCContent ==
  [d \in Digests |->
     CASE d = d1 -> [name |-> p1, version |-> v1, description |-> textA, readme |-> d1]
       [] d = d2 -> [name |-> p1, version |-> v1, description |-> textB, readme |-> d2]
       [] d = d3 -> [name |-> p1, version |-> v2, description |-> textA, readme |-> Blank]
       [] d = d4 -> Broken]

Symmetry == Permutations(Requests)
=============================================================================
