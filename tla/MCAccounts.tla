----------------------------- MODULE MCAccounts -----------------------------
(* Instances of Accounts for TLC. *)
EXTENDS Accounts, TLC

CONSTANTS
  alice1, alice2,  \* two addresses with the same local part
  nameless,        \* an address with an empty local part
  alice, bob,      \* their local part, and a name nobody here has
  good, other      \* two passwords of acceptable length

MCLocalPart ==
  [e \in Emails |-> IF e = nameless THEN NoName ELSE alice]

\* The two alice addresses, and the two acceptable passwords, differ in nothing
\* but their identity.
Symmetry ==
  Permutations(Requests) \cup Permutations({alice1, alice2})
    \cup Permutations({good, other})
=============================================================================
