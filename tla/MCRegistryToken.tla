-------------------------- MODULE MCRegistryToken ---------------------------
(* Instances of CLISession, and RegistryToken with it, for TLC. *)
EXTENDS CLISession, TLC

CONSTANTS u1, u2, l1, l2, l3

\* Three logins of two users, who write files of two lengths.
MCAccount == l1 :> u1 @@ l2 :> u2 @@ l3 :> u1
MCSize == l1 :> 1 @@ l2 :> 2 @@ l3 :> 2

\* One Docker client with any scopes; or one command and the logins.
MCStages ==
  [docker : {{r} : r \in Requests}, commands : {{}}, logins : {{}}]
    \cup [docker : {{}}, commands : {Requests}, logins : {Logins}]

\* Names differ in nothing but their identity.
Symmetry == Permutations(Names)
=============================================================================
