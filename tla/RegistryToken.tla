--------------------------- MODULE RegistryToken ----------------------------
(***************************************************************************)
(* The tokens the Docker registry accepts: AuthTokenHandler and IssueJWT,  *)
(* one store call per scope entry, while registrations create namespaces   *)
(* (module Accounts; no namespace ever changes its owner there).           *)
(*                                                                         *)
(* A token stays good for a while after it was issued, so what matters is  *)
(* not only who owns a name when it is looked up.  A scope string lists    *)
(* its entries in some order; here they are looked up in any order.        *)
(***************************************************************************)
CONSTANTS
  Requests, Users, Names,
  Anonymous,  \* userID 0
  Unowned,    \* a namespace from before there were accounts: user_id NULL
  Absent      \* no such namespace

ASSUME SentinelAssumption ==
  /\ {Anonymous, Unowned, Absent} \cap Users = {}
  /\ Anonymous \notin {Unowned, Absent} /\ Unowned # Absent

VARIABLES
  owner,     \* of each namespace
  pc,        \* where a request is, or the status of its answer
  caller,    \* userID
  todo,      \* the scope entries not looked up yet
  accesses,  \* the entries granted so far; those of the token in the end
  owned      \* history: the caller had every name when the request arrived,
             \* and no call has failed since

vars == <<owner, pc, caller, todo, accesses, owned>>

\* The type of a scope is copied and never looked at.
ScopeEntry == [name : Names, actions : SUBSET {"pull", "push"}]

Statuses == {"200", "400", "401", "403"}

Init ==
  /\ owner \in [Names -> {Unowned, Absent}]
  /\ pc = [r \in Requests |-> "idle"]
  /\ caller = [r \in Requests |-> Anonymous]
  /\ todo = [r \in Requests |-> {}]
  /\ accesses = [r \in Requests |-> {}]
  /\ owned = [r \in Requests |-> FALSE]

-----------------------------------------------------------------------------
\* The namespace of a registration: what Accounts does to the table.
RegisterUser(u, n) ==
  /\ owner[n] = Absent
  /\ owner' = [owner EXCEPT ![n] = u]
  /\ UNCHANGED <<pc, caller, todo, accesses, owned>>

\* Whom the access token names; nobody when it is missing, invalid or expired.
Identity(valid) == IF valid = {} THEN {Anonymous} ELSE valid

\* The query has no service, or a scope entry without its two colons.
Malformed(r, status) ==
  /\ pc[r] = "idle"
  /\ pc' = [pc EXCEPT ![r] = status]
  /\ UNCHANGED <<owner, caller, todo, accesses, owned>>

Ask(r, valid, scopes) ==
  /\ pc[r] = "idle"
  /\ \E u \in Identity(valid) :
       /\ caller' = [caller EXCEPT ![r] = u]
       /\ todo' = [todo EXCEPT ![r] = scopes]
       /\ owned' = [owned EXCEPT ![r] = \A e \in scopes : owner[e.name] = u]
  /\ pc' = [pc EXCEPT ![r] = "issue"]
  /\ UNCHANGED <<owner, accesses>>

Receive(r) ==
  \E valid \in {{}} \cup {{u} : u \in Users}, scopes \in SUBSET ScopeEntry :
    Ask(r, valid, scopes)

-----------------------------------------------------------------------------
\* Bug for the checks: only for pushing must there be a namespace.
ExistsForPush(e) == owner[e.name] # Absent \/ "push" \notin e.actions

Exists(e) == owner[e.name] # Absent

\* Bugs for the checks: only callers with an account are compared; any
\* namespace with an owner is closed.
RefusedToUsers(r, e) ==
  caller[r] # Anonymous /\ owner[e.name] \notin {Unowned, caller[r]} /\ "push" \in e.actions
RefusedToAll(r, e) == owner[e.name] # Unowned /\ "push" \in e.actions

\* The namespace is somebody else's and one of the actions is push.
Refused(r, e) ==
  owner[e.name] \notin {Unowned, caller[r]} /\ "push" \in e.actions

Grant(r, e) ==
  /\ pc[r] = "issue" /\ e \in todo[r]
  /\ Exists(e) /\ ~Refused(r, e)
  /\ todo' = [todo EXCEPT ![r] = @ \ {e}]
  /\ accesses' = [accesses EXCEPT ![r] = @ \cup {e}]
  /\ UNCHANGED <<owner, pc, caller, owned>>

\* One entry that is absent or somebody else's, and there is no token at all.
Forbid(r, e) ==
  /\ pc[r] = "issue" /\ e \in todo[r]
  /\ ~Exists(e) \/ Refused(r, e)
  /\ pc' = [pc EXCEPT ![r] = "403"]
  /\ UNCHANGED <<owner, caller, todo, accesses, owned>>

\* GenerateToken, for no entries too.
Issue(r) ==
  /\ pc[r] = "issue" /\ todo[r] = {}
  /\ pc' = [pc EXCEPT ![r] = "200"]
  /\ UNCHANGED <<owner, caller, todo, accesses, owned>>

\* A look-up fails, or the signing.
CallFails(r) ==
  /\ pc[r] = "issue"
  /\ pc' = [pc EXCEPT ![r] = IF todo[r] # {} THEN "403" ELSE "401"]
  /\ owned' = [owned EXCEPT ![r] = FALSE]
  /\ UNCHANGED <<owner, caller, todo, accesses>>

\* What happens at the server and is not the arrival of a request.
Work ==
  \/ \E u \in Users, n \in Names : RegisterUser(u, n)
  \/ \E r \in Requests : Issue(r) \/ CallFails(r)
  \/ \E r \in Requests, e \in ScopeEntry : Grant(r, e) \/ Forbid(r, e)

Arrive(r) ==
  \/ \E status \in {"400", "401"} : Malformed(r, status)
  \/ Receive(r)

Next == Work \/ \E r \in Requests : Arrive(r)

Spec == Init /\ [][Next]_vars

-----------------------------------------------------------------------------
TypeOK ==
  /\ owner \in [Names -> Users \cup {Unowned, Absent}]
  /\ pc \in [Requests -> {"idle", "issue"} \cup Statuses]
  /\ caller \in [Requests -> Users \cup {Anonymous}]
  /\ todo \in [Requests -> SUBSET ScopeEntry]
  /\ accesses \in [Requests -> SUBSET ScopeEntry]
  /\ owned \in [Requests -> BOOLEAN]

\* service.go:106: an owner is compared only if there is one, when the token
\* is issued, and the token is used later.  Whatever registrations come in
\* between and afterwards, the names a token allows pushing to are the caller's,
\* or are from before there were accounts and nobody's for good.  For these a
\* caller needs no account even, against
\* docs/superpowers/specs/2026-06-06-user-authentication-design.md:117 and :368.
PushTokensOfOwners ==
  \A r \in Requests : \A e \in accesses[r] :
    pc[r] = "200" /\ "push" \in e.actions => owner[e.name] \in {caller[r], Unowned}

\* service.go:102: no token speaks of a name that is free for registration,
\* not even for pulling, so that no token is older than its namespace.
TokensOfExistingNames ==
  \A r \in Requests : pc[r] = "200" =>
    \A e \in accesses[r] : owner[e.name] # Absent

\* service.go:88: a request for the caller's own namespaces is never refused,
\* whatever else goes on between its look-ups, unless one of them fails.
OwnersServed == \A r \in Requests : owned[r] => pc[r] # "403"
=============================================================================
