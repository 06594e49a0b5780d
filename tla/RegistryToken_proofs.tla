------------------------ MODULE RegistryToken_proofs ------------------------
(***************************************************************************)
(* The properties of RegistryToken for every set of requests, users and    *)
(* names.  None but the type is inductive: they speak of answered          *)
(* requests, while the look-ups come before.  What carries them is that a  *)
(* name with an owner keeps it.                                            *)
(***************************************************************************)
EXTENDS RegistryToken, TLAPS

\* What an entry that was granted says for the rest of time.
GrantsHold ==
  \A r \in Requests : \A e \in accesses[r] :
    /\ owner[e.name] # Absent
    /\ "push" \in e.actions => owner[e.name] \in {caller[r], Unowned}

\* A request has nothing granted before it is received.
FreshRequests == \A r \in Requests : pc[r] = "idle" => accesses[r] = {}

\* The names of an owner's request are still the caller's, an account's.
OwnersKeep ==
  \A r \in Requests : owned[r] =>
    /\ pc[r] # "403"
    /\ \A e \in todo[r] : owner[e.name] = caller[r] /\ owner[e.name] # Absent

IInv == TypeOK /\ GrantsHold /\ FreshRequests /\ OwnersKeep

\* The initial states: nothing granted, nothing asked for.
LEMMA InitInv == Init => IInv
BY SentinelAssumption
   DEF Init, IInv, TypeOK, GrantsHold, FreshRequests, OwnersKeep, ScopeEntry

\* A registration takes a name that nobody had, so no granted entry's and no
\* owner's.
LEMMA RegisterUserInv ==
  ASSUME IInv, NEW u \in Users, NEW n \in Names, RegisterUser(u, n)
  PROVE  IInv'
<1>1. TypeOK'
  BY DEF IInv, TypeOK, RegisterUser
<1>2. \A m \in Names : owner[m] # Absent => owner'[m] = owner[m]
  BY DEF IInv, TypeOK, RegisterUser
<1>3. \A r \in Requests : accesses[r] \subseteq ScopeEntry /\ todo[r] \subseteq ScopeEntry
  BY DEF IInv, TypeOK
<1>4. \A e \in ScopeEntry : e.name \in Names
  BY DEF ScopeEntry
<1>5. GrantsHold'
  BY <1>2, <1>3, <1>4 DEF IInv, GrantsHold, RegisterUser
<1>6. FreshRequests'
  BY DEF IInv, FreshRequests, RegisterUser
<1>7. OwnersKeep'
  BY <1>2, <1>3, <1>4 DEF IInv, OwnersKeep, RegisterUser
<1> QED
  BY <1>1, <1>5, <1>6, <1>7 DEF IInv

LEMMA MalformedInv ==
  ASSUME IInv, NEW r \in Requests, NEW status \in {"400", "401"}, Malformed(r, status)
  PROVE  IInv'
<1>1. TypeOK'
  BY DEF IInv, TypeOK, Malformed, Statuses
<1>2. GrantsHold'
  BY DEF IInv, GrantsHold, Malformed
<1>3. FreshRequests' /\ OwnersKeep'
  BY DEF IInv, TypeOK, FreshRequests, OwnersKeep, Malformed
<1> QED
  BY <1>1, <1>2, <1>3 DEF IInv

LEMMA AskInv ==
  ASSUME IInv, NEW r \in Requests, NEW valid \in {{}} \cup {{u} : u \in Users},
         NEW scopes \in SUBSET ScopeEntry, Ask(r, valid, scopes)
  PROVE  IInv'
<1>2. PICK u \in Identity(valid) :
        /\ caller' = [caller EXCEPT ![r] = u]
        /\ todo' = [todo EXCEPT ![r] = scopes]
        /\ owned' = [owned EXCEPT ![r] = \A e \in scopes : owner[e.name] = u]
  BY DEF Ask
<1>u. u \in Users \cup {Anonymous}
  BY DEF Identity
<1>3. TypeOK'
  BY <1>2, <1>u DEF IInv, TypeOK, Ask
<1>4. accesses[r] = {} /\ pc' = [pc EXCEPT ![r] = "issue"] /\ UNCHANGED <<owner, accesses>>
  BY DEF IInv, FreshRequests, Ask
<1>5. GrantsHold'
  BY <1>2, <1>4 DEF IInv, TypeOK, GrantsHold
<1>6. FreshRequests'
  BY <1>4 DEF IInv, TypeOK, FreshRequests
<1>7. OwnersKeep'
  <2> SUFFICES ASSUME NEW q \in Requests, owned'[q]
               PROVE  /\ pc'[q] # "403"
                      /\ \A e \in todo'[q] : owner'[e.name] = caller'[q] /\ owner'[e.name] # Absent
    BY DEF OwnersKeep
  <2>1. CASE q # r
    BY <1>2, <1>4, <2>1 DEF IInv, TypeOK, OwnersKeep
  <2>2. CASE q = r
    <3>1. caller'[r] = u /\ todo'[r] = scopes /\ pc'[r] = "issue"
      BY <1>2, <1>4 DEF IInv, TypeOK
    <3>2. owned'[r] = (\A e \in scopes : owner[e.name] = u)
      BY <1>2 DEF IInv, TypeOK
    <3>3. \A e \in scopes : owner[e.name] = u
      BY <2>2, <3>2
    <3>4. u # Absent
      BY <1>u, SentinelAssumption
    <3> QED
      BY <1>4, <2>2, <3>1, <3>3, <3>4
  <2> QED
    BY <2>1, <2>2
<1> QED
  BY <1>3, <1>5, <1>6, <1>7 DEF IInv

LEMMA GrantInv ==
  ASSUME IInv, NEW r \in Requests, NEW e \in ScopeEntry, Grant(r, e)
  PROVE  IInv'
<1>1. TypeOK'
  BY DEF IInv, TypeOK, Grant
<1>2. /\ owner[e.name] # Absent
      /\ "push" \in e.actions => owner[e.name] \in {caller[r], Unowned}
  BY DEF Grant, Exists, Refused
<1>3. GrantsHold'
  BY <1>2 DEF IInv, TypeOK, GrantsHold, Grant
<1>4. FreshRequests'
  BY DEF IInv, TypeOK, FreshRequests, Grant
<1>5. OwnersKeep'
  BY DEF IInv, TypeOK, OwnersKeep, Grant
<1> QED
  BY <1>1, <1>3, <1>4, <1>5 DEF IInv

\* Whoever is refused was not the owner of all names when the request came.
LEMMA ForbidInv ==
  ASSUME IInv, NEW r \in Requests, NEW e \in ScopeEntry, Forbid(r, e)
  PROVE  IInv'
<1>1. TypeOK'
  BY DEF IInv, TypeOK, Forbid, Statuses
<1>2. GrantsHold'
  BY DEF IInv, GrantsHold, Forbid
<1>3. FreshRequests'
  BY DEF IInv, TypeOK, FreshRequests, Forbid
<1>4. ~owned[r]
  BY DEF IInv, OwnersKeep, Forbid, Exists, Refused
<1>5. OwnersKeep'
  BY <1>4 DEF IInv, TypeOK, OwnersKeep, Forbid
<1> QED
  BY <1>1, <1>2, <1>3, <1>5 DEF IInv

LEMMA IssueInv ==
  ASSUME IInv, NEW r \in Requests, Issue(r)
  PROVE  IInv'
<1>1. TypeOK'
  BY DEF IInv, TypeOK, Issue, Statuses
<1>2. GrantsHold'
  BY DEF IInv, GrantsHold, Issue
<1>3. FreshRequests' /\ OwnersKeep'
  BY DEF IInv, TypeOK, FreshRequests, OwnersKeep, Issue
<1> QED
  BY <1>1, <1>2, <1>3 DEF IInv

LEMMA CallFailsInv ==
  ASSUME IInv, NEW r \in Requests, CallFails(r)
  PROVE  IInv'
<1>1. TypeOK'
  BY DEF IInv, TypeOK, CallFails, Statuses
<1>2. GrantsHold'
  BY DEF IInv, GrantsHold, CallFails
<1>3. FreshRequests' /\ OwnersKeep'
  BY DEF IInv, TypeOK, FreshRequests, OwnersKeep, CallFails
<1> QED
  BY <1>1, <1>2, <1>3 DEF IInv

LEMMA NextInv == IInv /\ [Next]_vars => IInv'
<1> SUFFICES ASSUME IInv, [Next]_vars PROVE IInv'
  OBVIOUS
<1>1. CASE \E u \in Users, n \in Names : RegisterUser(u, n)
  BY <1>1, RegisterUserInv
<1>2. CASE \E r \in Requests, status \in {"400", "401"} : Malformed(r, status)
  BY <1>2, MalformedInv
<1>3. CASE \E r \in Requests : Receive(r)
  BY <1>3, AskInv DEF Receive
<1>4. CASE \E r \in Requests : Issue(r) \/ CallFails(r)
  BY <1>4, IssueInv, CallFailsInv
<1>5. CASE \E r \in Requests, e \in ScopeEntry : Grant(r, e) \/ Forbid(r, e)
  BY <1>5, GrantInv, ForbidInv
<1>6. CASE UNCHANGED vars
  BY <1>6 DEF IInv, TypeOK, GrantsHold, FreshRequests, OwnersKeep, vars
<1> QED
  BY <1>1, <1>2, <1>3, <1>4, <1>5, <1>6 DEF Next, Work, Arrive

\* The inductive invariant holds throughout.
THEOREM Inductive == Spec => []IInv
BY InitInv, NextInv, PTL DEF Spec

\* The handler's variables keep their types (internal/handler/auth.go:23).
THEOREM TypeCorrect == Spec => []TypeOK
<1>1. IInv => TypeOK
  BY DEF IInv
<1> QED
  BY <1>1, Inductive, PTL

\* A name that a token allows pushing to is that of the user it was issued to,
\* or has no owner and never gets one, however old the token is
\* (internal/service/service.go:106).
THEOREM PushSafety == Spec => []PushTokensOfOwners
<1>1. IInv => PushTokensOfOwners
  BY DEF IInv, GrantsHold, PushTokensOfOwners
<1> QED
  BY <1>1, Inductive, PTL

\* No token is older than a namespace it speaks of (service.go:102).
THEOREM ExistenceSafety == Spec => []TokensOfExistingNames
<1>1. IInv => TokensOfExistingNames
  BY DEF IInv, GrantsHold, TokensOfExistingNames
<1> QED
  BY <1>1, Inductive, PTL

\* The owner of all names of a request is not refused (service.go:106).
THEOREM OwnerSafety == Spec => []OwnersServed
<1>1. IInv => OwnersServed
  BY DEF IInv, OwnersKeep, OwnersServed
<1> QED
  BY <1>1, Inductive, PTL
=============================================================================
