------------------------------ MODULE Accounts ------------------------------
(***************************************************************************)
(* User accounts and sessions: the three POST handlers of                  *)
(* internal/handler/auth_user.go over UserService                          *)
(* (internal/service/auth_user.go) and the users, namespaces and           *)
(* refresh_tokens tables of pkg/store.                                     *)
(*                                                                         *)
(* None of these operations uses a transaction: every store call is a      *)
(* statement of its own, so every store call is one action here and the    *)
(* requests interleave between them.  A request is handled once; the       *)
(* refresh token a request draws is 256 random bits, so it is named after  *)
(* the request that draws it.                                              *)
(***************************************************************************)
EXTENDS Integers, FiniteSets

CONSTANTS
  Requests,       \* the requests of the clients
  Emails,         \* e-mail addresses; users.email is unique and names the user
  Passwords,      \* passwords a client may send
  ShortPasswords, \* those under minPasswordLength
  LongPasswords,  \* those over the 72 bytes bcrypt accepts
  Names,          \* namespace names
  LocalPart,      \* emailToNamespace: the part before the @
  NoName,         \* the empty local part, refused by the NotEmpty validator
  Nobody,         \* no user
  Absent,         \* no row
  Unowned,        \* a namespace whose user_id is NULL
  Outcomes,       \* what a store call may do: "ok", "failed" without effect,
                  \* or "lost": the effect happens, the caller sees an error
  RefreshTTL,     \* refreshExpiration, in ticks
  MaxTime         \* bound on the clock

ASSUME NameAssumption ==
  NoName \notin Names /\ LocalPart \in [Emails -> Names \cup {NoName}]
ASSUME SentinelAssumption ==
  /\ Nobody \notin Emails /\ Absent \notin Emails /\ Unowned \notin Emails
  /\ Absent # Unowned /\ Absent \notin Passwords
  /\ Absent \notin [user : Emails, expiresAt : Nat]
ASSUME OutcomeAssumption ==
  "ok" \in Outcomes /\ Outcomes \subseteq {"ok", "failed", "lost"}
ASSUME ClockAssumption == RefreshTTL \in Nat /\ MaxTime \in Nat

VARIABLES
  users,          \* email -> the password behind password_hash, or Absent
  namespaces,     \* name -> owner's email, Unowned or Absent
  refreshTokens,  \* token -> its row, or Absent
  now,            \* the clock
  pc,             \* the store call a request makes next
  req,            \* what the client sent
  user,           \* the local variable user, or rt.UserID, of the request
  status,         \* the HTTP status of the answer, "none" before
  troubled        \* for the properties only: the requests that have seen a
                  \* store call fail

tables == <<users, namespaces, refreshTokens>>
vars == <<users, namespaces, refreshTokens, now, pc, req, user, status, troubled>>

Row == [user : Emails, expiresAt : Nat]

\* Client data of a request.  replay records, for the properties only, that
\* the refresh token had already been exchanged when the request was sent, by
\* a request without trouble.
Request ==
       [kind : {"none"}]
  \cup [kind : {"register", "login"}, email : Emails, password : Passwords]
  \cup [kind : {"refresh"}, token : Requests, replay : BOOLEAN]

Steps == {"idle", "userCreate", "namespaceCreate", "issueTokens",
          "userGetByEmail", "tokenGetByHash", "deleteExpired", "deleteOld",
          "userGetByID", "done"}

Success == {"200", "201"}
Statuses == Success \cup {"none", "400", "401", "409", "500", "aborted"}

Init ==
  /\ users = [e \in Emails |-> Absent]
  /\ namespaces \in [Names -> {Absent, Unowned}]
  /\ refreshTokens = [t \in Requests |-> Absent]
  /\ now = 0
  /\ pc = [r \in Requests |-> "idle"]
  /\ req = [r \in Requests |-> [kind |-> "none"]]
  /\ user = [r \in Requests |-> Nobody]
  /\ status = [r \in Requests |-> "none"]
  /\ troubled = {}

-----------------------------------------------------------------------------
\* Moving a request on.

Goto(r, step) ==
  /\ pc' = [pc EXCEPT ![r] = step]
  /\ UNCHANGED status

Answer(r, code) ==
  /\ pc' = [pc EXCEPT ![r] = "done"]
  /\ status' = [status EXCEPT ![r] = code]

\* A store call takes effect, and whether its caller sees an error.
TakesEffect(o) == o \in {"ok", "lost"}
Succeeds(o) == o = "ok"

Returns(r, o) ==
  troubled' = IF Succeeds(o) THEN troubled ELSE troubled \cup {r}

Arrive(r, sent) ==
  /\ pc[r] = "idle"
  /\ req' = [req EXCEPT ![r] = sent]
  /\ UNCHANGED <<tables, now, user, troubled>>

\* A body that does not parse or lacks a field: 400 without a store call.
Malformed(r) ==
  /\ Arrive(r, req[r])
  /\ Answer(r, "400")

-----------------------------------------------------------------------------
\* Register

RegisterCall(r, e, p) ==
  /\ Arrive(r, [kind |-> "register", email |-> e, password |-> p])
  /\ \/ p \in ShortPasswords /\ Answer(r, "400")
     \/ p \in LongPasswords \ ShortPasswords /\ Answer(r, "500")
     \/ p \notin ShortPasswords \cup LongPasswords /\ Goto(r, "userCreate")

\* Bug for the checks: the row of an existing address is overwritten.
EmailFreeAlways(e) == TRUE

\* Bug for the checks: a taken namespace refuses the registration.
EmailFreeUnlessNameTaken(e) ==
  /\ users[e] = Absent
  /\ LocalPart[e] \in Names => namespaces[LocalPart[e]] = Absent

\* The unique index on users.email.
EmailFree(e) == users[e] = Absent

\* Every error of UserCreate becomes ErrConflict.
UserCreate(r) ==
  LET e == req[r].email IN
  /\ pc[r] = "userCreate"
  /\ \E o \in Outcomes :
       /\ users' = IF TakesEffect(o) /\ EmailFree(e)
                   THEN [users EXCEPT ![e] = req[r].password] ELSE users
       /\ IF Succeeds(o) /\ EmailFree(e)
          THEN /\ Goto(r, "namespaceCreate")
               /\ user' = [user EXCEPT ![r] = e]
          ELSE /\ Answer(r, "409")
               /\ UNCHANGED user
       /\ Returns(r, o)
  /\ UNCHANGED <<namespaces, refreshTokens, now, req>>

\* Bug for the checks: a namespace without an owner is taken over.
NameFreeOrUnowned(n) == n \in Names /\ namespaces[n] \in {Absent, Unowned}

\* The unique index on namespaces.name and the validator.
NameFree(n) == n \in Names /\ namespaces[n] = Absent

\* Bug for the checks: a user whose name is taken gets another free one.
NamespaceNameFallback(r) ==
  LET free == {n \in Names : namespaces[n] = Absent}
      n    == LocalPart[user[r]]
  IN  IF n \in free \/ free = {} THEN n ELSE CHOOSE m \in free : TRUE

\* emailToNamespace(email)
NamespaceName(r) == LocalPart[user[r]]

\* Bug for the checks: the namespace is never created.
CreatesNever(r, o) == FALSE

Creates(r, o) == TakesEffect(o) /\ NameFree(NamespaceName(r))

\* The error of NamespaceCreate is logged and dropped.
NamespaceCreate(r) ==
  /\ pc[r] = "namespaceCreate"
  /\ \E o \in Outcomes :
       /\ namespaces' = IF Creates(r, o)
                        THEN [namespaces EXCEPT ![NamespaceName(r)] = user[r]]
                        ELSE namespaces
       /\ Returns(r, o)
  /\ Goto(r, "issueTokens")
  /\ UNCHANGED <<users, refreshTokens, now, req, user>>

-----------------------------------------------------------------------------
\* Login

LoginCall(r, e, p) ==
  /\ Arrive(r, [kind |-> "login", email |-> e, password |-> p])
  /\ Goto(r, "userGetByEmail")

\* Bug for the checks: a registered address is enough.
CheckNoPassword(e, p) == users[e] # Absent

\* checkPassword against the row that was read; no row, no match.
CheckPassword(e, p) == users[e] # Absent /\ users[e] = p

UserGetByEmail(r) ==
  LET e == req[r].email IN
  /\ pc[r] = "userGetByEmail"
  /\ \E o \in Outcomes :
       /\ \/ /\ ~Succeeds(o)
             /\ Answer(r, "500")
             /\ UNCHANGED user
          \/ /\ Succeeds(o) /\ ~CheckPassword(e, req[r].password)
             /\ Answer(r, "401")
             /\ UNCHANGED user
          \/ /\ Succeeds(o) /\ CheckPassword(e, req[r].password)
             /\ Goto(r, "issueTokens")
             /\ user' = [user EXCEPT ![r] = e]
       /\ Returns(r, o)
  /\ UNCHANGED <<tables, now, req>>

-----------------------------------------------------------------------------
\* RefreshToken

\* A client presents a token it was given in an answer.
Exchanged(t) ==
  \E q \in Requests : /\ req[q].kind = "refresh" /\ req[q].token = t
                      /\ status[q] = "200" /\ q \notin troubled

RefreshCall(r, t) ==
  /\ status[t] \in Success
  /\ Arrive(r, [kind |-> "refresh", token |-> t, replay |-> Exchanged(t)])
  /\ Goto(r, "tokenGetByHash")

Expired(t) == now > refreshTokens[t].expiresAt

TokenGetByHash(r) ==
  LET t == req[r].token IN
  /\ pc[r] = "tokenGetByHash"
  /\ \E o \in Outcomes :
       /\ \/ /\ ~Succeeds(o)
             /\ Answer(r, "500")
             /\ UNCHANGED user
          \/ /\ Succeeds(o) /\ refreshTokens[t] = Absent
             /\ Answer(r, "401")
             /\ UNCHANGED user
          \/ /\ Succeeds(o) /\ refreshTokens[t] # Absent
             /\ user' = [user EXCEPT ![r] = refreshTokens[t].user]
             /\ Goto(r, IF Expired(t) THEN "deleteExpired" ELSE "deleteOld")
       /\ Returns(r, o)
  /\ UNCHANGED <<tables, now, req>>

\* Bug for the checks: rotation ends every session of the user.
DeletedWithUser(r) ==
  {t \in Requests : refreshTokens[t] # Absent /\ refreshTokens[t].user = user[r]}

\* Bug for the checks: the rotation is forgotten.
DeletedNone(r) == {}

\* RefreshTokenDeleteByID(rt.ID); deleting a row that is gone changes nothing.
Deleted(r) == {req[r].token}

RefreshTokenDeleteByID(r) ==
  \E o \in Outcomes :
    /\ refreshTokens' = IF TakesEffect(o)
                        THEN [t \in Requests |-> IF t \in Deleted(r) THEN Absent
                                                 ELSE refreshTokens[t]]
                        ELSE refreshTokens
    /\ Returns(r, o)

\* The error of the delete is ignored here ...
DeleteExpired(r) ==
  /\ pc[r] = "deleteExpired"
  /\ RefreshTokenDeleteByID(r)
  /\ Answer(r, "401")
  /\ UNCHANGED <<users, namespaces, now, req, user>>

\* ... and logged here; the exchange goes on either way.
DeleteOld(r) ==
  /\ pc[r] = "deleteOld"
  /\ RefreshTokenDeleteByID(r)
  /\ Goto(r, "userGetByID")
  /\ UNCHANGED <<users, namespaces, now, req, user>>

UserGetByID(r) ==
  /\ pc[r] = "userGetByID"
  /\ \E o \in Outcomes :
       /\ IF Succeeds(o) /\ users[user[r]] # Absent THEN Goto(r, "issueTokens")
                                                    ELSE Answer(r, "500")
       /\ Returns(r, o)
  /\ UNCHANGED <<tables, now, req, user>>

-----------------------------------------------------------------------------
\* issueTokens, the common end: the access token is stateless, the refresh
\* token is stored before it is handed out.

\* Bug for the checks: the lifetime is subtracted.
ExpiresAtPast == now - RefreshTTL

ExpiresAt == now + RefreshTTL

IssueTokens(r) ==
  /\ pc[r] = "issueTokens"
  /\ \E o \in Outcomes :
       /\ refreshTokens' = IF TakesEffect(o)
                           THEN [refreshTokens EXCEPT
                                   ![r] = [user |-> user[r], expiresAt |-> ExpiresAt]]
                           ELSE refreshTokens
       /\ Answer(r, IF ~Succeeds(o) THEN "500"
                    ELSE IF req[r].kind = "register" THEN "201" ELSE "200")
       /\ Returns(r, o)
  /\ UNCHANGED <<users, namespaces, now, req, user>>

-----------------------------------------------------------------------------
\* The process dies: the requests it was handling are never answered, the
\* rows they have written stay.
InFlight(r) == pc[r] \notin {"idle", "done"}

Crash ==
  /\ \E r \in Requests : InFlight(r)
  /\ pc' = [r \in Requests |-> IF InFlight(r) THEN "done" ELSE pc[r]]
  /\ status' = [r \in Requests |-> IF InFlight(r) THEN "aborted" ELSE status[r]]
  /\ UNCHANGED <<tables, now, req, user, troubled>>

Tick ==
  /\ now < MaxTime
  /\ now' = now + 1
  /\ UNCHANGED <<tables, pc, req, user, status, troubled>>

Register(r) ==
  \/ \E e \in Emails, p \in Passwords : RegisterCall(r, e, p)
  \/ UserCreate(r)
  \/ NamespaceCreate(r)

Login(r) ==
  \/ \E e \in Emails, p \in Passwords : LoginCall(r, e, p)
  \/ UserGetByEmail(r)

RefreshToken(r) ==
  \/ \E t \in Requests : RefreshCall(r, t)
  \/ TokenGetByHash(r)
  \/ DeleteExpired(r)
  \/ DeleteOld(r)
  \/ UserGetByID(r)

Next ==
  \/ \E r \in Requests :
       Malformed(r) \/ Register(r) \/ Login(r) \/ RefreshToken(r) \/ IssueTokens(r)
  \/ Crash
  \/ Tick

Spec == Init /\ [][Next]_vars

-----------------------------------------------------------------------------
TypeOK ==
  /\ users \in [Emails -> Passwords \cup {Absent}]
  /\ namespaces \in [Names -> Emails \cup {Absent, Unowned}]
  /\ refreshTokens \in [Requests -> Row \cup {Absent}]
  /\ now \in Nat
  /\ pc \in [Requests -> Steps]
  /\ req \in [Requests -> Request]
  /\ user \in [Requests -> Emails \cup {Nobody}]
  /\ status \in [Requests -> Statuses]
  /\ troubled \subseteq Requests

Issued(r) == status[r] \in Success
Presented(t) == \E q \in Requests : req[q].kind = "refresh" /\ req[q].token = t

\* internal/service/auth_user.go:68: the namespace of a user is named by the
\* local part of the address and its owner exists, so a user owns at most one.
OwnerMatchesLocalPart ==
  \A n \in Names : namespaces[n] \in Emails =>
    LocalPart[namespaces[n]] = n /\ users[namespaces[n]] # Absent

\* Whoever registers first under a local part owns the name for good, and a
\* name that predates user accounts is never taken over by a registration.
NamespaceOwnerStable ==
  [][\A n \in Names : namespaces[n] # Absent => namespaces'[n] = namespaces[n]]_vars

\* Two registrations of one address race on the unique index: at most one is
\* answered 201, and the account has the password of that one.
WinnerKeepsAccount ==
  /\ \A r \in Requests : status[r] = "201" => users[req[r].email] = req[r].password
  /\ \A r, q \in Requests :
       status[r] = "201" /\ status[q] = "201" /\ r # q => req[r].email # req[q].email

\* Rotation replaces one session and touches no other: a refresh token handed
\* out in an answer stays in the table until somebody presents that token.
SessionsIndependent ==
  \A r \in Requests : Issued(r) /\ ~Presented(r) =>
    refreshTokens[r] # Absent /\ refreshTokens[r].user = user[r]

\* Every session goes back to the password of its account, through any number
\* of rotations: a login that was answered sent it, and a refresh was answered
\* for the user whose token it presented.
SessionsAuthenticated ==
  \A r \in Requests : Issued(r) =>
    /\ user[r] \in Emails /\ users[user[r]] # Absent
    /\ req[r].kind # "refresh" =>
         req[r].email = user[r] /\ req[r].password = users[user[r]]
    /\ req[r].kind = "refresh" =>
         Issued(req[r].token) /\ user[r] = user[req[r].token]

\* A 409 is honest when no store call of the request has failed: the address
\* has an account.  The design table "Email already registered | 409" says so
\* of every 409
\* (docs/superpowers/specs/2026-06-06-user-authentication-design.md).
ConflictMeansRegistered ==
  \A r \in Requests : status[r] = "409" /\ r \notin troubled =>
    users[req[r].email] # Absent

\* A token that was exchanged, without trouble, before the request was sent is
\* never exchanged again, whatever fails later: rotation stops sequential
\* reuse.
NoReplay ==
  \A r \in Requests : req[r].kind = "refresh" /\ req[r].replay => status[r] # "200"

\* auth_user.go:70: user and namespace are two inserts, the error of the second
\* is dropped, and nothing tries it again.  All the same a user whose name is
\* still free is about to take it, or lost it in one of two ways: the
\* registration that inserted the user had trouble or was cut off, or the
\* insert itself was reported as failed, and then no registration of the
\* address has gone on.  So the name of a registration answered 201 without
\* trouble is taken, by the user or by an earlier holder.
Registrations(e) ==
  {r \in Requests : req[r].kind = "register" /\ req[r].email = e}

RegisteredNameIsTaken ==
  \A e \in Emails :
    users[e] # Absent /\ LocalPart[e] \in Names /\ namespaces[LocalPart[e]] = Absent =>
      \E r \in Registrations(e) :
        \/ /\ user[r] = e
           /\ pc[r] = "namespaceCreate" \/ r \in troubled \/ status[r] = "aborted"
        \/ r \in troubled /\ \A q \in Registrations(e) : user[q] # e

\* internal/service/auth_user.go:95 "The old refresh token is deleted
\* (rotation) to prevent reuse": one token buys one new session.
RotationSingleUse ==
  \A r, q \in Requests :
    /\ req[r].kind = "refresh" /\ req[q].kind = "refresh"
    /\ Issued(r) /\ Issued(q) /\ req[r].token = req[q].token
    => r = q
=============================================================================
