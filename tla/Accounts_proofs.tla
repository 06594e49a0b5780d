-------------------------- MODULE Accounts_proofs --------------------------
(***************************************************************************)
(* For every set of clients, addresses, names and store outcomes: what     *)
(* registration, login and rotation keep true about accounts and sessions. *)
(*                                                                         *)
(* IInv is inductive.  Its parts follow one request through its handler:   *)
(* LocalOK ties the program counter to the kind of the request, AuthOK     *)
(* says when the request knows an existing user whose password it, or the  *)
(* request that issued its token, has shown, RowOK and SessionOK tie the   *)
(* refresh_tokens table to the answers that handed the tokens out.         *)
(***************************************************************************)
EXTENDS Accounts, TLAPS

RefreshSteps == {"tokenGetByHash", "deleteExpired", "deleteOld", "userGetByID"}

LocalOK(r) ==
  /\ pc[r] \in {"userCreate", "namespaceCreate"} => req[r].kind = "register"
  /\ pc[r] = "userGetByEmail" => req[r].kind = "login"
  /\ pc[r] \in RefreshSteps => req[r].kind = "refresh"
  /\ pc[r] = "issueTokens" => req[r].kind \in {"register", "login", "refresh"}
  /\ pc[r] = "idle" => req[r].kind = "none"
  /\ pc[r] # "done" => status[r] = "none"
  /\ status[r] = "201" => req[r].kind = "register"
  /\ status[r] = "200" => req[r].kind \in {"login", "refresh"}

Known(r) ==
  \/ pc[r] \in {"namespaceCreate", "issueTokens", "deleteExpired", "deleteOld",
                "userGetByID"}
  \/ Issued(r)

AuthOK(r) ==
  Known(r) =>
    /\ user[r] \in Emails /\ users[user[r]] # Absent
    /\ req[r].kind # "refresh" =>
         req[r].email = user[r] /\ req[r].password = users[user[r]]
    /\ req[r].kind = "refresh" => user[r] = user[req[r].token]

PresOK(r) == req[r].kind = "refresh" => Issued(req[r].token)

RowOK(t) ==
  refreshTokens[t] # Absent =>
    /\ pc[t] = "done"
    /\ refreshTokens[t].user = user[t]
    /\ user[t] \in Emails /\ users[user[t]] # Absent

SessionOK(r) == Issued(r) /\ ~Presented(r) => refreshTokens[r] # Absent

\* A registration whose UserCreate has succeeded.
Registered(r) ==
  /\ req[r].kind = "register"
  /\ pc[r] \in {"namespaceCreate", "issueTokens"} \/ status[r] = "201"

OneRegistered ==
  \A r, q \in Requests :
    Registered(r) /\ Registered(q) /\ req[r].email = req[q].email => r = q

IInv ==
  /\ TypeOK
  /\ \A r \in Requests : LocalOK(r) /\ AuthOK(r) /\ PresOK(r)
  /\ \A r \in Requests : RowOK(r) /\ SessionOK(r)
  /\ OneRegistered
  /\ OwnerMatchesLocalPart

-----------------------------------------------------------------------------
\* What the fields of a request are, by its kind.
LEMMA RequestFields ==
  ASSUME NEW q \in Request
  PROVE  /\ q.kind \in {"none", "register", "login", "refresh"}
         /\ q.kind \in {"register", "login"} =>
              q.email \in Emails /\ q.password \in Passwords
         /\ q.kind = "refresh" => q.token \in Requests /\ q.replay \in BOOLEAN
BY DEF Request

\* A row of refresh_tokens is a record and never the sentinel.
LEMMA RowFields ==
  ASSUME NEW e \in Emails, NEW t \in Nat
  PROVE  /\ [user |-> e, expiresAt |-> t] \in Row
         /\ [user |-> e, expiresAt |-> t] # Absent
BY SentinelAssumption DEF Row

\* A step of request r leaves the local state of the others alone; no step
\* removes or changes a user.
OthersKeep(r) ==
  \A q \in Requests \ {r} : /\ pc'[q] = pc[q] /\ req'[q] = req[q]
                            /\ user'[q] = user[q] /\ status'[q] = status[q]

UsersKept ==
  \A e \in Emails : users[e] # Absent => users'[e] = users[e]

\* Then the other requests keep their part of the invariant: none of it
\* speaks of r, because a token in use was issued by a finished request.
LEMMA OthersSafe ==
  ASSUME IInv, NEW r \in Requests, pc[r] # "done", OthersKeep(r), UsersKept,
         NEW q \in Requests, q # r
  PROVE  (LocalOK(q) /\ AuthOK(q) /\ PresOK(q))'
<1>1. /\ pc'[q] = pc[q] /\ req'[q] = req[q]
      /\ user'[q] = user[q] /\ status'[q] = status[q]
  BY DEF OthersKeep
<1>2. LocalOK(q) /\ AuthOK(q) /\ PresOK(q) /\ req[q] \in Request
  BY DEF IInv, TypeOK
<1>3. LocalOK(q)'
  BY <1>1, <1>2 DEF LocalOK
<1>4. ASSUME req[q].kind = "refresh"
      PROVE  /\ Issued(req[q].token)'
             /\ user'[req[q].token] = user[req[q].token]
  <2> DEFINE t == req[q].token
  <2>1. t \in Requests /\ Issued(t)
    BY <1>2, <1>4, RequestFields DEF PresOK
  <2>2. LocalOK(t)
    BY <2>1 DEF IInv
  <2>3. t # r
    BY <2>1, <2>2 DEF Issued, Success, LocalOK, IInv
  <2> QED
    BY <2>1, <2>3 DEF OthersKeep, Issued
<1>5. PresOK(q)'
  BY <1>1, <1>4 DEF PresOK
<1>6. AuthOK(q)'
  BY <1>1, <1>2, <1>4 DEF AuthOK, Known, Issued, UsersKept
<1> QED
  BY <1>3, <1>5, <1>6

\* Deleting rows, and adding none, keeps the rows that remain well-formed.
LEMMA RowsSafe ==
  ASSUME IInv, NEW r \in Requests, pc[r] # "done", OthersKeep(r), UsersKept,
         NEW t \in Requests, refreshTokens'[t] \in {refreshTokens[t], Absent}
  PROVE  RowOK(t)'
<1>1. RowOK(t)
  BY DEF IInv
<1>2. CASE refreshTokens'[t] = Absent
  BY <1>2 DEF RowOK
<1>3. CASE refreshTokens'[t] # Absent
  <2>1. refreshTokens'[t] = refreshTokens[t] /\ pc[t] = "done" /\ t # r
    BY <1>1, <1>3 DEF RowOK
  <2> QED
    BY <1>1, <1>3, <2>1 DEF RowOK, OthersKeep, UsersKept
<1> QED
  BY <1>2, <1>3

\* A step that hands out no token and deletes none but the presented one
\* keeps every session.
LEMMA SessionsSafe ==
  ASSUME IInv, NEW r \in Requests, pc[r] # "done", OthersKeep(r),
         req'[r] = req[r] \/ pc[r] = "idle", ~Issued(r)',
         NEW s \in Requests,
         \/ refreshTokens'[s] = refreshTokens[s]
         \/ req[r].kind = "refresh" /\ req[r].token = s /\ req'[r] = req[r]
  PROVE  SessionOK(s)'
<1>1. SessionOK(s) /\ LocalOK(r)
  BY DEF IInv
<1> SUFFICES ASSUME Issued(s)', ~Presented(s)' PROVE refreshTokens'[s] # Absent
  BY DEF SessionOK
<1>2. s # r /\ Issued(s)
  BY DEF Issued, OthersKeep
<1>3. ~Presented(s)
  <2> SUFFICES ASSUME NEW q \in Requests,
                      req[q].kind = "refresh", req[q].token = s
               PROVE  FALSE
    BY DEF Presented
  <2>1. req'[q] = req[q]
    BY <1>1 DEF OthersKeep, LocalOK
  <2> QED
    BY <2>1 DEF Presented
<1>4. refreshTokens'[s] = refreshTokens[s]
  BY <1>3 DEF Presented
<1> QED
  BY <1>1, <1>2, <1>3, <1>4 DEF SessionOK

\* A step that finishes no UserCreate adds no registration.
LEMMA RegisteredSafe ==
  ASSUME IInv, NEW r \in Requests, OthersKeep(r),
         Registered(r)' => Registered(r) /\ req'[r] = req[r]
  PROVE  OneRegistered'
BY DEF IInv, OneRegistered, Registered, OthersKeep

-----------------------------------------------------------------------------
\* One lemma per group of actions: the invariant holds after the step.  The
\* steps of the acting request that touch no table.
TablesKept == UNCHANGED tables

LEMMA QuietStep ==
  ASSUME IInv, NEW r \in Requests, pc[r] # "done", OthersKeep(r), TablesKept,
         TypeOK', req'[r] = req[r] \/ pc[r] = "idle", ~Issued(r)',
         LocalOK(r)', AuthOK(r)', PresOK(r)',
         Registered(r)' => Registered(r) /\ req'[r] = req[r]
  PROVE  IInv'
<1>1. UsersKept
  BY DEF TablesKept, tables, UsersKept
<1>2. \A q \in Requests : (LocalOK(q) /\ AuthOK(q) /\ PresOK(q))'
  BY <1>1, OthersSafe
<1>3. \A t \in Requests : RowOK(t)'
  BY <1>1, RowsSafe DEF TablesKept, tables
<1>4. \A t \in Requests : SessionOK(t)'
  BY SessionsSafe DEF TablesKept, tables
<1>5. OneRegistered'
  BY RegisteredSafe
<1>6. OwnerMatchesLocalPart'
  BY DEF IInv, OwnerMatchesLocalPart, TablesKept, tables
<1> QED
  BY <1>2, <1>3, <1>4, <1>5, <1>6 DEF IInv

\* Arrivals: malformed bodies, the early returns of Register, and the first
\* step of each handler.
LEMMA MalformedSafe ==
  ASSUME IInv, NEW r \in Requests, Malformed(r) PROVE IInv'
<1> USE DEF Malformed, Arrive, Answer
<1>1. TypeOK /\ LocalOK(r)
  BY DEF IInv
<1>2. TypeOK'
  BY <1>1 DEF TypeOK, Steps, Statuses, tables
<1>3. /\ pc[r] # "done" /\ pc[r] = "idle" /\ OthersKeep(r) /\ TablesKept
      /\ pc'[r] = "done" /\ status'[r] = "400" /\ req'[r] = req[r]
      /\ req[r].kind = "none"
  BY <1>1 DEF TypeOK, OthersKeep, TablesKept, tables, LocalOK
<1>4. LocalOK(r)' /\ AuthOK(r)' /\ PresOK(r)' /\ ~Issued(r)' /\ ~Registered(r)'
  BY <1>3 DEF LocalOK, AuthOK, Known, PresOK, Issued, Success, Registered,
              RefreshSteps
<1> QED
  BY <1>2, <1>3, <1>4, QuietStep

LEMMA RegisterCallSafe ==
  ASSUME IInv, NEW r \in Requests, NEW e \in Emails, NEW p \in Passwords,
         RegisterCall(r, e, p)
  PROVE  IInv'
<1> USE DEF RegisterCall, Arrive, Answer, Goto
<1> DEFINE sent == [kind |-> "register", email |-> e, password |-> p]
<1>1. TypeOK /\ LocalOK(r) /\ sent \in Request /\ sent.kind = "register"
  BY DEF IInv, Request
<1> HIDE DEF sent
<1>2. req' = [req EXCEPT ![r] = sent]
  BY DEF sent
<1>3. TypeOK'
  BY <1>1, <1>2 DEF TypeOK, Steps, Statuses, tables
<1>4. /\ pc[r] # "done" /\ pc[r] = "idle" /\ OthersKeep(r) /\ TablesKept
      /\ req'[r] = sent
      /\ \/ pc'[r] = "done" /\ status'[r] \in {"400", "500"}
         \/ pc'[r] = "userCreate" /\ status'[r] = "none"
  BY <1>1, <1>2 DEF TypeOK, OthersKeep, TablesKept, tables, LocalOK
<1>5. LocalOK(r)' /\ AuthOK(r)' /\ PresOK(r)' /\ ~Issued(r)' /\ ~Registered(r)'
  BY <1>1, <1>4 DEF LocalOK, AuthOK, Known, PresOK, Issued, Success,
                    Registered, RefreshSteps
<1> QED
  BY <1>3, <1>4, <1>5, QuietStep

LEMMA LoginCallSafe ==
  ASSUME IInv, NEW r \in Requests, NEW e \in Emails, NEW p \in Passwords,
         LoginCall(r, e, p)
  PROVE  IInv'
<1> USE DEF LoginCall, Arrive, Goto
<1> DEFINE sent == [kind |-> "login", email |-> e, password |-> p]
<1>1. TypeOK /\ LocalOK(r) /\ sent \in Request /\ sent.kind = "login"
  BY DEF IInv, Request
<1> HIDE DEF sent
<1>2. req' = [req EXCEPT ![r] = sent]
  BY DEF sent
<1>3. TypeOK'
  BY <1>1, <1>2 DEF TypeOK, Steps, tables
<1>4. /\ pc[r] # "done" /\ pc[r] = "idle" /\ OthersKeep(r) /\ TablesKept
      /\ req'[r] = sent /\ pc'[r] = "userGetByEmail" /\ status'[r] = "none"
  BY <1>1, <1>2 DEF TypeOK, OthersKeep, TablesKept, tables, LocalOK
<1>5. LocalOK(r)' /\ AuthOK(r)' /\ PresOK(r)' /\ ~Issued(r)' /\ ~Registered(r)'
  BY <1>1, <1>4 DEF LocalOK, AuthOK, Known, PresOK, Issued, Success,
                    Registered, RefreshSteps
<1> QED
  BY <1>3, <1>4, <1>5, QuietStep

LEMMA RefreshCallSafe ==
  ASSUME IInv, NEW r \in Requests, NEW t \in Requests, RefreshCall(r, t)
  PROVE  IInv'
<1> USE DEF RefreshCall, Arrive, Goto
<1> DEFINE sent == [kind |-> "refresh", token |-> t, replay |-> Exchanged(t)]
<1>1. /\ TypeOK /\ LocalOK(r) /\ sent \in Request
      /\ sent.kind = "refresh" /\ sent.token = t
  BY DEF IInv, Request, Exchanged
<1> HIDE DEF sent
<1>2. req' = [req EXCEPT ![r] = sent]
  BY DEF sent
<1>3. TypeOK'
  BY <1>1, <1>2 DEF TypeOK, Steps, tables
<1>4. /\ pc[r] # "done" /\ pc[r] = "idle" /\ OthersKeep(r) /\ TablesKept
      /\ req'[r] = sent /\ pc'[r] = "tokenGetByHash" /\ status'[r] = "none"
      /\ status' = status
  BY <1>1, <1>2 DEF TypeOK, OthersKeep, TablesKept, tables, LocalOK
<1>5. LocalOK(r)' /\ AuthOK(r)' /\ PresOK(r)' /\ ~Issued(r)' /\ ~Registered(r)'
  BY <1>1, <1>4 DEF LocalOK, AuthOK, Known, PresOK, Issued, Success,
                    Registered, RefreshSteps
<1> QED
  BY <1>3, <1>4, <1>5, QuietStep

-----------------------------------------------------------------------------
\* The reading steps: only the local variables of the request change.
LEMMA UserGetByEmailSafe ==
  ASSUME IInv, NEW r \in Requests, UserGetByEmail(r) PROVE IInv'
<1> USE DEF UserGetByEmail, Answer, Goto
<1>1. TypeOK /\ LocalOK(r) /\ PresOK(r)
  BY DEF IInv
<1>2. /\ pc[r] = "userGetByEmail" /\ req[r].kind = "login" /\ req' = req
      /\ req[r].email \in Emails
  BY <1>1, RequestFields DEF LocalOK, TypeOK
<1>3. TypeOK'
  BY <1>1, <1>2 DEF TypeOK, Returns, Steps, Statuses, tables
<1>4. OthersKeep(r) /\ TablesKept
  BY <1>1 DEF TypeOK, OthersKeep, TablesKept, tables
<1>5. \/ pc'[r] = "done" /\ status'[r] \in {"500", "401"}
      \/ /\ pc'[r] = "issueTokens" /\ status'[r] = "none"
         /\ user'[r] = req[r].email
         /\ users[req[r].email] # Absent
         /\ users[req[r].email] = req[r].password
  BY <1>1, <1>2 DEF TypeOK, LocalOK, CheckPassword
<1>6. LocalOK(r)' /\ AuthOK(r)' /\ PresOK(r)' /\ ~Issued(r)' /\ ~Registered(r)'
  BY <1>2, <1>4, <1>5 DEF LocalOK, AuthOK, Known, PresOK, Issued, Success,
                    Registered, RefreshSteps, TablesKept, tables
<1> QED
  BY <1>2, <1>3, <1>4, <1>6, QuietStep

LEMMA TokenGetByHashSafe ==
  ASSUME IInv, NEW r \in Requests, TokenGetByHash(r) PROVE IInv'
<1> USE DEF TokenGetByHash, Answer, Goto
<1> DEFINE t == req[r].token
<1>1. TypeOK /\ LocalOK(r) /\ PresOK(r)
  BY DEF IInv
<1>2. /\ pc[r] = "tokenGetByHash" /\ req[r].kind = "refresh" /\ req' = req
      /\ t \in Requests
  BY <1>1, RequestFields DEF LocalOK, TypeOK, RefreshSteps
<1>3. RowOK(t) /\ Issued(t) /\ LocalOK(t)
  BY <1>1, <1>2 DEF IInv, PresOK
<1>4. TypeOK'
  BY <1>1, <1>2, <1>3 DEF TypeOK, Returns, Steps, Statuses, tables, RowOK
<1>5. OthersKeep(r) /\ TablesKept
  BY <1>1 DEF TypeOK, OthersKeep, TablesKept, tables
<1>6. \/ pc'[r] = "done" /\ status'[r] \in {"500", "401"}
      \/ /\ pc'[r] \in {"deleteExpired", "deleteOld"} /\ status'[r] = "none"
         /\ user'[r] = user[t] /\ user[t] \in Emails /\ users[user[t]] # Absent
  BY <1>1, <1>2, <1>3 DEF TypeOK, LocalOK, RowOK
<1>7. t # r /\ user'[t] = user[t] /\ Issued(t)'
  BY <1>2, <1>3, <1>5 DEF Issued, Success, LocalOK, OthersKeep
<1>8. LocalOK(r)' /\ AuthOK(r)' /\ PresOK(r)' /\ ~Issued(r)' /\ ~Registered(r)'
  BY <1>2, <1>5, <1>6, <1>7
     DEF LocalOK, AuthOK, Known, PresOK, Issued, Success, Registered,
         RefreshSteps, TablesKept, tables
<1> QED
  BY <1>2, <1>4, <1>5, <1>8, QuietStep

LEMMA UserGetByIDSafe ==
  ASSUME IInv, NEW r \in Requests, UserGetByID(r) PROVE IInv'
<1> USE DEF UserGetByID, Answer, Goto
<1>1. TypeOK /\ LocalOK(r) /\ PresOK(r) /\ AuthOK(r)
  BY DEF IInv
<1>2. /\ pc[r] = "userGetByID" /\ req[r].kind = "refresh" /\ req' = req
      /\ user' = user
  BY <1>1 DEF LocalOK, RefreshSteps
<1>3. TypeOK'
  BY <1>1, <1>2 DEF TypeOK, Returns, Steps, Statuses, tables
<1>4. OthersKeep(r) /\ TablesKept
  BY <1>1 DEF TypeOK, OthersKeep, TablesKept, tables
<1>5. \/ pc'[r] = "done" /\ status'[r] = "500"
      \/ pc'[r] = "issueTokens" /\ status'[r] = "none"
  BY <1>1, <1>2 DEF TypeOK, LocalOK
<1>6. req[r].token # r /\ Issued(req[r].token)'
  BY <1>1, <1>2, <1>4, RequestFields
     DEF PresOK, Issued, Success, LocalOK, OthersKeep, TypeOK
<1>7. LocalOK(r)' /\ AuthOK(r)' /\ PresOK(r)' /\ ~Issued(r)' /\ ~Registered(r)'
  BY <1>1, <1>2, <1>4, <1>5, <1>6
     DEF LocalOK, AuthOK, Known, PresOK, Issued, Success, Registered,
         RefreshSteps, TablesKept, tables
<1> QED
  BY <1>2, <1>3, <1>4, <1>7, QuietStep

-----------------------------------------------------------------------------
\* The writing steps.
LEMMA UserCreateSafe ==
  ASSUME IInv, NEW r \in Requests, UserCreate(r) PROVE IInv'
<1> USE DEF UserCreate, Answer, Goto
<1> DEFINE e == req[r].email
<1>1. TypeOK /\ LocalOK(r)
  BY DEF IInv
<1>2. /\ pc[r] = "userCreate" /\ req[r].kind = "register" /\ req' = req
      /\ e \in Emails /\ req[r].password \in Passwords
      /\ namespaces' = namespaces /\ refreshTokens' = refreshTokens
      /\ now' = now
  BY <1>1, RequestFields DEF LocalOK, TypeOK
<1>3. /\ \/ users' = users
         \/ users[e] = Absent /\ users' = [users EXCEPT ![e] = req[r].password]
      /\ \/ /\ pc' = [pc EXCEPT ![r] = "done"]
            /\ status' = [status EXCEPT ![r] = "409"]
            /\ user' = user
         \/ /\ users[e] = Absent
            /\ users' = [users EXCEPT ![e] = req[r].password]
            /\ pc' = [pc EXCEPT ![r] = "namespaceCreate"]
            /\ status' = status /\ user' = [user EXCEPT ![r] = e]
  BY DEF EmailFree, TakesEffect, Succeeds
<1>4. TypeOK'
  BY <1>1, <1>2, <1>3 DEF TypeOK, Returns, Steps, Statuses
<1>5. OthersKeep(r)
  BY <1>1, <1>2, <1>3 DEF TypeOK, OthersKeep
<1>6. UsersKept /\ \A x \in Emails : users'[x] = Absent => users[x] = Absent
  BY <1>1, <1>2, <1>3, SentinelAssumption DEF TypeOK, UsersKept
<1>7. LocalOK(r)' /\ AuthOK(r)' /\ PresOK(r)' /\ ~Issued(r)'
  BY <1>1, <1>2, <1>3, SentinelAssumption
     DEF TypeOK, LocalOK, AuthOK, Known, PresOK, Issued, Success, RefreshSteps
<1>8. \A q \in Requests : (LocalOK(q) /\ AuthOK(q) /\ PresOK(q))'
  BY <1>2, <1>5, <1>6, <1>7, OthersSafe
<1>9. \A t \in Requests : RowOK(t)' /\ SessionOK(t)'
  BY <1>2, <1>5, <1>6, <1>7, RowsSafe, SessionsSafe
<1>10. OneRegistered'
  <2>1. CASE pc'[r] = "done"
    <3>1. ~Registered(r)'
      BY <1>1, <1>3, <2>1 DEF Registered, TypeOK
    <3> QED
      BY <1>5, <3>1, RegisteredSafe
  <2>2. CASE pc'[r] # "done"
    <3>1. users[e] = Absent
      BY <1>1, <1>2, <1>3, <2>2 DEF TypeOK
    <3>2. \A q \in Requests : Registered(q) => req[q].email # e
      BY <3>1 DEF IInv, Registered, AuthOK, Known, Issued, Success
    <3>3. \A q \in Requests \ {r} : Registered(q)' => Registered(q)
      BY <1>2, <1>5 DEF Registered, OthersKeep
    <3> QED
      BY <1>2, <3>2, <3>3 DEF OneRegistered, IInv
  <2> QED
    BY <2>1, <2>2
<1>11. OwnerMatchesLocalPart'
  BY <1>2, <1>6 DEF IInv, OwnerMatchesLocalPart, UsersKept
<1> QED
  BY <1>4, <1>8, <1>9, <1>10, <1>11 DEF IInv

LEMMA NamespaceCreateSafe ==
  ASSUME IInv, NEW r \in Requests, NamespaceCreate(r) PROVE IInv'
<1> USE DEF NamespaceCreate, Goto
<1> DEFINE n == LocalPart[user[r]]
<1>1. TypeOK /\ LocalOK(r) /\ AuthOK(r)
  BY DEF IInv
<1>2. /\ pc[r] = "namespaceCreate" /\ req[r].kind = "register"
      /\ users' = users /\ refreshTokens' = refreshTokens /\ now' = now
      /\ req' = req /\ user' = user /\ status' = status
      /\ pc' = [pc EXCEPT ![r] = "issueTokens"]
      /\ user[r] \in Emails /\ users[user[r]] # Absent
  BY <1>1 DEF LocalOK, AuthOK, Known
<1>3. \/ namespaces' = namespaces
      \/ n \in Names /\ namespaces' = [namespaces EXCEPT ![n] = user[r]]
  BY DEF Creates, NamespaceName, NameFree
<1>4. TypeOK'
  BY <1>1, <1>2, <1>3 DEF TypeOK, Returns, Steps
<1>5. OthersKeep(r) /\ UsersKept
  BY <1>1, <1>2 DEF TypeOK, OthersKeep, UsersKept
<1>6. LocalOK(r)' /\ AuthOK(r)' /\ PresOK(r)' /\ ~Issued(r)'
  BY <1>1, <1>2
     DEF TypeOK, LocalOK, AuthOK, Known, PresOK, Issued, Success, RefreshSteps
<1>7. \A q \in Requests : (LocalOK(q) /\ AuthOK(q) /\ PresOK(q))'
  BY <1>2, <1>5, <1>6, OthersSafe
<1>8. \A t \in Requests : RowOK(t)' /\ SessionOK(t)'
  BY <1>2, <1>5, <1>6, RowsSafe, SessionsSafe
<1>9. OneRegistered'
  BY <1>2, <1>5, RegisteredSafe DEF Registered
<1>10. OwnerMatchesLocalPart'
  BY <1>1, <1>2, <1>3 DEF IInv, OwnerMatchesLocalPart, TypeOK
<1> QED
  BY <1>4, <1>7, <1>8, <1>9, <1>10 DEF IInv

\* A rotation, or the removal of an expired token: the row of the presented
\* token goes, every other row stays.
LEMMA DeleteSafe ==
  ASSUME IInv, NEW r \in Requests, DeleteExpired(r) \/ DeleteOld(r) PROVE IInv'
<1> USE DEF DeleteExpired, DeleteOld, Answer, Goto
<1>1. TypeOK /\ LocalOK(r) /\ AuthOK(r) /\ PresOK(r)
  BY DEF IInv
<1>2. /\ pc[r] \in {"deleteExpired", "deleteOld"} /\ req[r].kind = "refresh"
      /\ users' = users /\ namespaces' = namespaces /\ now' = now
      /\ req' = req /\ user' = user
  BY <1>1 DEF LocalOK, RefreshSteps
<1>3. \A t \in Requests : \/ refreshTokens'[t] = refreshTokens[t]
                          \/ refreshTokens'[t] = Absent /\ req[r].token = t
  BY DEF RefreshTokenDeleteByID, Deleted
<1>4. refreshTokens' \in [Requests -> Row \cup {Absent}]
  BY <1>1 DEF RefreshTokenDeleteByID, TypeOK
<1>5. \/ /\ pc' = [pc EXCEPT ![r] = "done"]
         /\ status' = [status EXCEPT ![r] = "401"]
      \/ pc' = [pc EXCEPT ![r] = "userGetByID"] /\ status' = status
  OBVIOUS
<1>0. troubled' \subseteq Requests
  BY <1>1 DEF RefreshTokenDeleteByID, Returns, TypeOK
<1>6. TypeOK'
  BY <1>0, <1>1, <1>2, <1>4, <1>5 DEF TypeOK, Steps, Statuses
<1>7. OthersKeep(r) /\ UsersKept
  BY <1>1, <1>2, <1>5 DEF TypeOK, OthersKeep, UsersKept
<1>8. req[r].token # r /\ Issued(req[r].token)'
  BY <1>1, <1>2, <1>7, RequestFields
     DEF PresOK, Issued, Success, LocalOK, OthersKeep, TypeOK
<1>9. LocalOK(r)' /\ AuthOK(r)' /\ PresOK(r)' /\ ~Issued(r)' /\ ~Registered(r)'
  BY <1>1, <1>2, <1>5, <1>8
     DEF TypeOK, LocalOK, AuthOK, Known, PresOK, Issued, Success, RefreshSteps,
         Registered
<1>10. \A q \in Requests : (LocalOK(q) /\ AuthOK(q) /\ PresOK(q))'
  BY <1>2, <1>7, <1>9, OthersSafe
<1>11. \A t \in Requests : RowOK(t)'
  BY <1>2, <1>3, <1>7, RowsSafe
<1>12. \A t \in Requests : SessionOK(t)'
  BY <1>2, <1>3, <1>7, <1>9, SessionsSafe
<1>13. OneRegistered'
  BY <1>7, <1>9, RegisteredSafe
<1>14. OwnerMatchesLocalPart'
  BY <1>2 DEF IInv, OwnerMatchesLocalPart
<1> QED
  BY <1>6, <1>10, <1>11, <1>12, <1>13, <1>14 DEF IInv

\* The refresh token is stored before the answer hands it out.
LEMMA IssueTokensSafe ==
  ASSUME IInv, NEW r \in Requests, IssueTokens(r) PROVE IInv'
<1> USE DEF IssueTokens, Answer
<1> DEFINE row == [user |-> user[r], expiresAt |-> now + RefreshTTL]
<1>1. TypeOK /\ LocalOK(r) /\ AuthOK(r) /\ PresOK(r)
  BY DEF IInv
<1>2. /\ pc[r] = "issueTokens" /\ req[r].kind \in {"register", "login", "refresh"}
      /\ users' = users /\ namespaces' = namespaces /\ now' = now
      /\ req' = req /\ user' = user /\ pc' = [pc EXCEPT ![r] = "done"]
      /\ user[r] \in Emails /\ users[user[r]] # Absent
  BY <1>1 DEF LocalOK, AuthOK, Known
<1>3. row \in Row /\ row # Absent /\ row.user = user[r]
  BY <1>1, <1>2, RowFields, ClockAssumption DEF TypeOK, Row
<1> HIDE DEF row
<1>4. /\ \/ refreshTokens' = refreshTokens
         \/ refreshTokens' = [refreshTokens EXCEPT ![r] = row]
      /\ \/ status' = [status EXCEPT ![r] = "500"]
         \/ /\ refreshTokens' = [refreshTokens EXCEPT ![r] = row]
            /\ \/ req[r].kind = "register" /\ status' = [status EXCEPT ![r] = "201"]
               \/ req[r].kind # "register" /\ status' = [status EXCEPT ![r] = "200"]
  BY DEF TakesEffect, Succeeds, ExpiresAt, row
<1>5. TypeOK'
  BY <1>1, <1>2, <1>3, <1>4 DEF TypeOK, Returns, Steps, Statuses, Success
<1>6. OthersKeep(r) /\ UsersKept
  BY <1>1, <1>2, <1>4 DEF TypeOK, OthersKeep, UsersKept
<1>7. req[r].kind = "refresh" => req[r].token # r /\ Issued(req[r].token)'
  BY <1>1, <1>2, <1>6, RequestFields
     DEF PresOK, Issued, Success, LocalOK, OthersKeep, TypeOK
<1>8. LocalOK(r)' /\ AuthOK(r)' /\ PresOK(r)'
  BY <1>1, <1>2, <1>4, <1>7
     DEF TypeOK, LocalOK, AuthOK, Known, PresOK, Issued, Success, RefreshSteps
<1>9. \A q \in Requests : (LocalOK(q) /\ AuthOK(q) /\ PresOK(q))'
  BY <1>2, <1>6, <1>8, OthersSafe
<1>10. \A t \in Requests : RowOK(t)'
  <2> TAKE t \in Requests
  <2>1. CASE t # r
    <3>1. refreshTokens'[t] = refreshTokens[t]
      BY <1>1, <1>4, <2>1 DEF TypeOK
    <3> QED
      BY <1>2, <1>6, <3>1, RowsSafe
  <2>2. CASE t = r
    <3>1. refreshTokens[t] = Absent
      BY <1>2, <2>2 DEF IInv, RowOK
    <3>2. refreshTokens'[t] # Absent => refreshTokens'[t] = row
      BY <1>1, <1>4, <2>2, <3>1 DEF TypeOK
    <3> QED
      BY <1>1, <1>2, <1>3, <2>2, <3>2 DEF RowOK, TypeOK
  <2> QED
    BY <2>1, <2>2
<1>11. \A t \in Requests : SessionOK(t)'
  <2> SUFFICES ASSUME NEW t \in Requests, Issued(t)', ~Presented(t)'
               PROVE  refreshTokens'[t] # Absent
    BY DEF SessionOK
  <2>1. CASE t = r
    BY <1>1, <1>3, <1>4, <2>1 DEF TypeOK, Issued, Success
  <2>2. CASE t # r
    <3>1. Issued(t) /\ ~Presented(t) /\ refreshTokens'[t] = refreshTokens[t]
      BY <1>1, <1>2, <1>4, <1>6, <2>2 DEF TypeOK, Issued, Presented, OthersKeep
    <3> QED
      BY <3>1 DEF IInv, SessionOK
  <2> QED
    BY <2>1, <2>2
<1>12. OneRegistered'
  BY <1>2, <1>6, RegisteredSafe DEF Registered
<1>13. OwnerMatchesLocalPart'
  BY <1>2 DEF IInv, OwnerMatchesLocalPart
<1> QED
  BY <1>5, <1>9, <1>10, <1>11, <1>12, <1>13 DEF IInv

-----------------------------------------------------------------------------
\* The process dies: nothing is handed out and no row changes.
LEMMA CrashSafe ==
  ASSUME IInv, Crash PROVE IInv'
<1>1. /\ TypeOK /\ UNCHANGED <<tables, now, req, user>>
      /\ \A r \in Requests :
           \/ pc'[r] = pc[r] /\ status'[r] = status[r]
           \/ pc'[r] = "done" /\ status'[r] = "aborted" /\ pc[r] # "done"
  BY DEF IInv, Crash, InFlight
<1>2. TypeOK'
  BY <1>1 DEF Crash, TypeOK, Steps, Statuses, tables
<1>3. \A r \in Requests : Issued(r)' <=> Issued(r)
  BY <1>1 DEF IInv, Issued, Success, LocalOK
<1>4. \A r \in Requests : (LocalOK(r) /\ AuthOK(r) /\ PresOK(r))'
  <2> TAKE r \in Requests
  <2>1. LocalOK(r) /\ AuthOK(r) /\ PresOK(r) /\ req[r] \in Request
    BY DEF IInv, TypeOK
  <2>2. LocalOK(r)'
    BY <1>1, <2>1 DEF LocalOK, RefreshSteps
  <2>3. AuthOK(r)'
    BY <1>1, <1>3, <2>1 DEF AuthOK, Known, tables
  <2>4. PresOK(r)'
    BY <1>1, <1>3, <2>1, RequestFields DEF PresOK
  <2> QED
    BY <2>2, <2>3, <2>4
<1>5. \A r \in Requests : RowOK(r)' /\ SessionOK(r)'
  BY <1>1, <1>3 DEF IInv, RowOK, SessionOK, Presented, tables
<1>6. OneRegistered' /\ OwnerMatchesLocalPart'
  BY <1>1 DEF IInv, OneRegistered, Registered, OwnerMatchesLocalPart, tables
<1> QED
  BY <1>2, <1>4, <1>5, <1>6 DEF IInv

LEMMA InitSafe == Init => IInv
<1> SUFFICES ASSUME Init PROVE IInv
  OBVIOUS
<1>1. \A r \in Requests : req[r].kind = "none" /\ status[r] = "none"
  BY DEF Init
<1>2. TypeOK
  BY DEF Init, TypeOK, Request, Steps, Statuses
<1> QED
  BY <1>1, <1>2, SentinelAssumption
     DEF Init, IInv, LocalOK, AuthOK, Known, PresOK, RowOK, SessionOK, Issued,
         Success, OneRegistered, Registered, OwnerMatchesLocalPart, RefreshSteps

LEMMA StepSafe == IInv /\ [Next]_vars => IInv'
<1> SUFFICES ASSUME IInv, [Next]_vars PROVE IInv'
  OBVIOUS
<1>1. ASSUME NEW r \in Requests, Register(r) PROVE IInv'
  BY <1>1, RegisterCallSafe, UserCreateSafe, NamespaceCreateSafe DEF Register
<1>2. ASSUME NEW r \in Requests, Login(r) PROVE IInv'
  BY <1>2, LoginCallSafe, UserGetByEmailSafe DEF Login
<1>3. ASSUME NEW r \in Requests, RefreshToken(r) PROVE IInv'
  BY <1>3, RefreshCallSafe, TokenGetByHashSafe, DeleteSafe, UserGetByIDSafe
     DEF RefreshToken
<1>4. CASE Tick
  BY <1>4 DEF Tick, IInv, TypeOK, LocalOK, AuthOK, Known, PresOK, RowOK,
     SessionOK, Issued, Presented, OneRegistered, Registered,
     OwnerMatchesLocalPart, tables
<1>5. CASE UNCHANGED vars
  BY <1>5 DEF vars, IInv, TypeOK, LocalOK, AuthOK, Known, PresOK, RowOK,
     SessionOK, Issued, Presented, OneRegistered, Registered,
     OwnerMatchesLocalPart
<1> QED
  BY <1>1, <1>2, <1>3, <1>4, <1>5, MalformedSafe, IssueTokensSafe, CrashSafe
     DEF Next

THEOREM Inductive == Spec => []IInv
BY InitSafe, StepSafe, PTL DEF Spec

\* The tables and the handlers' local variables keep their types.
THEOREM TypeCorrect == Spec => []TypeOK
BY Inductive, PTL DEF IInv

\* A namespace belongs to an existing user of that local part.
THEOREM OwnerSafety == Spec => []OwnerMatchesLocalPart
BY Inductive, PTL DEF IInv

\* At most one registration of an address is answered 201, and the account
\* has its password.
THEOREM WinnerSafety == Spec => []WinnerKeepsAccount
<1>1. IInv => WinnerKeepsAccount
  BY DEF IInv, WinnerKeepsAccount, OneRegistered, Registered, LocalOK, AuthOK,
         Known, Issued, Success
<1> QED
  BY <1>1, Inductive, PTL

\* No request ends a session but the one that presents its token.
THEOREM SessionSafety == Spec => []SessionsIndependent
<1>1. IInv => SessionsIndependent
  BY DEF IInv, SessionsIndependent, SessionOK, RowOK
<1> QED
  BY <1>1, Inductive, PTL

\* Every session goes back to the password of its account.
THEOREM AuthenticationSafety == Spec => []SessionsAuthenticated
<1>1. IInv => SessionsAuthenticated
  BY DEF IInv, SessionsAuthenticated, AuthOK, PresOK, Known
<1> QED
  BY <1>1, Inductive, PTL

\* Namespaces never change hands.
THEOREM OwnerStability == Spec => NamespaceOwnerStable
<1>1. IInv /\ [Next]_vars =>
        [\A n \in Names : namespaces[n] # Absent => namespaces'[n] = namespaces[n]]_vars
  <2> SUFFICES ASSUME IInv, [Next]_vars, NEW n \in Names, namespaces[n] # Absent
               PROVE  namespaces'[n] = namespaces[n]
    OBVIOUS
  <2>1. ASSUME NEW r \in Requests, NamespaceCreate(r)
        PROVE  namespaces'[n] = namespaces[n]
    BY <2>1 DEF NamespaceCreate, Creates, NamespaceName, NameFree, IInv, TypeOK
  <2>2. CASE UNCHANGED namespaces
    BY <2>2
  <2> QED
    BY <2>1, <2>2
       DEF Next, Malformed, Register, RegisterCall, UserCreate, Login, LoginCall,
           UserGetByEmail, RefreshToken, RefreshCall, TokenGetByHash,
           DeleteExpired, DeleteOld, UserGetByID, IssueTokens, Crash, Tick,
           Arrive, tables, vars
<1> QED
  BY <1>1, Inductive, PTL DEF Spec, NamespaceOwnerStable

-----------------------------------------------------------------------------
(***************************************************************************)
(* Two more promises hold for the requests whose own store calls have      *)
(* all succeeded, whatever the others go through.  The strengthening: such *)
(* a request past its delete has removed the row it presented, and a row   *)
(* once removed never comes back.                                          *)
(***************************************************************************)
SpentOK(r) ==
  req[r].kind = "refresh" =>
    /\ /\ pc[r] \in {"userGetByID", "issueTokens"} \/ status[r] = "200"
       /\ r \notin troubled
       => refreshTokens[req[r].token] = Absent
    /\ req[r].replay =>
         /\ refreshTokens[req[r].token] = Absent
         /\ pc[r] \in {"tokenGetByHash", "done"}
         /\ status[r] # "200"

ConflictOK(r) ==
  status[r] = "409" =>
    req[r].kind = "register" /\ (r \notin troubled => users[req[r].email] # Absent)

FInv == \A r \in Requests : SpentOK(r) /\ ConflictOK(r)

\* The row of a token that was handed out and is gone stays gone.
LEMMA GoneStaysGone ==
  ASSUME IInv, [Next]_vars, NEW t \in Requests, Issued(t),
         refreshTokens[t] = Absent
  PROVE  refreshTokens'[t] = Absent
<1>1. pc[t] = "done" /\ TypeOK
  BY DEF IInv, LocalOK, Issued, Success
<1>2. ASSUME NEW r \in Requests, IssueTokens(r)
      PROVE  refreshTokens'[t] = Absent
  BY <1>1, <1>2 DEF IssueTokens, TypeOK
<1>3. ASSUME NEW r \in Requests, RefreshTokenDeleteByID(r)
      PROVE  refreshTokens'[t] = Absent
  BY <1>3 DEF RefreshTokenDeleteByID
<1>4. CASE UNCHANGED refreshTokens
  BY <1>4
<1> QED
  BY <1>2, <1>3, <1>4
     DEF Next, Malformed, Register, RegisterCall, UserCreate, NamespaceCreate,
         Login, LoginCall, UserGetByEmail, RefreshToken, RefreshCall,
         TokenGetByHash, DeleteExpired, DeleteOld, UserGetByID, Crash, Tick,
         Arrive, tables, vars

\* Namespaces and users are never removed.
LEMMA RowsStay ==
  ASSUME IInv, [Next]_vars
  PROVE  /\ \A n \in Names : namespaces[n] # Absent => namespaces'[n] # Absent
         /\ \A e \in Emails : users[e] # Absent => users'[e] # Absent
<1>1. TypeOK
  BY DEF IInv
<1>2. ASSUME NEW r \in Requests, NamespaceCreate(r)
      PROVE  /\ \A n \in Names : namespaces[n] # Absent => namespaces'[n] # Absent
             /\ users' = users
  BY <1>1, <1>2 DEF NamespaceCreate, Creates, NamespaceName, NameFree, TypeOK
<1>3. ASSUME NEW r \in Requests, UserCreate(r)
      PROVE  /\ \A e \in Emails : users[e] # Absent => users'[e] # Absent
             /\ namespaces' = namespaces
  BY <1>1, <1>3 DEF UserCreate, EmailFree, TypeOK
<1>4. CASE UNCHANGED <<users, namespaces>>
  BY <1>4
<1> QED
  BY <1>2, <1>3, <1>4
     DEF Next, Malformed, Register, RegisterCall, Login, LoginCall,
         UserGetByEmail, RefreshToken, RefreshCall, TokenGetByHash,
         DeleteExpired, DeleteOld, UserGetByID, IssueTokens, Crash, Tick,
         Arrive, tables, vars

\* A request that does not move, or is cut off, keeps its part of FInv.
LEMMA RestingSafe ==
  ASSUME IInv, FInv, [Next]_vars, NEW q \in Requests, req'[q] = req[q],
         \/ pc'[q] = pc[q] /\ status'[q] = status[q]
         \/ pc'[q] = "done" /\ status'[q] \in {"aborted", "400", "401", "500"},
         q \in troubled => q \in troubled'
  PROVE  (SpentOK(q) /\ ConflictOK(q))'
<1>1. /\ SpentOK(q) /\ ConflictOK(q)
      /\ PresOK(q) /\ req[q] \in Request
  BY DEF FInv, IInv, TypeOK
<1>2. SpentOK(q)'
  BY <1>1, GoneStaysGone, RequestFields DEF SpentOK, PresOK
<1>3. ConflictOK(q)'
  BY <1>1, RowsStay, RequestFields DEF ConflictOK
<1> QED
  BY <1>2, <1>3

LEMMA TroubleStays ==
  ASSUME [Next]_vars
  PROVE  troubled \subseteq troubled'
<1>1. ASSUME NEW r, NEW o, Returns(r, o)
      PROVE  troubled \subseteq troubled'
  BY <1>1 DEF Returns
<1>2. CASE UNCHANGED troubled
  BY <1>2
<1> QED
  BY <1>1, <1>2
     DEF Next, Malformed, Register, RegisterCall, UserCreate, NamespaceCreate,
         Login, LoginCall, UserGetByEmail, RefreshToken, RefreshCall,
         TokenGetByHash, RefreshTokenDeleteByID, DeleteExpired, DeleteOld,
         UserGetByID, IssueTokens, Crash, Tick, Arrive, vars

LEMMA PromiseStep ==
  ASSUME IInv, FInv, [Next]_vars
  PROVE  FInv'
<1>1. TypeOK
  BY DEF IInv
<1>0. troubled \subseteq troubled'
  BY TroubleStays
<1> SUFFICES ASSUME NEW q \in Requests
             PROVE  (SpentOK(q) /\ ConflictOK(q))'
  BY DEF FInv
<1>2. CASE Crash
  BY <1>0, <1>1, <1>2, RestingSafe DEF Crash, InFlight
<1>3. CASE Tick \/ UNCHANGED vars
  BY <1>0, <1>3, RestingSafe DEF Tick, vars
<1> SUFFICES ASSUME NEW r \in Requests,
                    \/ Malformed(r) \/ Register(r) \/ Login(r)
                    \/ RefreshToken(r) \/ IssueTokens(r)
             PROVE  (SpentOK(q) /\ ConflictOK(q))'
  BY <1>2, <1>3 DEF Next
<1>4. CASE q # r
  <2>1. pc'[q] = pc[q] /\ status'[q] = status[q] /\ req'[q] = req[q]
    BY <1>1, <1>4
       DEF TypeOK, Malformed, Register, RegisterCall, UserCreate,
           NamespaceCreate, Login, LoginCall, UserGetByEmail, RefreshToken,
           RefreshCall, TokenGetByHash, DeleteExpired, DeleteOld, UserGetByID,
           IssueTokens, Arrive, Answer, Goto, tables
  <2> QED
    BY <2>1, <1>0, RestingSafe
<1>5. CASE q = r
  <2>0. /\ LocalOK(r) /\ PresOK(r) /\ req[r] \in Request
        /\ SpentOK(r) /\ ConflictOK(r)
    BY <1>1 DEF IInv, FInv, TypeOK
  <2>1. CASE Malformed(r)
    BY <1>0, <1>1, <1>5, <2>1, RestingSafe DEF Malformed, Arrive, Answer, TypeOK
  <2>2. ASSUME NEW e \in Emails, NEW p \in Passwords, RegisterCall(r, e, p)
        PROVE  (SpentOK(r) /\ ConflictOK(r))'
    <3>1. /\ req'[r].kind = "register"
          /\ pc'[r] # "issueTokens" /\ status'[r] \notin {"201", "409"}
      BY <1>1, <2>0, <2>2
         DEF RegisterCall, Arrive, Answer, Goto, TypeOK, LocalOK
    <3> QED
      BY <3>1 DEF SpentOK, ConflictOK
  <2>3. CASE UserCreate(r)
    <3>1. /\ req' = req /\ req[r].kind = "register" /\ req[r].email \in Emails
          /\ \/ pc'[r] = "namespaceCreate" /\ status'[r] = "none"
             \/ /\ pc'[r] = "done" /\ status'[r] = "409"
                /\ r \notin troubled' => users[req[r].email] # Absent
      BY <1>1, <2>0, <2>3, RequestFields
         DEF UserCreate, Returns, Answer, Goto, EmailFree, Succeeds, TypeOK, LocalOK
    <3> QED
      BY <1>5, <3>1, RowsStay DEF SpentOK, ConflictOK
  <2>4. CASE NamespaceCreate(r)
    <3>1. req' = req /\ req[r].kind = "register" /\ status'[r] = "none"
      BY <1>1, <2>0, <2>4 DEF NamespaceCreate, Goto, LocalOK
    <3> QED
      BY <1>5, <3>1 DEF SpentOK, ConflictOK
  <2>5. ASSUME NEW e \in Emails, NEW p \in Passwords, LoginCall(r, e, p)
        PROVE  (SpentOK(r) /\ ConflictOK(r))'
    <3>1. req'[r].kind = "login" /\ status'[r] = "none"
      BY <1>1, <2>0, <2>5 DEF LoginCall, Arrive, Goto, TypeOK, LocalOK
    <3> QED
      BY <3>1 DEF SpentOK, ConflictOK
  <2>6. CASE UserGetByEmail(r)
    <3>1. /\ req' = req /\ req[r].kind = "login"
          /\ status'[r] \in {"none", "401", "500"}
      BY <1>1, <2>0, <2>6 DEF UserGetByEmail, Answer, Goto, TypeOK, LocalOK
    <3> QED
      BY <1>5, <3>1 DEF SpentOK, ConflictOK
  <2>7. ASSUME NEW t \in Requests, RefreshCall(r, t)
        PROVE  (SpentOK(r) /\ ConflictOK(r))'
    <3>1. /\ req'[r].kind = "refresh" /\ req'[r].token = t
          /\ req'[r].replay = Exchanged(t)
          /\ pc'[r] = "tokenGetByHash" /\ status'[r] = "none"
          /\ refreshTokens' = refreshTokens
      BY <1>1, <2>0, <2>7
         DEF RefreshCall, Arrive, Goto, TypeOK, LocalOK, tables
    <3>2. Exchanged(t) => refreshTokens[t] = Absent
      BY DEF Exchanged, FInv, SpentOK
    <3> QED
      BY <3>1, <3>2 DEF SpentOK, ConflictOK
  <2>8. CASE TokenGetByHash(r)
    <3>1. /\ req' = req /\ req[r].kind = "refresh" /\ refreshTokens' = refreshTokens
          /\ \/ pc'[r] = "done" /\ status'[r] \in {"401", "500"}
             \/ /\ pc'[r] \in {"deleteExpired", "deleteOld"}
                /\ status'[r] = "none" /\ refreshTokens[req[r].token] # Absent
      BY <1>1, <2>0, <2>8
         DEF TokenGetByHash, Answer, Goto, TypeOK, LocalOK, tables, RefreshSteps
    <3> QED
      BY <1>5, <2>0, <3>1 DEF SpentOK, ConflictOK
  <2>9. CASE DeleteExpired(r)
    BY <1>0, <1>1, <1>5, <2>9, RestingSafe DEF DeleteExpired, Answer, TypeOK
  <2>10. CASE DeleteOld(r)
    <3>1. /\ req' = req /\ req[r].kind = "refresh" /\ pc[r] = "deleteOld"
          /\ req[r].token \in Requests /\ status'[r] = "none"
      BY <1>1, <2>0, <2>10, RequestFields DEF DeleteOld, Goto, LocalOK, RefreshSteps
    <3>2. r \notin troubled' => refreshTokens'[req[r].token] = Absent
      BY <2>10, <3>1
         DEF DeleteOld, RefreshTokenDeleteByID, Returns, Succeeds, TakesEffect,
             Deleted
    <3> QED
      BY <1>5, <2>0, <3>1, <3>2 DEF SpentOK, ConflictOK
  <2>11. CASE UserGetByID(r)
    <3>1. /\ req' = req /\ req[r].kind = "refresh" /\ pc[r] = "userGetByID"
          /\ refreshTokens' = refreshTokens /\ status'[r] \in {"none", "500"}
      BY <1>1, <2>0, <2>11
         DEF UserGetByID, Answer, Goto, TypeOK, LocalOK, tables, RefreshSteps
    <3> QED
      BY <1>0, <1>5, <2>0, <3>1 DEF SpentOK, ConflictOK
  <2>12. CASE IssueTokens(r)
    <3>1. /\ req' = req /\ namespaces' = namespaces
          /\ pc[r] = "issueTokens" /\ pc'[r] = "done"
          /\ \/ status'[r] = "201" /\ req[r].kind = "register"
             \/ status'[r] \in {"200", "500"}
      BY <1>1, <2>0, <2>12 DEF IssueTokens, Answer, TypeOK, LocalOK
    <3>2. req[r].kind = "refresh" =>
            /\ ~req[r].replay
            /\ r \notin troubled => refreshTokens'[req[r].token] = Absent
      BY <2>0, <3>1, GoneStaysGone, RequestFields DEF SpentOK, PresOK
    <3> QED
      BY <1>0, <1>5, <2>0, <3>1, <3>2, RequestFields DEF SpentOK, ConflictOK
  <2> QED
    BY <1>5, <2>1, <2>2, <2>3, <2>4, <2>5, <2>6, <2>7, <2>8, <2>9, <2>10, <2>11,
       <2>12 DEF Register, Login, RefreshToken
<1> QED
  BY <1>4, <1>5

LEMMA PromisesKept ==
  Spec => [](NoReplay /\ ConflictMeansRegistered)
<1>1. Init => FInv
  <2> SUFFICES ASSUME Init, NEW r \in Requests
               PROVE  SpentOK(r) /\ ConflictOK(r)
    BY DEF FInv
  <2>1. req[r].kind = "none" /\ status[r] = "none"
    BY DEF Init
  <2> QED
    BY <2>1 DEF SpentOK, ConflictOK
<1>2. IInv /\ FInv /\ [Next]_vars => FInv'
  BY PromiseStep
<1>3. IInv /\ FInv =>
        NoReplay /\ ConflictMeansRegistered
  BY DEF IInv, LocalOK, FInv, SpentOK, ConflictOK, NoReplay,
         ConflictMeansRegistered
<1> QED
  BY <1>1, <1>2, <1>3, Inductive, PTL DEF Spec

\* A token exchanged earlier without trouble is refused, whatever fails later.
THEOREM ReplaySafety == Spec => []NoReplay
  BY PromisesKept, PTL

\* A 409 of a request without trouble is honest.
THEOREM ConflictSafety == Spec => []ConflictMeansRegistered
  BY PromisesKept, PTL

-----------------------------------------------------------------------------
(***************************************************************************)
(* Who has lost a name.  A registration knows its user once the insert was *)
(* reported as successful; from then on its name is taken unless it was    *)
(* disturbed (NamedOK).  Every user goes back to such a registration or to *)
(* one whose insert was reported as failed (UserMade).                     *)
(***************************************************************************)
UserOK(r) == pc[r] \in {"idle", "userCreate"} => user[r] = Nobody

NamedOK(r) ==
  req[r].kind = "register" /\ user[r] # Nobody =>
    \/ pc[r] = "namespaceCreate" \/ r \in troubled \/ status[r] = "aborted"
    \/ LocalPart[req[r].email] \in Names => namespaces[LocalPart[req[r].email]] # Absent

UserMade ==
  \A e \in Emails : users[e] # Absent =>
    \E r \in Registrations(e) : user[r] = e \/ r \in troubled

NInv == (\A r \in Requests : UserOK(r) /\ NamedOK(r)) /\ UserMade

\* What a request has sent stays, and so does the user of a registration.
LEMMA RegistrationStays ==
  ASSUME IInv, NInv, [Next]_vars, NEW q \in Requests, req[q].kind = "register"
  PROVE  req'[q] = req[q] /\ (user[q] # Nobody => user'[q] = user[q])
<1>1. TypeOK /\ LocalOK(q) /\ UserOK(q)
  BY DEF IInv, NInv
<1>2. CASE Crash \/ Tick \/ UNCHANGED vars
  BY <1>2 DEF Crash, Tick, vars
<1>3. ASSUME NEW r \in Requests,
             \/ Malformed(r) \/ Register(r) \/ Login(r)
             \/ RefreshToken(r) \/ IssueTokens(r)
      PROVE  req'[q] = req[q] /\ (user[q] # Nobody => user'[q] = user[q])
  BY <1>1, <1>3
     DEF TypeOK, LocalOK, UserOK, Malformed, Register, RegisterCall, UserCreate,
         NamespaceCreate, Login, LoginCall, UserGetByEmail, RefreshToken,
         RefreshCall, TokenGetByHash, DeleteExpired, DeleteOld, UserGetByID,
         IssueTokens, Arrive, RefreshSteps
<1> QED
  BY <1>2, <1>3 DEF Next

\* A new user is of a registration, whether or not it learns of the insert.
LEMMA UserMadeStep ==
  ASSUME IInv, NInv, [Next]_vars
  PROVE  UserMade'
<1> SUFFICES ASSUME NEW e \in Emails, users'[e] # Absent
             PROVE  \E r \in Registrations(e)' : user'[r] = e \/ r \in troubled'
  BY DEF UserMade
<1>1. CASE users[e] # Absent
  <2>1. PICK r \in Registrations(e) : user[r] = e \/ r \in troubled
    BY <1>1 DEF NInv, UserMade
  <2>2. r \in Registrations(e)'
    BY RegistrationStays DEF Registrations
  <2>3. user[r] = e => user'[r] = e
    BY RegistrationStays, SentinelAssumption DEF Registrations
  <2> QED
    BY <2>1, <2>2, <2>3, TroubleStays
<1>2. CASE users[e] = Absent
  <2>1. TypeOK
    BY DEF IInv
  <2>2. PICK r \in Requests : UserCreate(r)
    BY <1>2
       DEF Next, Malformed, Register, RegisterCall, NamespaceCreate, Login,
           LoginCall, UserGetByEmail, RefreshToken, RefreshCall, TokenGetByHash,
           DeleteExpired, DeleteOld, UserGetByID, IssueTokens, Crash, Tick,
           Arrive, tables, vars
  <2>3. req[r].email = e /\ req[r].kind = "register" /\ req' = req
    BY <1>2, <2>1, <2>2 DEF UserCreate, TypeOK, IInv, LocalOK
  <2>4. user'[r] = e \/ r \in troubled'
    BY <1>2, <2>1, <2>2, <2>3 DEF UserCreate, EmailFree, Returns, TypeOK
  <2> QED
    BY <2>3, <2>4 DEF Registrations
<1> QED
  BY <1>1, <1>2

\* A request that keeps its user and does not leave NamespaceCreate unless it
\* is cut off keeps its part of NInv.
LEMMA NameRests ==
  ASSUME IInv, NInv, [Next]_vars, NEW q \in Requests,
         req'[q] = req[q], user'[q] = user[q],
         \/ pc'[q] = pc[q] /\ status'[q] = status[q]
         \/ pc'[q] = "done" /\ status'[q] = "aborted"
         \/ /\ pc[q] \notin {"namespaceCreate", "done"}
            /\ pc'[q] \notin {"idle", "userCreate"}
  PROVE  (UserOK(q) /\ NamedOK(q))'
<1>1. UserOK(q) /\ NamedOK(q) /\ LocalOK(q) /\ req[q] \in Request
  BY DEF IInv, NInv, TypeOK
<1>2. UserOK(q)'
  BY <1>1 DEF UserOK
<1>3. pc[q] # "done" => status[q] # "aborted"
  BY <1>1 DEF LocalOK
<1>4. NamedOK(q)'
  BY <1>1, <1>3, TroubleStays, RowsStay DEF NamedOK
<1> QED
  BY <1>2, <1>4

LEMMA NameStep ==
  ASSUME IInv, NInv, [Next]_vars
  PROVE  NInv'
<1>1. TypeOK
  BY DEF IInv
<1> SUFFICES ASSUME NEW q \in Requests
             PROVE  (UserOK(q) /\ NamedOK(q))'
  BY UserMadeStep DEF NInv
<1>2. CASE Crash
  BY <1>1, <1>2, NameRests DEF Crash, InFlight, TypeOK
<1>3. CASE Tick \/ UNCHANGED vars
  BY <1>3, NameRests DEF Tick, vars
<1> SUFFICES ASSUME NEW r \in Requests,
                    \/ Malformed(r) \/ Register(r) \/ Login(r)
                    \/ RefreshToken(r) \/ IssueTokens(r)
             PROVE  (UserOK(q) /\ NamedOK(q))'
  BY <1>2, <1>3 DEF Next
<1>4. CASE q # r
  <2>1. /\ pc'[q] = pc[q] /\ status'[q] = status[q]
        /\ req'[q] = req[q] /\ user'[q] = user[q]
    BY <1>1, <1>4
       DEF TypeOK, Malformed, Register, RegisterCall, UserCreate,
           NamespaceCreate, Login, LoginCall, UserGetByEmail, RefreshToken,
           RefreshCall, TokenGetByHash, DeleteExpired, DeleteOld, UserGetByID,
           IssueTokens, Arrive, Answer, Goto, tables
  <2> QED
    BY <2>1, NameRests
<1>5. CASE q = r
  <2>0. /\ LocalOK(r) /\ UserOK(r) /\ NamedOK(r) /\ req[r] \in Request
    BY <1>1 DEF IInv, NInv, TypeOK
  <2>1. CASE Malformed(r)
    BY <1>1, <1>5, <2>1, NameRests DEF Malformed, Arrive, Answer, TypeOK
  <2>2. ASSUME NEW e \in Emails, NEW p \in Passwords, RegisterCall(r, e, p)
        PROVE  (UserOK(r) /\ NamedOK(r))'
    <3>1. user'[r] = Nobody
      BY <2>0, <2>2 DEF RegisterCall, Arrive, UserOK
    <3> QED
      BY <3>1 DEF UserOK, NamedOK
  <2>3. CASE UserCreate(r)
    <3>1. \/ pc'[r] = "namespaceCreate"
          \/ pc'[r] = "done" /\ user'[r] = Nobody
      BY <1>1, <2>0, <2>3 DEF UserCreate, Answer, Goto, UserOK, TypeOK
    <3> QED
      BY <1>5, <3>1 DEF UserOK, NamedOK
  <2>4. CASE NamespaceCreate(r)
    <3>1. /\ req' = req /\ pc'[r] = "issueTokens" /\ req[r].kind = "register"
          /\ AuthOK(r) /\ Known(r)
      BY <1>1, <2>0, <2>4 DEF NamespaceCreate, Goto, LocalOK, IInv, Known, TypeOK
    <3>2. user[r] = req[r].email /\ user[r] \in Emails /\ user[r] # Absent
      BY <3>1, SentinelAssumption DEF AuthOK
    <3>3. LocalPart[user[r]] \in Names /\ r \notin troubled' =>
            namespaces'[LocalPart[user[r]]] # Absent
      BY <1>1, <2>4, <3>2
         DEF NamespaceCreate, Creates, NamespaceName, Returns, Succeeds,
             TakesEffect, NameFree, TypeOK
    <3> QED
      BY <1>5, <3>1, <3>2, <3>3 DEF UserOK, NamedOK
  <2>5. CASE Login(r) \/ RefreshToken(r)
    <3>1. req'[r].kind \in {"login", "refresh"} /\ pc'[r] \notin {"idle", "userCreate"}
      BY <1>1, <2>0, <2>5
         DEF Login, LoginCall, UserGetByEmail, RefreshToken, RefreshCall,
             TokenGetByHash, DeleteExpired, DeleteOld, UserGetByID, Arrive, Answer,
             Goto, TypeOK, LocalOK, RefreshSteps
    <3> QED
      BY <1>5, <3>1 DEF UserOK, NamedOK
  <2>6. CASE IssueTokens(r)
    BY <1>1, <1>5, <2>6, NameRests DEF IssueTokens, Answer, TypeOK
  <2> QED
    BY <1>5, <2>1, <2>2, <2>3, <2>4, <2>5, <2>6 DEF Register
<1> QED
  BY <1>4, <1>5

\* A user whose name is free has not taken it yet, or its registration was
\* disturbed (internal/service/auth_user.go:70).
THEOREM NameSafety == Spec => []RegisteredNameIsTaken
<1>1. Init => NInv
  BY DEF Init, NInv, UserOK, NamedOK, UserMade
<1>2. IInv /\ NInv /\ [Next]_vars => NInv'
  BY NameStep
<1>3. IInv /\ NInv => RegisteredNameIsTaken
  <2> SUFFICES ASSUME IInv, NInv, NEW e \in Emails, users[e] # Absent,
                      LocalPart[e] \in Names, namespaces[LocalPart[e]] = Absent
               PROVE  \E r \in Registrations(e) :
                        \/ /\ user[r] = e
                           /\ pc[r] = "namespaceCreate" \/ r \in troubled
                                \/ status[r] = "aborted"
                        \/ r \in troubled /\ \A q \in Registrations(e) : user[q] # e
    BY DEF RegisteredNameIsTaken
  <2>1. ASSUME NEW r \in Registrations(e), user[r] = e
        PROVE  pc[r] = "namespaceCreate" \/ r \in troubled \/ status[r] = "aborted"
    BY <2>1, SentinelAssumption DEF NInv, NamedOK, Registrations
  <2>2. \E r \in Registrations(e) : user[r] = e \/ r \in troubled
    BY DEF NInv, UserMade
  <2> QED
    BY <2>1, <2>2
<1> QED
  BY <1>1, <1>2, <1>3, Inductive, PTL DEF Spec
=============================================================================
