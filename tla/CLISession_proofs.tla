------------------------- MODULE CLISession_proofs -------------------------
(***************************************************************************)
(* CLISession for every set of logins, commands, users and names.  The     *)
(* commands make their token requests as RegistryToken says, so what is    *)
(* proved there holds here.  A login that runs alone finds the file it has *)
(* just emptied; a command lives from its own copy of the session.         *)
(***************************************************************************)
EXTENDS CLISession, RegistryToken_proofs

\* Docker clients have no command.
Apart == \A r \in docker : step[r] = "failed" /\ r \notin trusted

\* While the latest login is the only one: the file is empty when it writes.
LatestWrites ==
  latest # NoLogin =>
    /\ \A l \in Logins : login[l] \in {"request", "open", "write"} => l = latest
    /\ login[latest] = "write" => config.size = 0
    /\ login[latest] = "ok" => config.session = latest

\* A trusted command has the session of the owner, and its token request, once
\* made, is an owner's.
TrustedOwns ==
  \A r \in trusted :
    /\ token[r] \in Logins \ expired
    /\ Owner(r) = {Account[token[r]]}
    /\ step[r] \in {"auth", "await", "push", "post", "ok"}
    /\ pc[r] # "idle" => owned[r]

CInv == SessionTypeOK /\ Apart /\ LatestWrites /\ TrustedOwns

-----------------------------------------------------------------------------
\* What a command asks for is a request of RegistryToken.
LEMMA CommandAsks ==
  ASSUME SessionTypeOK, NEW r \in Requests, FetchOCIToken(r)
  PROVE  Receive(r)
<1>1. token[r] \in Logins
  BY DEF SessionTypeOK, FetchOCIToken
<1>2. Bearer(token[r]) \in {{}} \cup {{u} : u \in Users}
  BY <1>1, LoginAssumption DEF Bearer
<1>3. [name : namespace[r], actions : {{"pull", "push"}}] \in SUBSET ScopeEntry
  BY DEF SessionTypeOK, ScopeEntry
<1> QED
  BY <1>2, <1>3 DEF FetchOCIToken, Receive

\* Every step is one of RegistryToken, or none of its business.
LEMMA StepRefines ==
  ASSUME SessionTypeOK, [CLINext]_cli
  PROVE  [Next]_vars
<1>1. CASE \E l \in Logins : Session(l)
  BY <1>1 DEF Session, StartLogin, LoggedIn, OpenConfig, WriteConfig, LoginEnds, Expire,
              LoginGoes
<1>2. ASSUME NEW r \in Requests, Command(r)
      PROVE  [Next]_vars
  <2>1. CASE FetchOCIToken(r)
    BY <2>1, CommandAsks DEF Next, Arrive
  <2> QED
    BY <1>2, <2>1 DEF Command, GetAccessToken, WithOrWithout, PushArtifact,
                      RegisterMetadata, CommandEnds
<1>3. CASE \E r \in docker : Arrive(r)
  BY <1>3 DEF Next, SessionTypeOK
<1>4. CASE Work
  BY <1>4 DEF Next
<1>5. CASE UNCHANGED cli
  BY <1>5 DEF cli
<1> QED
  BY <1>1, <1>2, <1>3, <1>4, <1>5 DEF CLINext

-----------------------------------------------------------------------------
LEMMA CLIInitInv == CLIInit => CInv
<1> SUFFICES ASSUME CLIInit PROVE CInv
  OBVIOUS
<1>1. PICK s \in Stages :
        /\ login = [l \in Logins |-> IF l \in s.logins THEN "idle" ELSE "failed"]
        /\ step = [r \in Requests |-> IF r \in s.commands THEN "idle" ELSE "failed"]
        /\ docker = s.docker
  BY DEF CLIInit
<1>2. docker \subseteq Requests /\ docker \cap s.commands = {}
  BY <1>1, StageAssumption
<1>3. SessionTypeOK
  BY <1>1, <1>2 DEF CLIInit, SessionTypeOK
<1>4. Apart
  BY <1>1, <1>2 DEF CLIInit, Apart
<1>5. LatestWrites /\ TrustedOwns
  BY DEF CLIInit, LatestWrites, TrustedOwns
<1> QED
  BY <1>3, <1>4, <1>5 DEF CInv

\* The steps of logins leave commands alone.
LEMMA LoginKeepsCommands ==
  ASSUME CInv, UNCHANGED <<vars, commands, trusted, expired>>
  PROVE  Apart' /\ TrustedOwns'
BY DEF CInv, Apart, TrustedOwns, Owner, commands, vars

LEMMA StartLoginInv ==
  ASSUME CInv, NEW l \in Logins, StartLogin(l)
  PROVE  CInv'
<1>1. SessionTypeOK'
  BY DEF CInv, SessionTypeOK, StartLogin, LoginGoes, commands
<1>2. Apart' /\ TrustedOwns'
  BY LoginKeepsCommands DEF StartLogin, LoginGoes
<1>3. LatestWrites'
  <2>1. login' = [login EXCEPT ![l] = "request"] /\ config' = config
        /\ latest' = IF Saving = {} THEN l ELSE NoLogin
    BY DEF StartLogin, LoginGoes
  <2>2. login \in [Logins -> {"idle", "request", "open", "write", "ok", "failed"}]
    BY DEF CInv, SessionTypeOK
  <2>3. CASE Saving = {}
    <3>1. \A k \in Logins : login[k] \notin {"request", "open", "write"}
      BY <2>3 DEF Saving
    <3> QED
      BY <2>1, <2>2, <2>3, <3>1 DEF LatestWrites
  <2>4. CASE Saving # {}
    BY <2>1, <2>4 DEF LatestWrites
  <2> QED
    BY <2>3, <2>4
<1> QED
  BY <1>1, <1>2, <1>3 DEF CInv

\* The other steps of a login keep latest: it is theirs, or there are none.
LEMMA LoggedInInv ==
  ASSUME CInv, NEW l \in Logins, LoggedIn(l)
  PROVE  CInv'
<1>1. SessionTypeOK'
  BY DEF CInv, SessionTypeOK, LoggedIn, LoginGoes, commands
<1>2. Apart' /\ TrustedOwns'
  BY LoginKeepsCommands DEF LoggedIn, LoginGoes
<1>3. LatestWrites'
  BY DEF CInv, SessionTypeOK, LatestWrites, LoggedIn, LoginGoes
<1> QED
  BY <1>1, <1>2, <1>3 DEF CInv

LEMMA OpenConfigInv ==
  ASSUME CInv, NEW l \in Logins, OpenConfig(l)
  PROVE  CInv'
<1>1. SessionTypeOK'
  BY DEF CInv, SessionTypeOK, OpenConfig, LoginGoes, Opened, commands
<1>2. Apart' /\ TrustedOwns'
  BY LoginKeepsCommands DEF OpenConfig, LoginGoes
<1>3. latest # NoLogin => l = latest
  BY DEF CInv, LatestWrites, OpenConfig, LoginGoes
<1>4. LatestWrites'
  BY <1>3 DEF CInv, SessionTypeOK, LatestWrites, OpenConfig, LoginGoes, Opened
<1> QED
  BY <1>1, <1>2, <1>4 DEF CInv

LEMMA WriteConfigInv ==
  ASSUME CInv, NEW l \in Logins, WriteConfig(l)
  PROVE  CInv'
<1>1. Size[l] \in Nat \ {0} /\ config.size \in Nat
  BY LoginAssumption DEF CInv, SessionTypeOK
<1>2. SessionTypeOK'
  BY <1>1 DEF CInv, SessionTypeOK, WriteConfig, LoginGoes, commands
<1>3. Apart' /\ TrustedOwns'
  BY LoginKeepsCommands DEF WriteConfig, LoginGoes
<1>4. latest # NoLogin => l = latest /\ config.size = 0
  BY DEF CInv, LatestWrites, WriteConfig, LoginGoes
<1>5. latest # NoLogin => config'.session = l
  BY <1>1, <1>4 DEF WriteConfig
<1>6. login' = [login EXCEPT ![l] = "ok"] /\ latest' = latest
  BY DEF WriteConfig, LoginGoes
<1>7. LatestWrites'
  BY <1>4, <1>5, <1>6 DEF CInv, SessionTypeOK, LatestWrites
<1> QED
  BY <1>2, <1>3, <1>7 DEF CInv

LEMMA LoginEndsInv ==
  ASSUME CInv, NEW l \in Logins, LoginEnds(l)
  PROVE  CInv'
<1>1. Size[l] \in Nat \ {0} /\ config.size \in Nat
  BY LoginAssumption DEF CInv, SessionTypeOK
<1>2. config' \in [session : Logins \cup {NoLogin}, size : Nat]
  BY <1>1 DEF CInv, SessionTypeOK, LoginEnds
<1>3. SessionTypeOK'
  BY <1>2 DEF CInv, SessionTypeOK, LoginEnds, commands
<1>4. Apart' /\ TrustedOwns'
  BY LoginKeepsCommands DEF LoginEnds
<1>5. latest # NoLogin => l = latest
  BY DEF CInv, LatestWrites, LoginEnds
<1>6. login' = [login EXCEPT ![l] = "failed"] /\ latest' = latest
  BY DEF LoginEnds
<1>7. LatestWrites'
  BY <1>5, <1>6 DEF CInv, SessionTypeOK, LatestWrites
<1> QED
  BY <1>3, <1>4, <1>7 DEF CInv

\* An expiry takes the trust from the commands with that session.
LEMMA ExpireInv ==
  ASSUME CInv, NEW l \in Logins, Expire(l)
  PROVE  CInv'
<1>1. SessionTypeOK'
  BY DEF CInv, SessionTypeOK, Expire, commands
<1>2. Apart' /\ TrustedOwns'
  BY DEF CInv, Apart, TrustedOwns, Owner, Expire, commands, vars
<1>3. LatestWrites'
  BY DEF CInv, LatestWrites, Expire
<1> QED
  BY <1>1, <1>2, <1>3 DEF CInv

-----------------------------------------------------------------------------
\* The steps of commands leave logins alone.
LEMMA CommandKeepsLogins ==
  ASSUME CInv, UNCHANGED session
  PROVE  LatestWrites'
BY DEF CInv, LatestWrites, session

LEMMA GetAccessTokenInv ==
  ASSUME CInv, NEW r \in Requests, GetAccessToken(r)
  PROVE  CInv'
<1>1. PICK s \in {config.session} \cup {l \in Logins : login[l] = "ok"}, n \in Names :
        /\ token' = [token EXCEPT ![r] = s]
        /\ namespace' = [namespace EXCEPT ![r] = {n}]
        /\ trusted' = IF owner[n] \in Bearer(s) THEN trusted \cup {r} ELSE trusted
  BY DEF GetAccessToken
<1>2. /\ step[r] = "idle" /\ step' = [step EXCEPT ![r] = "auth"]
      /\ UNCHANGED <<session, docker, vars>> /\ pc[r] = "idle"
  BY DEF GetAccessToken, CommandGoes
<1>3. s \in Logins \cup {NoLogin}
  BY <1>1 DEF CInv, SessionTypeOK
<1>4. SessionTypeOK'
  BY <1>1, <1>2, <1>3 DEF CInv, SessionTypeOK, session
<1>5. r \notin docker /\ r \notin trusted
  BY <1>2 DEF CInv, Apart, TrustedOwns
<1>6. Apart'
  BY <1>1, <1>2, <1>5 DEF CInv, Apart, SessionTypeOK
<1>7. TrustedOwns'
  <2> SUFFICES ASSUME NEW q \in trusted'
               PROVE  /\ token'[q] \in Logins \ expired'
                      /\ Owner(q)' = {Account[token'[q]]}
                      /\ step'[q] \in {"auth", "await", "push", "post", "ok"}
                      /\ pc'[q] # "idle" => owned'[q]
    BY DEF TrustedOwns
  <2>1. CASE q = r
    <3>1. owner[n] \in Bearer(s)
      BY <1>1, <1>5, <2>1
    <3>2. s \in Logins \ expired /\ owner[n] = Account[s]
      BY <1>3, <3>1 DEF Bearer
    <3>3. token'[r] = s /\ namespace'[r] = {n} /\ step'[r] = "auth"
      BY <1>1, <1>2 DEF CInv, SessionTypeOK
    <3> QED
      BY <1>2, <2>1, <3>2, <3>3 DEF Owner, session, vars
  <2>2. CASE q # r
    <3>1. q \in trusted /\ q \in Requests
      BY <1>1, <2>2 DEF CInv, SessionTypeOK
    <3>2. token'[q] = token[q] /\ namespace'[q] = namespace[q] /\ step'[q] = step[q]
      BY <1>1, <1>2, <2>2, <3>1 DEF CInv, SessionTypeOK
    <3> QED
      BY <1>2, <3>1, <3>2 DEF CInv, TrustedOwns, Owner, session, vars
  <2> QED
    BY <2>1, <2>2
<1>8. LatestWrites'
  BY <1>2, CommandKeepsLogins
<1> QED
  BY <1>4, <1>6, <1>7, <1>8 DEF CInv

\* A trusted command asks in the owner's name.
LEMMA FetchOCITokenInv ==
  ASSUME TypeOK, CInv, NEW r \in Requests, FetchOCIToken(r)
  PROVE  CInv'
<1>1. /\ step[r] = "auth" /\ step' = [step EXCEPT ![r] = "await"]
      /\ UNCHANGED <<session, docker, namespace, token, trusted>>
      /\ token[r] # NoLogin
  BY DEF FetchOCIToken, CommandGoes
<1>2. PICK u \in Identity(Bearer(token[r])) :
        owned' = [owned EXCEPT ![r] =
          \A e \in [name : namespace[r], actions : {{"pull", "push"}}] : owner[e.name] = u]
  BY DEF FetchOCIToken, Ask
<1>3. pc' = [pc EXCEPT ![r] = "issue"] /\ owner' = owner
  BY DEF FetchOCIToken, Ask
<1>4. SessionTypeOK' /\ Apart'
  BY <1>1 DEF CInv, SessionTypeOK, Apart, session
<1>5. LatestWrites'
  BY <1>1, CommandKeepsLogins
<1>6. TrustedOwns'
  <2> SUFFICES ASSUME NEW q \in trusted
               PROVE  /\ token[q] \in Logins \ expired
                      /\ Owner(q)' = {Account[token[q]]}
                      /\ step'[q] \in {"auth", "await", "push", "post", "ok"}
                      /\ pc'[q] # "idle" => owned'[q]
    BY <1>1 DEF TrustedOwns, session
  <2>1. /\ token[q] \in Logins \ expired /\ Owner(q) = {Account[token[q]]}
        /\ step[q] \in {"auth", "await", "push", "post", "ok"}
        /\ pc[q] # "idle" => owned[q]
    BY DEF CInv, TrustedOwns
  <2>2. Owner(q)' = Owner(q) /\ step'[q] \in {"auth", "await", "push", "post", "ok"}
    BY <1>1, <1>3, <2>1 DEF Owner, CInv, SessionTypeOK
  <2>3. CASE q # r
    <3>1. q \in Requests
      BY DEF CInv, SessionTypeOK
    <3>2. pc'[q] = pc[q] /\ owned'[q] = owned[q]
      BY <1>2, <1>3, <2>3, <3>1 DEF TypeOK
    <3> QED
      BY <2>1, <2>2, <3>2
  <2>4. CASE q = r
    <3>1. Bearer(token[r]) = {Account[token[r]]}
      BY <2>1, <2>4, LoginAssumption DEF Bearer
    <3>2. u = Account[token[r]]
      BY <1>2, <3>1 DEF Identity
    <3>3. \A e \in [name : namespace[r], actions : {{"pull", "push"}}] : owner[e.name] = u
      <4> SUFFICES ASSUME NEW e \in [name : namespace[r], actions : {{"pull", "push"}}]
                   PROVE  owner[e.name] = u
        OBVIOUS
      <4>1. owner[e.name] \in Owner(r)
        BY DEF Owner
      <4> QED
        BY <2>1, <2>4, <3>2, <4>1
    <3>4. owned'[r]
      BY <1>2, <3>3 DEF TypeOK
    <3> QED
      BY <2>1, <2>2, <2>4, <3>4
  <2> QED
    BY <2>3, <2>4
<1> QED
  BY <1>4, <1>5, <1>6 DEF CInv

\* The remaining steps of a command.
LEMMA CommandStepInv ==
  ASSUME CInv, NEW r \in Requests,
         WithOrWithout(r) \/ PushArtifact(r) \/ RegisterMetadata(r) \/ CommandEnds(r)
  PROVE  CInv'
<1>1. UNCHANGED <<session, docker, vars, namespace, token>>
  BY DEF WithOrWithout, PushArtifact, RegisterMetadata, CommandEnds, CommandGoes
<1>2. PICK to \in {"push", "post", "ok", "refused", "failed"} :
        /\ step[r] # "failed" /\ step' = [step EXCEPT ![r] = to]
        /\ to \in {"refused", "failed"} => r \notin trusted'
        /\ trusted' \subseteq trusted
  <2>1. CASE WithOrWithout(r) \/ PushArtifact(r)
    BY <2>1 DEF WithOrWithout, PushArtifact, CommandGoes
  <2>2. CASE RegisterMetadata(r)
    <3>1. r \in trusted => Owner(r) = Bearer(TokenSent(r))
      BY LoginAssumption DEF CInv, TrustedOwns, Bearer, TokenSent
    <3> QED
      BY <2>2, <3>1 DEF RegisterMetadata, CommandGoes
  <2>3. CASE CommandEnds(r)
    BY <2>3 DEF CommandEnds, CommandGoes
  <2> QED
    BY <2>1, <2>2, <2>3
<1>3. SessionTypeOK'
  BY <1>1, <1>2 DEF CInv, SessionTypeOK, session
<1>4. Apart'
  BY <1>1, <1>2 DEF CInv, SessionTypeOK, Apart
<1>5. TrustedOwns'
  BY <1>1, <1>2 DEF CInv, SessionTypeOK, TrustedOwns, Owner, session, vars
<1>6. LatestWrites'
  BY <1>1, CommandKeepsLogins
<1> QED
  BY <1>3, <1>4, <1>5, <1>6 DEF CInv

\* The requests of Docker clients are no trusted command's.
LEMMA ArriveInv ==
  ASSUME TypeOK, CInv, NEW r \in docker, Arrive(r), UNCHANGED <<session, commands, trusted>>
  PROVE  CInv'
<1>1. SessionTypeOK' /\ Apart'
  BY DEF CInv, SessionTypeOK, Apart, session, commands
<1>2. LatestWrites'
  BY CommandKeepsLogins
<1>3. r \notin trusted
  BY DEF CInv, Apart
<1>4. owner' = owner /\ \A q \in Requests : q # r => pc'[q] = pc[q] /\ owned'[q] = owned[q]
  BY DEF TypeOK, Arrive, Malformed, Receive, Ask
<1>5. TrustedOwns'
  BY <1>3, <1>4 DEF CInv, SessionTypeOK, TrustedOwns, Owner, session, commands
<1> QED
  BY <1>1, <1>2, <1>5 DEF CInv

\* At the server: a registration takes no name that has an owner, and a call
\* that fails takes the trust away.
LEMMA WorkInv ==
  ASSUME TypeOK, CInv, Work, UNCHANGED <<session, commands>>,
         trusted' = {r \in trusted : owned'[r] = owned[r]}
  PROVE  CInv'
<1>1. SessionTypeOK' /\ Apart'
  BY DEF CInv, SessionTypeOK, Apart, session, commands
<1>2. LatestWrites'
  BY CommandKeepsLogins
<1>3. \A n \in Names : owner[n] # Absent => owner'[n] = owner[n]
  BY DEF TypeOK, Work, RegisterUser, Issue, CallFails, Grant, Forbid
<1>4. \A r \in Requests : pc'[r] # "idle" => pc[r] # "idle"
  BY DEF TypeOK, Work, RegisterUser, Issue, CallFails, Grant, Forbid
<1>5. TrustedOwns'
  <2> SUFFICES ASSUME NEW q \in trusted'
               PROVE  /\ token'[q] \in Logins \ expired'
                      /\ Owner(q)' = {Account[token'[q]]}
                      /\ step'[q] \in {"auth", "await", "push", "post", "ok"}
                      /\ pc'[q] # "idle" => owned'[q]
    BY DEF TrustedOwns
  <2>1. q \in trusted /\ owned'[q] = owned[q] /\ q \in Requests
    BY DEF CInv, SessionTypeOK
  <2>2. /\ token[q] \in Logins \ expired /\ Owner(q) = {Account[token[q]]}
        /\ step[q] \in {"auth", "await", "push", "post", "ok"}
        /\ pc[q] # "idle" => owned[q]
    BY <2>1 DEF CInv, TrustedOwns
  <2>3. Account[token[q]] # Absent
    BY <2>2, LoginAssumption, SentinelAssumption
  <2>4. namespace'[q] = namespace[q] /\ namespace[q] \subseteq Names
    BY <2>1 DEF CInv, SessionTypeOK, commands
  <2>5. \A n \in namespace[q] : owner'[n] = owner[n]
    BY <1>3, <2>2, <2>3, <2>4 DEF Owner
  <2>6. Owner(q)' = Owner(q)
    BY <2>4, <2>5 DEF Owner
  <2> QED
    BY <1>4, <2>1, <2>2, <2>6 DEF session, commands
<1> QED
  BY <1>1, <1>2, <1>5 DEF CInv

LEMMA CLINextInv == TypeOK /\ CInv /\ [CLINext]_cli => CInv'
<1> SUFFICES ASSUME TypeOK, CInv, [CLINext]_cli PROVE CInv'
  OBVIOUS
<1>1. CASE \E l \in Logins : Session(l)
  BY <1>1, StartLoginInv, LoggedInInv, OpenConfigInv, WriteConfigInv, LoginEndsInv,
     ExpireInv DEF Session
<1>2. CASE \E r \in Requests : Command(r)
  BY <1>2, GetAccessTokenInv, FetchOCITokenInv, CommandStepInv DEF Command
<1>3. CASE \E r \in docker : Arrive(r) /\ UNCHANGED <<session, commands, trusted>>
  BY <1>3, ArriveInv
<1>4. CASE Work /\ UNCHANGED <<session, commands>>
           /\ trusted' = {r \in trusted : owned'[r] = owned[r]}
  BY <1>4, WorkInv
<1>5. CASE UNCHANGED cli
  <2>1. UNCHANGED <<session, commands, trusted, vars>>
    BY <1>5 DEF cli
  <2>2. SessionTypeOK' /\ Apart' /\ TrustedOwns'
    BY <2>1 DEF CInv, SessionTypeOK, Apart, TrustedOwns, Owner, session, commands, vars
  <2> QED
    BY <2>1, <2>2, CommandKeepsLogins DEF CInv
<1> QED
  BY <1>1, <1>2, <1>3, <1>4, <1>5 DEF CLINext

\* Types and inductive invariant, of the server's side and of the command
\* line's.
THEOREM SessionInductive == CLISpec => [](IInv /\ CInv)
<1>1. CLIInit => IInv /\ CInv
  BY InitInv, CLIInitInv DEF CLIInit
<1>2. IInv /\ CInv /\ [CLINext]_cli => (IInv /\ CInv)'
  <2> SUFFICES ASSUME IInv, CInv, [CLINext]_cli PROVE (IInv /\ CInv)'
    OBVIOUS
  <2>1. [Next]_vars
    BY StepRefines DEF CInv
  <2>2. TypeOK
    BY DEF IInv
  <2> QED
    BY <2>1, <2>2, NextInv, CLINextInv
<1> QED
  BY <1>1, <1>2, PTL DEF CLISpec

\* The commands behave at the token endpoint as RegistryToken says: all that
\* holds of it holds with them (cmd/cli/auth.go:17).
THEOREM CommandsAreClients == CLISpec => Spec
<1>1. CLIInit => Init
  BY DEF CLIInit
<1>2. CInv /\ [CLINext]_cli => [Next]_vars
  BY StepRefines DEF CInv
<1> QED
  BY <1>1, <1>2, SessionInductive, PTL DEF CLISpec, Spec

\* The variables of logins and commands keep their types
\* (cmd/cli/config.go:14).
THEOREM SessionTypes == CLISpec => []SessionTypeOK
<1>1. CInv => SessionTypeOK
  BY DEF CInv
<1> QED
  BY <1>1, SessionInductive, PTL

\* A login that runs alone and succeeds leaves its session in the file, however
\* many logins have left whatever there before (cmd/cli/config.go:69).
THEOREM RepairSafety == CLISpec => []LoginRepairs
<1>1. CInv => LoginRepairs
  BY DEF CInv, LatestWrites, LoginRepairs
<1> QED
  BY <1>1, SessionInductive, PTL

\* A run that begins with the owner's session is served to its end, whatever
\* becomes of the file meanwhile (cmd/cli/publish.go:80).
THEOREM RunSafety == CLISpec => []RunKeepsSession
<1>1. IInv /\ CInv => RunKeepsSession
  <2> SUFFICES ASSUME IInv, CInv, NEW r \in trusted
               PROVE  pc[r] # "403" /\ step[r] # "refused"
    BY DEF RunKeepsSession
  <2>1. r \in Requests /\ step[r] # "refused" /\ (pc[r] # "idle" => owned[r])
    BY DEF CInv, SessionTypeOK, TrustedOwns
  <2>2. owned[r] => pc[r] # "403"
    BY <2>1 DEF IInv, OwnersKeep
  <2> QED
    BY <2>1, <2>2
<1> QED
  BY <1>1, SessionInductive, PTL
=============================================================================
