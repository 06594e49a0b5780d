---------------------------- MODULE CLISession -----------------------------
(***************************************************************************)
(* The session of the command line: login stores it in                     *)
(* ~/.flowbot/config.json, publish and register take the access token from *)
(* there, trade it for a token of the Docker registry (module              *)
(* RegistryToken) and then send it to the server with the metadata.        *)
(* Commands of one user run at the same time and are killed anywhere.      *)
(*                                                                         *)
(* Nothing ever trades the stored refresh token in.  Building, pushing and *)
(* signing are one step here (module Distribution).                        *)
(***************************************************************************)
EXTENDS RegistryToken, Integers

CONSTANTS
  Logins,   \* executions of flowbot login, and the sessions they get
  Size,     \* login -> the length of the file that it writes
  Account,  \* login -> the user who logs in
  NoLogin,  \* no session; in the file: nothing that can be parsed
  Stages    \* who takes part: logins, commands, Docker clients

ASSUME LoginAssumption ==
  /\ NoLogin \notin Logins
  /\ Size \in [Logins -> Nat \ {0}] /\ Account \in [Logins -> Users]
ASSUME StageAssumption ==
  \A s \in Stages : s.docker \cap s.commands = {} /\ s.docker \subseteq Requests

VARIABLES
  config,     \* the file: the session it holds, and its length
  login,      \* the step of a login
  expired,    \* sessions whose access token has expired
  step,       \* the step of a publish or register command, which is named
              \* after the token request it makes
  docker,     \* the requests of Docker clients
  namespace,  \* of a command's plugin
  token,      \* accessToken: the session it uses
  latest,     \* history: the latest login to start, if no other was under way
  trusted     \* history: commands that began with the session of the owner,
              \* which has not expired since, and none of whose calls failed

session == <<config, login, expired, latest>>
commands == <<step, docker, namespace, token>>
cli == <<vars, session, commands, trusted>>

CLIInit ==
  /\ Init
  /\ config = [session |-> NoLogin, size |-> 0]
  /\ \E s \in Stages :
       /\ login = [l \in Logins |-> IF l \in s.logins THEN "idle" ELSE "failed"]
       /\ step = [r \in Requests |-> IF r \in s.commands THEN "idle" ELSE "failed"]
       /\ docker = s.docker
  /\ expired = {}
  /\ namespace = [r \in Requests |-> {}]
  /\ token = [r \in Requests |-> NoLogin]
  /\ latest = NoLogin
  /\ trusted = {}

-----------------------------------------------------------------------------
\* doLogin and saveConfig.

Saving == {l \in Logins : login[l] \in {"request", "open", "write"}}

LoginGoes(l, from, to) ==
  /\ login[l] = from
  /\ login' = [login EXCEPT ![l] = to]
  /\ UNCHANGED <<vars, commands, trusted, expired>>

StartLogin(l) ==
  /\ LoginGoes(l, "idle", "request")
  /\ latest' = IF Saving = {} THEN l ELSE NoLogin
  /\ UNCHANGED config

\* The server has answered with a session (module Accounts).
LoggedIn(l) == LoginGoes(l, "request", "open") /\ UNCHANGED <<config, latest>>

\* Bug for the checks: no O_TRUNC.
OpenedAsItWas == config

Opened == [session |-> NoLogin, size |-> 0]

OpenConfig(l) ==
  /\ LoginGoes(l, "open", "write")
  /\ config' = Opened
  /\ UNCHANGED latest

\* What is written lands at the beginning of the file; of a longer file the
\* end stays, and JSON with something behind it cannot be parsed.
WriteConfig(l) ==
  /\ LoginGoes(l, "write", "ok")
  /\ config' = IF config.size > Size[l] THEN [config EXCEPT !.session = NoLogin]
                                        ELSE [session |-> l, size |-> Size[l]]
  /\ UNCHANGED latest

\* The server refuses, a call fails, the command is killed; the file may have
\* been written in part.
LoginEnds(l) ==
  /\ login[l] \in {"request", "open", "write"}
  /\ login' = [login EXCEPT ![l] = "failed"]
  /\ \/ UNCHANGED config
     \/ /\ login[l] = "write" /\ Size[l] > 1
        /\ \E n \in 1..(Size[l] - 1) :
             config' = [session |-> NoLogin, size |-> IF n > config.size THEN n ELSE config.size]
  /\ UNCHANGED <<vars, commands, trusted, expired, latest>>

Expire(l) ==
  /\ login[l] = "ok" /\ l \notin expired
  /\ expired' = expired \cup {l}
  /\ trusted' = {r \in trusted : token[r] # l}
  /\ UNCHANGED <<vars, config, login, latest, commands>>

-----------------------------------------------------------------------------
\* publish and register.

\* Whom the server takes the bearer of a session's access token for.
Bearer(s) == IF s = NoLogin \/ s \in expired THEN {} ELSE {Account[s]}

CommandGoes(r, from, to) ==
  /\ step[r] = from
  /\ step' = [step EXCEPT ![r] = to]
  /\ UNCHANGED <<session, docker>>

\* The plugin's namespace, and its owner.
Owner(r) == {owner[n] : n \in namespace[r]}

\* getAccessToken: --api-key, an access token from elsewhere, or the stored
\* one; a file that is missing or cannot be parsed has none.
GetAccessToken(r) ==
  /\ pc[r] = "idle"
  /\ CommandGoes(r, "idle", "auth")
  /\ \E s \in {config.session} \cup {l \in Logins : login[l] = "ok"}, n \in Names :
       /\ token' = [token EXCEPT ![r] = s]
       /\ namespace' = [namespace EXCEPT ![r] = {n}]
       /\ trusted' = IF owner[n] \in Bearer(s) THEN trusted \cup {r} ELSE trusted
  /\ UNCHANGED vars

\* fetchOCIAuthToken: the request.  Without an access token there is none.
FetchOCIToken(r) ==
  /\ token[r] # NoLogin
  /\ CommandGoes(r, "auth", "await")
  /\ Ask(r, Bearer(token[r]), [name : namespace[r], actions : {{"pull", "push"}}])
  /\ UNCHANGED <<namespace, token, trusted>>

\* resolveOCIAuth: whatever came of it, publish goes on, "trying without";
\* register asks for no token, nor does publish without a session.
WithOrWithout(r) ==
  /\ \/ CommandGoes(r, "auth", "push")
     \/ pc[r] \in Statuses /\ CommandGoes(r, "await", "push")
  /\ UNCHANGED <<vars, namespace, token, trusted>>

\* HEAD, build, push and sign, or the HEAD of register.  The Docker registry
\* decides about a push without a token.
PushArtifact(r) ==
  /\ CommandGoes(r, "push", "post")
  /\ UNCHANGED <<vars, namespace, token, trusted>>

\* Bug for the checks: the configuration is read again.
TokenOfConfig(r) == config.session

TokenSent(r) == token[r]

\* registerPublishMetadata, for the user AuthRequired finds in the access
\* token: RequireNamespace compares the owner.
RegisterMetadata(r) ==
  /\ CommandGoes(r, "post",
       IF Owner(r) = Bearer(TokenSent(r)) THEN "ok" ELSE "refused")
  /\ UNCHANGED <<vars, namespace, token, trusted>>

\* A call fails, at the server or on the way, or the command is killed.
CommandEnds(r) ==
  /\ step[r] \in {"auth", "await", "push", "post"}
  /\ CommandGoes(r, step[r], "failed")
  /\ trusted' = trusted \ {r}
  /\ UNCHANGED <<vars, namespace, token>>

Session(l) ==
  \/ StartLogin(l) \/ LoggedIn(l) \/ OpenConfig(l) \/ WriteConfig(l)
  \/ LoginEnds(l) \/ Expire(l)

Command(r) ==
  \/ GetAccessToken(r) \/ FetchOCIToken(r) \/ WithOrWithout(r)
  \/ PushArtifact(r) \/ RegisterMetadata(r) \/ CommandEnds(r)

CLINext ==
  \/ \E l \in Logins : Session(l)
  \/ \E r \in Requests : Command(r)
  \/ \E r \in docker : Arrive(r) /\ UNCHANGED <<session, commands, trusted>>
  \/ Work /\ UNCHANGED <<session, commands>>
          /\ trusted' = {r \in trusted : owned'[r] = owned[r]}

CLISpec == CLIInit /\ [][CLINext]_cli

-----------------------------------------------------------------------------
SessionTypeOK ==
  /\ config \in [session : Logins \cup {NoLogin}, size : Nat]
  /\ login \in [Logins -> {"idle", "request", "open", "write", "ok", "failed"}]
  /\ docker \subseteq Requests
  /\ expired \subseteq Logins
  /\ step \in [Requests -> {"idle", "auth", "await", "push", "post", "ok", "refused", "failed"}]
  /\ namespace \in [Requests -> SUBSET Names]
  /\ token \in [Requests -> Logins \cup {NoLogin}]
  /\ latest \in Logins \cup {NoLogin}
  /\ trusted \subseteq Requests

\* cmd/cli/config.go:69 truncates the only copy of the session and writes it
\* anew, and nothing keeps two logins from doing so at once: the file may be
\* left empty or mixed up, but the next login that runs alone and succeeds
\* leaves its session, whatever it found.
LoginRepairs ==
  latest # NoLogin /\ login[latest] = "ok" => config.session = latest

\* cmd/cli/publish.go:80 reads the session once, and the run may take minutes:
\* one that begins with the session of the namespace's owner gets its push
\* token and is not refused, whoever logs in, registers or breaks the file
\* meanwhile, unless the access token expires or a call fails.
RunKeepsSession ==
  \A r \in trusted : pc[r] # "403" /\ step[r] # "refused"
=============================================================================
