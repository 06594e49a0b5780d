---------------------------- MODULE LoginBudget ----------------------------
(***************************************************************************)
(* What the login limiter promises to its clients, without the table that  *)
(* implements it: every client address has an allowance of MaxRequests     *)
(* logins.  The first login of a full allowance starts a window of length  *)
(* Window; when the clock has passed the end of the window the allowance   *)
(* is full again, at once and without anybody's help.  A refused login     *)
(* costs nothing and moves nothing.                                        *)
(***************************************************************************)
EXTENDS Integers

CONSTANTS
  IPs,          \* client addresses
  MaxRequests,  \* logins allowed in one window
  Window        \* length of a window, in ticks

VARIABLES
  now,        \* the clock
  allowance,  \* what each address has left, and when its window closes
  answer,     \* the latest answer each address received
  boots       \* how often the process has been restarted

vars == <<now, allowance, answer, boots>>

\* No window is open.
Closed == -1

Full == [left |-> MaxRequests, closesAt |-> Closed]

Init ==
  /\ now = 0
  /\ allowance = [ip \in IPs |-> Full]
  /\ answer = [ip \in IPs |-> "none"]
  /\ boots = 0

Admit(ip) ==
  /\ allowance[ip].left > 0
  /\ allowance' = [allowance EXCEPT
       ![ip] = [left     |-> @.left - 1,
                closesAt |-> IF @.closesAt = Closed THEN now + Window
                                                    ELSE @.closesAt]]
  /\ answer' = [answer EXCEPT ![ip] = "admitted"]
  /\ UNCHANGED <<now, boots>>

Refuse(ip) ==
  /\ allowance[ip].left = 0
  /\ answer' = [answer EXCEPT ![ip] = "refused"]
  /\ UNCHANGED <<now, allowance, boots>>

Tick ==
  /\ now' = now + 1
  /\ allowance' = [ip \in IPs |-> IF allowance[ip].closesAt < now' THEN Full
                                                           ELSE allowance[ip]]
  /\ UNCHANGED <<answer, boots>>

\* The budget is kept in memory only: a new process, and nothing else, grants
\* full allowances before their time.
Restart ==
  /\ allowance' = [ip \in IPs |-> Full]
  /\ boots' = boots + 1
  /\ UNCHANGED <<now, answer>>

Next ==
  \/ \E ip \in IPs : Admit(ip) \/ Refuse(ip)
  \/ Tick
  \/ Restart

Spec == Init /\ [][Next]_vars
=============================================================================
