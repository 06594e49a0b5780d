----------------------------- MODULE RateLimit -----------------------------
(***************************************************************************)
(* The login rate limiter of internal/middleware/ratelimit.go: a table     *)
(* from client address to a counted window, guarded by one mutex and swept *)
(* by a background goroutine.  A critical section of the code is one       *)
(* action here.  The table is volatile: a restart empties it.              *)
(***************************************************************************)
EXTENDS Integers, Sequences

CONSTANTS
  IPs,          \* client addresses
  MaxRequests,  \* maxRequests of LoginRateLimit
  Window,       \* window of LoginRateLimit, in ticks
  NoEntry,      \* the address is not in ipCounts
  MaxTime,      \* bound on the clock
  MaxCount,     \* bound on an entry's counter
  MaxBoots      \* bound on restarts

Entry == [count : Nat, resetAt : Nat]

ASSUME LimitAssumption  == MaxRequests \in Nat \ {0} /\ Window \in Nat \ {0}
ASSUME EntryAssumption  == NoEntry \notin Entry
ASSUME BoundsAssumption == {MaxTime, MaxCount, MaxBoots} \subseteq Nat

VARIABLES
  now,       \* the clock; read under the mutex, so it never runs backwards
  ipCounts,  \* address -> entry, or NoEntry
  answer,    \* the latest answer each address received
  admitted,  \* history: when this process passed a login of the address on
  boots      \* how often the process has been restarted

vars == <<now, ipCounts, answer, admitted, boots>>

-----------------------------------------------------------------------------
Exists(ip) == ipCounts[ip] # NoEntry

\* now.After(e.resetAt)
Expired(e) == now > e.resetAt

\* Bug for the checks: the window ends before it starts (Add(-window)).
NewEntryEndedBefore == [count |-> 1, resetAt |-> now - Window]

NewEntry == [count |-> 1, resetAt |-> now + Window]

\* Bug for the checks: the limit is compared before the increment.
OverLimitLate(count) == count - 1 > MaxRequests

OverLimit(count) == count > MaxRequests

Init ==
  /\ now = 0
  /\ ipCounts = [ip \in IPs |-> NoEntry]
  /\ answer = [ip \in IPs |-> "none"]
  /\ admitted = [ip \in IPs |-> <<>>]
  /\ boots = 0

\* c.Next(): the request goes on to LoginHandler.
PassOn(ip) ==
  /\ answer' = [answer EXCEPT ![ip] = "admitted"]
  /\ admitted' = [admitted EXCEPT ![ip] = Append(@, now)]

\* No entry, or a window that is over: a new window starts with this request.
OpenWindow(ip) ==
  /\ Exists(ip) => Expired(ipCounts[ip])
  /\ ipCounts' = [ipCounts EXCEPT ![ip] = NewEntry]
  /\ PassOn(ip)
  /\ UNCHANGED <<now, boots>>

Counted(ip) ==
  /\ Exists(ip)
  /\ ~Expired(ipCounts[ip])
  /\ ipCounts[ip].count < MaxCount
  /\ ipCounts' = [ipCounts EXCEPT ![ip].count = @ + 1]
  /\ UNCHANGED <<now, boots>>

Admit(ip) ==
  /\ Counted(ip)
  /\ ~OverLimit(ipCounts[ip].count + 1)
  /\ PassOn(ip)

\* Answered 429; the counter has been raised all the same.
Reject(ip) ==
  /\ Counted(ip)
  /\ OverLimit(ipCounts[ip].count + 1)
  /\ answer' = [answer EXCEPT ![ip] = "refused"]
  /\ UNCHANGED admitted

\* Bug for the checks: the sweep empties the table.
SweepableAlways(ip) == Exists(ip)

Sweepable(ip) == Exists(ip) /\ Expired(ipCounts[ip])

\* The goroutine deletes every expired entry in one critical section.
Cleanup ==
  /\ ipCounts' = [ip \in IPs |-> IF Sweepable(ip) THEN NoEntry
                                                  ELSE ipCounts[ip]]
  /\ UNCHANGED <<now, answer, admitted, boots>>

Tick ==
  /\ now < MaxTime
  /\ now' = now + 1
  /\ UNCHANGED <<ipCounts, answer, admitted, boots>>

Restart ==
  /\ boots < MaxBoots
  /\ boots' = boots + 1
  /\ ipCounts' = [ip \in IPs |-> NoEntry]
  /\ admitted' = [ip \in IPs |-> <<>>]
  /\ UNCHANGED <<now, answer>>

Next ==
  \/ \E ip \in IPs : OpenWindow(ip) \/ Admit(ip) \/ Reject(ip)
  \/ Cleanup
  \/ Tick
  \/ Restart

Spec == Init /\ [][Next]_vars

-----------------------------------------------------------------------------
\* The table, the clock and the history hold what their readers expect.
TypeOK ==
  /\ now \in Nat
  /\ ipCounts \in [IPs -> Entry \cup {NoEntry}]
  /\ answer \in [IPs -> {"none", "admitted", "refused"}]
  /\ admitted \in [IPs -> Seq(Nat)]
  /\ boots \in Nat

\* LoginRateLimit counts in windows that the first request opens, so a burst
\* at the end of a window and one at the start of the next are both passed
\* on; but never a third: 2 * MaxRequests + 1 consecutive logins of one
\* address always span more than a whole window, sweeps in between or not.
TwoWindowBound ==
  \A ip \in IPs : \A i \in 1 .. Len(admitted[ip]) - 2 * MaxRequests :
    admitted[ip][i + 2 * MaxRequests] - admitted[ip][i] > Window

\* An expired entry, a deleted one and one that never existed are the same to
\* a client: a full allowance.
Live(ip) == Exists(ip) /\ ~Expired(ipCounts[ip])

Allowance ==
  [ip \in IPs |->
     IF Live(ip)
     THEN [left     |-> IF ipCounts[ip].count < MaxRequests
                        THEN MaxRequests - ipCounts[ip].count ELSE 0,
           closesAt |-> ipCounts[ip].resetAt]
     ELSE [left |-> MaxRequests, closesAt |-> -1]]

Budget == INSTANCE LoginBudget WITH allowance <- Allowance

\* The table with its lazy expiry and its sweeps keeps the promise of
\* LoginBudget: the sweep is invisible, a refused login neither prolongs the
\* window nor costs anything, and no login is refused while some are left.
ImplementsLoginBudget == Budget!Spec
=============================================================================
