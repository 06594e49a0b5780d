-------------------------- MODULE RateLimit_proofs --------------------------
(***************************************************************************)
(* For every limit, window length and set of clients: the limiter keeps    *)
(* its types, never passes on 2 * MaxRequests + 1 logins of a client       *)
(* within one window length (TwoWindowBound), and implements LoginBudget.  *)
(***************************************************************************)
EXTENDS RateLimit, TLAPS

\* The logins the current window of entry e has passed on.
Used(e) == IF e.count < MaxRequests THEN e.count ELSE MaxRequests

\* The first k logins of a all happened before t, and all but the latest
\* MaxRequests of them more than a window before t.
Quiet(a, k, t) ==
  \A i \in 1 .. k : /\ a[i] < t
                    /\ i <= k - MaxRequests => a[i] + Window < t

Spaced(a) ==
  \A i \in 1 .. Len(a) - 2 * MaxRequests :
    a[i + 2 * MaxRequests] - a[i] > Window

\* The last Used(e) logins fall into the window of e, the others before it.
InWindow(a, e, t) ==
  /\ e.count >= 1
  /\ Used(e) <= Len(a)
  /\ e.resetAt - Window <= t
  /\ Quiet(a, Len(a) - Used(e), e.resetAt - Window)
  /\ \A i \in 1 .. Len(a) :
       i > Len(a) - Used(e) => a[i] <= e.resetAt /\ a[i] <= t

Consistent(a, e, t) ==
  /\ Spaced(a)
  /\ IF e = NoEntry THEN Quiet(a, Len(a), t) ELSE InWindow(a, e, t)

IInv == TypeOK /\ \A ip \in IPs : Consistent(admitted[ip], ipCounts[ip], now)

-----------------------------------------------------------------------------
\* An entry is a record with natural fields, whatever it is after an update.
LEMMA EntryType ==
  ASSUME NEW e \in Entry
  PROVE  e.count \in Nat /\ e.resetAt \in Nat /\ e # NoEntry
BY EntryAssumption DEF Entry

LEMMA CountedType ==
  ASSUME NEW e \in Entry
  PROVE  /\ [e EXCEPT !.count = @ + 1] \in Entry
         /\ [e EXCEPT !.count = @ + 1].count = e.count + 1
         /\ [e EXCEPT !.count = @ + 1].resetAt = e.resetAt
BY DEF Entry

\* The type invariant, inductive on its own: every critical section of
\* LoginRateLimit leaves a well-formed table.
THEOREM TypeCorrect == Spec => []TypeOK
<1>1. Init => TypeOK
  BY DEF Init, TypeOK
<1>2. TypeOK /\ [Next]_vars => TypeOK'
  <2> SUFFICES ASSUME TypeOK, [Next]_vars PROVE TypeOK'
    OBVIOUS
  <2> USE LimitAssumption DEF TypeOK
  <2>1. ASSUME NEW ip \in IPs, OpenWindow(ip) PROVE TypeOK'
    <3>1. NewEntry \in Entry
      BY DEF NewEntry, Entry
    <3> QED
      BY <2>1, <3>1 DEF OpenWindow, PassOn
  <2>2. ASSUME NEW ip \in IPs, Counted(ip)
        PROVE  /\ ipCounts' \in [IPs -> Entry \cup {NoEntry}]
               /\ now' \in Nat /\ boots' \in Nat
    <3>1. ipCounts[ip] \in Entry
      BY <2>2 DEF Counted, Exists
    <3>2. [ipCounts[ip] EXCEPT !.count = @ + 1] \in Entry
      BY <3>1, CountedType
    <3> QED
      BY <2>2, <3>2 DEF Counted
  <2>3. ASSUME NEW ip \in IPs, Admit(ip) PROVE TypeOK'
    BY <2>2, <2>3 DEF Admit, PassOn
  <2>4. ASSUME NEW ip \in IPs, Reject(ip) PROVE TypeOK'
    BY <2>2, <2>4 DEF Reject
  <2>5. CASE Cleanup
    BY <2>5 DEF Cleanup
  <2>6. CASE Tick
    BY <2>6 DEF Tick
  <2>7. CASE Restart
    BY <2>7 DEF Restart
  <2>8. CASE UNCHANGED vars
    BY <2>8 DEF vars
  <2> QED
    BY <2>1, <2>3, <2>4, <2>5, <2>6, <2>7, <2>8 DEF Next
<1> QED
  BY <1>1, <1>2, PTL DEF Spec

-----------------------------------------------------------------------------
\* Quiet stays true as time passes.
LEMMA QuietLater ==
  ASSUME NEW a \in Seq(Nat), NEW k \in Nat, k <= Len(a),
         NEW t \in Int, NEW u \in Int, t <= u, Quiet(a, k, t)
  PROVE  Quiet(a, k, u)
BY LimitAssumption DEF Quiet

\* When the window of an entry is over, its client has been quiet: what the
\* sweep forgets no longer matters.
LEMMA WindowOver ==
  ASSUME NEW a \in Seq(Nat), NEW e \in Entry, NEW t \in Nat,
         InWindow(a, e, t), t > e.resetAt
  PROVE  Quiet(a, Len(a), t)
<1>1. e.count \in Nat /\ e.resetAt \in Nat
  BY EntryType
<1>2. Used(e) \in Nat /\ Used(e) <= MaxRequests
  BY <1>1, LimitAssumption DEF Used
<1> DEFINE k == Len(a) - Used(e)
<1>3. /\ k \in Nat /\ k <= Len(a) /\ Len(a) - MaxRequests <= k
      /\ \A i \in 1 .. k : a[i] < e.resetAt - Window
      /\ \A i \in 1 .. Len(a) : i > k => a[i] <= e.resetAt
  BY <1>2, LimitAssumption DEF InWindow, Quiet
<1> SUFFICES ASSUME NEW i \in 1 .. Len(a)
             PROVE  a[i] < t /\ (i <= Len(a) - MaxRequests => a[i] + Window < t)
  BY DEF Quiet
<1> HIDE DEF k
<1>4. a[i] \in Nat /\ (i <= k => i \in 1 .. k)
  BY <1>3
<1>5. CASE i <= k
  BY <1>1, <1>3, <1>4, <1>5, LimitAssumption
<1>6. CASE i > k
  BY <1>1, <1>3, <1>4, <1>6, LimitAssumption
<1> QED
  BY <1>3, <1>5, <1>6

\* A history stays spaced when the login 2 * MaxRequests before the new one
\* is more than a window old.
LEMMA SpacedAppend ==
  ASSUME NEW a \in Seq(Nat), NEW t \in Nat, Spaced(a),
         Len(a) + 1 - 2 * MaxRequests \in 1 .. Len(a) =>
           a[Len(a) + 1 - 2 * MaxRequests] + Window < t
  PROVE  Spaced(Append(a, t))
<1> DEFINE b == Append(a, t)
           d == 2 * MaxRequests
<1>1. /\ Len(b) = Len(a) + 1 /\ Len(a) \in Nat
      /\ \A i \in 1 .. Len(a) : b[i] = a[i] /\ a[i] \in Nat
      /\ b[Len(a) + 1] = t
  OBVIOUS
<1>2. d \in Nat /\ d >= 2
  BY LimitAssumption
<1>3. /\ \A i \in 1 .. Len(a) - d : a[i + d] - a[i] > Window
      /\ Len(a) + 1 - d \in 1 .. Len(a) => a[Len(a) + 1 - d] + Window < t
  BY DEF Spaced
<1> SUFFICES ASSUME NEW i \in 1 .. Len(b) - d
             PROVE  b[i + d] - b[i] > Window
  BY DEF Spaced
<1> HIDE DEF b, d
<1>4. i \in Nat /\ i \in 1 .. Len(a) /\ i <= Len(a) + 1 - d
  BY <1>1, <1>2
<1>5. CASE i = Len(a) + 1 - d
  <2>1. i + d = Len(a) + 1
    BY <1>1, <1>2, <1>4, <1>5
  <2>2. a[i] + Window < t /\ b[i] = a[i] /\ a[i] \in Nat /\ b[i + d] = t
    BY <1>1, <1>3, <1>4, <1>5, <2>1
  <2> QED
    BY <2>2, LimitAssumption
<1>6. CASE i # Len(a) + 1 - d
  <2>1. i \in 1 .. Len(a) - d /\ i + d \in 1 .. Len(a)
    BY <1>1, <1>2, <1>4, <1>6
  <2>2. a[i + d] - a[i] > Window /\ b[i] = a[i] /\ b[i + d] = a[i + d]
    BY <1>1, <1>3, <1>4, <2>1
  <2> QED
    BY <2>2
<1> QED
  BY <1>5, <1>6

\* A login of a quiet client opens a window that is consistent.
LEMMA OpenConsistent ==
  ASSUME NEW a \in Seq(Nat), NEW b \in Seq(Nat), NEW e \in Entry,
         NEW t \in Nat, Spaced(a), Quiet(a, Len(a), t),
         b = Append(a, t), e.count = 1, e.resetAt = t + Window
  PROVE  Consistent(b, e, t)
<1>1. Used(e) = 1 /\ e # NoEntry
  BY EntryType, LimitAssumption DEF Used
<1>2. Len(b) = Len(a) + 1 /\ Len(a) \in Nat
  OBVIOUS
<1>3. Len(a) + 1 - 2 * MaxRequests \in 1 .. Len(a) =>
        a[Len(a) + 1 - 2 * MaxRequests] + Window < t
  BY <1>2, LimitAssumption DEF Quiet
<1>4. Spaced(b)
  BY <1>3, SpacedAppend
<1>5. InWindow(b, e, t)
  <2>1. Len(b) - Used(e) = Len(a) /\ e.resetAt - Window = t
    BY <1>1, <1>2, LimitAssumption
  <2>2. Quiet(b, Len(a), t)
    BY <1>2 DEF Quiet
  <2>3. \A i \in 1 .. Len(b) :
          i > Len(a) => b[i] <= e.resetAt /\ b[i] <= t
    BY <1>2, LimitAssumption
  <2> QED
    BY <1>1, <1>2, <2>1, <2>2, <2>3 DEF InWindow
<1> QED
  BY <1>1, <1>4, <1>5 DEF Consistent

\* A login within the limit keeps the window consistent.
LEMMA AdmitConsistent ==
  ASSUME NEW a \in Seq(Nat), NEW b \in Seq(Nat), NEW e \in Entry,
         NEW f \in Entry, NEW t \in Nat,
         Spaced(a), InWindow(a, e, t), t <= e.resetAt,
         e.count + 1 <= MaxRequests,
         b = Append(a, t), f.count = e.count + 1, f.resetAt = e.resetAt
  PROVE  Consistent(b, f, t)
<1>1. e.count \in Nat /\ e.resetAt \in Nat /\ f # NoEntry
  BY EntryType
<1>2. Used(e) = e.count /\ Used(f) = e.count + 1
  BY <1>1, LimitAssumption DEF Used
<1>3. Len(b) = Len(a) + 1 /\ Len(a) \in Nat
  OBVIOUS
<1>4. 1 <= e.count /\ e.count <= Len(a) /\ e.resetAt - Window <= t
  BY <1>2 DEF InWindow
<1>5. Quiet(a, Len(a) - e.count, e.resetAt - Window)
  BY <1>2 DEF InWindow
<1>6. \A i \in 1 .. Len(a) :
        i > Len(a) - e.count => a[i] <= e.resetAt /\ a[i] <= t
  BY <1>2 DEF InWindow
<1>7. Spaced(b)
  <2> DEFINE i == Len(a) + 1 - 2 * MaxRequests
  <2> SUFFICES ASSUME i \in 1 .. Len(a) PROVE a[i] + Window < t
    BY SpacedAppend
  <2>1. /\ i \in 1 .. Len(a) - e.count
        /\ i <= (Len(a) - e.count) - MaxRequests
    BY <1>1, <1>3, <1>4, LimitAssumption
  <2>2. a[i] \in Nat
    OBVIOUS
  <2> HIDE DEF i
  <2>3. a[i] + Window < e.resetAt - Window
    BY <1>5, <2>1 DEF Quiet
  <2> QED
    BY <1>1, <1>4, <2>2, <2>3, LimitAssumption
<1>8. InWindow(b, f, t)
  <2>1. Len(b) - Used(f) = Len(a) - e.count
    <3>1. \A m, n \in Nat : (m + 1) - (n + 1) = m - n
      OBVIOUS
    <3>2. (Len(a) + 1) - (e.count + 1) = Len(a) - e.count
      BY <1>1, <1>3, <3>1
    <3> QED
      BY <1>2, <1>3, <3>2
  <2>2. \A i \in 1 .. Len(a) : b[i] = a[i]
    OBVIOUS
  <2>3. Quiet(b, Len(a) - e.count, e.resetAt - Window)
    <3>1. \A i \in 1 .. Len(a) - e.count : i \in 1 .. Len(a)
      BY <1>1, <1>3, <1>4
    <3> QED
      BY <1>5, <2>2, <3>1 DEF Quiet
  <2>4. \A i \in 1 .. Len(b) :
          i > Len(a) - e.count => b[i] <= e.resetAt /\ b[i] <= t
    <3> SUFFICES ASSUME NEW i \in 1 .. Len(b), i > Len(a) - e.count
                 PROVE  b[i] <= e.resetAt /\ b[i] <= t
      OBVIOUS
    <3>1. i \in 1 .. Len(a) \/ i = Len(a) + 1
      BY <1>3
    <3>2. b[Len(a) + 1] = t
      OBVIOUS
    <3> QED
      BY <1>6, <2>2, <3>1, <3>2
  <2> QED
    BY <1>1, <1>2, <1>3, <1>4, <2>1, <2>3, <2>4 DEF InWindow
<1> QED
  BY <1>1, <1>7, <1>8 DEF Consistent

\* A refused login changes the counter beyond the limit only.
LEMMA RejectConsistent ==
  ASSUME NEW a \in Seq(Nat), NEW e \in Entry, NEW f \in Entry,
         NEW t \in Nat, Spaced(a), InWindow(a, e, t),
         e.count + 1 > MaxRequests,
         f.count = e.count + 1, f.resetAt = e.resetAt
  PROVE  Consistent(a, f, t)
<1>1. Used(f) = Used(e) /\ e.count \in Nat /\ f # NoEntry
  BY EntryType, LimitAssumption DEF Used
<1>2. InWindow(a, f, t)
  BY <1>1 DEF InWindow
<1> QED
  BY <1>1, <1>2 DEF Consistent

-----------------------------------------------------------------------------
\* The limiter never passes on 2 * MaxRequests + 1 logins of one client
\* within the length of a window, whatever the sweep goroutine does.
THEOREM TwoWindowSafety == Spec => []TwoWindowBound
<1>1. Init => IInv
  BY LimitAssumption DEF Init, IInv, TypeOK, Consistent, Spaced, Quiet
<1>2. TypeOK /\ IInv /\ [Next]_vars /\ TypeOK' => IInv'
  <2> SUFFICES ASSUME TypeOK, IInv, [Next]_vars, TypeOK',
                      NEW ip \in IPs
               PROVE  Consistent(admitted[ip], ipCounts[ip], now)'
    BY DEF IInv
  <2> DEFINE a == admitted[ip]
             e == ipCounts[ip]
  <2>0. /\ a \in Seq(Nat) /\ now \in Nat /\ now' \in Nat
        /\ e = NoEntry \/ e \in Entry
        /\ Spaced(a)
        /\ e = NoEntry => Quiet(a, Len(a), now)
        /\ e # NoEntry => InWindow(a, e, now)
    BY DEF IInv, TypeOK, Consistent
  <2>1. ASSUME NEW j \in IPs, OpenWindow(j) PROVE Consistent(a, e, now)'
    <3>1. CASE j # ip
      BY <2>0, <2>1, <3>1 DEF OpenWindow, PassOn, TypeOK, Consistent
    <3>2. CASE j = ip
      <4>1. Quiet(a, Len(a), now)
        BY <2>0, <2>1, <3>2, WindowOver, EntryType DEF OpenWindow, Exists, Expired
      <4>2. /\ a' = Append(a, now) /\ a' \in Seq(Nat) /\ now' = now
            /\ e' = [count |-> 1, resetAt |-> now + Window]
        BY <2>1, <3>2 DEF OpenWindow, PassOn, NewEntry, TypeOK
      <4>3. e' \in Entry /\ e'.count = 1 /\ e'.resetAt = now + Window
        BY <2>0, <4>2, LimitAssumption DEF Entry
      <4> HIDE DEF a, e
      <4>4. Consistent(a', e', now)
        BY <2>0, <4>1, <4>2, <4>3, OpenConsistent
      <4> QED
        BY <4>2, <4>4
    <3> QED
      BY <3>1, <3>2
  <2>2. ASSUME NEW j \in IPs, Admit(j) PROVE Consistent(a, e, now)'
    <3>1. CASE j # ip
      BY <2>0, <2>2, <3>1 DEF Admit, Counted, PassOn, TypeOK, Consistent
    <3>2. CASE j = ip
      <4>1. /\ e \in Entry /\ now <= e.resetAt
            /\ e.count + 1 <= MaxRequests
        BY <2>0, <2>2, <3>2, EntryType, LimitAssumption
           DEF Admit, Counted, Exists, Expired, OverLimit
      <4>2. /\ a' = Append(a, now) /\ a' \in Seq(Nat) /\ now' = now
            /\ e' = [e EXCEPT !.count = @ + 1]
        BY <2>2, <3>2 DEF Admit, Counted, PassOn, TypeOK
      <4> HIDE DEF a, e
      <4>3. e' \in Entry /\ e'.count = e.count + 1 /\ e'.resetAt = e.resetAt
        BY <4>1, <4>2, CountedType
      <4>4. InWindow(a, e, now)
        BY <2>0, <4>1, EntryType
      <4>5. Consistent(a', e', now)
        BY <2>0, <4>1, <4>2, <4>3, <4>4, AdmitConsistent
      <4> QED
        BY <4>2, <4>5
    <3> QED
      BY <3>1, <3>2
  <2>3. ASSUME NEW j \in IPs, Reject(j) PROVE Consistent(a, e, now)'
    <3>1. CASE j # ip
      BY <2>0, <2>3, <3>1 DEF Reject, Counted, TypeOK, Consistent
    <3>2. CASE j = ip
      <4>1. e \in Entry /\ e.count + 1 > MaxRequests
        BY <2>0, <2>3, <3>2, EntryType DEF Reject, Counted, Exists, OverLimit
      <4>2. a' = a /\ now' = now /\ e' = [e EXCEPT !.count = @ + 1]
        BY <2>3, <3>2 DEF Reject, Counted, TypeOK
      <4> HIDE DEF a, e
      <4>3. e' \in Entry /\ e'.count = e.count + 1 /\ e'.resetAt = e.resetAt
        BY <4>1, <4>2, CountedType
      <4>4. InWindow(a, e, now)
        BY <2>0, <4>1, EntryType
      <4>5. Consistent(a', e', now)
        BY <2>0, <4>1, <4>2, <4>3, <4>4, RejectConsistent
      <4> QED
        BY <4>2, <4>5
    <3> QED
      BY <3>1, <3>2
  <2>4. CASE Cleanup
    <3>0. a' = a /\ now' = now
      BY <2>4 DEF Cleanup
    <3>1. CASE Sweepable(ip)
      <4>1. e' = NoEntry /\ e \in Entry /\ now > e.resetAt
        BY <2>0, <2>4, <3>1 DEF Cleanup, Sweepable, Exists, Expired
      <4> QED
        BY <2>0, <3>0, <4>1, WindowOver, EntryType DEF Consistent
    <3>2. CASE ~Sweepable(ip)
      BY <2>0, <2>4, <3>0, <3>2 DEF Cleanup, Consistent
    <3> QED
      BY <3>1, <3>2
  <2>5. CASE Tick
    <3>1. a' = a /\ e' = e /\ now' = now + 1
      BY <2>5 DEF Tick
    <3>2. CASE e = NoEntry
      <4>1. Quiet(a, Len(a), now + 1)
        BY <2>0, <3>2, QuietLater
      <4> QED
        BY <2>0, <3>1, <3>2, <4>1 DEF Consistent
    <3>3. CASE e # NoEntry
      <4>1. InWindow(a, e, now + 1)
        BY <2>0, <3>3, EntryType, LimitAssumption DEF InWindow
      <4> QED
        BY <2>0, <3>1, <3>3, <4>1 DEF Consistent
    <3> QED
      BY <3>2, <3>3
  <2>6. CASE Restart
    <3>1. a' = <<>> /\ e' = NoEntry
      BY <2>6 DEF Restart
    <3> QED
      BY <3>1, LimitAssumption DEF Consistent, Spaced, Quiet
  <2>7. CASE UNCHANGED vars
    BY <2>0, <2>7 DEF vars, Consistent
  <2> QED
    BY <2>1, <2>2, <2>3, <2>4, <2>5, <2>6, <2>7 DEF Next
<1>3. IInv => TwoWindowBound
  BY DEF IInv, Consistent, Spaced, TwoWindowBound
<1> QED
  BY <1>1, <1>2, <1>3, TypeCorrect, PTL DEF Spec

-----------------------------------------------------------------------------
\* What entry e leaves to its address at time t.
Left(e, t) ==
  IF e # NoEntry /\ ~(t > e.resetAt)
  THEN [left     |-> IF e.count < MaxRequests THEN MaxRequests - e.count ELSE 0,
        closesAt |-> e.resetAt]
  ELSE [left |-> MaxRequests, closesAt |-> -1]

LEMMA AllowanceIs == /\ Allowance = [ip \in IPs |-> Left(ipCounts[ip], now)]
                     /\ Allowance' = [ip \in IPs |-> Left(ipCounts'[ip], now')]
BY DEF Allowance, Live, Exists, Expired, Left

\* A window that opens costs one login of a full allowance.
LEMMA OpeningAdmits ==
  ASSUME TypeOK, NEW ip \in IPs, OpenWindow(ip)
  PROVE  Budget!Admit(ip)
<1>1. ipCounts[ip] = NoEntry \/ (ipCounts[ip] \in Entry /\ now > ipCounts[ip].resetAt)
  BY DEF TypeOK, OpenWindow, Exists, Expired
<1>2. Allowance[ip] = [left |-> MaxRequests, closesAt |-> -1]
  BY <1>1, AllowanceIs DEF Left
<1>3. NewEntry \in Entry /\ NewEntry.count = 1 /\ NewEntry.resetAt = now + Window
  BY LimitAssumption DEF TypeOK, NewEntry, Entry
<1>4. /\ ipCounts'[ip] = NewEntry /\ now' = now
      /\ \A x \in IPs \ {ip} : ipCounts'[x] = ipCounts[x]
      /\ answer' = [answer EXCEPT ![ip] = "admitted"] /\ boots' = boots
  BY DEF TypeOK, OpenWindow, PassOn
<1>5. Left(NewEntry, now) = [left |-> MaxRequests - 1, closesAt |-> now + Window]
  BY <1>3, EntryAssumption, LimitAssumption DEF Left, TypeOK
<1>6. Allowance' = [Allowance EXCEPT ![ip] = [left |-> MaxRequests - 1,
                                             closesAt |-> now + Window]]
  BY <1>4, <1>5, AllowanceIs
<1> QED
  BY <1>2, <1>4, <1>6, LimitAssumption DEF Budget!Admit, Budget!Closed

\* A request in a window counts down what is left of it, or finds nothing left.
LEMMA CountingTakes ==
  ASSUME TypeOK, NEW ip \in IPs, Counted(ip)
  PROVE  /\ now' = now /\ boots' = boots
         /\ Allowance[ip] = Left(ipCounts[ip], now)
         /\ Allowance[ip].closesAt # -1
         /\ OverLimit(ipCounts[ip].count + 1) =>
              Allowance[ip].left = 0 /\ Allowance' = Allowance
         /\ ~OverLimit(ipCounts[ip].count + 1) =>
              /\ Allowance[ip].left > 0
              /\ Allowance' = [Allowance EXCEPT
                   ![ip] = [left     |-> Allowance[ip].left - 1,
                            closesAt |-> Allowance[ip].closesAt]]
<1>1. /\ ipCounts[ip] \in Entry /\ ~(now > ipCounts[ip].resetAt)
      /\ now' = now /\ boots' = boots
      /\ ipCounts'[ip] = [ipCounts[ip] EXCEPT !.count = @ + 1]
      /\ \A x \in IPs \ {ip} : ipCounts'[x] = ipCounts[x]
  BY DEF TypeOK, Counted, Exists, Expired
<1>2. PICK e \in Entry : e = ipCounts[ip]
  BY <1>1
<1>3. PICK n \in Nat : n = e.count
  BY EntryType
<1>4. PICK t \in Nat : t = e.resetAt
  BY EntryType
<1>5. /\ ipCounts'[ip] \in Entry /\ ipCounts'[ip].count = n + 1
      /\ ipCounts'[ip].resetAt = t
  BY <1>1, <1>2, <1>3, <1>4, CountedType
<1>6. Allowance[ip] = [left |-> IF n < MaxRequests THEN MaxRequests - n ELSE 0,
                       closesAt |-> t]
  BY <1>1, <1>2, <1>3, <1>4, AllowanceIs, EntryType DEF Left
<1>7. Left(ipCounts'[ip], now') =
        [left |-> IF n + 1 < MaxRequests THEN MaxRequests - (n + 1) ELSE 0, closesAt |-> t]
  BY <1>1, <1>2, <1>3, <1>4, <1>5, EntryType DEF Left
<1>8. Allowance' = [Allowance EXCEPT ![ip] = Left(ipCounts'[ip], now')]
  BY <1>1, AllowanceIs
<1>9. /\ ipCounts[ip].count = n /\ Allowance[ip].closesAt = t /\ t # -1
      /\ Allowance[ip] = Left(ipCounts[ip], now)
      /\ OverLimit(n + 1) <=> n + 1 > MaxRequests
  BY <1>2, <1>3, <1>6, AllowanceIs DEF OverLimit
<1>10. CASE n + 1 > MaxRequests
  <2>1. Left(ipCounts'[ip], now') = Allowance[ip] /\ Allowance[ip].left = 0
    BY <1>6, <1>7, <1>10, LimitAssumption
  <2>2. Allowance' = Allowance
    BY <1>8, <2>1, AllowanceIs
  <2> QED
    BY <1>1, <1>9, <1>10, <2>1, <2>2
<1>11. CASE ~(n + 1 > MaxRequests)
  <2>1. /\ Allowance[ip].left = MaxRequests - n /\ MaxRequests - n > 0
        /\ Left(ipCounts'[ip], now') = [left |-> MaxRequests - n - 1, closesAt |-> t]
    BY <1>6, <1>7, <1>11, LimitAssumption
  <2>2. Left(ipCounts'[ip], now') = [left     |-> Allowance[ip].left - 1,
                                     closesAt |-> Allowance[ip].closesAt]
    BY <1>9, <2>1
  <2> QED
    BY <1>1, <1>8, <1>9, <1>11, <2>1, <2>2
<1> QED
  BY <1>10, <1>11

\* The limiter, with its lazy expiry and its sweeps, implements the allowance
\* that no one has to sweep (internal/middleware/ratelimit.go:21).
THEOREM BudgetKept == Spec => ImplementsLoginBudget
<1>1. Init => Budget!Init
  BY AllowanceIs DEF Init, Budget!Init, Budget!Full, Budget!Closed, Left
<1>2. TypeOK /\ [Next]_vars => [Budget!Next]_(Budget!vars)
  <2> SUFFICES ASSUME TypeOK, [Next]_vars
               PROVE  [Budget!Next]_(Budget!vars)
    OBVIOUS
  <2>1. ASSUME NEW ip \in IPs, OpenWindow(ip)
        PROVE  Budget!Next
    BY <2>1, OpeningAdmits DEF Budget!Next
  <2>2. ASSUME NEW ip \in IPs, Admit(ip)
        PROVE  Budget!Next
    <3>1. Budget!Admit(ip)
      BY <2>2, CountingTakes DEF Admit, PassOn, Budget!Admit, Budget!Closed
    <3> QED
      BY <3>1 DEF Budget!Next
  <2>3. ASSUME NEW ip \in IPs, Reject(ip)
        PROVE  Budget!Next
    <3>1. Budget!Refuse(ip)
      BY <2>3, CountingTakes DEF Reject, Budget!Refuse
    <3> QED
      BY <3>1 DEF Budget!Next
  <2>4. CASE Cleanup
    <3>1. /\ \A ip \in IPs : ipCounts'[ip] = IF Sweepable(ip) THEN NoEntry ELSE ipCounts[ip]
          /\ UNCHANGED <<now, answer, boots>>
      BY <2>4 DEF Cleanup
    <3>2. \A ip \in IPs : Left(ipCounts'[ip], now') = Left(ipCounts[ip], now)
      BY <3>1 DEF Sweepable, Exists, Expired, Left
    <3> QED
      BY <3>1, <3>2, AllowanceIs DEF Budget!vars
  <2>5. CASE Tick
    <3>1. now' = now + 1 /\ now \in Nat /\ UNCHANGED <<ipCounts, answer, boots>>
      BY <2>5 DEF Tick, TypeOK
    <3>2. ASSUME NEW ip \in IPs
          PROVE  Left(ipCounts[ip], now') =
                   IF Left(ipCounts[ip], now).closesAt < now' THEN Budget!Full
                                                            ELSE Left(ipCounts[ip], now)
      BY <3>1, EntryType DEF TypeOK, Left, Budget!Full, Budget!Closed
    <3>3. Budget!Tick
      BY <3>1, <3>2, AllowanceIs DEF Budget!Tick
    <3> QED
      BY <3>3 DEF Budget!Next
  <2>6. CASE Restart
    <3>1. /\ \A ip \in IPs : ipCounts'[ip] = NoEntry
          /\ boots' = boots + 1 /\ UNCHANGED <<now, answer>>
      BY <2>6 DEF Restart
    <3>2. Budget!Restart
      BY <3>1, AllowanceIs DEF Left, Budget!Restart, Budget!Full, Budget!Closed
    <3> QED
      BY <3>2 DEF Budget!Next
  <2>7. CASE UNCHANGED vars
    BY <2>7, AllowanceIs DEF vars, Budget!vars
  <2> QED
    BY <2>1, <2>2, <2>3, <2>4, <2>5, <2>6, <2>7 DEF Next
<1> QED
  BY <1>1, <1>2, TypeCorrect, PTL DEF Spec, ImplementsLoginBudget, Budget!Spec
=============================================================================
