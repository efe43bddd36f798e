-------------------------- MODULE RateLimiterProofs --------------------------
(***************************************************************************)
(* Proofs about RateLimiter for any addresses, limiters and requests, and  *)
(* for all numbers that meet CleanupAssumption: cleaning up never gives a  *)
(* client more, or less, than the bucket of TokenBucket; and what anybody  *)
(* who watches sees of that, in a window of any length.                    *)
(***************************************************************************)
EXTENDS RateWindow, TLAPS

LEMMA FullNat == Full \in Nat /\ Full >= Interval /\ Full > 0
  BY LimiterAssumption DEF Full

LEMMA InitIInv == Init => IInv
<1> SUFFICES ASSUME Init PROVE IInv
  OBVIOUS
<1>1. TypeOK
  BY FullNat, LimiterAssumption DEF Init, TypeOK, NoVisitor
<1>2. (\A ip \in IPs : ~Known(ip)) /\ (\A r \in Requests : ~Busy(r))
  BY DEF Init, NoVisitor, Known, Busy
<1>3. ChargedToVisitor
  BY <1>2 DEF ChargedToVisitor
<1> QED
  BY <1>1, <1>2, <1>3 DEF IInv

\* Facts about a request under way.
LEMMA BusyFacts ==
  ASSUME IInv, NEW r \in Requests, Busy(r)
  PROVE  /\ req[r].ip \in IPs /\ Known(req[r].ip)
         /\ visitors[req[r].ip].limiter = req[r].limiter
         /\ req[r].limiter \in Limiters
         /\ visitors[req[r].ip].idle <= req[r].held
         /\ req[r].held <= Stall
<1>1. req[r].ip \in IPs /\ visitors[req[r].ip].limiter = req[r].limiter
      /\ visitors[req[r].ip].idle <= req[r].held
  BY DEF IInv, ChargedToVisitor
<1>2. req[r].limiter \in Limiters /\ req[r].held <= Stall
  BY LimiterAssumption DEF IInv, TypeOK, Busy
<1> QED
  BY <1>1, <1>2 DEF Known, Busy

\* A visitor that is known already is seen again, and its limiter handed out.
LEMMA SeeKnown ==
  ASSUME IInv, NEW r \in Requests, NEW ip \in IPs, GetVisitor(r, ip), Known(ip)
  PROVE  IInv'
<1> DEFINE l == visitors[ip].limiter
<1>1. visitors' = [visitors EXCEPT ![ip] = [@ EXCEPT !.idle = 0]]
      /\ req' = [req EXCEPT ![r] = [ip |-> ip, limiter |-> l, held |-> 0]]
      /\ UNCHANGED <<credit, nap>>
  BY DEF GetVisitor, SeenNow, Hold
<1>2. l \in Limiters
  BY DEF IInv, TypeOK, Known
<1>3. /\ \A a \in IPs : visitors'[a].limiter = visitors[a].limiter
      /\ \A a \in IPs : visitors'[a].idle <= visitors[a].idle
      /\ \A a \in IPs : visitors'[a].idle \in Nat /\ visitors[a].idle \in Nat
      /\ visitors'[ip].idle = 0
  BY <1>1, LimiterAssumption DEF IInv, TypeOK
<1>4. TypeOK'
  BY <1>1, <1>2, LimiterAssumption DEF IInv, TypeOK
<1>5. /\ req'[r].ip = ip /\ req'[r].limiter = l /\ req'[r].held = 0
      /\ \A s \in Requests : s # r => req'[s] = req[s]
  BY <1>1 DEF IInv, TypeOK
<1>6. ChargedToVisitor'
  BY <1>3, <1>5 DEF IInv, ChargedToVisitor, Known, Busy
<1>7. \A s \in Requests : Busy(s)' =>
        req'[s].ip \in IPs /\ visitors'[req'[s].ip].idle <= req'[s].held
  <2> TAKE s \in Requests
  <2> HAVE Busy(s)'
  <2>1. CASE s = r
    BY <2>1, <1>3, <1>5
  <2>2. CASE s # r
    <3>1. Busy(s) /\ req'[s] = req[s]
      BY <2>2, <1>5 DEF Busy
    <3>2. req[s].held \in Nat
      BY LimiterAssumption DEF IInv, TypeOK
    <3> QED
      BY <3>1, <3>2, <1>3 DEF IInv
  <2> QED
    BY <2>1, <2>2
<1>8. \A a \in IPs : Known(a)' =>
        LET c == credit'[visitors'[a].limiter]
        IN  c = Full \/ visitors'[a].idle <= c + Stall
  <2> TAKE a \in IPs
  <2> HAVE Known(a)'
  <2>1. Known(a) /\ credit'[visitors'[a].limiter] = credit[visitors[a].limiter]
    BY <1>1, <1>3 DEF Known
  <2>2. credit[visitors[a].limiter] \in Nat
    BY <2>1, FullNat DEF IInv, TypeOK, Known
  <2> QED
    BY <2>1, <2>2, <1>3, LimiterAssumption DEF IInv
<1> QED
  BY <1>4, <1>6, <1>7, <1>8 DEF IInv

\* A new visitor gets a limiter that nobody uses, and that is full.
LEMMA SeeNew ==
  ASSUME IInv, NEW r \in Requests, NEW ip \in IPs, GetVisitor(r, ip), ~Known(ip)
  PROVE  IInv'
<1>1. PICK l \in Limiters \ Used :
        /\ visitors' = [visitors EXCEPT ![ip] = [limiter |-> l, idle |-> 0]]
        /\ credit' = [credit EXCEPT ![l] = Full]
        /\ req' = [req EXCEPT ![r] = [ip |-> ip, limiter |-> l, held |-> 0]]
  BY DEF GetVisitor, Hold
<1>2. UNCHANGED nap
  BY DEF GetVisitor
<1>3. l # None /\ (\A a \in IPs : visitors[a].limiter # l)
      /\ (\A s \in Requests : req[s].limiter # l)
  BY LimiterAssumption DEF Used
<1>4. /\ visitors'[ip] = [limiter |-> l, idle |-> 0]
      /\ \A a \in IPs : a # ip => visitors'[a] = visitors[a]
      /\ credit'[l] = Full
      /\ \A m \in Limiters : m # l => credit'[m] = credit[m]
      /\ req'[r] = [ip |-> ip, limiter |-> l, held |-> 0]
      /\ \A s \in Requests : s # r => req'[s] = req[s]
  BY <1>1 DEF IInv, TypeOK
<1>5. TypeOK'
  BY <1>1, <1>2, FullNat, LimiterAssumption DEF IInv, TypeOK
<1>6. ChargedToVisitor'
  <2>1. \A s \in Requests : s # r /\ Busy(s) => req[s].ip \in IPs /\ req[s].ip # ip
    BY BusyFacts
  <2>2. \A s \in Requests : Busy(s)' => visitors'[req'[s].ip].limiter = req'[s].limiter
    BY <1>4, <2>1 DEF IInv, ChargedToVisitor, Busy
  <2>3. \A a, b \in IPs : a # b /\ Known(a)' => visitors'[a].limiter # visitors'[b].limiter
    BY <1>3, <1>4 DEF IInv, ChargedToVisitor, Known
  <2> QED
    BY <2>2, <2>3 DEF ChargedToVisitor, Busy, Known
<1>7. \A s \in Requests : Busy(s)' =>
        req'[s].ip \in IPs /\ visitors'[req'[s].ip].idle <= req'[s].held
  <2> TAKE s \in Requests
  <2> HAVE Busy(s)'
  <2>1. CASE s = r
    BY <2>1, <1>4
  <2>2. CASE s # r
    <3>1. Busy(s) /\ req'[s] = req[s]
      BY <2>2, <1>4 DEF Busy
    <3>2. req[s].ip \in IPs /\ req[s].ip # ip /\ visitors[req[s].ip].idle <= req[s].held
      BY <3>1, BusyFacts
    <3> QED
      BY <3>1, <3>2, <1>4
  <2> QED
    BY <2>1, <2>2
<1>8. \A a \in IPs : Known(a)' =>
        LET c == credit'[visitors'[a].limiter]
        IN  c = Full \/ visitors'[a].idle <= c + Stall
  <2> TAKE a \in IPs
  <2> HAVE Known(a)'
  <2>1. CASE a = ip
    BY <2>1, <1>4
  <2>2. CASE a # ip
    <3>1. Known(a) /\ visitors'[a] = visitors[a]
      BY <2>2, <1>4 DEF Known
    <3>2. visitors[a].limiter \in Limiters \ {l}
      BY <1>3, <3>1 DEF IInv, TypeOK, Known
    <3> QED
      BY <3>1, <3>2, <1>4 DEF IInv
  <2> QED
    BY <2>1, <2>2
<1> QED
  BY <1>5, <1>6, <1>7, <1>8 DEF IInv

\* The request still holds the limiter of its visitor, which was seen at most
\* Stall ticks ago: whatever credit is left makes up for that.
LEMMA AllowIInv ==
  ASSUME IInv, NEW r \in Requests, Allow(r)
  PROVE  IInv'
<1> DEFINE l == req[r].limiter
           home == req[r].ip
<1>1. /\ home \in IPs /\ Known(home) /\ visitors[home].limiter = l /\ l \in Limiters
      /\ visitors[home].idle <= req[r].held /\ req[r].held <= Stall
  BY BusyFacts DEF Allow
<1>2. UNCHANGED <<visitors, nap>>
      /\ req' = [req EXCEPT ![r] = [ip |-> None, limiter |-> None, held |-> 0]]
      /\ credit' = IF credit[l] >= Interval
                     THEN [credit EXCEPT ![l] = @ - Interval] ELSE credit
  BY DEF Allow, HasToken
<1>3. credit \in [Limiters -> Nat] /\ credit' \in [Limiters -> 0..Full]
      /\ \A m \in Limiters : m # l => credit'[m] = credit[m]
  BY <1>1, <1>2, FullNat, LimiterAssumption DEF IInv, TypeOK
<1>4. req'[r].limiter = None /\ \A s \in Requests : s # r => req'[s] = req[s]
  BY <1>2 DEF IInv, TypeOK
<1>5. TypeOK'
  BY <1>2, <1>3, LimiterAssumption DEF IInv, TypeOK
<1>6. ChargedToVisitor'
  BY <1>2, <1>4 DEF IInv, ChargedToVisitor, Known, Busy
<1>7. \A s \in Requests : Busy(s)' =>
        req'[s].ip \in IPs /\ visitors'[req'[s].ip].idle <= req'[s].held
  BY <1>2, <1>4 DEF IInv, Busy
<1>8. \A a \in IPs : Known(a)' =>
        LET c == credit'[visitors'[a].limiter]
        IN  c = Full \/ visitors'[a].idle <= c + Stall
  <2> TAKE a \in IPs
  <2> HAVE Known(a)'
  <2>1. Known(a) /\ visitors' = visitors /\ visitors[a].limiter \in Limiters
    BY <1>2 DEF Known, IInv, TypeOK
  <2>2. CASE a = home
    <3>1. visitors[a].idle <= Stall /\ visitors[a].idle \in Nat
      BY <1>1, <2>2, LimiterAssumption DEF IInv, TypeOK
    <3>2. credit'[visitors[a].limiter] \in Nat
      BY <1>3, <2>1, FullNat
    <3> QED
      BY <2>1, <3>1, <3>2, LimiterAssumption
  <2>3. CASE a # home
    <3>1. visitors[a].limiter # l
      BY <1>1, <2>1, <2>3 DEF IInv, ChargedToVisitor
    <3> QED
      BY <1>3, <2>1, <3>1 DEF IInv
  <2> QED
    BY <2>2, <2>3
<1> QED
  BY <1>5, <1>6, <1>7, <1>8 DEF IInv

\* A visitor that is forgotten has a full limiter, and no request holds it.
LEMMA StaleIsFull ==
  ASSUME IInv, NEW ip \in IPs, Known(ip), Stale(visitors[ip])
  PROVE  /\ credit[visitors[ip].limiter] = Full
         /\ \A r \in Requests : Busy(r) => req[r].ip # ip
<1>1. visitors[ip].limiter \in Limiters /\ visitors[ip].idle \in 0..(Cleanup + 1)
  BY DEF IInv, TypeOK, Known
<1>2. credit[visitors[ip].limiter] \in 0..Full
  BY <1>1 DEF IInv, TypeOK
<1>3. visitors[ip].idle >= Full + Stall
  BY <1>1, CleanupAssumption, LimiterAssumption, FullNat DEF Stale
<1>4. credit[visitors[ip].limiter] = Full
  BY <1>1, <1>2, <1>3, LimiterAssumption, FullNat DEF IInv
<1>5. ASSUME NEW r \in Requests, Busy(r), req[r].ip = ip PROVE FALSE
  <2>1. visitors[ip].idle <= req[r].held /\ req[r].held <= Stall /\ req[r].held \in Nat
    BY <1>5, BusyFacts, LimiterAssumption DEF IInv, TypeOK
  <2> QED
    BY <1>1, <1>3, <2>1, LimiterAssumption, FullNat
<1> QED
  BY <1>4, <1>5

LEMMA CleanupIInv == IInv /\ CleanupVisitors => IInv'
<1> SUFFICES ASSUME IInv, CleanupVisitors PROVE IInv'
  OBVIOUS
<1>1. UNCHANGED <<credit, req>> /\ nap' = 0
      /\ visitors' = [ip \in IPs |-> IF Stale(visitors[ip]) THEN NoVisitor ELSE visitors[ip]]
  BY DEF CleanupVisitors
<1>2. TypeOK'
  BY <1>1, LimiterAssumption DEF IInv, TypeOK, NoVisitor
<1>3. \A a \in IPs : Known(a)' => Known(a) /\ visitors'[a] = visitors[a]
  BY <1>1 DEF Known, NoVisitor
<1>4. \A a \in IPs : ~Known(a) => visitors'[a].limiter = None
  BY <1>1 DEF Known, NoVisitor
<1>5. \A r \in Requests : Busy(r) =>
        req[r].ip \in IPs /\ visitors'[req[r].ip] = visitors[req[r].ip]
  BY <1>1, BusyFacts, StaleIsFull
<1>6. ChargedToVisitor'
  <2>1. \A a, b \in IPs : a # b /\ Known(a)' => visitors'[a].limiter # visitors'[b].limiter
    BY <1>1, <1>3 DEF IInv, ChargedToVisitor, Known, NoVisitor
  <2>2. \A r \in Requests : Busy(r)' => visitors'[req'[r].ip].limiter = req'[r].limiter
    BY <1>1, <1>5 DEF IInv, ChargedToVisitor, Busy
  <2> QED
    BY <2>1, <2>2 DEF ChargedToVisitor, Busy, Known
<1>7. \A r \in Requests : Busy(r)' =>
        req'[r].ip \in IPs /\ visitors'[req'[r].ip].idle <= req'[r].held
  BY <1>1, <1>5 DEF IInv, Busy
<1>8. \A a \in IPs : Known(a)' =>
        LET c == credit'[visitors'[a].limiter]
        IN  c = Full \/ visitors'[a].idle <= c + Stall
  BY <1>1, <1>3 DEF IInv
<1> QED
  BY <1>2, <1>6, <1>7, <1>8 DEF IInv

LEMMA TickIInv == IInv /\ Tick => IInv'
<1> SUFFICES ASSUME IInv, Tick PROVE IInv'
  OBVIOUS
<1>1. /\ \A r \in Requests : Busy(r) => req[r].held < Stall
      /\ visitors' = [ip \in IPs |-> IF Known(ip)
                        THEN [visitors[ip] EXCEPT !.idle = UpTo(Cleanup + 1, @)]
                        ELSE visitors[ip]]
      /\ credit' = [l \in Limiters |-> UpTo(Full, credit[l])]
      /\ req' = [r \in Requests |-> IF Busy(r) THEN [req[r] EXCEPT !.held = @ + 1] ELSE req[r]]
      /\ nap' = UpTo(Cleanup, nap)
  BY DEF Tick
<1>2. \A a \in IPs :
        /\ visitors'[a].limiter = visitors[a].limiter
        /\ visitors[a].idle \in 0..(Cleanup + 1) /\ visitors'[a].idle \in 0..(Cleanup + 1)
        /\ visitors'[a].idle <= visitors[a].idle + 1
  BY <1>1, LimiterAssumption DEF IInv, TypeOK, UpTo
<1>3. \A r \in Requests :
        /\ req'[r].limiter = req[r].limiter /\ req'[r].ip = req[r].ip
        /\ req[r].held \in 0..Stall /\ req'[r].held \in 0..Stall
        /\ Busy(r) => req'[r].held = req[r].held + 1
  BY <1>1, LimiterAssumption DEF IInv, TypeOK
<1>4. TypeOK'
  <2>1. visitors' \in [IPs -> [limiter : Limiters \cup {None}, idle : 0..(Cleanup + 1)]]
    BY <1>1, LimiterAssumption DEF IInv, TypeOK, UpTo
  <2>2. credit' \in [Limiters -> 0..Full]
    BY <1>1, FullNat DEF IInv, TypeOK, UpTo
  <2>3. req' \in [Requests -> [ip : IPs \cup {None}, limiter : Limiters \cup {None},
                               held : 0..Stall]]
    BY <1>1, LimiterAssumption DEF IInv, TypeOK
  <2>4. nap' \in 0..Cleanup
    BY <1>1, LimiterAssumption DEF IInv, TypeOK, UpTo
  <2> QED
    BY <2>1, <2>2, <2>3, <2>4 DEF TypeOK
<1>5. ChargedToVisitor'
  BY <1>2, <1>3, BusyFacts DEF IInv, ChargedToVisitor, Known, Busy
<1>6. \A r \in Requests : Busy(r)' =>
        req'[r].ip \in IPs /\ visitors'[req'[r].ip].idle <= req'[r].held
  <2> TAKE r \in Requests
  <2> HAVE Busy(r)'
  <2>1. Busy(r)
    BY <1>3 DEF Busy
  <2>2. req[r].ip \in IPs /\ visitors[req[r].ip].idle <= req[r].held
    BY <2>1 DEF IInv
  <2> QED
    BY <1>2, <1>3, <2>1, <2>2, LimiterAssumption
<1>7. \A a \in IPs : Known(a)' =>
        LET c == credit'[visitors'[a].limiter]
        IN  c = Full \/ visitors'[a].idle <= c + Stall
  <2> TAKE a \in IPs
  <2> HAVE Known(a)'
  <2> DEFINE l == visitors[a].limiter
  <2>1. Known(a) /\ l \in Limiters
    BY <1>2 DEF Known, IInv, TypeOK
  <2>2. credit[l] \in 0..Full /\ credit'[l] = UpTo(Full, credit[l])
    BY <1>1, <2>1 DEF IInv, TypeOK
  <2>3. credit[l] = Full \/ visitors[a].idle <= credit[l] + Stall
    BY <2>1 DEF IInv
  <2>4. credit'[l] = Full \/ visitors'[a].idle <= credit'[l] + Stall
    <3> HIDE DEF l
    <3> QED
      BY <1>2, <2>2, <2>3, LimiterAssumption, FullNat DEF UpTo
  <2> QED
    BY <1>2, <2>4
<1> QED
  BY <1>4, <1>5, <1>6, <1>7 DEF IInv

\* Every step preserves the inductive invariant.
LEMMA NextIInv == IInv /\ [Next]_vars => IInv'
<1> SUFFICES ASSUME IInv, [Next]_vars PROVE IInv'
  OBVIOUS
<1>1. CASE UNCHANGED vars
  BY <1>1 DEF vars, IInv, TypeOK, ChargedToVisitor, Known, Busy
<1>2. CASE Next
  BY <1>2, SeeKnown, SeeNew, AllowIInv, CleanupIInv, TickIInv DEF Next
<1> QED
  BY <1>1, <1>2

\* The inductive invariant holds in every reachable state, whenever the clean-up
\* runs between a request's getVisitor and its Allow (ip_rate_limiter.go:41-92).
THEOREM Invariance == Spec => []IInv
  BY InitIInv, NextIInv, PTL DEF Spec

\* Every variable keeps its type: no limiter is ever overdrawn.
THEOREM TypeCorrect == Spec => []TypeOK
<1>1. IInv => TypeOK
  BY DEF IInv
<1> QED
  BY <1>1, Invariance, PTL

\* A request is charged to the limiter the map has for its address.
THEOREM ChargedCorrect == Spec => []ChargedToVisitor
<1>1. IInv => ChargedToVisitor
  BY DEF IInv
<1> QED
  BY <1>1, Invariance, PTL

\* A visitor is forgotten only when its limiter is full.
THEOREM ForgottenCorrect == Spec => []ForgottenOnlyFull
<1>1. IInv => ForgottenOnlyFull
  BY StaleIsFull DEF ForgottenOnlyFull
<1> QED
  BY <1>1, Invariance, PTL

-----------------------------------------------------------------------------
(* The map of limiters implements one bucket per address. *)

\* A request that has its limiter changes no bucket by having fetched it.
LEMMA SeeBucket ==
  ASSUME NEW r \in Requests, NEW ip \in IPs, IInv, GetVisitor(r, ip)
  PROVE  BucketOf' = BucketOf
<1>1. CASE Known(ip)
  <2>1. /\ credit' = credit
        /\ visitors' = [visitors EXCEPT ![ip] = SeenNow(@)]
    BY <1>1 DEF GetVisitor
  <2>2. \A a \in IPs : visitors'[a].limiter = visitors[a].limiter
    BY <2>1 DEF IInv, TypeOK, SeenNow
  <2> QED
    BY <2>1, <2>2 DEF BucketOf, Known
<1>2. CASE ~Known(ip)
  <2>1. PICK l \in Limiters \ Used :
          /\ visitors' = [visitors EXCEPT ![ip] = [limiter |-> l, idle |-> 0]]
          /\ credit' = [credit EXCEPT ![l] = Full]
    BY <1>2 DEF GetVisitor
  <2>2. visitors'[ip].limiter = l /\ l # None /\ credit'[l] = Full
    BY <2>1, LimiterAssumption DEF IInv, TypeOK
  <2>3. \A a \in IPs : a # ip => visitors'[a] = visitors[a]
    BY <2>1 DEF IInv, TypeOK
  <2>4. \A a \in IPs : visitors[a].limiter # l
    BY <2>1 DEF Used
  <2>5. \A a \in IPs : credit'[visitors[a].limiter] = credit[visitors[a].limiter]
    BY <2>1, <2>4
  <2>6. \A a \in IPs :
          (IF Known(a) THEN credit[visitors[a].limiter] ELSE Full)'
            = (IF Known(a) THEN credit[visitors[a].limiter] ELSE Full)
    <3> TAKE a \in IPs
    <3>1. CASE a = ip
      BY <3>1, <1>2, <2>2 DEF Known
    <3>2. CASE a # ip
      BY <3>2, <2>3, <2>5 DEF Known
    <3> QED
      BY <3>1, <3>2
  <2> QED
    BY <2>6 DEF BucketOf
<1> QED
  BY <1>1, <1>2

\* A request that is let through is paid for from the bucket of its address,
\* and from no other.
LEMMA AllowCharges ==
  ASSUME NEW r \in Requests, IInv, Allow(r)
  PROVE  LET ip == req[r].ip IN
         /\ ip \in IPs /\ BucketOf[ip] = credit[req[r].limiter]
         /\ HasToken(credit[req[r].limiter]) =>
              BucketOf' = [BucketOf EXCEPT ![ip] = BucketOf[ip] - Interval]
         /\ ~HasToken(credit[req[r].limiter]) => BucketOf' = BucketOf
<1> DEFINE l == req[r].limiter
           ip == req[r].ip
<1>1. /\ Busy(r)
      /\ credit' = IF HasToken(credit[l]) THEN [credit EXCEPT ![l] = @ - Interval] ELSE credit
      /\ visitors' = visitors
  BY DEF Allow
<1>2. ip \in IPs /\ l \in Limiters /\ visitors[ip].limiter = l /\ Known(ip)
  BY <1>1, BusyFacts DEF IInv, TypeOK, ChargedToVisitor, Busy, Known
<1>3. \A a \in IPs : Known(a)' = Known(a)
  BY <1>1 DEF Known
<1>4. BucketOf[ip] = credit[l]
  BY <1>2 DEF BucketOf
<1>5. CASE ~HasToken(credit[l])
  BY <1>1, <1>2, <1>3, <1>4, <1>5 DEF BucketOf, Known
<1>6. CASE HasToken(credit[l])
  <2>1. credit' = [credit EXCEPT ![l] = credit[l] - Interval]
    BY <1>1, <1>6
  <2>2. credit'[l] = credit[l] - Interval
    BY <1>2, <2>1 DEF IInv, TypeOK
  <2>3. \A a \in IPs : a # ip /\ Known(a) => visitors[a].limiter # l
    BY <1>2 DEF IInv, ChargedToVisitor
  <2>4. \A a \in IPs : a # ip /\ Known(a) =>
          credit'[visitors[a].limiter] = credit[visitors[a].limiter]
    BY <2>1, <2>3
  <2>5. \A a \in IPs :
          (IF Known(a) THEN credit[visitors[a].limiter] ELSE Full)'
            = IF a = ip THEN BucketOf[ip] - Interval ELSE BucketOf[a]
    <3> TAKE a \in IPs
    <3>1. CASE a = ip
      BY <3>1, <1>1, <1>2, <1>3, <1>4, <2>2
    <3>2. CASE a # ip
      BY <3>2, <1>1, <1>3, <2>4 DEF BucketOf
    <3> QED
      BY <3>1, <3>2
  <2>6. BucketOf' = [BucketOf EXCEPT ![ip] = BucketOf[ip] - Interval]
    <3> HIDE DEF ip
    <3> QED
      BY <2>5 DEF BucketOf
  <2> QED
    BY <1>2, <1>4, <1>6, <2>6
<1> QED
  BY <1>5, <1>6

LEMMA AllowBucket ==
  ASSUME NEW r \in Requests, IInv, Allow(r)
  PROVE  BucketOf' = BucketOf \/ \E a \in IPs : Bucket!Admit(a)
BY AllowCharges DEF HasToken, Bucket!Admit

\* The clean-up takes nothing from a bucket and gives it nothing.
LEMMA CleanupBucket ==
  ASSUME IInv, CleanupVisitors
  PROVE  BucketOf' = BucketOf
<1>1. credit' = credit
      /\ visitors' = [ip \in IPs |-> IF Stale(visitors[ip]) THEN NoVisitor ELSE visitors[ip]]
  BY DEF CleanupVisitors
<1>2. \A a \in IPs :
        (IF Known(a) THEN credit[visitors[a].limiter] ELSE Full)'
          = (IF Known(a) THEN credit[visitors[a].limiter] ELSE Full)
  <2> TAKE a \in IPs
  <2>1. CASE Known(a) /\ Stale(visitors[a])
    BY <2>1, <1>1, StaleIsFull DEF Known, NoVisitor
  <2>2. CASE ~Known(a)
    BY <2>2, <1>1 DEF Known, NoVisitor
  <2>3. CASE ~Stale(visitors[a])
    BY <2>3, <1>1 DEF Known
  <2> QED
    BY <2>1, <2>2, <2>3
<1> QED
  BY <1>2 DEF BucketOf

\* A tick of the limiters is a tick of the buckets.
LEMMA TickBucket ==
  ASSUME IInv, Tick
  PROVE  Bucket!Tick
<1>1. /\ visitors' = [ip \in IPs |-> IF Known(ip)
                        THEN [visitors[ip] EXCEPT !.idle = UpTo(Cleanup + 1, @)]
                        ELSE visitors[ip]]
      /\ credit' = [l \in Limiters |-> UpTo(Full, credit[l])]
  BY DEF Tick
<1>2. \A a \in IPs : visitors'[a].limiter = visitors[a].limiter
  BY <1>1 DEF IInv, TypeOK
<1>3. \A a \in IPs : Known(a) => visitors[a].limiter \in Limiters
  BY DEF IInv, TypeOK, Known
<1>4. \A a \in IPs :
        (IF Known(a) THEN credit[visitors[a].limiter] ELSE Full)'
          = IF BucketOf[a] < Full THEN BucketOf[a] + 1 ELSE Full
  <2> TAKE a \in IPs
  <2>1. CASE Known(a)
    <3>1. BucketOf[a] = credit[visitors[a].limiter]
      BY <2>1 DEF BucketOf
    <3>2. credit'[visitors'[a].limiter] = UpTo(Full, credit[visitors[a].limiter])
      BY <2>1, <1>1, <1>2, <1>3
    <3>3. Known(a)'
      BY <2>1, <1>2 DEF Known
    <3> QED
      BY <3>1, <3>2, <3>3 DEF UpTo
  <2>2. CASE ~Known(a)
    BY <2>2, <1>2, FullNat DEF BucketOf, Known
  <2> QED
    BY <2>1, <2>2
<1>5. BucketOf' = [a \in IPs |-> IF BucketOf[a] < Full THEN BucketOf[a] + 1 ELSE Full]
  BY <1>4 DEF BucketOf
<1> QED
  BY <1>5 DEF Bucket!Tick, Bucket!Full, Full, BucketOf

\* Each address is treated as by one bucket that starts full, fills at the
\* configured rate and is never thrown away: the clean-up goroutine can be
\* ignored (ip_rate_limiter.go:41-92 against the numbers of routes.go).
THEOREM Implementation == Spec => ImplementsBucket
<1>1. Init => Bucket!Init
  BY DEF Init, NoVisitor, Known, BucketOf, Bucket!Init, Bucket!Full, Full
<1>2. IInv /\ [Next]_vars => [Bucket!Next]_BucketOf
  <2> SUFFICES ASSUME IInv, [Next]_vars PROVE [Bucket!Next]_BucketOf
    OBVIOUS
  <2>1. CASE UNCHANGED vars
    BY <2>1 DEF vars, BucketOf, Known
  <2>2. CASE \E r \in Requests, ip \in IPs : GetVisitor(r, ip)
    BY <2>2, SeeBucket
  <2>3. CASE \E r \in Requests : Allow(r)
    BY <2>3, AllowBucket DEF Bucket!Next
  <2>4. CASE CleanupVisitors
    BY <2>4, CleanupBucket
  <2>5. CASE Tick
    BY <2>5, TickBucket DEF Bucket!Next
  <2> QED
    BY <2>1, <2>2, <2>3, <2>4, <2>5 DEF Next
<1> QED
  BY <1>1, <1>2, Invariance, PTL DEF Spec, ImplementsBucket, Bucket!Spec, BucketOf

-----------------------------------------------------------------------------
(* What a client sees. *)

LEMMA BucketBounds ==
  ASSUME IInv, NEW ip \in IPs
  PROVE  BucketOf[ip] \in 0..Full
BY FullNat DEF BucketOf, IInv, TypeOK, Known

LEMMA WatchedImplements == WatchedInit /\ [][WatchedNext]_watched_vars => Spec
<1>1. WatchedInit => Init
  BY DEF WatchedInit
<1>2. [WatchedNext]_watched_vars => [Next]_vars
  BY DEF WatchedNext, Watch, Next, watched_vars
<1> QED
  BY <1>1, <1>2, PTL DEF Spec

\* A window that opens has seen nothing yet.
LEMMA OpenWindow ==
  ASSUME IInv, NEW ip \in IPs, window = Opened(ip)
  PROVE  WindowInv
<1>1. window = [ip |-> ip, age |-> 0, passed |-> 0, waited |-> 0]
  BY DEF Opened
<1>2. BucketOf[ip] \in 0..Full
  BY BucketBounds
<1>3. Interval * 0 = 0 /\ Interval > 0
  BY LimiterAssumption
<1> QED
  BY <1>1, <1>2, <1>3, FullNat DEF WindowInv

\* A step that leaves the buckets alone leaves the window as true as it was.
LEMMA SameBuckets ==
  ASSUME WindowInv, BucketOf' = BucketOf, window' = window
  PROVE  WindowInv'
BY DEF WindowInv

\* What gets through is paid for, and nobody is refused who has kept still for an
\* interval: there is credit for one request by then.
LEMMA AllowWindow ==
  ASSUME IInv, WindowInv, NEW r \in Requests, Allow(r), window' = Counted(r)
  PROVE  WindowInv'
<1> DEFINE ip == req[r].ip
           c == BucketOf[window.ip]
<1>1. /\ ip \in IPs /\ BucketOf[ip] = credit[req[r].limiter]
      /\ HasToken(BucketOf[ip]) => BucketOf' = [BucketOf EXCEPT ![ip] = BucketOf[ip] - Interval]
      /\ ~HasToken(BucketOf[ip]) => BucketOf' = BucketOf
  BY AllowCharges
<1>2. window \in [ip : IPs, age : Nat, passed : Nat, waited : Nat]
  BY DEF WindowInv
<1>3. c \in 0..Full
  BY <1>2, BucketBounds
<1>4. DOMAIN BucketOf = IPs
  BY DEF BucketOf
<1>5. CASE ip # window.ip
  <2>1. window' = window
    BY <1>5 DEF Counted
  <2>2. BucketOf'[window.ip] = c
    <3> HIDE DEF ip
    <3>1. CASE HasToken(BucketOf[ip])
      BY <1>1, <1>2, <1>4, <1>5, <3>1
    <3>2. CASE ~HasToken(BucketOf[ip])
      BY <1>1, <3>2
    <3> QED
      BY <3>1, <3>2
  <2> QED
    BY <2>1, <2>2 DEF WindowInv
<1>6. CASE ip = window.ip /\ HasToken(c)
  <2>1. window' = [window EXCEPT !.passed = @ + 1]
    BY <1>1, <1>6 DEF Counted
  <2>2. BucketOf'[window.ip] = c - Interval
    BY <1>1, <1>2, <1>4, <1>6
  <2>3. Interval * (window.passed + 1) = Interval * window.passed + Interval
    BY <1>2, LimiterAssumption
  <2>4. /\ window' \in [ip : IPs, age : Nat, passed : Nat, waited : Nat]
        /\ window'.ip = window.ip /\ window'.age = window.age
        /\ window'.passed = window.passed + 1 /\ window'.waited = window.waited
    BY <1>2, <2>1
  <2>5. Interval * window'.passed + (c - Interval) = Interval * window.passed + c
    BY <1>2, <1>3, <2>3, <2>4, LimiterAssumption, FullNat
  <2> HIDE DEF c
  <2>6. Interval * window'.passed + BucketOf'[window'.ip] <= Full + window'.age
    BY <2>2, <2>4, <2>5 DEF WindowInv, c
  <2>7. window'.passed # 0
    BY <1>2, <2>4
  <2> QED
    BY <2>4, <2>6, <2>7 DEF WindowInv
<1>7. CASE ip = window.ip /\ ~HasToken(c)
  <2>1. BucketOf' = BucketOf
    BY <1>1, <1>7
  <2>2. window' = IF window.passed = 0 THEN [window EXCEPT !.waited = window.age] ELSE window
    BY <1>1, <1>7 DEF Counted
  <2>3. window.passed = 0 => window.age < Interval
    <3>1. window.passed = 0 => c = Full \/ c >= window.age
      BY DEF WindowInv
    <3>2. c < Interval
      BY <1>3, <1>7, FullNat, LimiterAssumption DEF HasToken
    <3> HIDE DEF c
    <3> QED
      BY <1>2, <1>3, <3>1, <3>2, FullNat, LimiterAssumption
  <2>4. /\ window' \in [ip : IPs, age : Nat, passed : Nat, waited : Nat]
        /\ window'.ip = window.ip /\ window'.age = window.age
        /\ window'.passed = window.passed /\ window'.waited < Interval
    BY <1>2, <2>2, <2>3 DEF WindowInv
  <2> QED
    BY <2>1, <2>4 DEF WindowInv
<1> QED
  BY <1>5, <1>6, <1>7

\* A tick earns every bucket a unit, unless it is full.
LEMMA TickWindow ==
  ASSUME IInv, IInv', WindowInv, Tick, window' = Older
  PROVE  WindowInv'
<1> DEFINE ip == window.ip
<1>1. window \in [ip : IPs, age : Nat, passed : Nat, waited : Nat]
  BY DEF WindowInv
<1>2. CASE window.age >= MaxWindow
  <2>1. window' = Opened(ip)
    BY <1>1, <1>2, WindowAssumption DEF Older
  <2>2. BucketOf'[ip] \in 0..Full
    BY <1>1, FullNat DEF BucketOf, IInv, TypeOK, Known
  <2>3. Interval * 0 = 0 /\ Interval > 0
    BY LimiterAssumption
  <2> QED
    BY <1>1, <2>1, <2>2, <2>3, FullNat DEF WindowInv, Opened
<1>3. CASE window.age < MaxWindow
  <2>1. BucketOf[ip] \in 0..Full
    BY <1>1, BucketBounds
  <2>2. BucketOf' = [a \in IPs |-> IF BucketOf[a] < Full THEN BucketOf[a] + 1 ELSE Full]
    BY TickBucket DEF Bucket!Tick, Bucket!Full, Full
  <2>3. BucketOf'[ip] = IF BucketOf[ip] < Full THEN BucketOf[ip] + 1 ELSE Full
    BY <1>1, <2>2
  <2>4. /\ window' \in [ip : IPs, age : Nat, passed : Nat, waited : Nat]
        /\ window'.ip = ip /\ window'.age = window.age + 1
        /\ window'.passed = window.passed /\ window'.waited = window.waited
    BY <1>1, <1>3 DEF Older
  <2>5. Interval * window.passed \in Nat
    BY <1>1, LimiterAssumption
  <2>6. Interval * window'.passed + BucketOf'[ip] <= Full + window'.age
    BY <1>1, <2>1, <2>3, <2>4, <2>5, FullNat DEF WindowInv
  <2>7. window'.passed = 0 => BucketOf'[ip] = Full \/ BucketOf'[ip] >= window'.age
    BY <1>1, <2>1, <2>3, <2>4, FullNat DEF WindowInv
  <2> QED
    BY <2>4, <2>6, <2>7 DEF WindowInv
<1> QED
  BY <1>1, <1>2, <1>3, WindowAssumption

LEMMA NextWindow == IInv /\ IInv' /\ WindowInv /\ [WatchedNext]_watched_vars => WindowInv'
<1> SUFFICES ASSUME IInv, IInv', WindowInv, [WatchedNext]_watched_vars
             PROVE  WindowInv'
  OBVIOUS
<1>1. UNCHANGED vars => BucketOf' = BucketOf
  BY DEF vars, BucketOf, Known
<1>2. CASE UNCHANGED watched_vars
  BY <1>1, <1>2, SameBuckets DEF watched_vars
<1>3. ASSUME NEW ip \in IPs, Watch(ip) PROVE WindowInv'
  <2>1. window' = [ip |-> ip, age |-> 0, passed |-> 0, waited |-> 0] /\ BucketOf' = BucketOf
    BY <1>1, <1>3 DEF Watch, Opened
  <2>2. BucketOf[ip] \in 0..Full
    BY BucketBounds
  <2>3. Interval * 0 = 0 /\ Interval > 0
    BY LimiterAssumption
  <2> QED
    BY <2>1, <2>2, <2>3, FullNat DEF WindowInv
<1>4. ASSUME NEW r \in Requests, Allow(r), window' = Counted(r) PROVE WindowInv'
  BY <1>4, AllowWindow
<1>5. ASSUME NEW r \in Requests, NEW ip \in IPs, GetVisitor(r, ip), UNCHANGED window
      PROVE  WindowInv'
  BY <1>5, SeeBucket, SameBuckets
<1>6. CASE CleanupVisitors /\ UNCHANGED window
  BY <1>6, CleanupBucket, SameBuckets
<1>7. CASE Tick /\ window' = Older
  BY <1>7, TickWindow
<1> QED
  BY <1>2, <1>3, <1>4, <1>5, <1>6, <1>7 DEF WatchedNext

\* Whatever window one looks through, the limiter's invariant and the account of
\* the window hold (ip_rate_limiter.go:41-92).
THEOREM InductiveHolds == WatchedSpec => []Inductive
<1>1. WatchedSpec => []IInv
  BY WatchedImplements, Invariance DEF WatchedSpec
<1>2. WatchedInit => WindowInv
  BY InitIInv, OpenWindow DEF WatchedInit
<1> QED
  BY <1>1, <1>2, NextWindow, PTL DEF WatchedSpec, Inductive

\* In every window, of any length and at any time, at most a burst and one request
\* per interval get through, and who keeps still for an interval is not refused
\* (routes.go:20-28, ip_rate_limiter.go:41-92).
THEOREM RateCorrect == WatchedSpec => []RateIsKept
<1>1. Inductive => RateIsKept
  <2> SUFFICES ASSUME IInv, WindowInv PROVE RateIsKept
    BY DEF Inductive
  <2>1. window.ip \in IPs /\ window.age \in Nat /\ window.passed \in Nat
    BY DEF WindowInv
  <2>2. BucketOf[window.ip] \in 0..Full
    BY <2>1, BucketBounds
  <2>3. Interval * window.passed \in Nat
    BY <2>1, LimiterAssumption
  <2> QED
    BY <2>1, <2>2, <2>3, FullNat DEF WindowInv, RateIsKept
<1> QED
  BY <1>1, InductiveHolds, PTL
=============================================================================
