----------------------------- MODULE RateLimiter -----------------------------
(***************************************************************************)
(* The per-address rate limiter of one route: the visitors map under its   *)
(* mutex, the goroutine that cleans it up, and the requests that fetch a   *)
(* limiter in getVisitor and call Allow on it after the mutex is released, *)
(* by which time the map may hold another one.                             *)
(*                                                                         *)
(* Time passes in ticks.  The tokens of golang.org/x/time/rate are counted *)
(* in credit: a tick earns 1 and a request costs Interval.  The ages that  *)
(* lastSeen and time.Sleep stand for are counted until they no longer      *)
(* matter.  A request spends at most Stall ticks between getVisitor and    *)
(* Allow, which is what a scheduler that is not starved grants it.         *)
(***************************************************************************)
EXTENDS Naturals

CONSTANTS
  IPs,       \* client addresses
  Interval,  \* ticks per token: the "limit" argument of NewRateLimiter
  Burst,     \* tokens of a full limiter
  Cleanup,   \* ticks until a visitor that stayed away is forgotten
  Stall,     \* bound on the ticks between getVisitor and Allow
  Limiters,  \* memory for rate.Limiter objects, enough for visitors and requests
  Requests,  \* requests under way
  None

Full == Burst * Interval

ASSUME LimiterAssumption ==
  /\ Interval \in Nat \ {0} /\ Burst \in Nat \ {0} /\ Cleanup \in Nat /\ Stall \in Nat
  /\ None \notin Limiters

\* What the configured numbers must satisfy: 5 min against 50 s (10 s x 5 for
\* most routes, 5 s x 10 for /actions).
ASSUME CleanupAssumption == Cleanup + 1 >= Full + Stall

VARIABLES
  visitors,  \* [IPs -> [limiter, idle]], limiter None for no entry
  credit,    \* of every limiter
  req,       \* [Requests -> [ip, limiter, held]], limiter None for no request
  nap        \* ticks since the cleanup goroutine fell asleep

vars == <<visitors, credit, req, nap>>

NoVisitor == [limiter |-> None, idle |-> 0]

Init ==
  /\ visitors = [ip \in IPs |-> NoVisitor]
  /\ credit = [l \in Limiters |-> Full]
  /\ req = [r \in Requests |-> [ip |-> None, limiter |-> None, held |-> 0]]
  /\ nap = 0

Known(ip) == visitors[ip].limiter # None
Busy(r) == req[r].limiter # None

Used == {visitors[ip].limiter : ip \in IPs} \cup {req[r].limiter : r \in Requests}

\* (mutant) lastSeen is only set when the visitor is created.
NotSeenNow(v) == v

\* v.lastSeen = time.Now().
SeenNow(v) == [v EXCEPT !.idle = 0]

Hold(r, ip, l) == req' = [req EXCEPT ![r] = [ip |-> ip, limiter |-> l, held |-> 0]]

\* A new visitor gets a full limiter.
GetVisitor(r, ip) ==
  /\ ~Busy(r)
  /\ IF Known(ip)
       THEN /\ visitors' = [visitors EXCEPT ![ip] = SeenNow(@)]
            /\ Hold(r, ip, visitors[ip].limiter)
            /\ UNCHANGED credit
       ELSE \E l \in Limiters \ Used :
              /\ visitors' = [visitors EXCEPT ![ip] = [limiter |-> l, idle |-> 0]]
              /\ credit' = [credit EXCEPT ![l] = Full]
              /\ Hold(r, ip, l)
  /\ UNCHANGED nap

HasToken(c) == c >= Interval

\* limiter.Allow: the request goes on to its handler, or is answered with 429.
Allow(r) ==
  LET l == req[r].limiter IN
  /\ Busy(r)
  /\ credit' = IF HasToken(credit[l]) THEN [credit EXCEPT ![l] = @ - Interval] ELSE credit
  /\ req' = [req EXCEPT ![r] = [ip |-> None, limiter |-> None, held |-> 0]]
  /\ UNCHANGED <<visitors, nap>>

\* (mutants) A visitor is forgotten one tick too early; the comparison is
\* the wrong way round.
StaleEarly(v) == v.idle >= Cleanup
StaleSwapped(v) == v.idle < Cleanup

\* time.Since(v.lastSeen) > rl.cleanup
Stale(v) == v.idle > Cleanup

\* cleanupVisitors wakes up and makes a pass over the map, all under the mutex.
CleanupVisitors ==
  /\ nap = Cleanup
  /\ visitors' = [ip \in IPs |-> IF Stale(visitors[ip]) THEN NoVisitor ELSE visitors[ip]]
  /\ nap' = 0
  /\ UNCHANGED <<credit, req>>

UpTo(bound, n) == IF n < bound THEN n + 1 ELSE bound

Tick ==
  /\ \A r \in Requests : Busy(r) => req[r].held < Stall
  /\ visitors' = [ip \in IPs |-> IF Known(ip)
                    THEN [visitors[ip] EXCEPT !.idle = UpTo(Cleanup + 1, @)]
                    ELSE visitors[ip]]
  /\ credit' = [l \in Limiters |-> UpTo(Full, credit[l])]
  /\ req' = [r \in Requests |-> IF Busy(r) THEN [req[r] EXCEPT !.held = @ + 1] ELSE req[r]]
  /\ nap' = UpTo(Cleanup, nap)

Next ==
  \/ \E r \in Requests : Allow(r) \/ \E ip \in IPs : GetVisitor(r, ip)
  \/ CleanupVisitors
  \/ Tick

Spec == Init /\ [][Next]_vars

\* Time goes on, and a goroutine that is due gets to run.
Fairness == WF_vars(Tick) /\ WF_vars(CleanupVisitors) /\ \A r \in Requests : WF_vars(Allow(r))

FairSpec == Spec /\ Fairness

-----------------------------------------------------------------------------
(* Properties. *)

TypeOK ==
  /\ visitors \in [IPs -> [limiter : Limiters \cup {None}, idle : 0..(Cleanup + 1)]]
  /\ credit \in [Limiters -> 0..Full]
  /\ req \in [Requests -> [ip : IPs \cup {None}, limiter : Limiters \cup {None},
                           held : 0..Stall]]
  /\ nap \in 0..Cleanup

\* A request is charged to the limiter the map has for its address, although
\* it no longer holds the mutex and the map may have been cleaned meanwhile;
\* and no two addresses share a limiter.
ChargedToVisitor ==
  /\ \A r \in Requests : Busy(r) => visitors[req[r].ip].limiter = req[r].limiter
  /\ \A a, b \in IPs : a # b /\ Known(a) => visitors[a].limiter # visitors[b].limiter

\* A visitor is forgotten only when its limiter is full again, so that the new
\* limiter it gets when it comes back owes it nothing and gives it nothing.
ForgottenOnlyFull ==
  \A ip \in IPs : Known(ip) /\ Stale(visitors[ip]) =>
    credit[visitors[ip].limiter] = Full

\* Why: a limiter that is not full was used at most Stall ticks after its
\* visitor was last seen, and has been earning credit ever since.
IInv ==
  /\ TypeOK
  /\ ChargedToVisitor
  /\ \A r \in Requests : Busy(r) =>
       req[r].ip \in IPs /\ visitors[req[r].ip].idle <= req[r].held
  /\ \A ip \in IPs : Known(ip) =>
       LET c == credit[visitors[ip].limiter] IN c = Full \/ visitors[ip].idle <= c + Stall

\* The bucket of an address.
BucketOf == [ip \in IPs |-> IF Known(ip) THEN credit[visitors[ip].limiter] ELSE Full]

\* Every address is treated as by one bucket that is never thrown away.
Bucket == INSTANCE TokenBucket WITH bucket <- BucketOf

ImplementsBucket == Bucket!Spec

\* The map does not grow for ever: whoever stays away is forgotten (an entry
\* that is gone counts as one that is not idle).
VisitorsAreForgotten ==
  \A ip \in IPs : visitors[ip].idle > 0 ~> visitors[ip].idle = 0
=============================================================================
