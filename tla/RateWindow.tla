------------------------------ MODULE RateWindow ------------------------------
(***************************************************************************)
(* What a client sees of RateLimiter.  Somebody watches one address from    *)
(* any moment on, for a while, and counts the requests of it that limiter. *)
(* Allow lets through; in the limiter nothing depends on it.               *)
(***************************************************************************)
EXTENDS RateLimiter

CONSTANT MaxWindow  \* bound: ticks until somebody looks anew

ASSUME WindowAssumption == MaxWindow \in Nat

\* The address watched, for how long, what got through since, and for how long
\* the address had waited when it was last refused with nothing through yet.
VARIABLE window

watched_vars == <<vars, window>>

Opened(ip) == [ip |-> ip, age |-> 0, passed |-> 0, waited |-> 0]

WatchedInit == Init /\ \E ip \in IPs : window = Opened(ip)

\* From now on, or another address.
Watch(ip) == window' = Opened(ip) /\ UNCHANGED vars

\* With the answer that a request is about to get.
Counted(r) ==
  IF req[r].ip # window.ip THEN window
  ELSE IF HasToken(credit[req[r].limiter]) THEN [window EXCEPT !.passed = @ + 1]
  ELSE IF window.passed = 0 THEN [window EXCEPT !.waited = window.age]
  ELSE window

Older == IF window.age < MaxWindow THEN [window EXCEPT !.age = @ + 1] ELSE Opened(window.ip)

WatchedNext ==
  \/ \E ip \in IPs : Watch(ip)
  \/ \E r \in Requests : Allow(r) /\ window' = Counted(r)
  \/ \E r \in Requests, ip \in IPs : GetVisitor(r, ip) /\ UNCHANGED window
  \/ CleanupVisitors /\ UNCHANGED window
  \/ Tick /\ window' = Older

WatchedSpec == WatchedInit /\ [][WatchedNext]_watched_vars

FairWatchedSpec == WatchedSpec /\ Fairness

-----------------------------------------------------------------------------
(* Properties. *)

\* Whenever and for however long one looks, an address gets no more through than
\* a burst and one request per interval, and it is not refused once it has kept
\* still for an interval, whatever the clean-up forgot in between and whichever
\* requests overlap (ip_rate_limiter.go:41-92 with the numbers of routes.go:20-28).
RateIsKept ==
  /\ Interval * window.passed <= Full + window.age
  /\ window.waited < Interval

\* Why: what got through was paid for with the credit there was at most and what
\* was earned since; and credit earned is there until something gets through.
WindowInv ==
  /\ window \in [ip : IPs, age : Nat, passed : Nat, waited : Nat]
  /\ Interval * window.passed + BucketOf[window.ip] <= Full + window.age
  /\ window.passed = 0 => BucketOf[window.ip] = Full \/ BucketOf[window.ip] >= window.age
  /\ window.waited < Interval

Inductive == IInv /\ WindowInv
=============================================================================
