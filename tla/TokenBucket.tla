----------------------------- MODULE TokenBucket -----------------------------
(***************************************************************************)
(* What the rate limiter promises each client address: one bucket that     *)
(* starts full, fills by one unit of credit per tick, and pays Interval    *)
(* units for every request that is let through.  Nothing else, and no      *)
(* housekeeping, ever changes a bucket.                                    *)
(***************************************************************************)
EXTENDS Naturals

CONSTANTS IPs, Interval, Burst

Full == Burst * Interval

VARIABLE bucket

Init == bucket = [ip \in IPs |-> Full]

Admit(ip) ==
  /\ bucket[ip] >= Interval
  /\ bucket' = [bucket EXCEPT ![ip] = @ - Interval]

Tick == bucket' = [ip \in IPs |-> IF bucket[ip] < Full THEN bucket[ip] + 1 ELSE Full]

Next == Tick \/ \E ip \in IPs : Admit(ip)

Spec == Init /\ [][Next]_bucket
=============================================================================
