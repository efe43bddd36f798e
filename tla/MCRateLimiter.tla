---------------------------- MODULE MCRateLimiter ----------------------------
(* Instances of RateLimiter for TLC. *)
EXTENDS RateWindow

CONSTANTS ip1, ip2, l1, l2, l3, r1, r2

TwoIPs == {ip1, ip2}
ThreeLimiters == {l1, l2, l3}
TwoRequests == {r1, r2}
=============================================================================
