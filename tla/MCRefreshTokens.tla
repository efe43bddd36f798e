--------------------------- MODULE MCRefreshTokens ---------------------------
(* Instances of RefreshTokens for TLC. *)
EXTENDS RefreshTokens, TLC

CONSTANTS u1, u2, j1, j2, j3, j4, r1, r2

OneUser == {u1}
TwoUsers == {u1, u2}
TwoJtis == {j1, j2}
FourJtis == {j1, j2, j3, j4}
TwoRequests == {r1, r2}

\* Users, jtis and requests are only compared with each other.
Symmetry == Permutations(Users) \cup Permutations(Jtis) \cup Permutations(Requests)
=============================================================================
