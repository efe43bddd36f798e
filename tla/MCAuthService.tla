---------------------------- MODULE MCAuthService ----------------------------
(* An instance of AuthService for TLC. *)
EXTENDS AuthService, TLC

CONSTANTS i1, i2, e1, e2, p1, x1, j1, j2, j3, c1, c2, t1

TwoIds == {i1, i2}
TwoEmails == {e1, e2}
OnePassword == {p1}
TwoProviders == {"github", "google"}
OneProviderID == {x1}
ThreeJtis == {j1, j2, j3}
TwoCalls == {c1, c2}
OneOther == {t1}

\* A map that names a provider: accounts of the other one are moved by it, those
\* with a password keep it, because of the table's CHECK.
OnePatch == {[Provider |-> "github"]}

ASSUME PatchesAreTyped == Acc!TypedPatches

Symmetry ==
  Permutations(Ids) \cup Permutations(Jtis) \cup Permutations(Calls)
    \cup Permutations(Emails)
=============================================================================
