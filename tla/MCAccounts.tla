----------------------------- MODULE MCAccounts -----------------------------
(* Instances of Accounts for TLC. *)
EXTENDS Accounts, TLC

CONSTANTS i1, i2, e1, e2, p1, p2, x1, x2, r1, r2, r3

TwoIds == {i1, i2}
OneEmail == {e1}
TwoEmails == {e1, e2}
OnePassword == {p1}
TwoPasswords == {p1, p2}
OneProvider == {"github"}
TwoProviders == {"github", "google"}
OneProviderID == {x1}
TwoProviderIDs == {x1, x2}
TwoRequests == {r1, r2}
ThreeRequests == {r1, r2, r3}

\* The map the scripts are given has keys "id" and "email": no Go field has
\* such a name.
Given == [email |-> e1]
SetActive == [IsActive |-> TRUE]
SetPassword == [Provider |-> "password"]
SetGithub == [Provider |-> "github"]
SetIdentity == [ID |-> i1, Email |-> e2, Password |-> p2, ProviderID |-> x2]

MainPatches == {Given, SetActive, SetPassword}
IdentityPatches == {Given, SetGithub, SetIdentity}

ASSUME PatchesAreTyped == TypedPatches

Symmetry == Permutations(Requests)
=============================================================================
