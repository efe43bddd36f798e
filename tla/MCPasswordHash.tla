---------------------------- MODULE MCPasswordHash ----------------------------
(* An instance of PasswordHash for TLC. *)
EXTENDS PasswordHash

TwoPasswords == {"secret", "other"}
TwoSalts == {"s1", "s2"}

Build(memory, iterations, parallelism, keyLength) ==
  [Memory |-> memory, Iterations |-> iterations, Parallelism |-> parallelism,
   KeyLength |-> keyLength]

\* Builds that differ from the first in one parameter each, but for the last.
FourBuilds == {Build(64, 3, 2, 32), Build(128, 3, 2, 32), Build(64, 3, 4, 16), Build(64, 4, 2, 32)}

OldParams == [m |-> 64, t |-> 3, p |-> 2]
OldKey == IDKey("secret", "s1", Build(64, 3, 2, 32), 32)

\* A part that is not what it should be.
Junk == [junk |-> TRUE]

\* Another algorithm, an older version, an encoding without a salt; parameters, a
\* salt and a key that nobody can read.
SomeForeign ==
  {<<"", "argon2i", [v |-> 19], OldParams, [base64 |-> "s1"], [base64 |-> OldKey]>>,
   <<"", "argon2id", [v |-> 16], OldParams, [base64 |-> "s1"], [base64 |-> OldKey]>>,
   <<"", "argon2id", [v |-> 19], OldParams, [base64 |-> OldKey]>>,
   <<"", "argon2id", [v |-> 19], Junk, [base64 |-> "s1"], [base64 |-> OldKey]>>,
   <<"", "argon2id", [v |-> 19], OldParams, Junk, [base64 |-> OldKey]>>,
   <<"", "argon2id", [v |-> 19], OldParams, [base64 |-> "s1"], Junk>>}
=============================================================================
