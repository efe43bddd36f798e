----------------------------- MODULE PasswordHash -----------------------------
(***************************************************************************)
(* How passwords are kept: GenerateFromPassword makes an encoded hash with *)
(* the parameters of the build that runs, ComparePasswordAndHash checks a  *)
(* password against a hash that an earlier build, with other parameters,   *)
(* may have made.                                                          *)
(*                                                                         *)
(* An encoded hash is the sequence of its parts between "$" signs.  Base64 *)
(* without padding has no "$" in it, and argon2 (external) is taken to     *)
(* give different keys for different arguments.                            *)
(***************************************************************************)
EXTENDS Naturals, Sequences

CONSTANTS
  Passwords,
  Salts,      \* what crypto/rand may draw
  Builds,     \* the DefaultParams of the builds there have been
  Foreign     \* hashes of another algorithm or version, and damaged ones

HashParams == [Memory : Nat, Iterations : Nat, Parallelism : 0..255, KeyLength : Nat]

ASSUME BuildsAssumption == Builds \subseteq HashParams

VARIABLES
  DefaultParams,  \* those of the build that runs
  hashes,         \* the hashes made, with the password each is of
  verdicts        \* what ComparePasswordAndHash said last

hash_vars == <<DefaultParams, hashes, verdicts>>

HashInit ==
  /\ DefaultParams \in Builds
  /\ hashes = {}
  /\ verdicts = {}

-----------------------------------------------------------------------------
IDKey(password, salt, p, len) ==
  [password |-> password, salt |-> salt, iterations |-> p.Iterations,
   memory |-> p.Memory, threads |-> p.Parallelism, len |-> len]

Encode(p, salt, key) ==
  <<"", "argon2id", [v |-> 19],
    [m |-> p.Memory, t |-> p.Iterations, p |-> p.Parallelism],
    [base64 |-> salt], [base64 |-> key]>>

\* decodeHash gives up on another number of parts, algorithm or version, on
\* parameters that are not three numbers that fit, and on a salt or a key that is
\* not base64.
Decodes(encoded) ==
  /\ Len(encoded) = 6
  /\ encoded[2] = "argon2id"
  /\ encoded[3] = [v |-> 19]
  /\ DOMAIN encoded[4] = {"m", "t", "p"}
  /\ DOMAIN encoded[5] = {"base64"}
  /\ DOMAIN encoded[6] = {"base64"}

ASSUME ForeignAssumption == \A encoded \in Foreign : ~Decodes(encoded)

\* (mutant) The parameters of the running build are used.
DecodedDefaults(encoded) == DefaultParams

\* What decodeHash reads, with the length of the key it finds.
Decoded(encoded) ==
  [Memory |-> encoded[4].m, Iterations |-> encoded[4].t,
   Parallelism |-> encoded[4].p, KeyLength |-> encoded[6].base64.len]

\* Another build is deployed; the hashes stay.
Deploy ==
  /\ DefaultParams' \in Builds \ {DefaultParams}
  /\ UNCHANGED <<hashes, verdicts>>

\* With a salt that was not drawn before.
GenerateFromPassword ==
  /\ \E password \in Passwords, salt \in Salts :
       /\ \A h \in hashes : h.encoded[5].base64 # salt
       /\ hashes' = hashes \cup
            {[password |-> password,
              encoded |-> Encode(DefaultParams, salt,
                                 IDKey(password, salt, DefaultParams, DefaultParams.KeyLength))]}
  /\ UNCHANGED <<DefaultParams, verdicts>>

Verdict(password, encoded) ==
  IF ~Decodes(encoded) THEN "error"
  ELSE LET p == Decoded(encoded) IN
       IF encoded[6].base64 = IDKey(password, encoded[5].base64, p, p.KeyLength)
         THEN "same" ELSE "different"

ComparePasswordAndHash ==
  /\ \E password \in Passwords, encoded \in {h.encoded : h \in hashes} \cup Foreign :
       verdicts' = {[password |-> password, encoded |-> encoded,
                   answer |-> Verdict(password, encoded)]}
  /\ UNCHANGED <<DefaultParams, hashes>>

HashNext == Deploy \/ GenerateFromPassword \/ ComparePasswordAndHash

HashSpec == HashInit /\ [][HashNext]_hash_vars

-----------------------------------------------------------------------------
(* Properties. *)

\* A password is accepted if and only if the hash was made of it, by this build
\* or by one with other parameters before or after it; a hash of another
\* algorithm or version, or a damaged one, is an error, whatever the password
\* (hash.go:47-59, 61-94).
AcceptsExactlyItsPassword ==
  \A v \in verdicts :
    /\ \A h \in hashes : h.encoded = v.encoded =>
         v.answer = IF v.password = h.password THEN "same" ELSE "different"
    /\ v.encoded \in Foreign => v.answer = "error"
=============================================================================
