-------------------------- MODULE DeploymentProofs --------------------------
(***************************************************************************)
(* Proofs about what outlives a process in the database.                   *)
(*                                                                         *)
(* Startup: a server that serves has the complete schema, and the          *)
(* lifetimes its environment means, whatever starts and migrations broke    *)
(* off before.  PasswordHash: a hash accepts its password and no other,    *)
(* whatever parameters the build has that made it, or the one that checks. *)
(***************************************************************************)
EXTENDS Startup, PasswordHash, TLAPS

\* The first n migrations, in order.
FirstMigrations(n) == [i \in 1..n |-> i]

\* What holds of the schema in every step: the migrations that took effect are
\* those up to its version, but perhaps for the last while it is dirty; and how
\* far the container has come tells which of these it is.
SchemaInv ==
  /\ schema.version \in 0..Migrations
  /\ schema = [version |-> schema.version, dirty |-> schema.dirty, applied |-> schema.applied]
  /\ ~schema.dirty => schema.applied = FirstMigrations(schema.version)
  /\ pc = "applying" => /\ schema.dirty /\ schema.version > 0
                        /\ schema.applied = FirstMigrations(schema.version - 1)
  /\ pc = "cleaning" => schema.applied = FirstMigrations(schema.version)
  /\ pc \in {"connecting", "listening", "serving"} =>
       ~schema.dirty /\ schema.version = Migrations

LEMMA OneMore ==
  ASSUME NEW n \in Nat \ {0}
  PROVE  Append(FirstMigrations(n - 1), n) = FirstMigrations(n)
<1> DEFINE s == FirstMigrations(n - 1)
<1>1. s \in Seq(Nat) /\ Len(s) = n - 1
  BY DEF FirstMigrations
<1>2. Append(s, n) \in Seq(Nat) /\ Len(Append(s, n)) = n
  BY <1>1
<1>3. ASSUME NEW i \in 1..n PROVE Append(s, n)[i] = i
  BY <1>1, <1>3 DEF FirstMigrations
<1> QED
  BY <1>2, <1>3 DEF FirstMigrations

\* The schema is right at the start (nothing was applied).
LEMMA InitSchema == Init => SchemaInv
<1> SUFFICES ASSUME Init PROVE SchemaInv
  OBVIOUS
<1>1. FirstMigrations(0) = <<>>
  BY DEF FirstMigrations
<1> QED
  BY <1>1, StartupAssumption DEF Init, SchemaInv

\* Steps that leave the schema alone, and do not go on to its users.
LEMMA SchemaAlone ==
  ASSUME SchemaInv, UNCHANGED schema,
         pc' \in {"applying", "cleaning", "connecting", "listening", "serving"} =>
           \/ pc' = pc
           \/ pc' \in {"listening", "serving"} /\ pc \in {"connecting", "listening"}
  PROVE  SchemaInv'
BY DEF SchemaInv, FirstMigrations

LEMMA MigrateUpSchema == SchemaInv /\ MigrateUp => SchemaInv'
<1> SUFFICES ASSUME SchemaInv, MigrateUp PROVE SchemaInv'
  OBVIOUS
<1>1. CASE UpFails
  BY <1>1, SchemaAlone DEF UpFails, Goto, AfterFailedUp
<1>2. CASE ~schema.dirty /\ schema.version = Migrations /\ pc' = "connecting"
             /\ UNCHANGED schema
  BY <1>2 DEF SchemaInv
<1>3. CASE /\ ~schema.dirty /\ schema.version # Migrations
           /\ schema' = [schema EXCEPT !.version = @ + 1, !.dirty = TRUE]
           /\ pc' = "applying" \/ pc' = "exited"
  <2>1. /\ schema'.version = schema.version + 1 /\ schema'.dirty = TRUE
        /\ schema'.applied = schema.applied
        /\ schema' = [version |-> schema'.version, dirty |-> schema'.dirty,
                      applied |-> schema'.applied]
    BY <1>3 DEF SchemaInv
  <2>2. schema'.version \in 1..Migrations /\ schema'.version - 1 = schema.version
    BY <1>3, <2>1, StartupAssumption DEF SchemaInv
  <2> QED
    BY <1>3, <2>1, <2>2 DEF SchemaInv, FirstMigrations
<1> QED
  BY <1>1, <1>2, <1>3 DEF MigrateUp, CanMigrate, Goto, AfterFailedUp

LEMMA ApplyMigrationSchema == SchemaInv /\ ApplyMigration => SchemaInv'
<1> SUFFICES ASSUME SchemaInv, ApplyMigration PROVE SchemaInv'
  OBVIOUS
<1>1. CASE UpFails
  BY <1>1, SchemaAlone DEF UpFails, Goto, AfterFailedUp
<1>2. CASE /\ schema' = [schema EXCEPT !.applied = Append(@, schema.version)]
           /\ pc' = "cleaning" \/ pc' = "exited"
  <2>1. /\ schema.dirty /\ schema.version \in Nat \ {0}
        /\ schema.applied = FirstMigrations(schema.version - 1)
    BY StartupAssumption DEF SchemaInv, ApplyMigration
  <2>2. /\ schema'.version = schema.version /\ schema'.dirty = schema.dirty
        /\ schema'.applied = Append(schema.applied, schema.version)
        /\ schema' = [version |-> schema'.version, dirty |-> schema'.dirty,
                      applied |-> schema'.applied]
    BY <1>2 DEF SchemaInv
  <2>3. schema'.applied = FirstMigrations(schema'.version)
    BY <2>1, <2>2, OneMore
  <2> QED
    BY <1>2, <2>1, <2>2, <2>3 DEF SchemaInv
<1> QED
  BY <1>1, <1>2 DEF ApplyMigration, Goto, AfterFailedUp

LEMMA MarkCleanSchema == SchemaInv /\ MarkClean => SchemaInv'
<1> SUFFICES ASSUME SchemaInv, MarkClean PROVE SchemaInv'
  OBVIOUS
<1>1. CASE UpFails
  BY <1>1, SchemaAlone DEF UpFails, Goto, AfterFailedUp
<1>2. CASE /\ schema' = [schema EXCEPT !.dirty = FALSE]
           /\ pc' = "migrating" \/ pc' = "exited"
  <2>1. /\ schema'.version = schema.version /\ schema'.dirty = FALSE
        /\ schema'.applied = schema.applied
        /\ schema' = [version |-> schema'.version, dirty |-> schema'.dirty,
                      applied |-> schema'.applied]
    BY <1>2 DEF SchemaInv
  <2> QED
    BY <1>2, <2>1 DEF SchemaInv, MarkClean, FirstMigrations
<1> QED
  BY <1>1, <1>2 DEF MarkClean, Goto, AfterFailedUp

LEMMA NextSchema == SchemaInv /\ [Next]_vars => SchemaInv'
<1> SUFFICES ASSUME SchemaInv, [Next]_vars PROVE SchemaInv'
  OBVIOUS
<1>1. CASE Start
  BY <1>1, SchemaAlone DEF Start, database, Goto
<1>2. CASE CheckEnvVars
  BY <1>2, SchemaAlone DEF CheckEnvVars, database, Goto
<1>3. CASE WaitForPostgres
  BY <1>3, SchemaAlone DEF WaitForPostgres, database, Goto
<1>4. CASE MigrateUp
  BY <1>4, MigrateUpSchema
<1>5. CASE ApplyMigration
  BY <1>5, ApplyMigrationSchema
<1>6. CASE MarkClean
  BY <1>6, MarkCleanSchema
<1>7. CASE Connect
  BY <1>7, SchemaAlone DEF Connect, database, Goto
<1>8. CASE Listen
  BY <1>8, SchemaAlone DEF Listen, database, Goto
<1>9. CASE Outage \/ Recover
  BY <1>9, SchemaAlone DEF Outage, Recover, container
<1>10. CASE Kill
  BY <1>10, SchemaAlone DEF Kill, database, Goto
<1>11. CASE UNCHANGED vars
  BY <1>11, SchemaAlone DEF vars, database, container
<1> QED
  BY <1>1, <1>2, <1>3, <1>4, <1>5, <1>6, <1>7, <1>8, <1>9, <1>10, <1>11 DEF Next, Boot

\* Version, dirty mark and migrations agree in every step of every start
\* (run-migrations.sh:42-55).
THEOREM SchemaInvariance == Spec => []SchemaInv
BY InitSchema, NextSchema, PTL DEF Spec

\* A server that serves has the complete schema below it, whatever number of
\* migrations, starts and outages there were (run-migrations.sh:46-55).
THEOREM ServesCorrect == Spec => []ServesOnlyMigrated
<1>1. SchemaInv => ServesOnlyMigrated
  BY DEF SchemaInv, ServesOnlyMigrated, FirstMigrations
<1> QED
  BY <1>1, SchemaInvariance, PTL

-----------------------------------------------------------------------------
(* The configuration. *)

\* A server that listens has read the environment of its own start.
ConfigInv ==
  /\ env \in Environment
  /\ pc \in {"listening", "serving"} => cfg = Load

LEMMA InitConfig == Init => ConfigInv
BY DEF Init, ConfigInv, Environment, Setting

\* Steps that leave the configuration alone, and do not go on to its users.
LEMMA ConfigAlone ==
  ASSUME ConfigInv, UNCHANGED <<env, cfg>>,
         pc' \in {"listening", "serving"} => pc \in {"listening", "serving"}
  PROVE  ConfigInv'
BY DEF ConfigInv, Load

LEMMA NextConfig == ConfigInv /\ [Next]_vars => ConfigInv'
<1> SUFFICES ASSUME ConfigInv, [Next]_vars PROVE ConfigInv'
  OBVIOUS
<1>1. CASE Start
  BY <1>1 DEF Start, Goto, ConfigInv
<1>2. CASE CheckEnvVars \/ WaitForPostgres
  BY <1>2, ConfigAlone DEF CheckEnvVars, WaitForPostgres, Goto
<1>3. CASE MigrateUp \/ ApplyMigration \/ MarkClean
  BY <1>3, ConfigAlone DEF MigrateUp, ApplyMigration, MarkClean, UpFails, Goto, AfterFailedUp
<1>4. CASE Connect
  BY <1>4 DEF Connect, ConfigInv, Load
<1>5. CASE Listen \/ Kill
  BY <1>5, ConfigAlone DEF Listen, Kill, Goto
<1>6. CASE Outage \/ Recover \/ UNCHANGED vars
  BY <1>6, ConfigAlone DEF Outage, Recover, vars, container
<1> QED
  BY <1>1, <1>2, <1>3, <1>4, <1>5, <1>6 DEF Next, Boot

LEMMA ParsedIsMeant ==
  ASSUME NEW setting \in Setting, NEW default
  PROVE  Parsed(setting, default) \in Lifetimes \cup {default}
BY DEF Setting, Parsed

\* The lifetimes of a server are those its environment means, or the defaults,
\* whatever the environment of earlier starts was (config.go:40-81).
THEOREM LifetimesCorrect == Spec => []LifetimesAreMeant
<1>1. ConfigInv => LifetimesAreMeant
  <2> SUFFICES ASSUME ConfigInv, pc = "serving"
               PROVE  /\ cfg.access \in Lifetimes \cup {FifteenMinutes}
                      /\ cfg.refresh \in Lifetimes \cup {SevenDays}
    BY DEF LifetimesAreMeant
  <2>1. env.access \in Setting /\ env.refresh \in Setting
    BY DEF ConfigInv, Environment
  <2>2. /\ cfg.access = Parsed(env.access, FifteenMinutes)
        /\ cfg.refresh = Parsed(env.refresh, SevenDays)
    BY DEF ConfigInv, Load
  <2> QED
    BY <2>1, <2>2, ParsedIsMeant
<1> QED
  BY <1>1, InitConfig, NextConfig, PTL DEF Spec

-----------------------------------------------------------------------------
(* The hashes in the table of users. *)

\* What GenerateFromPassword makes of a password in a build with parameters p.
Made(password, p, salt) == Encode(p, salt, IDKey(password, salt, p, p.KeyLength))

\* A hash was made of its password by some build, and a verdict is still what
\* ComparePasswordAndHash would say, whichever build runs.
HashInv ==
  /\ DefaultParams \in Builds
  /\ \A h \in hashes : \E p \in Builds, salt \in Salts : h.encoded = Made(h.password, p, salt)
  /\ \A v \in verdicts : v.answer = Verdict(v.password, v.encoded)

\* A hash says with what it was made.
LEMMA ReadsBack ==
  ASSUME NEW p \in HashParams, NEW password, NEW salt
  PROVE  /\ Decodes(Made(password, p, salt))
         /\ Decoded(Made(password, p, salt)) = p
         /\ Made(password, p, salt)[5].base64 = salt
         /\ Made(password, p, salt)[6].base64 = IDKey(password, salt, p, p.KeyLength)
<1> DEFINE key == IDKey(password, salt, p, p.KeyLength)
           params == [m |-> p.Memory, t |-> p.Iterations, p |-> p.Parallelism]
           made == Made(password, p, salt)
<1>1. /\ Len(made) = 6 /\ made[2] = "argon2id" /\ made[3] = [v |-> 19]
      /\ made[4] = params /\ made[5] = [base64 |-> salt] /\ made[6] = [base64 |-> key]
  BY DEF Made, Encode
<1>2. key.len = p.KeyLength
  BY DEF IDKey
<1>3. p = [Memory |-> p.Memory, Iterations |-> p.Iterations,
           Parallelism |-> p.Parallelism, KeyLength |-> p.KeyLength]
  BY DEF HashParams
<1> HIDE DEF made, key
<1>4. /\ made[4].m = p.Memory /\ made[4].t = p.Iterations /\ made[4].p = p.Parallelism
      /\ made[5].base64 = salt /\ made[6].base64 = key
  BY <1>1
<1>5. Decoded(made) = p
  BY <1>2, <1>3, <1>4 DEF Decoded
<1> QED
  BY <1>1, <1>4, <1>5 DEF Decodes, made, key

\* The verdict on a hash tells its password from every other one.
LEMMA VerdictOnMade ==
  ASSUME NEW p \in Builds, NEW salt, NEW password, NEW tried
  PROVE  Verdict(tried, Made(password, p, salt))
           = IF tried = password THEN "same" ELSE "different"
<1> DEFINE made == Made(password, p, salt)
<1>1. p \in HashParams
  BY BuildsAssumption
<1>2. /\ Decodes(made) /\ Decoded(made) = p /\ made[5].base64 = salt
      /\ made[6].base64 = IDKey(password, salt, p, p.KeyLength)
  BY <1>1, ReadsBack
<1>3. IDKey(password, salt, p, p.KeyLength) = IDKey(tried, salt, p, p.KeyLength)
        <=> tried = password
  BY DEF IDKey
<1> HIDE DEF made
<1>4. Verdict(tried, made) = IF tried = password THEN "same" ELSE "different"
  BY <1>2, <1>3 DEF Verdict
<1> QED
  BY <1>4 DEF made

LEMMA NextHash == HashInv /\ [HashNext]_hash_vars => HashInv'
<1> SUFFICES ASSUME HashInv, [HashNext]_hash_vars PROVE HashInv'
  OBVIOUS
<1>1. CASE UNCHANGED hash_vars \/ Deploy
  BY <1>1 DEF hash_vars, Deploy, HashInv
<1>2. CASE GenerateFromPassword
  <2>1. PICK password \in Passwords, salt \in Salts :
          hashes' = hashes \cup
            {[password |-> password, encoded |-> Made(password, DefaultParams, salt)]}
    BY <1>2 DEF GenerateFromPassword, Made
  <2> QED
    BY <1>2, <2>1 DEF HashInv, GenerateFromPassword
<1>3. CASE ComparePasswordAndHash
  BY <1>3 DEF ComparePasswordAndHash, HashInv
<1> QED
  BY <1>1, <1>2, <1>3 DEF HashNext

\* Hashes and verdicts stand in every build there has been (hash.go:30-94).
THEOREM HashInvariance == HashSpec => []HashInv
<1>1. HashInit => HashInv
  BY DEF HashInit, HashInv
<1> QED
  BY <1>1, NextHash, PTL DEF HashSpec

\* A password is accepted if and only if the hash was made of it, whatever
\* builds made and check it, and for all their parameters, key lengths included;
\* a hash of another kind is an error (hash.go:47-59, 61-94).
THEOREM PasswordsCorrect == HashSpec => []AcceptsExactlyItsPassword
<1>1. HashInv => AcceptsExactlyItsPassword
  <2> SUFFICES ASSUME HashInv, NEW v \in verdicts
               PROVE  /\ \A h \in hashes : h.encoded = v.encoded =>
                           v.answer = IF v.password = h.password THEN "same" ELSE "different"
                      /\ v.encoded \in Foreign => v.answer = "error"
    BY DEF AcceptsExactlyItsPassword
  <2>1. v.answer = Verdict(v.password, v.encoded)
    BY DEF HashInv
  <2>2. ASSUME NEW h \in hashes, h.encoded = v.encoded
        PROVE  v.answer = IF v.password = h.password THEN "same" ELSE "different"
    <3>1. PICK p \in Builds, salt \in Salts : h.encoded = Made(h.password, p, salt)
      BY DEF HashInv
    <3> QED
      BY <2>1, <2>2, <3>1, VerdictOnMade
  <2>3. v.encoded \in Foreign => v.answer = "error"
    BY <2>1, ForeignAssumption DEF Verdict
  <2> QED
    BY <2>2, <2>3
<1> QED
  BY <1>1, HashInvariance, PTL
=============================================================================
