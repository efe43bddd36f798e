------------------------------- MODULE Startup -------------------------------
(***************************************************************************)
(* The start of the application's container: run-migrations.sh checks its  *)
(* environment, waits for the database, applies the migrations and becomes *)
(* the server, which reads its configuration, pings the database and       *)
(* listens.                                                                *)
(*                                                                         *)
(* The database may go away and come back, and the container may be killed,*)
(* between any two steps; whoever runs it may start it again.  The tool    *)
(* "migrate" (external) marks the schema dirty while it applies a          *)
(* migration, and refuses to go on from a dirty schema.                    *)
(***************************************************************************)
EXTENDS Naturals, Sequences

CONSTANTS
  Migrations,   \* how many there are (4)
  Timeout,      \* seconds run-migrations.sh waits for the database (60)
  Lifetimes,    \* durations that time.ParseDuration understands, e.g. "36h"
  Unset,        \* an environment variable without a value
  Unparsable,   \* a value ParseDuration does not understand, e.g. "7d"
  FifteenMinutes, SevenDays,
  MaxStarts,    \* bound: how often the container is started
  MaxOutages    \* bound: how often the database goes away

ASSUME StartupAssumption ==
  /\ Migrations \in Nat /\ Timeout \in Nat \ {0}
  /\ MaxStarts \in Nat /\ MaxOutages \in Nat
  /\ {Unset, Unparsable} \cap Lifetimes = {}

VARIABLES
  db,        \* the database accepts connections
  outages,
  schema,    \* schema_migrations and the migrations that took effect, in order
  pc,        \* where the container is
  starts,
  env,       \* its environment
  elapsed,   \* seconds waited
  cfg        \* what the server was configured with

database == <<db, outages, schema>>
container == <<pc, starts, env, elapsed, cfg>>
vars == <<database, container>>

Booting == {"checking", "waiting", "migrating", "applying", "cleaning", "connecting",
            "listening"}

Setting == Lifetimes \cup {Unset, Unparsable}

\* postgres: all five of POSTGRES_* are set; access, refresh: JWT_*_TOKEN_EXPIRY.
Environment == [postgres : BOOLEAN, access : Setting, refresh : Setting]

NoConfig == [access |-> Unset, refresh |-> Unset]

Init ==
  /\ db \in BOOLEAN
  /\ outages = 0
  /\ schema = [version |-> 0, dirty |-> FALSE, applied |-> <<>>]
  /\ pc = "off"
  /\ starts = 0
  /\ env = [postgres |-> TRUE, access |-> Unset, refresh |-> Unset]
  /\ elapsed = 0
  /\ cfg = NoConfig

Goto(step) == pc' = step

-----------------------------------------------------------------------------
(* run-migrations.sh. *)

\* docker compose up, again once the container has stopped.
Start ==
  /\ pc \in {"off", "exited"} /\ starts < MaxStarts
  /\ starts' = starts + 1
  /\ env' \in Environment
  /\ elapsed' = 0
  /\ cfg' = NoConfig
  /\ Goto("checking")
  /\ UNCHANGED database

CheckEnvVars ==
  /\ pc = "checking"
  /\ Goto(IF env.postgres THEN "waiting" ELSE "exited")
  /\ UNCHANGED <<database, starts, env, elapsed, cfg>>

\* (mutant) The seconds are not counted.
SleptUncounted(seconds) == seconds

Slept(seconds) == seconds + 1

\* One probe of pg_isready and, if it fails, one second of sleep.
WaitForPostgres ==
  /\ pc = "waiting"
  /\ IF db
       THEN Goto("migrating") /\ UNCHANGED elapsed
       ELSE /\ elapsed' = Slept(elapsed)
            /\ Goto(IF elapsed' >= Timeout THEN "exited" ELSE "waiting")
  /\ UNCHANGED <<database, starts, env, cfg>>

\* (mutant) The script goes on when "up" fails.
AfterFailedUpUnchecked == "connecting"

\* "migrate up" connects and looks at the version it finds.
CanMigrate == db /\ ~schema.dirty

\* A failure of "migrate up" ends the script.
AfterFailedUp == "exited"

UpFails == Goto(AfterFailedUp) /\ UNCHANGED schema

\* Between two migrations: done, or the next one is noted, dirty, as the version.
MigrateUp ==
  /\ pc = "migrating"
  /\ IF ~CanMigrate THEN UpFails
     ELSE IF schema.version = Migrations THEN Goto("connecting") /\ UNCHANGED schema
     ELSE \/ /\ schema' = [schema EXCEPT !.version = @ + 1, !.dirty = TRUE]
             /\ Goto("applying") \/ Goto(AfterFailedUp)
          \/ UpFails
  /\ UNCHANGED <<db, outages, starts, env, elapsed, cfg>>

\* The statements of one file are one transaction: they take effect or do not,
\* and the connection may break before "migrate" knows.
ApplyMigration ==
  /\ pc = "applying"
  /\ \/ /\ db
        /\ schema' = [schema EXCEPT !.applied = Append(@, schema.version)]
        /\ Goto("cleaning") \/ Goto(AfterFailedUp)
     \/ UpFails
  /\ UNCHANGED <<db, outages, starts, env, elapsed, cfg>>

MarkClean ==
  /\ pc = "cleaning"
  /\ \/ /\ db
        /\ schema' = [schema EXCEPT !.dirty = FALSE]
        /\ Goto("migrating") \/ Goto(AfterFailedUp)
     \/ UpFails
  /\ UNCHANGED <<db, outages, starts, env, elapsed, cfg>>

-----------------------------------------------------------------------------
(* main. *)

\* (mutant) What ParseDuration returns is taken, whether it failed or not.
ParsedUnchecked(setting, default) ==
  IF setting = Unset THEN default ELSE setting

\* An unset variable, and one that does not parse, stand for the default.  (The
\* default for refresh tokens is spelt "7d", which does not parse either.)
Parsed(setting, default) ==
  IF setting \in {Unset, Unparsable} THEN default ELSE setting

Load == [access |-> Parsed(env.access, FifteenMinutes),
         refresh |-> Parsed(env.refresh, SevenDays)]

\* config.Load, then NewPostgresDB: Open does not connect yet, Ping does.
Connect ==
  /\ pc = "connecting"
  /\ cfg' = Load
  /\ Goto("exited") \/ (db /\ Goto("listening"))
  /\ UNCHANGED <<database, starts, env, elapsed>>

\* NewServer and ListenAndServe, which fails if the port is taken.
Listen ==
  /\ pc = "listening"
  /\ Goto("serving") \/ Goto("exited")
  /\ UNCHANGED <<database, starts, env, elapsed, cfg>>

-----------------------------------------------------------------------------
(* The environment. *)

Outage ==
  /\ db /\ outages < MaxOutages
  /\ db' = FALSE
  /\ outages' = outages + 1
  /\ UNCHANGED <<schema, container>>

Recover ==
  /\ ~db
  /\ db' = TRUE
  /\ UNCHANGED <<outages, schema, container>>

Kill ==
  /\ pc \in Booting \cup {"serving"}
  /\ Goto("exited")
  /\ UNCHANGED <<database, starts, env, elapsed, cfg>>

Boot ==
  \/ CheckEnvVars
  \/ WaitForPostgres
  \/ MigrateUp
  \/ ApplyMigration
  \/ MarkClean
  \/ Connect
  \/ Listen

Next == Start \/ Boot \/ Outage \/ Recover \/ Kill

Spec == Init /\ [][Next]_vars

\* The script and the server keep running.
FairSpec == Spec /\ WF_vars(Boot)

-----------------------------------------------------------------------------
(* Properties. *)

\* However often the container was killed and the database lost before, and in
\* whatever step, a server that serves has the complete schema below it
\* (run-migrations.sh:46-51, 55; the "exec" comes last).
ServesOnlyMigrated ==
  pc = "serving" => /\ schema.applied = [i \in 1..Migrations |-> i]
                    /\ ~schema.dirty

\* A server signs tokens with lifetimes that somebody can have meant: the
\* configured ones in the units of Go, else 15 minutes and 7 days; never with
\* what is left of a value that did not parse (config.go:65-81).
LifetimesAreMeant ==
  pc = "serving" => /\ cfg.access \in Lifetimes \cup {FifteenMinutes}
                    /\ cfg.refresh \in Lifetimes \cup {SevenDays}

\* Every start comes to an end, a serving process or an error, also when the
\* database never comes up (run-migrations.sh:32-40).
EveryStartEnds == pc \in Booting ~> pc \in {"serving", "exited"}
=============================================================================
