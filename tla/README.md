# Formal models of yaas

yaas is a small authentication service in Go: password and OAuth accounts, JWT
access and refresh tokens, and "actions", JavaScript snippets that
administrators store and that run before and after registrations and logins.
State lives in PostgreSQL; every HTTP request has its own goroutine; no
transaction spans two statements. Paths below are relative to `src/`.

The models are TLA+ modules checked with TLC on small instances. Theorems about
the sessions, the accounts, both together, the action scripts, the rate limiter, the
OAuth flow, the HTTP pipeline, the start-up and the password hashes are proved with
TLAPS for every value of the constants, in eight proof modules. Every safety property
that holds is a theorem.

## Inventory

### Refresh-token sessions
*Code*: `RefreshToken`, `Logout` and the last part of `Login` and
`ProcessOAuthLogin` in `internal/services/auth_service.go`,
`internal/services/jwt_service.go`,
`internal/repository/postgres/refresh_token_repository_postgres.go`.
*State*: the table `refresh_tokens` (jti, user, expiry); tokens in clients.
*Operations*: store a new token (login); rotate (look up, delete, load the user,
sign, store); log out (delete).
*Interaction*: called by the handlers; uses the users table by id; every
statement is a round trip to the database.
*Hard*: overlapping rotations and logouts of one token, statements that fail or
whose acknowledgement is lost, a process killed between delete and store, answers
that do not reach the client.
*Correct means*: rows and JWTs agree; revoked is for ever; no client holds what
was not stored; a session forks only if its requests overlap.

### Accounts
*Code*: `Register`, `Login`, `ProcessOAuthLogin`, `updateUserFromMap`,
`internal/repository/postgres/user_repository_postgres.go`, migration 000001.
*State*: the table `users`; each request's copy of one row.
*Operations*: run scripts, look up by e-mail, create, compare password or
provider id, write the whole row back, store a session.
*Interaction*: calls the action executor up to twice and stores sessions.
*Hard*: two creations of one e-mail; a failed lookup that passes for "no such
user"; stale full-row writes; scripts that set fields by name; a failure after
the session was stored.
*Correct means*: a session is for the account whose credentials were presented;
registrations that were acknowledged stand; scripts cannot change an account's
e-mail, password, id at its provider or kind, and its provider only by naming one;
a refused password login leaves no session.

### Action scripts
*Code*: `internal/executor/action_executor.go`,
`internal/repository/postgres/action_repository_postgres.go`,
`internal/services/action_service.go`, `internal/handlers/action_handler.go`,
migration 000004.
*State*: the table `actions`; per chain the list that was read, the user map that
was passed in, the result so far; per script its `actionAPI`.
*Operations*: create, update, delete an action; read the active actions of a type
by priority; run each script; combine results.
*Hard*: administrators change actions while chains run; ties in priority; scripts
that call allow and deny repeatedly, throw, change the map in place or hang.
*Correct means*: the verdict and the user map are those the scripts stand for; a
chain allows only if every action that was active allows.

### Rate limiter
*Code*: `internal/middleware/ip_rate_limiter.go`, one per route
(`internal/server/routes.go`).
*State*: `visitors` under a mutex; a `rate.Limiter` per visitor.
*Operations*: `getVisitor` (lock, find or create, unlock), `Allow` (after the
unlock), `cleanupVisitors` every five minutes.
*Hard*: the limiter is used after the mutex is released; forgetting a visitor
forgives its debt unless its limiter is full.
*Correct means*: to its address the limiter is one token bucket that is never
thrown away; whoever stays away is forgotten.

### OAuth web flow and providers
*Code*: `internal/handlers/oauth_handler.go`, `internal/services/oauth2_service.go`,
`GenerateStateToken` and `ValidateStateToken` in `internal/services/auth_service.go`,
`internal/services/oauth_providers/`.
*State*: none on the server; the state token (callback URL, expiry, signature) goes
round with the browser, codes and tokens are the providers'.
*Operations*: begin a flow; on the callback validate the state token, exchange the
code, ask for user info and, at GitHub, for the list of addresses, extract id and
e-mail, log in, redirect.
*Interaction*: HTTP calls to a provider, three at most; then `ProcessOAuthLogin`.
*Hard*: callbacks that are repeated, late, or name another provider than the code's;
answers that fail, are lost after the code was used up, or never come; numbers
decoded to float64; a restart while the browser is away.
*Correct means*: who is logged in is who authorised, with an address the provider
has of that person; a flow that was started can be finished while its time lasts; every
callback ends.

### HTTP pipeline
*Code*: `internal/server/`, `internal/middleware/`, `internal/handlers/`,
`internal/utils/http_response.go`.
*State*: per request, the `responseWriter` with its status; the audit log.
*Operations*: set security headers, audit, route, limit, decode, call a service,
answer.
*Hard*: who writes the status first; answers sent before the record is written;
panics; a process that dies between record and answer.
*Correct means*: log and client agree on the status; what was answered is in the
log; success means that the service said so.

### Start-up, configuration and migrations
*Code*: `script/run-migrations.sh`, `pkg/persistence/sql/migrations/`,
`pkg/persistence/sql/postgres.go`, `cmd/api/main.go`, `internal/server/server.go`,
`internal/config/config.go`, `docker-compose.yml`.
*State*: the container's environment, the schema and its version, the
configuration.
*Operations*: check variables, wait for the database, migrate, load the
configuration, connect, listen.
*Hard*: the database goes away, or the container is killed, between any two steps; a
migration that is half noted; durations that do not parse.
*Correct means*: what serves has the complete schema below it and lifetimes somebody
meant; every start ends.

### Password hashing
*Code*: `internal/utils/hash.go`.
*State*: encoded hashes in the table of users; the parameters compiled in.
*Operations*: make a hash, compare a password with one.
*Hard*: hashes outlive the build that made them.
*Correct means*: a hash accepts the password it was made of and no other, under
every build.

### Roles and logger
*Roles*: two repositories and a migration; nothing constructs the repositories.
*Logger*: a wrapper without behaviour of its own. Neither is modelled.

`PROJECT.json` lists all of them with their sources and status, and under
`hazards` what is hard to test, at its line, with the properties aimed at it.

## Plan

| order | module | what | state |
|---|---|---|---|
| 1 | `SessionLedger`, `RefreshTokens` | sessions: abstract promise and code | done |
| 2 | `Accounts` | Register, Login, ProcessOAuthLogin | done |
| 3 | `ActionExecutor` | scripts, their fetches and their administrators | done |
| 4 | `TokenBucket`, `RateLimiter`, `RateWindow` | limiter: abstract promise, code, and what its clients see | done |
| 5 | `RefreshTokensProofs`, `RateLimiterProofs` | invariants and refinements of both; `RateIsKept` | done |
| 6 | `OAuthFlow` | state token, exchange, callback, what providers answer | done |
| 7 | `AuthService` | composition of `Accounts` and `RefreshTokens` | done |
| 8 | `HttpPipeline`, `Startup` | audit record of every request; a database that has to be there | done |
| 9 | `PasswordHash` | hashes that outlive a build | done |
| 10 | `AccountsProofs`, `AuthServiceProofs` | all safety properties and types of `Accounts`; both components inside the service, its types, credentials behind every token | done |
| 11 | `DeploymentProofs`, `OAuthFlowProofs` | `ServesOnlyMigrated`, `LifetimesAreMeant`, `AcceptsExactlyItsPassword`; `StartedFlowsStand`, `EmailIsProviders`, `LoginIsWhoAuthorised` | done |
| 12 | `ActionExecutorProofs` | all safety properties and types of `ActionExecutor` | done |
| 13 | `HttpPipelineProofs` | all properties of `HttpPipeline` | done |
| 14 | `AuthServiceProofs` | every promise of both components, and the ledger, of the whole service | done |
| 15 | the proof modules of the components with liveness | `ForwardCorrect`: requests only move forward | done |

What is left: the service as a client of `ActionExecutor` and `PasswordHash`, which
`Accounts` stands in for by any verdict and by equality.

## Modules and code

### RefreshTokens
A request is a record: where it is (`pc`), the operation, the token presented,
the token minted. Each database call is one action: `GetByJTI`, `Delete`,
`LoadUserAndSign` (a read, after which signing is local), `Create`, `FinishLogin`
(the write of `last_login`), `Reply`. `LoginSign` stands for a login up to the
token's signature; how it got there is the business of `Accounts`. A token is what
the code reads back from its JWT: `jti` and `sub`. `expires_at` is left out because
no statement reads it; expiry is that of the JWT (`Expire`), checked when a token
is presented.

A statement comes to one of three `Outcomes`: it succeeds, fails without effect,
or takes effect although an error is reported. `Restart` forgets all requests;
`Reply` may lose its answer. `granted`, `spent` and `loggedOut` are history that
no action reads, and so is `course`: "smooth" until a statement fails or is not
acknowledged, an answer is lost or the process restarts. `NobodyLosesASession` and
`NoRowWithoutHolder` are about smooth courses only: the code deletes the old row
before it stores the new one and stores a session before `last_login`, so that a
fault in between does cost a client its session, or leaves a row nobody can use.

### SessionLedger
Begin a session, rotate (only what has been revoked, only for the same user),
revoke (for ever). `RefreshTokens!ImplementsLedger` maps its history onto it;
`TableIsLedger` ties the history to the table.

### Accounts
The three operations share their steps, as the code shares its calls: scripts,
lookup (`Missing`, `LoginFails`, `FoundUser`), `CreateUser`, `UpdateUser` (three
places: `touch` for last_login, `save_pre`, `save_post`), `StoreSession`,
`PostActions`. What differs between them is in `AfterCreate`, `AfterUpdate`,
`AfterSession` and `AfterPost`, which say where an outcome leads. A chain of
scripts is what `ExecuteActions` may return, any verdict with any user map of
`Patches`. The map `[email |-> ..]` the service itself passes in has keys that
name no Go field. The table's constraints (`SchemaAllows`) decide whether a
statement can apply.

Comparing a password with its hash is equality of passwords; GetUserByEmail and
the CPU work between two statements are one step, since nothing else sees the
difference. `intended` is the table as it would be had each update changed only
its own columns, and `clobbered` the rows that were overwritten by a request that
had not seen them. `moved` are the rows for which a script's map named a provider
(`NamesProvider`): `updateUserFromMap` puts id, e-mail and password back, the provider id
is a pointer that reflection passes over, and the table's CHECK keeps passwords and
providers apart, but nothing keeps an OAuth account at its provider.

### ActionExecutor
A script is the sequence of calls it makes: allow, deny, setUser, change (of
`context.user` in place, which the goja VM shares with Go), throw, hang, fetch.
`FetchAPI` is what a fetch may come to: no request made, no answer, a 2xx, another
status; a call with a `when` is made only if the last answer was, or was not, a
success, and `heard` keeps the answers as history. `CallAPI`
executes one call; `FinishScript` combines results and decides whether the chain
goes on. Administrators act between any two calls. `GetActionsByType` may return a
prefix of the list because `rows.Err()` is not asked. `Ran`, `Denies`, `Fails` and
`UserAfter` say what a chain means without running it; `ResultIsMeaning` compares.

### TokenBucket, RateLimiter and RateWindow
Time is a tick; a limiter earns a credit per tick and a request costs
`Interval`. `GetVisitor` and `Allow` are two steps; between them anything may
happen for `Stall` ticks. `CleanupVisitors` is one step because it holds the
mutex. `CleanupAssumption` is what the configured numbers satisfy: 300 s against
50 s to fill (10 s x 5, and 5 s x 10 for `/actions`), which leaves 250 s between
`getVisitor` and `Allow`. TokenBucket is one bucket per address and no clean-up.
Refills are continuous in the library; counting them in ticks loses what happens
between two ticks.

RateWindow adds an observer to RateLimiter, in which nothing depends on it: somebody
begins to watch an address (`Watch`), at any moment, and `Allow` notes in `window` how
many requests of that address got through since, and how long the address had waited if
it was refused before anything got through. After `MaxWindow` ticks the observer begins
anew. `RateIsKept` says what the numbers of `routes.go` mean to a client: in any
window, however long, no more than a burst and one request per interval get through, and
an address that has kept still for an interval is not refused.

### OAuthFlow
One action per call to a provider. A state token is a record with its expiry and the
secret it was signed with, which is compiled in: one `Restart` shows that a new
process accepts the tokens of the one before. It also means that the server accepts
tokens it did not make (`OtherStates`), with any URL and any or no expiry, if they are
signed with that secret; where tokens are sent is therefore up to whoever made the state
token, and no property speaks of it. A state token that is not valid is answered at once
and is left out.

The providers (external) issue codes that work once, and their user info may name any
address they have of a person, verified or not (`UserInfos`): the code never reads
Google's `verified_email`. Only GitHub's list of addresses, which is asked where the user
info has none, is searched for a verified one. `told` is history: the address that came
with the user info. `Float` is what decoding JSON does to GitHub's numeric id: the
nearest float64, ties to even, with `Mantissa` bits; `FlowAssumption` says that real ids
fit, up to and including 2^Mantissa. `Hang` is a provider that never answers, which no
timeout ends. `ProcessOAuthLogin` is one step, which may also never come back from a
script; `Accounts` takes it apart.

### AuthService
`Accounts` and `RefreshTokens` together, by INSTANCE. Every step is one of the first
or leaves it alone, and one of the second or leaves it alone, so what is shown of
either holds here. A login is one request of both: Accounts finds the user,
`SignToken` takes its id for the subject, `StoreToken` is the INSERT both see,
`AfterToken` answers with the token only if the call succeeds. A rotation loads its
user from the table of Accounts, in which rows are never deleted. `minted` is
history: every token with the call its session goes back to.

### HttpPipeline
The stages a request passes, with the `responseWriter` of the audit middleware:
`WriteHeader` and `Write` with their flag, `NetWriteHeader` for net/http below
(external), which takes the headers along with the first status. `Route` answers
unknown paths, methods and unclean paths itself. An answer goes out when the
outermost handler has returned, or earlier where it exceeds net/http's buffer. A
handler may panic or hang; `Restart` loses what is under way. Whether the limiter
allows a request and how a service ends are left open: other modules say more.

### Startup
`run-migrations.sh` and `main` step by step: `CheckEnvVars`, `WaitForPostgres` (a
probe and a second of sleep), `MigrateUp`, `ApplyMigration`, `MarkClean` (the
external tool notes a version as dirty, applies it, notes it as clean), `Connect`
(`config.Load`, then Ping), `Listen`. The database goes and comes back, the container
is killed and started again, with another environment. `Parsed` is what becomes of a
lifetime that is set, unset or does not parse, as the default "7d" does not.

### PasswordHash
An encoded hash is the sequence of its parts between "$" signs; a part that does not
parse is a record without the fields that `decodeHash` looks for. `Deploy` replaces
the build, that is the default parameters, while the hashes stay, and a hash is compared
under the parameters written in it. argon2 (external) gives different keys for different
arguments. `Foreign` are hashes that `decodeHash` gives up on (`ForeignAssumption`).

## Runs

| run | configuration | shows |
|---|---|---|
| `sessions` | `MCRefreshTokens.cfg` | table, logouts, forks, lost sessions and rows: 1 user, 4 jtis, 2 requests, 1.3 M states |
| `sessions_refine` | `MCRefreshTokensRefines.cfg` | inductive invariant (types, and that holders hold what was stored, are parts of it), refinement, every request ends: 2 users, 2 jtis, 2 requests |
| `service` | `MCAuthService.cfg` | tokens go back to credentials: 2 calls, 1 stream of rotations and logouts, 3 jtis, 2 e-mails, 2 providers with the same provider id, a user map that names a provider |
| `accounts` | `MCAccounts.cfg` | 3 concurrent calls for one e-mail, two passwords, one provider |
| `accounts_identity` | `MCAccountsIdentity.cfg` | 2 calls, two e-mails, providers and provider ids, user maps that name identity fields; every call ends |
| `scripts` | `MCActionExecutor.cfg` | chains of two, thirteen kinds of action; every chain ends |
| `scripts_changes` | `MCActionExecutorChanges.cfg` | violation: see Findings |
| `limiter` | `MCRateLimiter.cfg` | inductive invariant, the rate as a client sees it, refinement, visitors are forgotten: 2 addresses, 3 limiters, 2 requests, `Full` 4, `Cleanup` 4, `Stall` 1, windows of 2 ticks |
| `oauth` | `MCOAuthFlow.cfg` | 2 callbacks at a time, 2 people, 2 codes, state tokens that live 1 tick, one without expiry and one with another secret from elsewhere, verified and unverified addresses, ids at the edge of a mantissa of 3 bits; every callback ends |
| `http` | `MCHttpPipeline.cfg` | 2 requests, all routes and none, a restart |
| `startup` | `MCStartup.cfg` | 3 starts, 2 outages, 4 migrations, a wait of 3 seconds; every start ends |
| `passwords` | `MCPasswordHash.cfg` | 2 passwords, 2 salts, 4 builds, 6 hashes of other origin or damaged |

*Why the bounds are enough.* Sessions: a fork needs one token and two requests
that overlap, and a third and fourth jti give each branch a further rotation; users
only matter for the agreement of rows and subjects, hence the second run.
`Jtis` bounds the tokens ever minted; when it runs out no login can start, which
is why deadlock is not checked there. The theorems cover all sizes. Service: two
calls make two accounts or compete for one, and a third jti lets a rotation follow;
with one id at two providers only the provider's name tells two callers apart, and a
script can move an account from one to the other.
Accounts: requests serve one call each (deadlock is therefore not checked); a race
needs two calls and a third observes or adds an overlapping write; two passwords
tell two callers apart; the second run has enough addresses and identities for
scripts to mix up. Scripts: a chain of two has an earlier and a later script, and a
script sees nothing of the scripts before it but the result so far and the map, so a
third adds no new situation; runs share nothing but the table, so one run suffices.
Deadlock is not checked in `scripts` because a script may hang. Limiter: the numbers
meet `CleanupAssumption` with equality, so that a tick less breaks it; two
limiters would do for two visitors, and the third is for a request left with one that its
address no longer has, as a clean-up too early would leave it; a window
of two ticks is an interval, after which an address that kept still must get through, and
a window of no ticks sees a debt forgiven too early. OAuth: two callbacks can race for one
code or mix up two; one tick is enough for a state token to expire while a callback
is under way; 7 and 8 are the last numbers that three bits tell apart from their
neighbours, as 2^53 - 1 and 2^53 are for float64. Deadlock is not checked: time,
codes and the restart run out. HTTP: requests share only the audit log and the fate
of the process, so two suffice; they serve one request each. Startup: after the
second outage and the third start nothing new can happen to a schema of four
migrations, since every interruption leaves it in one of the states between two
steps; the container may stop for good. Passwords: two hashes, checked by every build.

*Symmetry* is used where the members of a set are only compared, and never in a
run with a liveness property.

*Mutants.* For every property of every passing run `PROJECT.json` names a change
to a mapped definition (a dropped error check, a comparison off by one, a missing
ORDER BY) with which TLC finds the property violated. The mutated forms are
marked `(mutant)` in the modules.

*Types.* Type correctness is part of the invariant a run checks: `Inductive` contains
`IInv` and with it `TypeOK` in `RefreshTokens` and `RateWindow`, and
`AuthService!TypeOK` contains that of `Accounts`.

### Fairness
`Serve` (sessions, accounts, OAuth) is weakly fair per request: a goroutine that can
run does, and the database driver returns, with an error if need be, as database/sql
does when a connection breaks. A provider need not answer: `Hang` is not part of
`Serve`, and `EveryCallbackEnds` excepts a callback that hangs, at a provider or in a script.
Presenting tokens,
new calls, restarts and expiry are the environment's and have no fairness.
`accounts_identity` also takes scripts to return; that they may not is the subject of
`EveryChainEnds`, whose promise excepts a script stuck in a call, because the code
sets no timeout anywhere. For the limiter, time goes on, the clean-up goroutine runs
when it is due, and a request that has its limiter asks it; the observer of `RateWindow`
has no fairness (`FairWatchedSpec`). `Startup` takes the
script and the server to keep running (`Boot`), not the database to come up.

### Findings
`ChangesSurvive` states what three comments of `auth_service.go` say (lines 109,
140, 426): the changes of pre- and post-actions are applied. The executor replaces
the user map by that of the last script that ran
(`internal/executor/action_executor.go:88`), and each script starts with the
caller's map (line 127); if a later script of the chain does not call `setUser`, an
earlier one's is dropped. Changes made to `context.user` in place survive.

Noted on the way, each within the bounds of a property that holds: a fault between
deleting and storing a refresh token costs the client its session
(`auth_service.go:296-316`; `NobodyLosesASession` holds on smooth courses only); a
login whose last write fails leaves a session nobody can use (`:231`;
`NoRowWithoutHolder`, and `FailedCallsGiveNoToken`); rows of expired tokens are never
removed; an OAuth code whose exchange went unanswered is used up; the default "7d" of
the refresh token's lifetime does not parse, and a constant of seven days stands in
for it (`LifetimesAreMeant`); the column default `is_active TRUE` of migration 000001
never applies, because the INSERT always passes a value, FALSE for a registration;
a script whose user map has a `Provider` moves an OAuth account to that provider with its
id unchanged, and the next login through its former provider is refused
(`auth_service.go:243-265, 413`; `IdentityStable`, `SessionMatchesAccount` and
`HoldersPresentedCredentials` except the provider of such accounts, `moved`); an address that Google says is not
verified is taken like any other and its account is created as verified
(`internal/services/oauth_providers/google_provider.go:19-24`, `auth_service.go:400-409`;
`EmailIsProviders` says no more than that it is an address of the person); a state token
signed elsewhere with the compiled-in secret is as good as the server's own
(`auth_service.go:20`, where a TODO asks for another secret).

## Proofs

All obligations are checked by tlapm with its SMT backend, Zenon and LS4.

**Sessions** (`RefreshTokensProofs`). Assumed: `NoTokenAssumption` (the null value is
not a token).
`IInv` strengthens the safety properties by what a request relies on while others
run: each jti belongs to one token (`OneTokenPerJti`), a request that is about to
store has a token that nobody else stores and that was never stored
(`InStep`, `NoSharedNew`), one past its delete presents a spent token, and
everything held, spent or in the table was granted. Without freshness a deletion
by jti could remove another token's row and `TableIsLedger` would not be inductive;
without "past its delete is spent" the rotation of the ledger could not be
shown. There is one lemma per action; from the theorem `Invariance` follow
`TypeCorrect`, `TableCorrect`, `HeldCorrect`, `LateCorrect`, `LogoutCorrect`, and,
with it, `Implementation`: `Create` maps to `Begin` or `Rotate`, `Delete` to
`Revoke` or a stutter (the token was gone already), all other steps to stutters.

**Forks** (`RefreshTokensProofs`). Assumed besides: `RequestsAssumption` (the
requests are finitely many). `ForksOnlyByOverlap` counts successors and needs to count
also who may still add one: `ForkInv` says that a token not yet spent has no successor,
and that the successors of a spent one together with the requests between their
lookup and their INSERT (`Rotating`) are at most as many as there are requests.
Deleting spends the token and is done by one of those requests; storing turns a
member of `Rotating` into a successor; no request enters `Rotating` afterwards,
because the lookup of a spent token fails.

**Smooth courses** (`RefreshTokensProofs`). `CalmInv` adds that what is spent was
held, that the answer of a rotation under way is in the history, that every spent
token is `Continued` (logged out, succeeded by a token somebody holds, or at a
request on the way there) and every row `Owned`. Each step is shown to keep both
for every request it does not end (`Kept`). The theorem `InductiveHolds` joins all
three invariants to `Inductive`, which `sessions_refine` checks.

**Rate limiter** (`RateLimiterProofs`). Assumed: `LimiterAssumption` (ranges of the constants) and
`CleanupAssumption` (`Cleanup + 1 >= Full + Stall`). The invariant's core: a visitor
whose limiter holds `c < Full` credits was seen at most `c + Stall` ticks ago, since
credits were earned in all ticks after it was spent; and a request under way has its
visitor seen since. Hence a visitor idle for more than `Cleanup` ticks has a full
limiter and no request (`StaleIsFull`), so the clean-up is invisible.
`Implementation` follows: `Allow` maps to `Admit` of the address or a stutter,
`Tick` to `Tick`, `GetVisitor` and `CleanupVisitors` to stutters.

`RateCorrect` is about `WatchedSpec`, whose behaviours are those of the limiter
(`WatchedImplements`), and assumes `WindowAssumption` besides. `WindowInv` adds up:
what got through in a window was paid for, so its cost and the credit the address has
left are at most a full bucket and what was earned since. And as long as nothing got
through, the bucket is full or holds at least a credit for each tick of the window, since
no clean-up takes one away; so a refusal means that the window is younger than an
interval. `InductiveHolds` is what the run checks.

**Accounts** (`AccountsProofs`). Assumed: `AccountsAssumption` (no provider is called
"password", and the null value is nothing else). The core of `AccountsInv`: a request
past its lookup or its INSERT works on a copy of a row that has the e-mail and the
credentials its call presented (`Owns`), and what it last read or wrote is that copy,
so that whoever overwrites a row unseen is in `clobbered`. Every step keeps
e-mail, password, provider id and kind of every row (`Keeps`), since user maps cannot
change those and the table has one row for each id; so what one request relies on survives the steps of all others
(`StepKeeps`). Two registrations of an e-mail cannot both be past their INSERT,
because it is unique.

What that leaves out is the provider's name, since maps can reach it. `ProviderInv` says
that an account which no map has moved is still at the provider that its callers named:
of a copy at work (`OfCaller`) and of every row with the caller's e-mail (`AllOfCaller`),
which is where a request finds its account whatever happened in between. It needs `moved`
because a request may write back a copy it read before another one's script moved the
account, and the account stays `moved` all the same. `ProviderInvariance` is the theorem;
with it `IdentityCorrect`, `SessionCorrect`, `RegisteredCorrect`,
`LostUpdatesCorrect`, `RefusedCorrect` and `PanicsCorrect` follow.

Types need an invariant of their own, `TypeInv`: `TypeOK` allows a request to have no
call, user or map, but a request that goes on uses them. `TypeCorrect` is about
`TypedPatches`: reflection skips a value that a field cannot have
(`auth_service.go:248-261`), so user maps are modelled without such values. Every
configuration of `Accounts` and `AuthService` is checked to meet it.

**The service** (`AuthServiceProofs`). Assumed: `ServiceAssumption`. `AccountsInside`
and `TokensInside`: the service implements each of its components, so that
`AccountsInv` holds in it (`AccountsHold`); the `Same..` lemmas say that the instance
with the theorems is the one the service runs. `AuthInv` adds that a token goes back to
one call only (`OneCallEach`, because a jti is drawn once), that the call presented the
credentials of the token's account (`MintOK`), and that tokens held, presented or about
to be sent go back to calls that succeeded (`Earned`). Answers are final and rows keep
their identity, so both survive every later step. `HoldersCorrect` and
`FailedCallsCorrect` follow. `TokensHold` brings the invariant of the sessions, forks
and smooth courses in too; for it `ServiceAssumption` says what
`NoTokenAssumption` and `RequestsAssumption` say there. `PhaseInv` ties the two
records of one login together: its token is about to be stored when the call is about
to store its session, and waits for `last_login` while the call is past it
(`Trailing`). With it the types of both components give those of the service
(`TypeCorrect`, for `TypedPatches`): a token's subject is the id of a row, and what is
noted in `minted` is a call.

What was shown of a component alone is thereby a theorem of the whole service:
`ServiceKeepsIdentity` and `ServiceKeepsAccounts`, `ServiceKeepsTokens`,
`ServiceMovesForward`, and the refinement, `ServiceImplementsLedger`: accounts, scripts
and failures around it do not keep the service from being a ledger of sessions.

**OAuth flow** (`OAuthFlowProofs`). Assumed: `FlowAssumption`. `FlowInv`: every state
token the server made has the secret all its processes have; and what a callback learnt
from the provider is about the person of its code (`AboutPerson`), its provider being that
of its token and its code, because a code is redeemed only where it was issued. For the
address it says where it came from (`AddressOf`): from the user info, or from GitHub's
list after a user info without one, which is why a callback that asks for the list has
been told none. `StartedCorrect` and `EmailCorrect` follow. For `LoginCorrect` a number must come back from float64 as it
went (`NumbersAreExact`), which is so below 2^Mantissa because there neighbours are at
most one apart (`SmallIsExact`), and for 2^Mantissa itself because it is even
(`BoundaryIsExact`). The prover does not know what ^ means; the theorem has that,
`PowersOfTwo`, for its hypothesis. With no bits at all 1 would be read as 0, so
`FlowAssumption` asks for one at least; float64 has 53.

**HTTP pipeline** (`HttpPipelineProofs`). Nothing is assumed. `PipelineInv` follows a
request through its stages (`RequestOK`): nothing is written before its answer; from
then on the status the wrapper keeps is the one net/http took from the first write,
with the security headers, and it says what the service said (`Written`); a record
(`RecordOK`) or an answer (`AnswerOK`) has that status for good, also after the
request is lost. It is needed because the properties speak of records and answers
only, which two different steps write, at times that panics, early answers and a
restart decide. `AuditCorrect`, `RecordedCorrect`, `SuccessCorrect` and
`SecuredCorrect` follow.

**Action scripts** (`ActionExecutorProofs`). Assumed: `ExecutorAssumption`. The
properties compare a finished chain with what its scripts mean, which is defined
without running them. `ExecutorInv` says it of a chain half run: after m calls of
script n, the script's verdict, message and map are those of the last of the m calls
to set each (`VerdictSoFar`, `MessageSoFar`, `UserSoFar`), the keys changed in place
are those of all calls so far, the result so far is that of the n - 1 scripts before
(`ResultAfter`), of which none stopped the chain, and what was read of the table is
everything before it in priority (`ReadOK`). Answers to fetches come only from calls
already made (`HeardOK`), so that what is heard next changes the meaning of no call of
the past. This invariant carries the induction over the length of scripts and chains,
which are unbounded, from step to step. That there is a last call among finitely many
(`LastExists`), and that the rows can be read in the order of their priority
(`OrderingsAreComplete`: none is lost by the order), are lemmas. `TypeCorrect`,
`MeaningCorrect`, `AllowedCorrect` and `RefusalCorrect` follow.

**Start-up** (`DeploymentProofs`). Assumed: `StartupAssumption`. `SchemaInv` says that the
migrations that took effect are those up to the noted version, but perhaps for the last
while it is dirty, and ties the steps of the container to which of both it is. It is
needed because an interruption may leave any step's schema to a later start; that the
tool refuses a dirty schema is what makes it inductive. `ServesCorrect` follows.
`ConfigInv` says that a server that listens has loaded the environment of its own
start, though an earlier one may have had another; `LifetimesCorrect` follows.

**Password hashing** (`DeploymentProofs`). Assumed: `BuildsAssumption` (the parameters
have the types of the Go fields) and `ForeignAssumption`. `HashInv` says that every hash
is the encoding of its password's key under the parameters of some build, not necessarily
the one that runs, and that the last verdict is still what comparing would say. It rests on
`ReadsBack`: decoding gives the parameters, salt and key that were encoded, so that the key
is made again with the arguments it was made with (`VerdictOnMade`). `PasswordsCorrect`
follows.

**Only forward.** The safety half of the liveness properties is proved, in the proof
modules of the sessions, the accounts, the OAuth flow and the scripts (`ForwardCorrect`):
each step of a request, call or callback leaves it fewer steps to go (`StepsLeft`: at
most six, seven and five) and others' steps leave it alone, so that nothing is done twice
and nothing retried; the answer of an account call is final. A chain of scripts moves on by a call
or a script in a list of finite length (`PlacesAreBounded`). What is left to TLC is that
these steps are taken.

**Only model-checked.** All liveness (`EveryRequestEnds`, `EveryChainEnds`,
`VisitorsAreForgotten`, `EveryCallbackEnds`, `EveryStartEnds`): fairness and ENABLED
are out of the prover's reach. `ChangesSurvive`, which does not hold, is for TLC to
refute. All other properties of the runs are theorems.

## Not modelled
*Roles*: dead code; no program behaviour reaches it. *Logger*: none of its own.
*Operations nobody calls*: `DeleteAllForUser`, `DeleteUser`. *Configuration*: the
variables other than the two lifetimes are copied as they are. *Start-up*: the check
that two commands are installed, which the Dockerfile decides. *Scripts*: what a fetch
does to the world outside; log and console. *HTTP*: bodies, and the fields of the audit
record other than the status. *Signatures*: a refresh token a client presents is one the
service signed, others are refused with no effect; of state tokens see `OAuthFlow`.
*Access tokens* are signed but read nowhere in the code. Names in X-Forwarded-For are
opaque.
