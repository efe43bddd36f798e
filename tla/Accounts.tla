------------------------------- MODULE Accounts -------------------------------
(***************************************************************************)
(* User accounts: Register, Login and ProcessOAuthLogin of authService over *)
(* the users table and its constraints, with the user-written action       *)
(* scripts that run before and after each of them.                         *)
(*                                                                         *)
(* Every database call is a step, as in RefreshTokens; it may fail, or take *)
(* effect although an error is reported.  A request works on its own copy  *)
(* of the row (a models.User) and UpdateUser writes the whole copy back, so *)
(* that a request may write over what another one wrote meanwhile.         *)
(*                                                                         *)
(* A run of scripts is what ExecuteActions returns for it: a verdict and   *)
(* the user map, a function from Go field names to values.  A password     *)
(* hash stands for the password it verifies, last_login for whether it is  *)
(* set; created_at and updated_at are left out.                            *)
(***************************************************************************)
EXTENDS Naturals, FiniteSets

CONSTANTS
  Ids,          \* values uuid_generate_v4() may draw, more than there are e-mails
  Emails,
  Passwords,
  Providers,    \* the OAuth providers
  ProviderIDs,  \* account ids at a provider
  Patches,      \* user maps the scripts may produce
  Requests,     \* requests ever made, each serves one call
  Nil

ASSUME AccountsAssumption ==
  /\ "password" \notin Providers
  /\ Nil \notin Ids \cup Passwords \cup ProviderIDs \cup Patches

User == [ID : Ids \cup {Nil}, Email : Emails, Password : Passwords \cup {Nil},
         IsActive : BOOLEAN, IsVerified : BOOLEAN,
         Provider : Providers \cup {"password"}, ProviderID : ProviderIDs \cup {Nil},
         LastLogin : BOOLEAN]

\* What user maps are when scripts give fields only values that they can have:
\* reflection skips other ones, a number for "IsActive" say, so that a map is
\* taken without them; Providers has every name that a script gives a provider.
TypedPatches ==
  \A m \in Patches :
    /\ "Provider" \in DOMAIN m => m["Provider"] \in Providers \cup {"password"}
    /\ "IsActive" \in DOMAIN m => m["IsActive"] \in BOOLEAN
    /\ "IsVerified" \in DOMAIN m => m["IsVerified"] \in BOOLEAN

VARIABLES
  users,      \* the table: a set of rows
  req,        \* the local state of every request
  \* History, read by no action:
  sessions,   \* refresh tokens stored, as [req, user] pairs
  intended,   \* the rows, had every update been applied field by field
  clobbered,  \* ids of rows written over by a request that had an old copy
  moved       \* ids of rows for which a script's user map named a provider

vars == <<users, req, sessions, intended, clobbered, moved>>
database == <<users, intended, clobbered, moved>>

Answers == {"ok", "error", "panicked", "lost"}
Steps == {"new", "lookup", "create", "touch", "save_pre", "session", "post", "save_post"}

Call == [op : {"register", "login", "oauth"}, Email : Emails,
         Password : Passwords \cup {Nil}, Provider : Providers \cup {"password"},
         ProviderID : ProviderIDs \cup {Nil}]

\* call: what was asked; map: the user map to apply; user: the copy of the
\* row; seen: the row as this request last read or wrote it; refused: whether
\* some run of scripts denied or failed.
NewRequest == [pc |-> "new", call |-> Nil, map |-> Nil, user |-> Nil, seen |-> Nil,
               refused |-> FALSE]

Init ==
  /\ users = {}
  /\ req = [r \in Requests |-> NewRequest]
  /\ sessions = {}
  /\ intended = {}
  /\ clobbered = {}
  /\ moved = {}

At(r, pc) == req[r].pc = pc
Op(r) == req[r].call.op

-----------------------------------------------------------------------------
(* The users table. *)

Outcomes == {"ok", "failed", "unacknowledged"}
Applied(o) == o # "failed"
Err(o) == o # "ok"

\* (mutant) The CHECK is gone.
AuthenticableAnyhow(u) == TRUE

\* chk_authentication_method.
Authenticable(u) ==
  IF u.Provider = "password" THEN u.Password # Nil /\ u.ProviderID = Nil
                             ELSE u.Password = Nil /\ u.ProviderID # Nil

\* id PRIMARY KEY, email UNIQUE, UNIQUE (provider, provider_id) where NULLs
\* never collide.
SchemaAllows(table) ==
  /\ \A u \in table : Authenticable(u)
  /\ \A u, v \in table : u # v =>
       /\ u.ID # v.ID
       /\ u.Email # v.Email
       /\ u.ProviderID # Nil => <<u.Provider, u.ProviderID>> # <<v.Provider, v.ProviderID>>

ByEmail(email) == {u \in users : u.Email = email}

Settable == {"ID", "Email", "Provider", "IsActive", "IsVerified"}

\* (mutant) The identity is not put back.
updateUserUnrestored(user, updates) ==
  [f \in DOMAIN user |-> IF updates # Nil /\ f \in DOMAIN updates \cap Settable
                            THEN updates[f] ELSE user[f]]

\* Reflection sets the fields of kind string and bool that the map names;
\* pointers stay, and the identity is put back.
updateUserFromMap(user, updates) ==
  LET updated == [f \in DOMAIN user |->
                    IF updates # Nil /\ f \in DOMAIN updates \cap Settable
                      THEN updates[f] ELSE user[f]]
  IN  [updated EXCEPT !.ID = user.ID, !.Email = user.Email, !.Password = user.Password]

\* What the UpdateUser of this step is to change about a row.
Change(q, u) == IF q.pc = "touch" THEN [u EXCEPT !.LastLogin = TRUE]
                                  ELSE updateUserFromMap(u, q.map)

Rewrite(table, id, q) == {IF u.ID = id THEN Change(q, u) ELSE u : u \in table}

\* UPDATE users SET every column WHERE id.
Overwrite(table, new) == {IF u.ID = new.ID THEN new ELSE u : u \in table}

-----------------------------------------------------------------------------
(* Scripts. *)

\* What ExecuteActions may come to.  same: the map is still the one the scripts
\* were given, be it changed in place, so that DeepEqual finds no difference.
Results ==
  {res \in [verdict : {"allow", "deny", "error"}, map : Patches \cup {Nil}, same : BOOLEAN] :
     res.map = Nil => ~res.same}

Refuses(res) == res.verdict # "allow"

-----------------------------------------------------------------------------
(* Requests. *)

Become(r, q) == req' = [req EXCEPT ![r] = q]

\* The handler answers; the local variables are gone.
End(q, answer) == [q EXCEPT !.pc = answer, !.map = Nil, !.user = Nil, !.seen = Nil]

Goto(q, pc) == IF pc \in Answers THEN End(q, pc) ELSE [q EXCEPT !.pc = pc]

\* The pre-register or pre-login scripts run first and may refuse the call;
\* Login has no use for their user map.
PreActions(r, call) ==
  /\ At(r, "new")
  /\ \E res \in Results :
       LET q == [NewRequest EXCEPT !.call = call] IN
       Become(r, IF Refuses(res) THEN End([q EXCEPT !.refused = TRUE], "error")
                 ELSE [q EXCEPT !.pc = "lookup",
                                !.map = IF call.op = "login" THEN Nil ELSE res.map])
  /\ UNCHANGED <<database, sessions>>

PasswordCall(op, e, p) ==
  [op |-> op, Email |-> e, Password |-> p, Provider |-> "password", ProviderID |-> Nil]

Register(r) ==
  \E e \in Emails, p \in Passwords : PreActions(r, PasswordCall("register", e, p))

Login(r) ==
  \E e \in Emails, p \in Passwords : PreActions(r, PasswordCall("login", e, p))

ProcessOAuthLogin(r) ==
  \E e \in Emails, provider \in Providers, pid \in ProviderIDs :
    PreActions(r, [op |-> "oauth", Email |-> e, Password |-> Nil,
                   Provider |-> provider, ProviderID |-> pid])

\* The row a call creates: active and verified only when a provider vouches.
NewUser(call) ==
  [ID |-> Nil, Email |-> call.Email, Password |-> call.Password,
   IsActive |-> call.op = "oauth", IsVerified |-> call.op = "oauth",
   Provider |-> call.Provider, ProviderID |-> call.ProviderID, LastLogin |-> FALSE]

\* No such account, or the lookup failed: both make Register and
\* ProcessOAuthLogin create one.  Register applies the pre-register map first.
Missing(r) ==
  LET q == req[r]
      new == NewUser(q.call) IN
  /\ At(r, "lookup") /\ Op(r) # "login"
  /\ Become(r, IF Op(r) = "register"
                 THEN [q EXCEPT !.pc = "create", !.user = updateUserFromMap(new, q.map),
                                !.map = Nil]
                 ELSE [q EXCEPT !.pc = "create", !.user = new])
  /\ UNCHANGED <<database, sessions>>

\* Login answers alike for an unknown e-mail, a failed lookup, a wrong password.
LoginFails(r) ==
  /\ At(r, "lookup") /\ Op(r) = "login"
  /\ Become(r, End(req[r], "error"))
  /\ UNCHANGED <<database, sessions>>

\* (mutants) No check, or only the provider is checked, not the id there.
SameAccountUnchecked(user, call) == TRUE
SameProvider(user, call) == user.Provider = call.Provider

SameAccount(user, call) ==
  user.Provider = call.Provider /\ user.ProviderID = call.ProviderID

\* GetUserByEmail finds the account.  Login dereferences its password hash
\* also where there is none.
FoundUser(r) ==
  LET q == req[r] IN
  /\ At(r, "lookup")
  /\ \E u \in ByEmail(q.call.Email) :
       LET have == [q EXCEPT !.user = u, !.seen = u] IN
       Become(r,
         CASE Op(r) = "register" -> End(q, "error")
           [] Op(r) = "login" -> IF u.Password = Nil THEN End(q, "panicked")
                                 ELSE IF u.Password = q.call.Password THEN Goto(have, "post")
                                 ELSE End(q, "error")
           [] Op(r) = "oauth" -> IF SameAccount(u, q.call) THEN Goto(have, "touch")
                                 ELSE End(q, "error"))
  /\ UNCHANGED <<database, sessions>>

\* ProcessOAuthLogin applies the pre-login map once the row is there.
BeforeSession(q) == IF q.map # Nil THEN "save_pre" ELSE "session"

\* (mutant) Register drops the error of the INSERT.
AfterCreateUnchecked(q, o) ==
  IF q.call.op = "register" THEN "post" ELSE IF Err(o) THEN "error" ELSE BeforeSession(q)

AfterCreate(q, o) ==
  IF Err(o) THEN "error" ELSE IF q.call.op = "register" THEN "post" ELSE BeforeSession(q)

CreateUser(r) ==
  LET q == req[r] IN
  /\ At(r, "create")
  /\ \E o \in Outcomes, id \in Ids \ {u.ID : u \in users} :
       LET new == [q.user EXCEPT !.ID = id] IN
       /\ Applied(o) => SchemaAllows(users \cup {new})
       /\ IF Applied(o) THEN users' = users \cup {new} /\ intended' = intended \cup {new}
                        ELSE UNCHANGED <<users, intended>>
       /\ Become(r, Goto([q EXCEPT !.user = new, !.seen = new], AfterCreate(q, o)))
  /\ UNCHANGED <<sessions, clobbered, moved>>

\* (mutant) A failed update is tried again, and again.
AfterUpdateRetrying(q, o) ==
  IF Err(o) THEN q.pc ELSE IF q.pc = "save_post" /\ q.call.op = "login" THEN "session" ELSE "ok"

\* Updates that fail after the account or the session is there are logged only.
AfterUpdate(q, o) ==
  CASE q.pc = "save_post" /\ q.call.op # "login" -> "ok"
    [] q.pc = "save_post" /\ q.call.op = "login" -> IF Err(o) THEN "error" ELSE "session"
    [] q.pc = "touch" /\ q.call.op = "login" -> IF Err(o) THEN "error" ELSE "ok"
    [] q.pc = "touch" /\ q.call.op = "oauth" -> IF Err(o) THEN "error" ELSE BeforeSession(q)
    [] q.pc = "save_pre" -> IF Err(o) THEN "error" ELSE "session"

\* (mutant) Login forgets "user = updatedUser".
StaleCopy(user, updated) == user

\* The copy the request goes on with once it was written.
Copy(user, updated) == updated

\* The map that this step applies has a provider for the row.
NamesProvider(q) == q.pc # "touch" /\ q.map # Nil /\ "Provider" \in DOMAIN q.map

UpdateUser(r) ==
  LET q == req[r]
      new == Change(q, q.user)
      table == Overwrite(users, new) IN
  /\ q.pc \in {"touch", "save_pre", "save_post"}
  /\ \E o \in Outcomes :
       /\ Applied(o) => SchemaAllows(table)
       /\ IF Applied(o)
            THEN /\ users' = table
                 /\ intended' = Rewrite(intended, new.ID, q)
                 /\ clobbered' = IF q.seen \in users THEN clobbered
                                                     ELSE clobbered \cup {new.ID}
                 /\ moved' = IF NamesProvider(q) THEN moved \cup {new.ID} ELSE moved
            ELSE UNCHANGED database
       /\ Become(r, Goto([q EXCEPT !.user = Copy(q.user, new), !.seen = new],
                         AfterUpdate(q, o)))
  /\ UNCHANGED sessions

AfterSession(q) == IF q.call.op = "login" THEN "touch" ELSE "post"

\* GenerateRefreshToken and refreshTokenRepo.Create.
StoreSession(r) ==
  LET q == req[r] IN
  /\ At(r, "session")
  /\ \E o \in Outcomes :
       /\ sessions' = IF Applied(o) THEN sessions \cup {[req |-> r, user |-> q.user.ID]}
                                    ELSE sessions
       /\ Become(r, IF Err(o) THEN End(q, "error") ELSE Goto(q, AfterSession(q)))
  /\ UNCHANGED database

\* (mutant) Login overlooks the verdict of its post-login scripts.
AfterPostUnchecked(q, res) ==
  IF q.call.op = "login"
    THEN IF res.same THEN "session" ELSE "save_post"
    ELSE IF res.verdict = "error" \/ res.map = Nil THEN "ok" ELSE "save_post"

\* Where the post-register and post-login scripts lead.  Login obeys their
\* verdict, and looks at the map only if it is another one than it passed in.
\* Register and ProcessOAuthLogin only log a verdict, and save whatever map
\* there is unless the scripts failed.
AfterPost(q, res) ==
  IF q.call.op = "login"
    THEN IF Refuses(res) THEN "error" ELSE IF res.same THEN "session" ELSE "save_post"
    ELSE IF res.verdict = "error" \/ res.map = Nil THEN "ok" ELSE "save_post"

PostActions(r) ==
  LET q == req[r] IN
  /\ At(r, "post")
  /\ \E res \in Results :
       LET to == AfterPost(q, res) IN
       Become(r, Goto([q EXCEPT !.map = IF to = "save_post" THEN res.map ELSE Nil,
                                !.refused = q.refused \/ Refuses(res)], to))
  /\ UNCHANGED <<database, sessions>>

\* The server process dies: the requests under way get no answer.
Restart ==
  /\ \E r \in Requests : req[r].pc \in Steps \ {"new"}
  /\ req' = [r \in Requests |-> IF req[r].pc \in Steps \ {"new"} THEN End(req[r], "lost")
                                                                 ELSE req[r]]
  /\ UNCHANGED <<database, sessions>>

Serve(r) ==
  \/ Missing(r)
  \/ LoginFails(r)
  \/ FoundUser(r)
  \/ CreateUser(r)
  \/ UpdateUser(r)
  \/ StoreSession(r)
  \/ PostActions(r)

Next ==
  \/ \E r \in Requests : Register(r) \/ Login(r) \/ ProcessOAuthLogin(r) \/ Serve(r)
  \/ Restart

Spec == Init /\ [][Next]_vars

\* Scripts and database calls return.
FairSpec == Spec /\ \A r \in Requests : WF_vars(Serve(r))

-----------------------------------------------------------------------------
(* Properties. *)

\* Every variable has its type, and the table meets its constraints
\* (000001_create_users_table.up.sql).
TypeOK ==
  /\ users \subseteq User /\ SchemaAllows(users)
  /\ req \in [Requests ->
       [pc : Steps \cup Answers, call : Call \cup {Nil}, map : Patches \cup {Nil},
        user : User \cup {Nil}, seen : User \cup {Nil}, refused : BOOLEAN]]
  /\ sessions \subseteq [req : Requests, user : Ids]
  /\ intended \subseteq User
  /\ clobbered \subseteq Ids
  /\ moved \subseteq Ids

\* Whatever the scripts put into the user map and whoever writes a stale row
\* back, an account keeps its e-mail, its password, its id at the provider and
\* its kind (password or OAuth), and it is never lost; the provider itself stays
\* too, unless a script's map has named one for this account: that field is not
\* put back (auth_service.go:238-268 with the table's CHECK).
IdentityStable ==
  [][\A u \in users : \E v \in users' :
       /\ v.ID = u.ID /\ v.Email = u.Email
       /\ v.Password = u.Password /\ v.ProviderID = u.ProviderID
       /\ v.Provider = "password" <=> u.Provider = "password"
       /\ v.Provider = u.Provider \/ u.ID \in moved']_vars

\* A session is for the account with the e-mail and the password, or the
\* e-mail, the provider and the id there, that the call presented, also where
\* creating that account or reading it raced with other calls; only a script may
\* have named another provider for it.
SessionMatchesAccount ==
  \A s \in sessions :
    LET call == req[s.req].call IN
    \E u \in users : /\ u.ID = s.user /\ u.Email = call.Email
                     /\ u.Password = call.Password /\ u.ProviderID = call.ProviderID
                     /\ u.Provider = call.Provider \/ u.ID \in moved

\* A registration that was answered with success stands: the account exists
\* with that password, and no two callers were told that they registered the
\* same e-mail.
RegisteredStands ==
  \A r \in Requests : At(r, "ok") /\ Op(r) = "register" =>
    /\ \E u \in ByEmail(req[r].call.Email) : u.Password = req[r].call.Password
    /\ \A s \in Requests \ {r} :
         At(s, "ok") /\ Op(s) = "register" => req[s].call.Email # req[r].call.Email

\* UpdateUser writes whole rows, but a change another step made to the row is
\* lost only when a request writes over one that it has not seen: within a
\* request, and between requests that do not overlap, updates add up.
OnlyUnseenIsLost == \A u \in users : u \in intended \/ u.ID \in clobbered

\* The scripts of a password login have the last word: no session is stored
\* once one of them refused.  (Only ProcessOAuthLogin runs post-login scripts
\* after it stored the session.)
RefusedLoginHasNoSession ==
  \A s \in sessions : Op(s.req) = "login" => ~req[s.req].refused

\* The handler of a request panics only in a password login to an account that
\* has no password because it belongs to a provider.
PanicsOnlyOnOAuthAccount ==
  \A r \in Requests : At(r, "panicked") =>
    Op(r) = "login" /\ \E u \in ByEmail(req[r].call.Email) : u.Provider # "password"

\* Every call ends: with an answer, a panic, or the process.
EveryRequestEnds == \A r \in Requests : req[r].pc = "lookup" ~> req[r].pc \in Answers
=============================================================================
