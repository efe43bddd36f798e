---------------------------- MODULE AccountsProofs ----------------------------
(* Proofs about Accounts: who an account and a session belong to, and that *)
(* registrations stand.                                                    *)
EXTENDS Accounts, TLAPS

Fields == {"ID", "Email", "Password", "IsActive", "IsVerified", "Provider", "ProviderID",
           "LastLogin"}

Locals == {"pc", "call", "map", "user", "seen", "refused"}

SameIdentity(u, v) ==
  u.ID = v.ID /\ u.Email = v.Email /\ u.Password = v.Password /\ u.ProviderID = v.ProviderID

\* An account's e-mail and credentials are those a call presented.
Presented(u, call) ==
  u.Email = call.Email /\ u.Password = call.Password /\ u.ProviderID = call.ProviderID

TableOK(table) == (\A u \in table : DOMAIN u = Fields) /\ SchemaAllows(table)

\* What a step may do to the rows there are.
Keeps(table, new) ==
  \A u \in table : \E v \in new :
    SameIdentity(u, v) /\ (v.Provider = "password" <=> u.Provider = "password")

CallOK(call) ==
  /\ call.op \in {"register", "login", "oauth"}
  /\ call.op # "oauth" => call.Password # Nil /\ call.ProviderID = Nil
  /\ call.op = "oauth" => call.Password = Nil /\ call.Provider # "password"

\* Steps in which a request works on its copy of a row.
Working == {"touch", "save_pre", "session", "post", "save_post"}

\* A request works on a copy of a row that its call's credentials are those of.
Owns(q, table) ==
  /\ DOMAIN q.user = Fields /\ q.seen = q.user
  /\ Presented(q.user, q.call)
  /\ \E u \in table : SameIdentity(u, q.user)

RequestOK(q, table) ==
  /\ DOMAIN q = Locals
  /\ q.pc # "new" => CallOK(q.call)
  /\ q.pc = "create" =>
       DOMAIN q.user = Fields /\ Presented(q.user, q.call) /\ q.call.op # "login"
  /\ q.pc = "touch" => q.call.op # "register"
  /\ q.pc \in Working => Owns(q, table)
  /\ q.pc = "ok" => \E u \in table : Presented(u, q.call)
  /\ q.pc = "panicked" =>
       q.call.op = "login" /\ \E u \in table : u.Email = q.call.Email /\ u.Provider # "password"
  /\ q.pc \in Working \cup {"lookup"} /\ q.call.op = "login" => ~q.refused

SessionOK(s, q, table) ==
  /\ q.pc # "new"
  /\ q.call.op = "login" => ~q.refused /\ q.pc \in {"touch", "ok", "error", "lost"}
  /\ \E u \in table : u.ID = s.user /\ Presented(u, q.call)

\* A registration past its INSERT that did not fail.
Registered(q) == q.pc \in Working \cup {"ok"} /\ q.call.op = "register"

OneRegistration ==
  \A r, s \in Requests :
    r # s /\ Registered(req[r]) /\ Registered(req[s]) => req[r].call.Email # req[s].call.Email

AccountsInv ==
  /\ TableOK(users)
  /\ req = [r \in Requests |-> req[r]]
  /\ \A r \in Requests : RequestOK(req[r], users)
  /\ \A s \in sessions : s.req \in Requests /\ SessionOK(s, req[s.req], users)
  /\ OneRegistration
  /\ OnlyUnseenIsLost

-----------------------------------------------------------------------------
(* Lemmas about tables. *)

LEMMA Rows ==
  ASSUME NEW table, SchemaAllows(table)
  PROVE  /\ \A u \in table : u.Provider = "password" <=> u.Password # Nil
         /\ \A u \in table : u.Provider = "password" <=> u.ProviderID = Nil
         /\ \A u, v \in table : u # v => u.ID # v.ID /\ u.Email # v.Email
BY DEF SchemaAllows, Authenticable

LEMMA KeepsSame == ASSUME NEW table PROVE Keeps(table, table)
BY DEF Keeps, SameIdentity

LEMMA KeepsMore == ASSUME NEW table, NEW u PROVE Keeps(table, table \cup {u})
BY DEF Keeps, SameIdentity

\* Keeping the rows keeps what requests and sessions rely on.
LEMMA RequestKept ==
  ASSUME NEW q, NEW table, NEW new, RequestOK(q, table), Keeps(table, new)
  PROVE  RequestOK(q, new)
<1>1. q.pc \in Working => Owns(q, new)
  BY DEF RequestOK, Owns, Keeps, SameIdentity
<1>2. q.pc = "ok" => \E u \in new : Presented(u, q.call)
  BY DEF RequestOK, Presented, Keeps, SameIdentity
<1>3. q.pc = "panicked" => \E u \in new : u.Email = q.call.Email /\ u.Provider # "password"
  BY DEF RequestOK, Keeps, SameIdentity
<1> QED
  BY <1>1, <1>2, <1>3 DEF RequestOK

LEMMA SessionKept ==
  ASSUME NEW s, NEW q, NEW table, NEW new, SessionOK(s, q, table), Keeps(table, new)
  PROVE  SessionOK(s, q, new)
BY DEF SessionOK, Presented, Keeps, SameIdentity

\* A step of request r to q.
LEMMA StepKeeps ==
  ASSUME AccountsInv, NEW r \in Requests, NEW q, Become(r, q),
         TableOK(users'), Keeps(users, users'), RequestOK(q, users'),
         Registered(q) => \A s \in Requests \ {r} :
           Registered(req[s]) => req[s].call.Email # q.call.Email,
         \A s \in sessions' : \/ s \in sessions /\ s.req # r
                              \/ s.req = r /\ SessionOK(s, q, users'),
         OnlyUnseenIsLost'
  PROVE  AccountsInv'
<1>1. /\ req' = [s \in Requests |-> req'[s]] /\ req'[r] = q
      /\ \A s \in Requests : s # r => req'[s] = req[s]
  BY DEF AccountsInv, Become
<1>2. ASSUME NEW s \in Requests PROVE RequestOK(req'[s], users')
  BY <1>1, <1>2, RequestKept DEF AccountsInv
<1>3. ASSUME NEW s \in sessions' PROVE s.req \in Requests /\ SessionOK(s, req'[s.req], users')
  BY <1>1, <1>3, SessionKept DEF AccountsInv
<1>4. ASSUME NEW s \in Requests, NEW t \in Requests, s # t, Registered(req'[s]), Registered(req'[t])
      PROVE  req'[s].call.Email # req'[t].call.Email
  BY <1>1, <1>4 DEF AccountsInv, OneRegistration
<1>5. OneRegistration'
  BY <1>4 DEF OneRegistration, Registered
<1> QED
  BY <1>1, <1>2, <1>3, <1>5 DEF AccountsInv, TableOK, SchemaAllows, Authenticable, RequestOK, Owns,
     Presented, SameIdentity, CallOK, SessionOK

\* A step that leaves the tables alone.
LEMMA QuietStep ==
  ASSUME AccountsInv, NEW r \in Requests, NEW q, Become(r, q), UNCHANGED <<database, sessions>>,
         RequestOK(q, users),
         Registered(q) => Registered(req[r]) /\ q.call = req[r].call,
         \A s \in sessions : s.req = r => SessionOK(s, q, users)
  PROVE  AccountsInv'
<1>1. users' = users /\ intended' = intended /\ clobbered' = clobbered /\ sessions' = sessions
  BY DEF database
<1>2. TableOK(users') /\ Keeps(users, users') /\ RequestOK(q, users')
  BY <1>1, KeepsSame DEF AccountsInv
<1>3. OnlyUnseenIsLost'
  BY <1>1 DEF AccountsInv, OnlyUnseenIsLost
<1>4. Registered(q) => \A s \in Requests \ {r} :
        Registered(req[s]) => req[s].call.Email # q.call.Email
  BY DEF AccountsInv, OneRegistration
<1>5. \A s \in sessions' : \/ s \in sessions /\ s.req # r
                           \/ s.req = r /\ SessionOK(s, q, users')
  BY <1>1
<1> QED
  BY <1>2, <1>3, <1>4, <1>5, StepKeeps

\* What End and Goto make of a request.
LEMMA Ended ==
  ASSUME NEW q, DOMAIN q = Locals, NEW answer
  PROVE  /\ DOMAIN End(q, answer) = Locals /\ End(q, answer).pc = answer
         /\ End(q, answer).call = q.call /\ End(q, answer).refused = q.refused
BY DEF End, Locals

LEMMA Gone ==
  ASSUME NEW q, DOMAIN q = Locals, NEW pc
  PROVE  /\ DOMAIN Goto(q, pc) = Locals /\ Goto(q, pc).pc = pc
         /\ Goto(q, pc).call = q.call /\ Goto(q, pc).refused = q.refused
         /\ pc \notin Answers => Goto(q, pc).user = q.user /\ Goto(q, pc).seen = q.seen
BY Ended DEF Goto, Locals

\* An answer that promises nothing is always in order.
LEMMA FailureOK ==
  ASSUME AccountsInv, NEW r \in Requests, req[r].pc \notin {"new", "ok", "panicked"},
         NEW answer \in {"error", "lost"}
  PROVE  /\ RequestOK(End(req[r], answer), users)
         /\ \A s \in sessions : s.req = r => SessionOK(s, End(req[r], answer), users)
<1>1. RequestOK(req[r], users) /\ DOMAIN req[r] = Locals
  BY DEF AccountsInv, RequestOK
<1>2. RequestOK(End(req[r], answer), users)
  BY <1>1, Ended DEF RequestOK, Working
<1>3. \A s \in sessions : s.req = r => SessionOK(s, req[r], users)
  BY DEF AccountsInv
<1> QED
  BY <1>1, <1>2, <1>3, Ended DEF SessionOK

-----------------------------------------------------------------------------
(* The steps. *)

LEMMA InitAccounts == Init => AccountsInv
<1> SUFFICES ASSUME Init PROVE AccountsInv
  OBVIOUS
<1>1. TableOK(users)
  BY DEF Init, TableOK, SchemaAllows
<1>2. ASSUME NEW r \in Requests PROVE RequestOK(req[r], users) /\ ~Registered(req[r])
  BY DEF Init, RequestOK, Registered, Working, NewRequest, Locals
<1> QED
  BY <1>1, <1>2 DEF Init, AccountsInv, OneRegistration, OnlyUnseenIsLost

LEMMA PreActionsStep ==
  ASSUME AccountsInv, NEW r \in Requests, NEW call, CallOK(call), PreActions(r, call)
  PROVE  AccountsInv'
<1> DEFINE q == [NewRequest EXCEPT !.call = call]
<1>1. DOMAIN q = Locals /\ q.pc = "new" /\ q.call = call /\ q.refused = FALSE
  BY DEF NewRequest, Locals
<1>2. \A s \in sessions : s.req # r
  BY DEF AccountsInv, SessionOK, PreActions, At
<1>3. PICK res \in Results :
        Become(r, IF Refuses(res) THEN End([q EXCEPT !.refused = TRUE], "error")
                  ELSE [q EXCEPT !.pc = "lookup",
                                 !.map = IF call.op = "login" THEN Nil ELSE res.map])
  BY DEF PreActions
<1> DEFINE refusal == [q EXCEPT !.refused = TRUE]
           lookup == [q EXCEPT !.pc = "lookup", !.map = IF call.op = "login" THEN Nil ELSE res.map]
<1>4. CASE Refuses(res)
  <2>1. DOMAIN refusal = Locals /\ refusal.call = call
    BY <1>1 DEF Locals
  <2>2. DOMAIN End(refusal, "error") = Locals /\ End(refusal, "error").pc = "error"
        /\ End(refusal, "error").call = call
    BY <2>1, Ended
  <2>3. RequestOK(End(refusal, "error"), users) /\ ~Registered(End(refusal, "error"))
    BY <2>2 DEF RequestOK, Registered, Working
  <2> HIDE DEF refusal
  <2> QED
    BY <1>2, <1>3, <1>4, <2>3, QuietStep DEF PreActions, refusal
<1>5. CASE ~Refuses(res)
  <2>1. DOMAIN lookup = Locals /\ lookup.pc = "lookup" /\ lookup.call = call /\ ~lookup.refused
    BY <1>1 DEF Locals
  <2>2. RequestOK(lookup, users) /\ ~Registered(lookup)
    BY <2>1 DEF RequestOK, Registered, Working
  <2> QED
    BY <1>2, <1>3, <1>5, <2>2, QuietStep DEF PreActions
<1> QED
  BY <1>4, <1>5

LEMMA CallsOK ==
  /\ \A e \in Emails, p \in Passwords :
       CallOK(PasswordCall("register", e, p)) /\ CallOK(PasswordCall("login", e, p))
  /\ \A e \in Emails, provider \in Providers, pid \in ProviderIDs :
       CallOK([op |-> "oauth", Email |-> e, Password |-> Nil,
               Provider |-> provider, ProviderID |-> pid])
BY AccountsAssumption DEF CallOK, PasswordCall

LEMMA NewCallStep ==
  ASSUME AccountsInv, NEW r \in Requests, Register(r) \/ Login(r) \/ ProcessOAuthLogin(r)
  PROVE  AccountsInv'
BY CallsOK, PreActionsStep DEF Register, Login, ProcessOAuthLogin

\* The identity is out of reach of a user map.
LEMMA UpdatedUser ==
  ASSUME NEW user, DOMAIN user = Fields, NEW updates
  PROVE  /\ DOMAIN updateUserFromMap(user, updates) = Fields
         /\ SameIdentity(updateUserFromMap(user, updates), user)
BY DEF updateUserFromMap, SameIdentity, Fields, Settable

LEMMA NewUserOK ==
  ASSUME NEW call PROVE DOMAIN NewUser(call) = Fields /\ Presented(NewUser(call), call)
BY DEF NewUser, Fields, Presented

LEMMA MissingStep ==
  ASSUME AccountsInv, NEW r \in Requests, Missing(r)
  PROVE  AccountsInv'
<1> DEFINE q == req[r]
           new == NewUser(q.call)
<1>1. RequestOK(q, users) /\ DOMAIN q = Locals /\ q.pc = "lookup" /\ q.call.op # "login"
  BY DEF AccountsInv, RequestOK, Missing, At, Op
<1>2. PICK user, map : /\ user = updateUserFromMap(new, q.map) \/ user = new
                       /\ Become(r, [q EXCEPT !.pc = "create", !.user = user, !.map = map])
  <2>1. CASE Op(r) = "register"
    BY <2>1 DEF Missing
  <2>2. CASE Op(r) # "register"
    <3>1. [q EXCEPT !.pc = "create", !.user = new]
            = [q EXCEPT !.pc = "create", !.user = new, !.map = q.map]
      BY <1>1 DEF Locals
    <3> QED
      BY <2>2, <3>1 DEF Missing
  <2> QED
    BY <2>1, <2>2
<1>3. DOMAIN user = Fields /\ Presented(user, q.call)
  BY <1>2, NewUserOK, UpdatedUser DEF Presented, SameIdentity
<1> DEFINE p == [q EXCEPT !.pc = "create", !.user = user, !.map = map]
<1>4. /\ DOMAIN p = Locals /\ p.pc = "create" /\ p.call = q.call /\ p.user = user
  BY <1>1 DEF Locals
<1>5. RequestOK(p, users) /\ ~Registered(p)
  BY <1>1, <1>3, <1>4 DEF RequestOK, Registered, Working
<1>6. \A s \in sessions : s.req = r => SessionOK(s, p, users)
  BY <1>1, <1>4 DEF AccountsInv, SessionOK
<1> QED
  BY <1>2, <1>5, <1>6, QuietStep DEF Missing

LEMMA LoginFailsStep ==
  ASSUME AccountsInv, NEW r \in Requests, LoginFails(r)
  PROVE  AccountsInv'
<1>1. DOMAIN req[r] = Locals /\ req[r].pc = "lookup"
  BY DEF AccountsInv, RequestOK, LoginFails, At
<1>2. ~Registered(End(req[r], "error"))
  BY <1>1, Ended DEF Registered, Working
<1> QED
  BY <1>1, <1>2, FailureOK, QuietStep DEF LoginFails

\* The row that was found is the caller's own if the call goes on.
LEMMA FoundUserStep ==
  ASSUME AccountsInv, NEW r \in Requests, FoundUser(r)
  PROVE  AccountsInv'
<1> DEFINE q == req[r]
<1>1. /\ RequestOK(q, users) /\ DOMAIN q = Locals /\ q.pc = "lookup" /\ CallOK(q.call)
      /\ q.call.op = "login" => ~q.refused
  BY DEF AccountsInv, RequestOK, FoundUser, At
<1>2. \A s \in sessions : s.req = r => SessionOK(s, q, users)
  BY DEF AccountsInv
<1>3. PICK u \in ByEmail(q.call.Email) :
        LET have == [q EXCEPT !.user = u, !.seen = u] IN
        Become(r,
          CASE Op(r) = "register" -> End(q, "error")
            [] Op(r) = "login" -> IF u.Password = Nil THEN End(q, "panicked")
                                  ELSE IF u.Password = q.call.Password THEN Goto(have, "post")
                                  ELSE End(q, "error")
            [] Op(r) = "oauth" -> IF SameAccount(u, q.call) THEN Goto(have, "touch")
                                  ELSE End(q, "error"))
  BY DEF FoundUser
<1> DEFINE have == [q EXCEPT !.user = u, !.seen = u]
<1>4. /\ u \in users /\ u.Email = q.call.Email /\ DOMAIN u = Fields
      /\ u.Provider = "password" <=> u.Password # Nil
      /\ u.Provider = "password" <=> u.ProviderID = Nil
  BY Rows DEF ByEmail, AccountsInv, TableOK
<1>5. UNCHANGED <<database, sessions>>
  BY DEF FoundUser
<1>6. /\ DOMAIN have = Locals /\ have.call = q.call /\ have.refused = q.refused
      /\ have.user = u /\ have.seen = u
  BY <1>1 DEF Locals
<1> HIDE DEF have
<1>7. CASE Become(r, End(q, "error"))
  <2>1. ~Registered(End(q, "error"))
    BY <1>1, Ended DEF Registered, Working
  <2> QED
    BY <1>1, <1>5, <1>7, <2>1, FailureOK, QuietStep
<1>8. CASE Op(r) = "login" /\ u.Password = Nil /\ Become(r, End(q, "panicked"))
  <2>1. RequestOK(End(q, "panicked"), users) /\ ~Registered(End(q, "panicked"))
    BY <1>1, <1>4, <1>8, Ended DEF RequestOK, Registered, Working, Op
  <2>2. \A s \in sessions : s.req # r
    BY <1>1, <1>2, <1>8 DEF SessionOK, Op
  <2> QED
    BY <1>5, <1>8, <2>1, <2>2, QuietStep
<1>9. CASE /\ Op(r) = "login" /\ u.Password # Nil /\ u.Password = q.call.Password
           /\ Become(r, Goto(have, "post"))
  <2> DEFINE p == Goto(have, "post")
  <2>1. /\ DOMAIN p = Locals /\ p.pc = "post" /\ p.call = q.call /\ p.refused = q.refused
        /\ p.user = u /\ p.seen = u
    BY <1>6, Gone DEF Answers
  <2> HIDE DEF p
  <2>2. Presented(u, q.call)
    BY <1>1, <1>4, <1>9 DEF Presented, CallOK, Op
  <2>3. Owns(p, users)
    BY <1>4, <2>1, <2>2 DEF Owns, SameIdentity
  <2>4. RequestOK(p, users) /\ ~Registered(p)
    BY <1>1, <1>9, <2>1, <2>3 DEF RequestOK, Registered, Op
  <2>5. \A s \in sessions : s.req # r
    BY <1>1, <1>2, <1>9 DEF SessionOK, Op
  <2> QED
    BY <1>5, <1>9, <2>4, <2>5, QuietStep DEF p
<1>10. CASE Op(r) = "oauth" /\ SameAccount(u, q.call) /\ Become(r, Goto(have, "touch"))
  <2> DEFINE p == Goto(have, "touch")
  <2>1. /\ DOMAIN p = Locals /\ p.pc = "touch" /\ p.call = q.call
        /\ p.user = u /\ p.seen = u
    BY <1>6, Gone DEF Answers
  <2> HIDE DEF p
  <2>2. Presented(u, q.call)
    BY <1>1, <1>4, <1>10 DEF Presented, CallOK, Op, SameAccount
  <2>3. Owns(p, users)
    BY <1>4, <2>1, <2>2 DEF Owns, SameIdentity
  <2>4. RequestOK(p, users) /\ ~Registered(p)
    BY <1>1, <1>10, <2>1, <2>3 DEF RequestOK, Registered, Op
  <2>5. \A s \in sessions : s.req = r => SessionOK(s, p, users)
    BY <1>2, <1>10, <2>1 DEF SessionOK, Op
  <2> QED
    BY <1>5, <1>10, <2>4, <2>5, QuietStep DEF p
<1> QED
  BY <1>1, <1>3, <1>7, <1>8, <1>9, <1>10 DEF CallOK, Op, have

\* The INSERT: nobody else has the address, or it does not apply.
LEMMA CreateUserStep ==
  ASSUME AccountsInv, NEW r \in Requests, CreateUser(r)
  PROVE  AccountsInv'
<1> DEFINE q == req[r]
<1>1. /\ RequestOK(q, users) /\ DOMAIN q = Locals /\ q.pc = "create" /\ CallOK(q.call)
      /\ q.call.op # "login" /\ DOMAIN q.user = Fields /\ Presented(q.user, q.call)
  BY DEF AccountsInv, RequestOK, CreateUser, At
<1>2. PICK o \in Outcomes, id \in Ids \ {u.ID : u \in users} :
        LET new == [q.user EXCEPT !.ID = id] IN
        /\ Applied(o) => SchemaAllows(users \cup {new})
        /\ IF Applied(o) THEN users' = users \cup {new} /\ intended' = intended \cup {new}
                         ELSE UNCHANGED <<users, intended>>
        /\ Become(r, Goto([q EXCEPT !.user = new, !.seen = new], AfterCreate(q, o)))
  BY DEF CreateUser
<1> DEFINE new == [q.user EXCEPT !.ID = id]
           have == [q EXCEPT !.user = new, !.seen = new]
           p == Goto(have, AfterCreate(q, o))
<1>3. /\ DOMAIN new = Fields /\ Presented(new, q.call) /\ new.ID = id
  BY <1>1 DEF Fields, Presented
<1> HIDE DEF new
<1>4. /\ DOMAIN have = Locals /\ have.call = q.call /\ have.user = new /\ have.seen = new
  BY <1>1 DEF Locals
<1> HIDE DEF have
<1>5. /\ DOMAIN p = Locals /\ p.pc = AfterCreate(q, o) /\ p.call = q.call
      /\ p.pc \notin Answers => p.user = new /\ p.seen = new
  BY <1>4, Gone
<1> HIDE DEF p
<1>6. Become(r, p) /\ UNCHANGED <<sessions, clobbered>>
  BY <1>2 DEF CreateUser, p, have, new
<1>7. /\ Err(o) => p.pc = "error"
      /\ ~Err(o) => p.pc \in {"post", "save_pre", "session"} /\ Applied(o)
  BY <1>5 DEF AfterCreate, BeforeSession, Err, Applied
<1>8. IF Applied(o) THEN /\ users' = users \cup {new} /\ intended' = intended \cup {new}
                         /\ SchemaAllows(users \cup {new})
                    ELSE UNCHANGED <<users, intended>>
  BY <1>2 DEF new
<1>9. TableOK(users') /\ Keeps(users, users')
  BY <1>3, <1>8, KeepsSame, KeepsMore DEF AccountsInv, TableOK
<1>10. RequestOK(p, users')
  <2>1. CASE Err(o)
    BY <1>1, <1>5, <1>7, <2>1 DEF RequestOK, Working
  <2>2. CASE ~Err(o)
    <3>1. p.user = new /\ p.seen = new /\ new \in users'
      BY <1>5, <1>7, <1>8, <2>2 DEF Answers
    <3>2. Owns(p, users')
      BY <1>3, <1>5, <3>1 DEF Owns, SameIdentity
    <3> QED
      BY <1>1, <1>5, <1>7, <2>2, <3>2 DEF RequestOK, Working
  <2> QED
    BY <2>1, <2>2
<1>11. ASSUME Registered(p), NEW s \in Requests \ {r}, Registered(req[s])
       PROVE  req[s].call.Email # p.call.Email
  <2>1. ~Err(o)
    BY <1>7, <1>11 DEF Registered, Working
  <2>2. PICK u \in users : u.Email = req[s].call.Email
    BY <1>11 DEF AccountsInv, RequestOK, Registered, Owns, SameIdentity, Presented
  <2>3. u # new
    BY <1>3, <2>2
  <2>4. u.Email # new.Email
    BY <1>7, <1>8, <2>1, <2>2, <2>3, Rows
  <2> QED
    BY <1>3, <1>5, <2>2, <2>4 DEF Presented
<1>12. \A s \in sessions' : \/ s \in sessions /\ s.req # r
                            \/ s.req = r /\ SessionOK(s, p, users')
  <2>1. ASSUME NEW s \in sessions, s.req = r PROVE SessionOK(s, p, users')
    <3>1. SessionOK(s, q, users')
      BY <1>9, <2>1, SessionKept DEF AccountsInv
    <3> QED
      BY <1>1, <1>5, <1>7, <3>1 DEF SessionOK
  <2> QED
    BY <1>6, <2>1
<1>13. OnlyUnseenIsLost'
  BY <1>6, <1>8 DEF AccountsInv, OnlyUnseenIsLost
<1> QED
  BY <1>6, <1>9, <1>10, <1>11, <1>12, <1>13, StepKeeps

LEMMA ChangedUser ==
  ASSUME NEW q, NEW user, DOMAIN user = Fields
  PROVE  DOMAIN Change(q, user) = Fields /\ SameIdentity(Change(q, user), user)
<1>1. /\ DOMAIN [user EXCEPT !.LastLogin = TRUE] = Fields
      /\ SameIdentity([user EXCEPT !.LastLogin = TRUE], user)
  BY DEF Fields, SameIdentity
<1> QED
  BY <1>1, UpdatedUser DEF Change

\* Where an UPDATE leads: on only if it succeeded, and not to the UPDATE of
\* last_login again.
LEMMA AfterUpdateLeads ==
  ASSUME NEW q, NEW o, q.pc \in {"touch", "save_pre", "save_post"},
         q.call.op \in {"register", "login", "oauth"},
         q.pc = "touch" => q.call.op # "register"
  PROVE  /\ AfterUpdate(q, o) \in {"ok", "error", "session", "save_pre"}
         /\ AfterUpdate(q, o) \in {"session", "save_pre"} => ~Err(o)
         /\ q.call.op = "login" /\ q.pc = "touch" => AfterUpdate(q, o) \in {"ok", "error"}
<1>1. CASE q.pc = "save_post" /\ q.call.op # "login"
  <2>1. AfterUpdate(q, o) = "ok"
    BY <1>1, Zenon DEF AfterUpdate
  <2> QED
    BY <1>1, <2>1
<1>2. CASE q.pc = "save_post" /\ q.call.op = "login"
  <2>1. AfterUpdate(q, o) = IF Err(o) THEN "error" ELSE "session"
    BY <1>2, Zenon DEF AfterUpdate
  <2> QED
    BY <1>2, <2>1
<1>3. CASE q.pc = "touch" /\ q.call.op = "login"
  <2>1. AfterUpdate(q, o) = IF Err(o) THEN "error" ELSE "ok"
    BY <1>3, Zenon DEF AfterUpdate
  <2> QED
    BY <1>3, <2>1
<1>4. CASE q.pc = "touch" /\ q.call.op = "oauth"
  <2>1. AfterUpdate(q, o) = IF Err(o) THEN "error" ELSE BeforeSession(q)
    BY <1>4, Zenon DEF AfterUpdate
  <2> QED
    BY <1>4, <2>1 DEF BeforeSession
<1>5. CASE q.pc = "save_pre"
  <2>1. AfterUpdate(q, o) = IF Err(o) THEN "error" ELSE "session"
    BY <1>5, Zenon DEF AfterUpdate
  <2> QED
    BY <1>5, <2>1
<1> QED
  BY <1>1, <1>2, <1>3, <1>4, <1>5

\* An UPDATE of the row that a request owns keeps all accounts what they are.
LEMMA OverwriteKeeps ==
  ASSUME NEW q, NEW table, NEW new, TableOK(table), Owns(q, table),
         DOMAIN new = Fields, SameIdentity(new, q.user), SchemaAllows(Overwrite(table, new))
  PROVE  TableOK(Overwrite(table, new)) /\ Keeps(table, Overwrite(table, new))
<1> DEFINE over == Overwrite(table, new)
<1>1. \A v \in over : v = new \/ v \in table
  BY DEF Overwrite
<1>2. TableOK(over)
  BY <1>1 DEF TableOK
<1>3. PICK owned \in table : SameIdentity(owned, q.user)
  BY DEF Owns
<1>4. ASSUME NEW u \in table, u.ID # new.ID PROVE u \in over
  BY <1>4 DEF Overwrite
<1>5. ASSUME NEW u \in table, u.ID = new.ID
      PROVE  /\ new \in over /\ SameIdentity(u, new)
             /\ new.Provider = "password" <=> u.Provider = "password"
  <2>1. new \in over
    BY <1>5 DEF Overwrite
  <2>2. u = owned
    BY <1>3, <1>5, Rows DEF TableOK, SameIdentity
  <2>3. SameIdentity(u, new)
    BY <1>3, <2>2 DEF SameIdentity
  <2>4. /\ new.Provider = "password" <=> new.Password # Nil
        /\ u.Provider = "password" <=> u.Password # Nil
    BY <2>1, Rows DEF TableOK
  <2> QED
    BY <2>1, <2>3, <2>4 DEF SameIdentity
<1> QED
  BY <1>2, <1>4, <1>5 DEF Keeps, SameIdentity

\* A row that its writer had seen is not lost by its UPDATE.
LEMMA NothingSeenIsLost ==
  ASSUME AccountsInv, NEW r \in Requests, Owns(req[r], users),
         SameIdentity(Change(req[r], req[r].user), req[r].user),
         users' = Overwrite(users, Change(req[r], req[r].user)),
         intended' = Rewrite(intended, Change(req[r], req[r].user).ID, req[r]),
         clobbered' = IF req[r].seen \in users THEN clobbered
                      ELSE clobbered \cup {Change(req[r], req[r].user).ID}
  PROVE  OnlyUnseenIsLost'
<1> DEFINE new == Change(req[r], req[r].user)
<1> SUFFICES ASSUME NEW v \in users' PROVE v \in intended' \/ v.ID \in clobbered'
  BY DEF OnlyUnseenIsLost
<1>1. clobbered \subseteq clobbered' /\ new.ID = req[r].user.ID /\ req[r].seen = req[r].user
  BY DEF SameIdentity, Owns
<1>2. CASE v \in users /\ v.ID # new.ID
  <2>1. v \in intended => v \in intended'
    BY <1>2 DEF Rewrite
  <2> QED
    BY <1>1, <1>2, <2>1 DEF AccountsInv, OnlyUnseenIsLost
<1>3. CASE v = new
  <2>1. CASE req[r].user \in users
    <3>1. req[r].user \in intended => new \in intended'
      BY <1>1 DEF Rewrite
    <3> QED
      BY <1>1, <1>3, <2>1, <3>1 DEF AccountsInv, OnlyUnseenIsLost
  <2>2. CASE req[r].user \notin users
    BY <1>1, <1>3, <2>2
  <2> QED
    BY <2>1, <2>2
<1> QED
  BY <1>2, <1>3 DEF Overwrite

LEMMA UpdateUserStep ==
  ASSUME AccountsInv, NEW r \in Requests, UpdateUser(r)
  PROVE  AccountsInv'
<1> DEFINE q == req[r]
           new == Change(q, q.user)
<1>1. /\ RequestOK(q, users) /\ DOMAIN q = Locals /\ CallOK(q.call)
      /\ q.pc \in {"touch", "save_pre", "save_post"} /\ q.pc \in Working
      /\ q.pc = "touch" => q.call.op # "register"
      /\ q.call.op = "login" => ~q.refused
      /\ Owns(q, users)
  BY DEF AccountsInv, RequestOK, UpdateUser, Working
<1>2. PICK o \in Outcomes :
        /\ Applied(o) => SchemaAllows(Overwrite(users, new))
        /\ IF Applied(o)
             THEN /\ users' = Overwrite(users, new)
                  /\ intended' = Rewrite(intended, new.ID, q)
                  /\ clobbered' = IF q.seen \in users THEN clobbered
                                                      ELSE clobbered \cup {new.ID}
             ELSE UNCHANGED database
        /\ Become(r, Goto([q EXCEPT !.user = Copy(q.user, new), !.seen = new],
                          AfterUpdate(q, o)))
  BY DEF UpdateUser
<1>3. DOMAIN new = Fields /\ SameIdentity(new, q.user)
  BY <1>1, ChangedUser DEF Owns
<1>4. OnlyUnseenIsLost'
  <2>1. CASE Applied(o)
    BY <1>1, <1>2, <1>3, <2>1, NothingSeenIsLost
  <2>2. CASE ~Applied(o)
    BY <1>2, <2>2 DEF AccountsInv, OnlyUnseenIsLost, database
  <2> QED
    BY <2>1, <2>2
<1>5. TableOK(users') /\ Keeps(users, users')
  <2>1. CASE Applied(o)
    BY <1>1, <1>2, <1>3, <2>1, OverwriteKeeps DEF AccountsInv
  <2>2. CASE ~Applied(o)
    BY <1>2, <2>2, KeepsSame DEF AccountsInv, database
  <2> QED
    BY <2>1, <2>2
<1> DEFINE have == [q EXCEPT !.user = Copy(q.user, new), !.seen = new]
           to == AfterUpdate(q, o)
           p == Goto(have, to)
<1>6. /\ to \in {"ok", "error", "session", "save_pre"}
      /\ q.call.op = "login" /\ q.pc = "touch" => to \in {"ok", "error"}
  BY <1>1, AfterUpdateLeads DEF CallOK
<1> HIDE DEF new, to
<1>7. /\ DOMAIN have = Locals /\ have.call = q.call /\ have.refused = q.refused
      /\ have.user = new /\ have.seen = new
  BY <1>1 DEF Locals, Copy
<1> HIDE DEF have
<1>8. /\ DOMAIN p = Locals /\ p.pc = to /\ p.call = q.call /\ p.refused = q.refused
      /\ to \notin Answers => p.user = new /\ p.seen = new
  BY <1>7, Gone
<1> HIDE DEF p
<1>9. Become(r, p) /\ UNCHANGED sessions
  BY <1>2 DEF UpdateUser, p, have, to, new
<1>10. RequestOK(p, users')
  <2>1. RequestOK(q, users')
    BY <1>1, <1>5, RequestKept
  <2>2. Owns(q, users')
    BY <1>1, <2>1 DEF RequestOK
  <2>3. CASE to = "error"
    BY <1>1, <1>8, <2>3 DEF RequestOK, Working
  <2>4. CASE to = "ok"
    <3>1. \E u \in users' : Presented(u, p.call)
      BY <1>8, <2>2 DEF Owns, SameIdentity, Presented
    <3> QED
      BY <1>1, <1>8, <2>4, <3>1 DEF RequestOK, Working
  <2>5. CASE to \in {"session", "save_pre"}
    <3>1. p.user = new /\ p.seen = new
      BY <1>8, <2>5 DEF Answers
    <3>2. Owns(p, users')
      BY <1>3, <1>8, <2>2, <3>1 DEF Owns, SameIdentity, Presented
    <3> QED
      BY <1>1, <1>8, <2>5, <3>2 DEF RequestOK, Working
  <2> QED
    BY <1>6, <2>3, <2>4, <2>5
<1>11. Registered(p) => \A s \in Requests \ {r} :
         Registered(req[s]) => req[s].call.Email # p.call.Email
  BY <1>1, <1>8 DEF Registered, AccountsInv, OneRegistration
<1>12. \A s \in sessions' : \/ s \in sessions /\ s.req # r
                            \/ s.req = r /\ SessionOK(s, p, users')
  <2>1. ASSUME NEW s \in sessions, s.req = r PROVE SessionOK(s, p, users')
    <3>1. SessionOK(s, q, users')
      BY <1>5, <2>1, SessionKept DEF AccountsInv
    <3> QED
      BY <1>1, <1>6, <1>8, <3>1 DEF SessionOK
  <2> QED
    BY <1>9, <2>1
<1> QED
  BY <1>4, <1>5, <1>9, <1>10, <1>11, <1>12, StepKeeps

LEMMA StoreSessionStep ==
  ASSUME AccountsInv, NEW r \in Requests, StoreSession(r)
  PROVE  AccountsInv'
<1> DEFINE q == req[r]
<1>1. /\ RequestOK(q, users) /\ DOMAIN q = Locals /\ CallOK(q.call)
      /\ q.pc = "session" /\ Owns(q, users)
      /\ q.call.op = "login" => ~q.refused
  BY DEF AccountsInv, RequestOK, StoreSession, At, Working
<1>2. PICK o \in Outcomes :
        /\ sessions' = IF Applied(o) THEN sessions \cup {[req |-> r, user |-> q.user.ID]}
                                     ELSE sessions
        /\ Become(r, IF Err(o) THEN End(q, "error") ELSE Goto(q, AfterSession(q)))
  BY DEF StoreSession
<1>3. PICK p : Become(r, p) /\ p = IF Err(o) THEN End(q, "error") ELSE Goto(q, AfterSession(q))
  BY <1>2
<1>4. /\ DOMAIN p = Locals /\ p.call = q.call /\ p.refused = q.refused
      /\ \/ p.pc = "error"
         \/ /\ p.pc = AfterSession(q) /\ p.pc \in {"touch", "post"}
            /\ p.user = q.user /\ p.seen = q.seen
  BY <1>1, <1>3, Ended, Gone DEF AfterSession, Answers
<1>5. p.call.op = "login" => p.pc \in {"touch", "error"}
  BY <1>4 DEF AfterSession
<1>6. users' = users /\ TableOK(users') /\ Keeps(users, users') /\ OnlyUnseenIsLost'
  BY KeepsSame DEF StoreSession, database, AccountsInv, OnlyUnseenIsLost
<1>7. RequestOK(p, users')
  <2>1. CASE p.pc = "error"
    BY <1>1, <1>4, <2>1 DEF RequestOK, Working
  <2>2. CASE /\ p.pc = AfterSession(q) /\ p.pc \in {"touch", "post"}
             /\ p.user = q.user /\ p.seen = q.seen
    <3>1. Owns(p, users')
      BY <1>1, <1>4, <1>6, <2>2 DEF Owns
    <3>2. p.pc = "touch" => p.call.op # "register"
      BY <1>4, <2>2 DEF AfterSession
    <3> QED
      BY <1>1, <1>4, <2>2, <3>1, <3>2 DEF RequestOK, Working
  <2> QED
    BY <1>4, <2>1, <2>2
<1>8. Registered(p) => \A s \in Requests \ {r} :
        Registered(req[s]) => req[s].call.Email # p.call.Email
  BY <1>1, <1>4 DEF Registered, AccountsInv, OneRegistration, Working
<1>9. ASSUME NEW s, s.req = r, \E u \in users' : u.ID = s.user /\ Presented(u, p.call)
      PROVE  SessionOK(s, p, users')
  BY <1>1, <1>4, <1>5, <1>9 DEF SessionOK
<1>10. \A s \in sessions' : \/ s \in sessions /\ s.req # r
                            \/ s.req = r /\ SessionOK(s, p, users')
  <2>1. ASSUME NEW s \in sessions, s.req = r PROVE SessionOK(s, p, users')
    <3>1. \E u \in users' : u.ID = s.user /\ Presented(u, p.call)
      BY <1>4, <1>6, <2>1 DEF AccountsInv, SessionOK
    <3> QED
      BY <1>9, <2>1, <3>1
  <2> DEFINE new == [req |-> r, user |-> q.user.ID]
  <2>2. \E u \in users' : u.ID = new.user /\ Presented(u, p.call)
    BY <1>1, <1>4, <1>6 DEF Owns, SameIdentity, Presented
  <2>3. new.req = r
    OBVIOUS
  <2> HIDE DEF new
  <2>4. SessionOK(new, p, users')
    BY <1>9, <2>2, <2>3
  <2>5. \A s \in sessions' : s \in sessions \/ s = new
    BY <1>2 DEF new
  <2> QED
    BY <2>1, <2>3, <2>4, <2>5
<1> QED
  BY <1>3, <1>6, <1>7, <1>8, <1>10, StepKeeps

LEMMA PostActionsStep ==
  ASSUME AccountsInv, NEW r \in Requests, PostActions(r)
  PROVE  AccountsInv'
<1> DEFINE q == req[r]
<1>1. /\ RequestOK(q, users) /\ DOMAIN q = Locals /\ CallOK(q.call)
      /\ q.pc = "post" /\ Owns(q, users)
      /\ q.call.op = "login" => ~q.refused
  BY DEF AccountsInv, RequestOK, PostActions, At, Working
<1>2. PICK res \in Results :
        Become(r, Goto([q EXCEPT !.map = IF AfterPost(q, res) = "save_post" THEN res.map ELSE Nil,
                                 !.refused = q.refused \/ Refuses(res)], AfterPost(q, res)))
  BY DEF PostActions
<1> DEFINE to == AfterPost(q, res)
           have == [q EXCEPT !.map = IF to = "save_post" THEN res.map ELSE Nil,
                             !.refused = q.refused \/ Refuses(res)]
           p == Goto(have, to)
<1>3. /\ to \in {"error", "ok", "session", "save_post"}
      /\ q.call.op = "login" => /\ to # "ok"
                                /\ to \in {"session", "save_post"} => ~Refuses(res)
  BY DEF AfterPost
<1> HIDE DEF to
<1>4. /\ DOMAIN have = Locals /\ have.call = q.call
      /\ have.refused = (q.refused \/ Refuses(res))
      /\ have.user = q.user /\ have.seen = q.seen
  BY <1>1 DEF Locals
<1> HIDE DEF have
<1>5. /\ DOMAIN p = Locals /\ p.pc = to /\ p.call = q.call
      /\ p.refused = (q.refused \/ Refuses(res))
      /\ to \notin Answers => p.user = q.user /\ p.seen = q.seen
  BY <1>4, Gone
<1> HIDE DEF p
<1>6. Become(r, p)
  BY <1>2 DEF p, have, to
<1>7. RequestOK(p, users)
  <2>1. CASE to = "error"
    BY <1>1, <1>5, <2>1 DEF RequestOK, Working
  <2>2. CASE to = "ok"
    <3>1. \E u \in users : Presented(u, p.call)
      BY <1>1, <1>5 DEF Owns, SameIdentity, Presented
    <3> QED
      BY <1>1, <1>5, <2>2, <3>1 DEF RequestOK, Working
  <2>3. CASE to \in {"session", "save_post"}
    <3>1. Owns(p, users)
      BY <1>1, <1>5, <2>3 DEF Owns, Answers
    <3>2. p.call.op = "login" => ~p.refused
      BY <1>1, <1>3, <1>5, <2>3
    <3> QED
      BY <1>1, <1>5, <2>3, <3>1, <3>2 DEF RequestOK, Working
  <2> QED
    BY <1>3, <2>1, <2>2, <2>3
<1>8. Registered(p) => Registered(q) /\ p.call = q.call
  BY <1>1, <1>5 DEF Registered, Working
<1>9. \A s \in sessions : s.req = r => SessionOK(s, p, users)
  BY <1>1, <1>3, <1>5 DEF AccountsInv, SessionOK
<1> QED
  BY <1>6, <1>7, <1>8, <1>9, QuietStep DEF PostActions

LEMMA RestartStep == AccountsInv /\ Restart => AccountsInv'
<1> SUFFICES ASSUME AccountsInv, Restart PROVE AccountsInv'
  OBVIOUS
<1>1. /\ users' = users /\ sessions' = sessions /\ intended' = intended /\ clobbered' = clobbered
  BY DEF Restart, database
<1>2. req' = [r \in Requests |-> req'[r]]
  BY DEF Restart
<1>3. ASSUME NEW r \in Requests
      PROVE  \/ req'[r] = req[r]
             \/ req[r].pc \in Steps \ {"new"} /\ req'[r] = End(req[r], "lost")
  BY <1>3 DEF Restart
<1>4. ASSUME NEW r \in Requests PROVE RequestOK(req'[r], users)
  BY <1>3, <1>4, FailureOK DEF AccountsInv, Steps
<1>5. ASSUME NEW s \in sessions PROVE SessionOK(s, req'[s.req], users)
  BY <1>3, <1>5, FailureOK DEF AccountsInv, Steps
<1>6. ASSUME NEW r \in Requests, Registered(req'[r]) PROVE req'[r] = req[r]
  <2>1. DOMAIN req[r] = Locals
    BY DEF AccountsInv, RequestOK
  <2> QED
    BY <1>3, <1>6, <2>1, Ended DEF Registered, Working
<1>7. OneRegistration'
  BY <1>6 DEF AccountsInv, OneRegistration, Registered
<1>8. OnlyUnseenIsLost'
  BY <1>1 DEF AccountsInv, OnlyUnseenIsLost
<1>9. /\ TableOK(users') /\ \A r \in Requests : RequestOK(req'[r], users')
      /\ \A s \in sessions' : s.req \in Requests /\ SessionOK(s, req'[s.req], users')
  BY <1>1, <1>4, <1>5 DEF AccountsInv
<1> QED
  BY <1>2, <1>7, <1>8, <1>9 DEF AccountsInv, TableOK, SchemaAllows, Authenticable, RequestOK, Owns,
     Presented, SameIdentity, CallOK, SessionOK

LEMMA ServeStep ==
  ASSUME AccountsInv, NEW r \in Requests, Serve(r)
  PROVE  AccountsInv'
BY MissingStep, LoginFailsStep, FoundUserStep, CreateUserStep, UpdateUserStep,
   StoreSessionStep, PostActionsStep DEF Serve

LEMMA NextAccounts == AccountsInv /\ [Next]_vars => AccountsInv'
<1> SUFFICES ASSUME AccountsInv, [Next]_vars PROVE AccountsInv'
  OBVIOUS
<1>1. CASE UNCHANGED vars
  BY <1>1 DEF vars, AccountsInv, TableOK, SchemaAllows, Authenticable, RequestOK, Owns, Presented,
     SameIdentity, CallOK, SessionOK, OneRegistration, Registered, OnlyUnseenIsLost
<1>2. CASE Restart
  BY <1>2, RestartStep
<1>3. ASSUME NEW r \in Requests, Register(r) \/ Login(r) \/ ProcessOAuthLogin(r) \/ Serve(r)
      PROVE  AccountsInv'
  BY <1>3, NewCallStep, ServeStep
<1> QED
  BY <1>1, <1>2, <1>3 DEF Next

LEMMA NextKeeps == AccountsInv /\ [Next]_vars => Keeps(users, users')
<1> SUFFICES ASSUME AccountsInv, [Next]_vars PROVE Keeps(users, users')
  OBVIOUS
<1>1. CASE users' = users
  BY <1>1, KeepsSame
<1>2. ASSUME NEW r \in Requests, CreateUser(r) PROVE Keeps(users, users')
  <2>1. users' = users \/ \E new : users' = users \cup {new}
    BY <1>2 DEF CreateUser
  <2> QED
    BY <2>1, KeepsSame, KeepsMore
<1>3. ASSUME NEW r \in Requests, UpdateUser(r) PROVE Keeps(users, users')
  <2> DEFINE new == Change(req[r], req[r].user)
  <2>1. Owns(req[r], users) /\ TableOK(users)
    BY <1>3 DEF AccountsInv, RequestOK, UpdateUser, Working
  <2>2. DOMAIN new = Fields /\ SameIdentity(new, req[r].user)
    BY <2>1, ChangedUser DEF Owns
  <2>3. \/ users' = users
        \/ users' = Overwrite(users, new) /\ SchemaAllows(Overwrite(users, new))
    BY <1>3 DEF UpdateUser, database
  <2> QED
    BY <1>1, <2>1, <2>2, <2>3, OverwriteKeeps
<1>4. ASSUME NEW r \in Requests, Register(r) \/ Login(r) \/ ProcessOAuthLogin(r) \/ Missing(r)
                \/ LoginFails(r) \/ FoundUser(r) \/ StoreSession(r) \/ PostActions(r)
      PROVE  users' = users
  BY <1>4 DEF Register, Login, ProcessOAuthLogin, PreActions, Missing, LoginFails, FoundUser,
     StoreSession, PostActions, database
<1>5. Restart \/ UNCHANGED vars => users' = users
  BY DEF Restart, database, vars
<1> QED
  BY <1>1, <1>2, <1>3, <1>4, <1>5 DEF Next, Serve

\* An answer is final, and a call is not changed once it was made.
LEMMA CallsStand ==
  AccountsInv /\ [Next]_vars =>
    \A r \in Requests :
      \/ req'[r] = req[r]
      \/ /\ req[r].pc \notin Answers /\ req'[r].pc # "new"
         /\ req[r].pc # "new" => req'[r].call = req[r].call
<1> DEFINE Stands(p, q) == \/ q = p
                           \/ /\ p.pc \notin Answers /\ q.pc # "new"
                              /\ p.pc # "new" => q.call = p.call
<1> SUFFICES ASSUME AccountsInv, [Next]_vars, NEW r \in Requests PROVE Stands(req[r], req'[r])
  OBVIOUS
<1>1. DOMAIN req[r] = Locals /\ (req[r].pc # "new" => CallOK(req[r].call))
  BY DEF AccountsInv, RequestOK
<1>2. ASSUME NEW s \in Requests, NEW q, Become(s, q), Stands(req[s], q)
      PROVE  Stands(req[r], req'[r])
  BY <1>2 DEF AccountsInv, Become
<1> HIDE DEF Stands
<1>3. CASE UNCHANGED vars \/ Restart
  <2>1. req'[r] = req[r] \/ (req[r].pc \in Steps \ {"new"} /\ req'[r] = End(req[r], "lost"))
    BY <1>3 DEF vars, Restart
  <2> QED
    BY <1>1, <2>1, Ended DEF Stands, Steps, Answers
<1>4. ASSUME NEW s \in Requests, NEW call, PreActions(s, call) PROVE Stands(req[r], req'[r])
  <2>1. PICK res \in Results :
          Become(s, IF Refuses(res)
                      THEN End([[NewRequest EXCEPT !.call = call] EXCEPT !.refused = TRUE], "error")
                      ELSE [[NewRequest EXCEPT !.call = call] EXCEPT !.pc = "lookup",
                              !.map = IF call.op = "login" THEN Nil ELSE res.map])
    BY <1>4 DEF PreActions
  <2>2. End([[NewRequest EXCEPT !.call = call] EXCEPT !.refused = TRUE], "error").pc = "error"
    BY DEF NewRequest, End
  <2>3. [[NewRequest EXCEPT !.call = call] EXCEPT !.pc = "lookup",
           !.map = IF call.op = "login" THEN Nil ELSE res.map].pc = "lookup"
    BY DEF NewRequest
  <2>4. PICK q : Become(s, q) /\ q.pc # "new"
    BY <2>1, <2>2, <2>3
  <2> QED
    BY <1>2, <1>4, <2>4 DEF PreActions, At, Stands, Answers
<1>5. ASSUME NEW s \in Requests, req[s].pc \notin Answers \cup {"new"},
             NEW have, DOMAIN have = Locals, have.call = req[s].call,
             NEW pc, pc # "new", Become(s, Goto(have, pc)) \/ Become(s, End(have, pc))
      PROVE  Stands(req[r], req'[r])
  BY <1>2, <1>5, Ended, Gone DEF Stands
<1>6. ASSUME NEW s \in Requests, Serve(s) PROVE Stands(req[r], req'[r])
  <2>1. DOMAIN req[s] = Locals /\ RequestOK(req[s], users)
    BY DEF AccountsInv, RequestOK
  <2>2. CASE Missing(s)
    <3>1. PICK user, map :
            \/ Become(s, [req[s] EXCEPT !.pc = "create", !.user = user, !.map = map])
            \/ Become(s, [req[s] EXCEPT !.pc = "create", !.user = user])
      BY <2>2 DEF Missing
    <3>2. /\ [req[s] EXCEPT !.pc = "create", !.user = user, !.map = map].pc = "create"
          /\ [req[s] EXCEPT !.pc = "create", !.user = user, !.map = map].call = req[s].call
          /\ [req[s] EXCEPT !.pc = "create", !.user = user].pc = "create"
          /\ [req[s] EXCEPT !.pc = "create", !.user = user].call = req[s].call
      BY <2>1 DEF Locals
    <3> QED
      BY <1>2, <2>2, <3>1, <3>2 DEF Missing, At, Stands, Answers
  <2>3. CASE LoginFails(s)
    BY <1>5, <2>1, <2>3 DEF LoginFails, At, Answers
  <2>4. CASE FoundUser(s)
    <3>1. PICK u \in ByEmail(req[s].call.Email) :
            LET have == [req[s] EXCEPT !.user = u, !.seen = u] IN
            Become(s,
              CASE Op(s) = "register" -> End(req[s], "error")
                [] Op(s) = "login" -> IF u.Password = Nil THEN End(req[s], "panicked")
                                      ELSE IF u.Password = req[s].call.Password THEN Goto(have, "post")
                                      ELSE End(req[s], "error")
                [] Op(s) = "oauth" -> IF SameAccount(u, req[s].call) THEN Goto(have, "touch")
                                      ELSE End(req[s], "error"))
      BY <2>4 DEF FoundUser
    <3> DEFINE have == [req[s] EXCEPT !.user = u, !.seen = u]
    <3>2. DOMAIN have = Locals /\ have.call = req[s].call
      BY <2>1 DEF Locals
    <3>3. req[s].pc = "lookup" /\ Op(s) \in {"register", "login", "oauth"}
      BY <2>1, <2>4 DEF FoundUser, At, RequestOK, CallOK, Op
    <3>4. \/ Become(s, End(req[s], "error")) \/ Become(s, End(req[s], "panicked"))
          \/ Become(s, Goto(have, "post")) \/ Become(s, Goto(have, "touch"))
      <4>1. CASE Op(s) = "register"
        BY <3>1, <4>1, Zenon
      <4>2. CASE Op(s) = "login"
        BY <3>1, <4>2
      <4>3. CASE Op(s) = "oauth"
        BY <3>1, <4>3
      <4> QED
        BY <3>3, <4>1, <4>2, <4>3
    <3> HIDE DEF have
    <3> QED
      BY <1>5, <2>1, <3>2, <3>3, <3>4 DEF Answers
  <2>5. CASE CreateUser(s)
    <3>1. PICK o, new : Become(s, Goto([req[s] EXCEPT !.user = new, !.seen = new],
                                       AfterCreate(req[s], o)))
      BY <2>5 DEF CreateUser
    <3>2. AfterCreate(req[s], o) # "new"
      BY DEF AfterCreate, BeforeSession
    <3>3. /\ DOMAIN [req[s] EXCEPT !.user = new, !.seen = new] = Locals
          /\ [req[s] EXCEPT !.user = new, !.seen = new].call = req[s].call
      BY <2>1 DEF Locals
    <3> QED
      BY <1>5, <2>5, <3>1, <3>2, <3>3 DEF CreateUser, At, Answers
  <2>6. CASE UpdateUser(s)
    <3>1. PICK o, user, new : Become(s, Goto([req[s] EXCEPT !.user = user, !.seen = new],
                                             AfterUpdate(req[s], o)))
      BY <2>6 DEF UpdateUser
    <3>2. /\ req[s].pc \in {"touch", "save_pre", "save_post"}
          /\ AfterUpdate(req[s], o) \in {"ok", "error", "session", "save_pre"}
      BY <2>1, <2>6, AfterUpdateLeads DEF UpdateUser, RequestOK, CallOK
    <3>3. /\ DOMAIN [req[s] EXCEPT !.user = user, !.seen = new] = Locals
          /\ [req[s] EXCEPT !.user = user, !.seen = new].call = req[s].call
      BY <2>1 DEF Locals
    <3> QED
      BY <1>5, <3>1, <3>2, <3>3 DEF Answers
  <2>7. CASE StoreSession(s)
    <3>1. \/ Become(s, End(req[s], "error")) \/ Become(s, Goto(req[s], AfterSession(req[s])))
      BY <2>7 DEF StoreSession
    <3>2. AfterSession(req[s]) # "new"
      BY DEF AfterSession
    <3> QED
      BY <1>5, <2>1, <2>7, <3>1, <3>2 DEF StoreSession, At, Answers
  <2>8. CASE PostActions(s)
    <3>1. PICK res \in Results : \E map, refused :
            Become(s, Goto([req[s] EXCEPT !.map = map, !.refused = refused],
                           AfterPost(req[s], res)))
      BY <2>8 DEF PostActions
    <3>2. PICK map, refused :
            Become(s, Goto([req[s] EXCEPT !.map = map, !.refused = refused],
                           AfterPost(req[s], res)))
      BY <3>1
    <3>3. AfterPost(req[s], res) # "new"
      BY DEF AfterPost
    <3>4. /\ DOMAIN [req[s] EXCEPT !.map = map, !.refused = refused] = Locals
          /\ [req[s] EXCEPT !.map = map, !.refused = refused].call = req[s].call
      BY <2>1 DEF Locals
    <3> QED
      BY <1>5, <2>8, <3>2, <3>3, <3>4 DEF PostActions, At, Answers
  <2> QED
    BY <1>6, <2>2, <2>3, <2>4, <2>5, <2>6, <2>7, <2>8 DEF Serve
<1> QED
  BY <1>3, <1>4, <1>6 DEF Next, Register, Login, ProcessOAuthLogin

-----------------------------------------------------------------------------
(* Where calls go on, for modules that run them next to other requests. *)

\* A step of one request leaves the others alone.
LEMMA OthersStay ==
  ASSUME AccountsInv, NEW r \in Requests,
         Register(r) \/ Login(r) \/ ProcessOAuthLogin(r) \/ Serve(r),
         NEW s \in Requests, s # r
  PROVE  req'[s] = req[s]
<1>1. \E q : Become(r, q)
  BY DEF Register, Login, ProcessOAuthLogin, PreActions, Serve, Missing, LoginFails, FoundUser,
     CreateUser, UpdateUser, StoreSession, PostActions
<1> QED
  BY <1>1 DEF Become, AccountsInv

\* What a call does once its session is stored: a login writes last_login, any
\* other call runs its scripts and saves what they made.
Trailing(q) ==
  \/ q.pc = "touch" /\ q.call.op = "login"
  \/ q.pc \in {"post", "save_post"} /\ q.call.op # "login"

LEMMA SessionTrails ==
  ASSUME AccountsInv, NEW r \in Requests, StoreSession(r)
  PROVE  req'[r].pc = "error" \/ Trailing(req'[r])
<1>1. DOMAIN req[r] = Locals
  BY DEF AccountsInv, RequestOK
<1>2. req'[r] \in {End(req[r], "error"), Goto(req[r], AfterSession(req[r]))}
  BY DEF AccountsInv, StoreSession, Become
<1>3. End(req[r], "error").pc = "error"
  BY <1>1, Ended
<1>4. Trailing(Goto(req[r], AfterSession(req[r])))
  BY <1>1, Gone DEF Trailing, AfterSession
<1> QED
  BY <1>2, <1>3, <1>4

LEMMA TrailingStep ==
  ASSUME AccountsInv, NEW r \in Requests, Trailing(req[r]), UpdateUser(r) \/ PostActions(r)
  PROVE  req'[r].pc \in Answers \/ Trailing(req'[r])
<1> DEFINE q == req[r]
<1>1. /\ DOMAIN q = Locals /\ CallOK(q.call)
      /\ q.pc = "touch" => q.call.op # "register"
  BY DEF AccountsInv, RequestOK, Trailing
<1>2. CASE UpdateUser(r)
  <2>1. PICK o, user, new :
          Become(r, Goto([q EXCEPT !.user = user, !.seen = new], AfterUpdate(q, o)))
    BY <1>2 DEF UpdateUser
  <2> DEFINE have == [q EXCEPT !.user = user, !.seen = new]
  <2>2. DOMAIN have = Locals
    BY <1>1 DEF Locals
  <2> HIDE DEF have
  <2>3. Goto(have, AfterUpdate(q, o)).pc = AfterUpdate(q, o)
    BY <2>2, Gone
  <2>4. AfterUpdate(q, o) \in Answers
    <3>1. CASE q.pc = "touch" /\ q.call.op = "login"
      BY <1>1, <3>1, AfterUpdateLeads DEF CallOK, Answers
    <3>2. CASE q.pc = "save_post" /\ q.call.op # "login"
      <4>1. AfterUpdate(q, o) = "ok"
        BY <3>2, Zenon DEF AfterUpdate
      <4> QED
        BY <4>1 DEF Answers
    <3> QED
      BY <1>2, <3>1, <3>2 DEF UpdateUser, Trailing
  <2>5. req'[r] = Goto(have, AfterUpdate(q, o))
    BY <2>1 DEF AccountsInv, Become, have
  <2> QED
    BY <2>3, <2>4, <2>5
<1>3. CASE PostActions(r)
  <2>1. PICK res, map, refused :
          Become(r, Goto([q EXCEPT !.map = map, !.refused = refused], AfterPost(q, res)))
    <3>1. PICK res \in Results :
            LET to == AfterPost(q, res) IN
            Become(r, Goto([q EXCEPT !.map = IF to = "save_post" THEN res.map ELSE Nil,
                                     !.refused = q.refused \/ Refuses(res)], to))
      BY <1>3 DEF PostActions
    <3> QED
      BY <3>1
  <2> DEFINE have == [q EXCEPT !.map = map, !.refused = refused]
  <2>2. DOMAIN have = Locals /\ have.call = q.call
    BY <1>1 DEF Locals
  <2> HIDE DEF have
  <2>3. /\ Goto(have, AfterPost(q, res)).pc = AfterPost(q, res)
        /\ Goto(have, AfterPost(q, res)).call = q.call
    BY <2>2, Gone
  <2>4. q.call.op # "login"
    BY <1>3 DEF PostActions, At, Trailing
  <2>5. AfterPost(q, res) \in {"ok", "save_post"}
    BY <2>4 DEF AfterPost
  <2>6. req'[r] = Goto(have, AfterPost(q, res))
    BY <2>1 DEF AccountsInv, Become, have
  <2> QED
    BY <2>3, <2>4, <2>5, <2>6 DEF Trailing, Answers
<1> QED
  BY <1>2, <1>3

-----------------------------------------------------------------------------
(* Providers: the one part of an account's identity that a script can change. *)

\* A row is at the provider a call named, unless a script moved it.
OfCaller(u, call, ids) == u.Provider = call.Provider \/ u.ID \in ids

\* The row with a call's e-mail.
AllOfCaller(call, table, ids) == \A u \in table : u.Email = call.Email => OfCaller(u, call, ids)

ProviderOK(q, table, ids) ==
  /\ q.pc # "new" /\ q.call.op # "oauth" => q.call.Provider = "password"
  /\ q.pc = "create" /\ q.call.op = "oauth" => q.user.Provider = q.call.Provider
  /\ q.pc \in Working => OfCaller(q.user, q.call, ids)
  /\ q.pc \in Working \cup {"ok"} => AllOfCaller(q.call, table, ids)

ProviderInv ==
  /\ \A r \in Requests : ProviderOK(req[r], users, moved)
  /\ \A s \in sessions : AllOfCaller(req[s.req].call, users, moved)

\* Every row that was there before is where it was, unless it was moved.
Stays(table, new, ids) ==
  \A v \in new, u \in table :
    u.Email = v.Email => v.ID = u.ID /\ (v.Provider = u.Provider \/ v.ID \in ids)

\* An INSERT that the table's constraints let through.
LEMMA FreshStays ==
  ASSUME NEW table, NEW user, DOMAIN user = Fields, NEW id, id \notin {u.ID : u \in table},
         NEW new, new = [user EXCEPT !.ID = id], SchemaAllows(table \cup {new}), NEW ids
  PROVE  Stays(table, table \cup {new}, ids)
<1>1. new.ID = id
  BY DEF Fields
<1>2. new \notin table
  BY <1>1
<1> QED
  BY <1>2, Rows DEF Stays

LEMMA StaysSame ==
  ASSUME NEW table, NEW ids, SchemaAllows(table) PROVE Stays(table, table, ids)
BY Rows DEF Stays

\* The row a request owns has its call's e-mail.
LEMMA OwnRow ==
  ASSUME NEW q, NEW table, Owns(q, table)
  PROVE  \E u \in table : u.ID = q.user.ID /\ u.Email = q.call.Email
BY DEF Owns, SameIdentity, Presented

\* A row that was there, and that stays, is still the caller's.
LEMMA CallersStay ==
  ASSUME NEW table, NEW new, NEW call, NEW ids, NEW more,
         ids \subseteq more, Stays(table, new, more), \E u \in table : u.Email = call.Email,
         AllOfCaller(call, table, ids)
  PROVE  AllOfCaller(call, new, more)
BY DEF AllOfCaller, OfCaller, Stays

\* A step of request r to q.
LEMMA ProviderStep ==
  ASSUME AccountsInv, ProviderInv, NEW r \in Requests, NEW q, Become(r, q),
         Stays(users, users', moved'), moved \subseteq moved',
         ProviderOK(q, users', moved'),
         req[r].pc # "new" => q.call = req[r].call,
         \A s \in sessions' : \/ s \in sessions
                              \/ s.req = r /\ AllOfCaller(q.call, users', moved')
  PROVE  ProviderInv'
<1>1. req'[r] = q /\ \A s \in Requests : s # r => req'[s] = req[s]
  BY DEF AccountsInv, Become
<1>2. ASSUME NEW s \in Requests, s # r PROVE ProviderOK(req'[s], users', moved')
  <2>1. req'[s] = req[s] /\ ProviderOK(req[s], users, moved) /\ RequestOK(req[s], users)
    BY <1>1, <1>2 DEF AccountsInv, ProviderInv
  <2>2. ASSUME req[s].pc \in Working \cup {"ok"}
        PROVE  AllOfCaller(req[s].call, users', moved')
    <3>1. \E u \in users : u.Email = req[s].call.Email
      BY <2>1, <2>2, OwnRow DEF RequestOK, Presented
    <3> QED
      BY <2>1, <2>2, <3>1, CallersStay DEF ProviderOK
  <2> QED
    BY <2>1, <2>2 DEF ProviderOK, OfCaller
<1>3. ASSUME NEW s \in sessions' PROVE AllOfCaller(req'[s.req].call, users', moved')
  <2>1. CASE s \in sessions
    <3>1. /\ s.req \in Requests /\ req[s.req].pc # "new"
          /\ \E u \in users : u.Email = req[s.req].call.Email
          /\ AllOfCaller(req[s.req].call, users, moved)
      BY <2>1 DEF AccountsInv, SessionOK, Presented, ProviderInv
    <3>2. req'[s.req].call = req[s.req].call
      BY <1>1, <3>1
    <3> QED
      BY <3>1, <3>2, CallersStay
  <2>2. CASE s \notin sessions
    BY <1>1, <1>3, <2>2
  <2> QED
    BY <2>1, <2>2
<1>4. \A s \in Requests : ProviderOK(req'[s], users', moved')
  BY <1>1, <1>2
<1> QED
  BY <1>3, <1>4 DEF ProviderInv, ProviderOK, OfCaller, AllOfCaller

\* The same, where the tables are left alone and the copy is not another one.
LEMMA ProviderQuiet ==
  ASSUME AccountsInv, ProviderInv, NEW r \in Requests, NEW q, Become(r, q),
         UNCHANGED <<users, moved>>, q.call = req[r].call,
         req[r].pc # "new", q.pc # "create",
         q.pc \in Working => req[r].pc \in Working /\ q.user = req[r].user,
         q.pc = "ok" => req[r].pc \in Working,
         \A s \in sessions' : \/ s \in sessions
                              \/ s.req = r /\ AllOfCaller(q.call, users, moved)
  PROVE  ProviderInv'
<1>1. ProviderOK(req[r], users, moved)
  BY DEF ProviderInv
<1>2. ProviderOK(q, users', moved')
  BY <1>1 DEF ProviderOK
<1>3. Stays(users, users', moved')
  BY StaysSame DEF AccountsInv, TableOK
<1> QED
  BY <1>2, <1>3, ProviderStep

LEMMA NewCallProvider ==
  ASSUME AccountsInv, ProviderInv, NEW r \in Requests,
         Register(r) \/ Login(r) \/ ProcessOAuthLogin(r)
  PROVE  ProviderInv'
<1>1. PICK call : PreActions(r, call) /\ (call.op # "oauth" => call.Provider = "password")
  <2> DEFINE Named(call) == call.op # "oauth" => call.Provider = "password"
  <2>1. \A op, e, p : Named(PasswordCall(op, e, p))
    BY DEF PasswordCall
  <2>2. \A e, provider, pid :
          Named([op |-> "oauth", Email |-> e, Password |-> Nil,
                 Provider |-> provider, ProviderID |-> pid])
    OBVIOUS
  <2> HIDE DEF Named
  <2>3. \E call : PreActions(r, call) /\ Named(call)
    BY <2>1, <2>2, Zenon DEF Register, Login, ProcessOAuthLogin
  <2> QED
    BY <2>3 DEF Named
<1>2. PICK res \in Results :
        Become(r, IF Refuses(res)
                    THEN End([[NewRequest EXCEPT !.call = call] EXCEPT !.refused = TRUE], "error")
                    ELSE [[NewRequest EXCEPT !.call = call] EXCEPT !.pc = "lookup",
                            !.map = IF call.op = "login" THEN Nil ELSE res.map])
  BY <1>1 DEF PreActions
<1> DEFINE refusal == End([[NewRequest EXCEPT !.call = call] EXCEPT !.refused = TRUE], "error")
           lookup == [[NewRequest EXCEPT !.call = call] EXCEPT !.pc = "lookup",
                         !.map = IF call.op = "login" THEN Nil ELSE res.map]
<1>3. refusal.pc = "error" /\ refusal.call = call /\ lookup.pc = "lookup" /\ lookup.call = call
  BY DEF NewRequest, End
<1> HIDE DEF refusal, lookup
<1>4. PICK q : Become(r, q) /\ q.pc \in {"error", "lookup"} /\ q.call = call
  BY <1>2, <1>3 DEF refusal, lookup
<1>5. req[r].pc = "new" /\ users' = users /\ moved' = moved /\ sessions' = sessions
  BY <1>1 DEF PreActions, At, database
<1>6. ProviderOK(q, users', moved')
  BY <1>1, <1>4 DEF ProviderOK, Working
<1>7. Stays(users, users', moved')
  BY <1>5, StaysSame DEF AccountsInv, TableOK
<1> QED
  BY <1>4, <1>5, <1>6, <1>7, ProviderStep

LEMMA MissingProvider ==
  ASSUME AccountsInv, ProviderInv, NEW r \in Requests, Missing(r)
  PROVE  ProviderInv'
<1>1. /\ DOMAIN req[r] = Locals /\ req[r].pc = "lookup"
      /\ ProviderOK(req[r], users, moved)
      /\ users' = users /\ moved' = moved /\ sessions' = sessions
  BY DEF AccountsInv, RequestOK, ProviderInv, Missing, At, database
<1>2. PICK user, map :
        /\ \/ Become(r, [req[r] EXCEPT !.pc = "create", !.user = user, !.map = map])
           \/ Become(r, [req[r] EXCEPT !.pc = "create", !.user = user])
        /\ req[r].call.op = "oauth" => user = NewUser(req[r].call)
  BY DEF Missing, Op
<1> DEFINE p == [req[r] EXCEPT !.pc = "create", !.user = user, !.map = map]
           q == [req[r] EXCEPT !.pc = "create", !.user = user]
<1>3. /\ p.pc = "create" /\ p.call = req[r].call /\ p.user = user
      /\ q.pc = "create" /\ q.call = req[r].call /\ q.user = user
  BY <1>1 DEF Locals
<1> HIDE DEF p, q
<1>4. PICK new : Become(r, new) /\ new.pc = "create" /\ new.call = req[r].call /\ new.user = user
  BY <1>2, <1>3 DEF p, q
<1>5. req[r].call.op = "oauth" => user.Provider = req[r].call.Provider
  BY <1>2 DEF NewUser
<1>6. ProviderOK(new, users', moved')
  BY <1>1, <1>4, <1>5 DEF ProviderOK, Working
<1>7. Stays(users, users', moved')
  BY <1>1, StaysSame DEF AccountsInv, TableOK
<1> QED
  BY <1>1, <1>4, <1>6, <1>7, ProviderStep

\* A row that was found is at the provider the call named: ProcessOAuthLogin
\* compares it, and a password is only in rows of no provider.
LEMMA FoundUserProvider ==
  ASSUME AccountsInv, ProviderInv, NEW r \in Requests, FoundUser(r)
  PROVE  ProviderInv'
<1> DEFINE q == req[r]
<1>1. /\ RequestOK(q, users) /\ DOMAIN q = Locals /\ q.pc = "lookup" /\ CallOK(q.call)
      /\ ProviderOK(q, users, moved)
      /\ users' = users /\ moved' = moved /\ sessions' = sessions
  BY DEF AccountsInv, RequestOK, ProviderInv, FoundUser, At, database
<1>2. PICK u \in ByEmail(q.call.Email) :
        LET have == [q EXCEPT !.user = u, !.seen = u] IN
        Become(r,
          CASE Op(r) = "register" -> End(q, "error")
            [] Op(r) = "login" -> IF u.Password = Nil THEN End(q, "panicked")
                                  ELSE IF u.Password = q.call.Password THEN Goto(have, "post")
                                  ELSE End(q, "error")
            [] Op(r) = "oauth" -> IF SameAccount(u, q.call) THEN Goto(have, "touch")
                                  ELSE End(q, "error"))
  BY DEF FoundUser
<1> DEFINE have == [q EXCEPT !.user = u, !.seen = u]
<1>3. u \in users /\ (u.Provider = "password" <=> u.Password # Nil) /\ SchemaAllows(users)
  BY Rows DEF ByEmail, AccountsInv, TableOK
<1>4. DOMAIN have = Locals /\ have.call = q.call /\ have.user = u
  BY <1>1 DEF Locals
<1> HIDE DEF have
<1>5. \/ Become(r, End(q, "error")) \/ Become(r, End(q, "panicked"))
      \/ q.call.op = "login" /\ u.Password # Nil /\ Become(r, Goto(have, "post"))
      \/ q.call.op = "oauth" /\ SameAccount(u, q.call) /\ Become(r, Goto(have, "touch"))
  BY <1>1, <1>2 DEF Op, CallOK, have
<1>6. ASSUME NEW answer \in {"error", "panicked"}, Become(r, End(q, answer))
      PROVE  ProviderInv'
  <2>1. End(q, answer).call = q.call /\ End(q, answer).pc \in {"error", "panicked"}
    BY <1>1, Ended
  <2> QED
    BY <1>1, <1>6, <2>1, ProviderQuiet DEF Working
<1>7. ASSUME NEW pc \in {"post", "touch"}, Become(r, Goto(have, pc)), u.Provider = q.call.Provider
      PROVE  ProviderInv'
  <2> DEFINE p == Goto(have, pc)
  <2>1. p.pc = pc /\ p.call = q.call /\ p.user = u
    BY <1>4, <1>7, Gone DEF Answers
  <2> HIDE DEF p
  <2>2. AllOfCaller(q.call, users, moved)
    BY <1>3, <1>7, Rows DEF AllOfCaller, OfCaller, ByEmail
  <2>3. ProviderOK(p, users', moved')
    BY <1>1, <1>7, <2>1, <2>2 DEF ProviderOK, OfCaller
  <2>4. Stays(users, users', moved')
    BY <1>1, <1>3, StaysSame
  <2> QED
    BY <1>1, <1>7, <2>1, <2>3, <2>4, ProviderStep DEF p
<1>8. q.call.op = "login" /\ u.Password # Nil => u.Provider = q.call.Provider
  BY <1>1, <1>3 DEF ProviderOK
<1>9. SameAccount(u, q.call) => u.Provider = q.call.Provider
  BY DEF SameAccount
<1> QED
  BY <1>5, <1>6, <1>7, <1>8, <1>9

\* A row that was created is at the provider the call named, whatever the map of
\* the pre-register scripts: the table's CHECK refuses a password there.
LEMMA CreateUserProvider ==
  ASSUME AccountsInv, ProviderInv, NEW r \in Requests, CreateUser(r)
  PROVE  ProviderInv'
<1> DEFINE q == req[r]
<1>1. /\ DOMAIN q = Locals /\ q.pc = "create" /\ CallOK(q.call)
      /\ DOMAIN q.user = Fields /\ Presented(q.user, q.call)
      /\ ProviderOK(q, users, moved)
      /\ moved' = moved /\ sessions' = sessions
  BY DEF AccountsInv, RequestOK, ProviderInv, CreateUser, At
<1>2. PICK o \in Outcomes, id \in Ids \ {u.ID : u \in users} :
        LET new == [q.user EXCEPT !.ID = id] IN
        /\ Applied(o) => SchemaAllows(users \cup {new})
        /\ IF Applied(o) THEN users' = users \cup {new} /\ intended' = intended \cup {new}
                         ELSE UNCHANGED <<users, intended>>
        /\ Become(r, Goto([q EXCEPT !.user = new, !.seen = new], AfterCreate(q, o)))
  BY DEF CreateUser
<1> DEFINE new == [q.user EXCEPT !.ID = id]
           have == [q EXCEPT !.user = new, !.seen = new]
           p == Goto(have, AfterCreate(q, o))
<1>3. /\ new.Email = q.call.Email
      /\ new.Password = q.call.Password /\ new.Provider = q.user.Provider
  BY <1>1 DEF Fields, Presented
<1>4. IF Applied(o) THEN users' = users \cup {new} /\ SchemaAllows(users \cup {new})
                    ELSE users' = users
  BY <1>2
<1> HIDE DEF new
<1>5. DOMAIN have = Locals /\ have.call = q.call /\ have.user = new
  BY <1>1 DEF Locals
<1> HIDE DEF have
<1>6. /\ p.pc = AfterCreate(q, o) /\ p.call = q.call
      /\ p.pc \notin Answers => p.user = new
  BY <1>5, Gone
<1> HIDE DEF p
<1>7. Become(r, p)
  BY <1>2 DEF p, have, new
<1>8. /\ p.pc \in Working => Applied(o) /\ p.user = new
      /\ p.pc \notin {"create", "ok"}
  BY <1>6 DEF AfterCreate, BeforeSession, Err, Applied, Working, Answers
<1>9. Applied(o) => \A u \in users' : u.Email = new.Email => u = new
  BY <1>4, Rows
<1>10. Stays(users, users', moved')
  <2>1. CASE Applied(o)
    <3>1. id \notin {u.ID : u \in users} /\ users' = users \cup {new}
          /\ SchemaAllows(users \cup {new}) /\ new = [q.user EXCEPT !.ID = id]
      BY <1>2, <1>4, <2>1 DEF new
    <3> QED
      BY <1>1, <3>1, FreshStays
  <2>2. CASE ~Applied(o)
    BY <1>4, <2>2, StaysSame DEF AccountsInv, TableOK
  <2> QED
    BY <2>1, <2>2
<1>11. ASSUME Applied(o) PROVE new.Provider = q.call.Provider
  <2>1. CASE q.call.op = "oauth"
    BY <1>1, <1>3, <2>1 DEF ProviderOK
  <2>2. CASE q.call.op # "oauth"
    <3>1. new.Password # Nil /\ q.call.Provider = "password"
      BY <1>1, <1>3, <2>2 DEF CallOK, ProviderOK
    <3> QED
      BY <1>4, <1>11, <3>1, Rows
  <2> QED
    BY <2>1, <2>2
<1>12. ProviderOK(p, users', moved')
  <2>1. p.pc \in Working => AllOfCaller(q.call, users', moved')
    BY <1>3, <1>8, <1>9, <1>11 DEF AllOfCaller, OfCaller
  <2> QED
    BY <1>1, <1>6, <1>8, <1>11, <2>1 DEF ProviderOK, OfCaller
<1> QED
  BY <1>1, <1>6, <1>7, <1>10, <1>12, ProviderStep

\* Only a map that names a provider changes a copy's.
LEMMA ChangedProvider ==
  ASSUME NEW q, NEW user, DOMAIN user = Fields, ~NamesProvider(q)
  PROVE  Change(q, user).Provider = user.Provider
<1>1. [user EXCEPT !.LastLogin = TRUE].Provider = user.Provider
  BY DEF Fields
<1>2. CASE q.pc # "touch"
  <2>1. ~ (q.map # Nil /\ "Provider" \in DOMAIN q.map)
    BY <1>2 DEF NamesProvider
  <2>2. updateUserFromMap(user, q.map).Provider = user.Provider
    BY <2>1 DEF updateUserFromMap, Fields
  <2> QED
    BY <1>2, <2>2 DEF Change
<1> QED
  BY <1>1, <1>2 DEF Change

\* What an UPDATE that took effect leaves: nobody is moved but by a map that
\* names a provider.
LEMMA OverwriteStays ==
  ASSUME AccountsInv, ProviderInv, NEW r \in Requests, req[r].pc \in Working,
         NEW new, new = Change(req[r], req[r].user),
         users' = Overwrite(users, new),
         moved' = IF NamesProvider(req[r]) THEN moved \cup {new.ID} ELSE moved
  PROVE  /\ OfCaller(new, req[r].call, moved')
         /\ moved \subseteq moved' /\ Stays(users, users', moved')
<1> DEFINE q == req[r]
<1>1. /\ Owns(q, users) /\ DOMAIN q.user = Fields /\ SchemaAllows(users)
      /\ ProviderOK(q, users, moved)
  BY DEF AccountsInv, TableOK, RequestOK, Owns, ProviderInv
<1>2. SameIdentity(new, q.user)
  BY <1>1, ChangedUser
<1>3. /\ new.ID = q.user.ID /\ new.Email = q.user.Email /\ q.user.Email = q.call.Email
      /\ moved \subseteq moved'
  BY <1>1, <1>2 DEF SameIdentity, Owns, Presented
<1>4. new.Provider = q.user.Provider \/ new.ID \in moved'
  BY <1>1, ChangedProvider
<1>5. OfCaller(new, q.call, moved')
  BY <1>1, <1>3, <1>4 DEF ProviderOK, OfCaller
<1>6. ASSUME NEW v \in users', NEW u \in users, u.Email = v.Email
      PROVE  v.ID = u.ID /\ (v.Provider = u.Provider \/ v.ID \in moved')
  <2>1. CASE v = new
    <3>1. OfCaller(u, q.call, moved)
      BY <1>1, <1>3, <1>6, <2>1 DEF ProviderOK, AllOfCaller
    <3>2. u.ID = new.ID
      BY <1>1, <1>3, <1>6, <2>1, OwnRow, Rows
    <3> QED
      BY <1>3, <1>5, <1>6, <2>1, <3>1, <3>2 DEF OfCaller
  <2>2. CASE v \in users
    BY <1>1, <1>6, <2>2, Rows
  <2> QED
    BY <2>1, <2>2 DEF Overwrite
<1> QED
  BY <1>3, <1>5, <1>6 DEF Stays

LEMMA UpdateUserProvider ==
  ASSUME AccountsInv, ProviderInv, NEW r \in Requests, UpdateUser(r)
  PROVE  ProviderInv'
<1> DEFINE q == req[r]
           new == Change(q, q.user)
<1>1. /\ RequestOK(q, users) /\ DOMAIN q = Locals /\ CallOK(q.call) /\ Owns(q, users)
      /\ q.pc \in {"touch", "save_pre", "save_post"} /\ q.pc \in Working
      /\ q.pc = "touch" => q.call.op # "register"
      /\ ProviderOK(q, users, moved)
  BY DEF AccountsInv, RequestOK, ProviderInv, UpdateUser, Working
<1>2. PICK o \in Outcomes :
        /\ IF Applied(o)
             THEN /\ users' = Overwrite(users, new)
                  /\ moved' = IF NamesProvider(q) THEN moved \cup {new.ID} ELSE moved
             ELSE users' = users /\ moved' = moved
        /\ Become(r, Goto([q EXCEPT !.user = Copy(q.user, new), !.seen = new],
                          AfterUpdate(q, o)))
  BY DEF UpdateUser, database
<1> DEFINE have == [q EXCEPT !.user = Copy(q.user, new), !.seen = new]
           p == Goto(have, AfterUpdate(q, o))
<1>3. /\ Applied(o) => OfCaller(new, q.call, moved')
      /\ moved \subseteq moved' /\ Stays(users, users', moved')
  <2>1. CASE Applied(o)
    BY <1>1, <1>2, <2>1, OverwriteStays
  <2>2. CASE ~Applied(o)
    BY <1>2, <2>2, StaysSame DEF AccountsInv, TableOK
  <2> QED
    BY <2>1, <2>2
<1>4. /\ AfterUpdate(q, o) \in {"ok", "error", "session", "save_pre"}
      /\ AfterUpdate(q, o) \in {"session", "save_pre"} => Applied(o)
  BY <1>1, AfterUpdateLeads DEF CallOK, Err, Applied
<1> HIDE DEF new
<1>5. DOMAIN have = Locals /\ have.call = q.call /\ have.user = new
  BY <1>1 DEF Locals, Copy
<1> HIDE DEF have
<1>6. /\ p.pc = AfterUpdate(q, o) /\ p.call = q.call
      /\ p.pc \notin Answers => p.user = new
  BY <1>5, Gone
<1> HIDE DEF p
<1>7. p.pc \in Working => Applied(o) /\ p.user = new
  BY <1>4, <1>6 DEF Working, Answers
<1>8. \E u \in users : u.Email = q.call.Email
  BY <1>1, OwnRow
<1>9. AllOfCaller(q.call, users', moved')
  BY <1>1, <1>3, <1>8, CallersStay DEF ProviderOK
<1>10. ProviderOK(p, users', moved')
  BY <1>1, <1>3, <1>4, <1>6, <1>7, <1>9 DEF ProviderOK
<1>11. Become(r, p) /\ sessions' = sessions
  BY <1>2 DEF UpdateUser, p, have, new
<1> QED
  BY <1>1, <1>3, <1>6, <1>10, <1>11, ProviderStep

LEMMA StoreSessionProvider ==
  ASSUME AccountsInv, ProviderInv, NEW r \in Requests, StoreSession(r)
  PROVE  ProviderInv'
<1> DEFINE q == req[r]
<1>1. /\ DOMAIN q = Locals /\ q.pc = "session" /\ q.pc \in Working
      /\ ProviderOK(q, users, moved) /\ users' = users /\ moved' = moved
  BY DEF AccountsInv, RequestOK, ProviderInv, StoreSession, At, Working, database
<1>2. PICK p : /\ Become(r, p)
               /\ p = End(q, "error") \/ p = Goto(q, AfterSession(q))
  BY DEF StoreSession
<1>3. /\ p.call = q.call
      /\ p.pc = "error" \/ (p.pc \in {"touch", "post"} /\ p.user = q.user)
  <2>1. CASE p = End(q, "error")
    BY <1>1, <2>1, Ended
  <2>2. CASE p = Goto(q, AfterSession(q))
    <3>1. AfterSession(q) \in {"touch", "post"} /\ AfterSession(q) \notin Answers
      BY DEF AfterSession, Answers
    <3> QED
      BY <1>1, <2>2, <3>1, Gone
  <2> QED
    BY <1>2, <2>1, <2>2
<1>4. \A s \in sessions' : s \in sessions \/ s.req = r
  BY DEF StoreSession
<1>5. AllOfCaller(p.call, users, moved)
  BY <1>1, <1>3 DEF ProviderOK
<1> QED
  BY <1>1, <1>2, <1>3, <1>4, <1>5, ProviderQuiet DEF Working

LEMMA PostActionsProvider ==
  ASSUME AccountsInv, ProviderInv, NEW r \in Requests, PostActions(r)
  PROVE  ProviderInv'
<1> DEFINE q == req[r]
<1>1. /\ DOMAIN q = Locals /\ q.pc = "post" /\ q.pc \in Working
      /\ users' = users /\ moved' = moved /\ sessions' = sessions
  BY DEF AccountsInv, RequestOK, PostActions, At, Working, database
<1>2. PICK res, map, refused :
        Become(r, Goto([q EXCEPT !.map = map, !.refused = refused], AfterPost(q, res)))
  <2>1. PICK res \in Results :
          LET to == AfterPost(q, res) IN
          Become(r, Goto([q EXCEPT !.map = IF to = "save_post" THEN res.map ELSE Nil,
                                   !.refused = q.refused \/ Refuses(res)], to))
    BY DEF PostActions
  <2> QED
    BY <2>1
<1> DEFINE have == [q EXCEPT !.map = map, !.refused = refused]
           p == Goto(have, AfterPost(q, res))
<1>3. DOMAIN have = Locals /\ have.call = q.call /\ have.user = q.user
  BY <1>1 DEF Locals
<1> HIDE DEF have
<1>4. /\ p.pc = AfterPost(q, res) /\ p.call = q.call
      /\ p.pc \notin Answers => p.user = q.user
  BY <1>3, Gone
<1> HIDE DEF p
<1>5. p.pc # "create" /\ (p.pc \in Working => p.user = q.user)
  BY <1>4 DEF AfterPost, Answers, Working
<1> QED
  BY <1>1, <1>2, <1>4, <1>5, ProviderQuiet DEF p, have

LEMMA LoginFailsProvider ==
  ASSUME AccountsInv, ProviderInv, NEW r \in Requests, LoginFails(r)
  PROVE  ProviderInv'
<1>1. /\ DOMAIN req[r] = Locals /\ req[r].pc = "lookup"
      /\ users' = users /\ moved' = moved /\ sessions' = sessions
      /\ Become(r, End(req[r], "error"))
  BY DEF AccountsInv, RequestOK, LoginFails, At, database
<1>2. End(req[r], "error").pc = "error" /\ End(req[r], "error").call = req[r].call
  BY <1>1, Ended
<1> QED
  BY <1>1, <1>2, ProviderQuiet DEF Working

LEMMA RestartProvider == AccountsInv /\ ProviderInv /\ Restart => ProviderInv'
<1> SUFFICES ASSUME AccountsInv, ProviderInv, Restart PROVE ProviderInv'
  OBVIOUS
<1>1. users' = users /\ moved' = moved /\ sessions' = sessions
  BY DEF Restart, database
<1>2. ASSUME NEW r \in Requests
      PROVE  req'[r] = req[r] \/ (req'[r].pc = "lost" /\ req'[r].call = req[r].call
                                  /\ req[r].pc # "new")
  <2>1. DOMAIN req[r] = Locals
    BY DEF AccountsInv, RequestOK
  <2> QED
    BY <2>1, Ended DEF Restart
<1>3. ASSUME NEW r \in Requests PROVE ProviderOK(req'[r], users, moved)
  BY <1>2, <1>3 DEF ProviderInv, ProviderOK, Working
<1>4. ASSUME NEW s \in sessions PROVE AllOfCaller(req'[s.req].call, users, moved)
  BY <1>2, <1>4 DEF AccountsInv, ProviderInv
<1> QED
  BY <1>1, <1>3, <1>4 DEF ProviderInv, ProviderOK, OfCaller, AllOfCaller

LEMMA NextProvider == AccountsInv /\ ProviderInv /\ [Next]_vars => ProviderInv'
<1> SUFFICES ASSUME AccountsInv, ProviderInv, [Next]_vars PROVE ProviderInv'
  OBVIOUS
<1>1. CASE UNCHANGED vars
  BY <1>1 DEF vars, ProviderInv, ProviderOK, OfCaller, AllOfCaller
<1>2. ASSUME NEW r \in Requests, Register(r) \/ Login(r) \/ ProcessOAuthLogin(r) \/ Serve(r)
      PROVE  ProviderInv'
  BY <1>2, NewCallProvider, MissingProvider, LoginFailsProvider, FoundUserProvider,
     CreateUserProvider, UpdateUserProvider, StoreSessionProvider, PostActionsProvider DEF Serve
<1> QED
  BY <1>1, <1>2, RestartProvider DEF Next

LEMMA NextStays ==
  AccountsInv /\ ProviderInv /\ [Next]_vars => Stays(users, users', moved')
<1> SUFFICES ASSUME AccountsInv, ProviderInv, [Next]_vars PROVE Stays(users, users', moved')
  OBVIOUS
<1>1. SchemaAllows(users)
  BY DEF AccountsInv, TableOK
<1>2. ASSUME NEW r \in Requests, CreateUser(r) PROVE Stays(users, users', moved')
  <2>1. DOMAIN req[r].user = Fields
    BY <1>2 DEF AccountsInv, RequestOK, CreateUser, At
  <2>2. users' = users \/ \E id \in Ids \ {u.ID : u \in users} :
          /\ users' = users \cup {[req[r].user EXCEPT !.ID = id]}
          /\ SchemaAllows(users \cup {[req[r].user EXCEPT !.ID = id]})
    BY <1>2 DEF CreateUser
  <2> QED
    <3>1. ASSUME NEW id \in Ids \ {u.ID : u \in users}, NEW new,
                 new = [req[r].user EXCEPT !.ID = id], users' = users \cup {new},
                 SchemaAllows(users \cup {new})
          PROVE  Stays(users, users', moved')
      <4>1. id \notin {u.ID : u \in users}
        OBVIOUS
      <4> QED
        BY <2>1, <3>1, <4>1, FreshStays
    <3> QED
      BY <1>1, <2>2, <3>1, StaysSame
<1>3. ASSUME NEW r \in Requests, UpdateUser(r) PROVE Stays(users, users', moved')
  <2>1. req[r].pc \in Working
    BY <1>3 DEF UpdateUser, Working
  <2>2. \/ users' = users
        \/ /\ users' = Overwrite(users, Change(req[r], req[r].user))
           /\ moved' = IF NamesProvider(req[r])
                         THEN moved \cup {Change(req[r], req[r].user).ID} ELSE moved
    BY <1>3 DEF UpdateUser, database
  <2> QED
    BY <1>1, <2>1, <2>2, StaysSame, OverwriteStays
<1>4. ASSUME NEW r \in Requests, Register(r) \/ Login(r) \/ ProcessOAuthLogin(r) \/ Missing(r)
                \/ LoginFails(r) \/ FoundUser(r) \/ StoreSession(r) \/ PostActions(r)
      PROVE  users' = users
  BY <1>4 DEF Register, Login, ProcessOAuthLogin, PreActions, Missing, LoginFails, FoundUser,
     StoreSession, PostActions, database
<1>5. Restart \/ UNCHANGED vars => users' = users
  BY DEF Restart, database, vars
<1> QED
  BY <1>1, <1>2, <1>3, <1>4, <1>5, StaysSame DEF Next, Serve

-----------------------------------------------------------------------------
(* Theorems. *)

\* Every request works on a row whose credentials its call presented, whatever
\* the scripts did to its copy and others to the table (auth_service.go:73-268, 388-520).
THEOREM AccountsInvariance == Spec => []AccountsInv
BY InitAccounts, NextAccounts, PTL DEF Spec

\* Every request works on a row at the provider its call named, and sessions are
\* for such rows, except where a script's map named another provider for the row
\* (auth_service.go:243-265, 413).
THEOREM ProviderInvariance == Spec => []ProviderInv
<1>1. Init => ProviderInv
  BY DEF Init, ProviderInv, ProviderOK, NewRequest, Working
<1> QED
  BY <1>1, NextProvider, AccountsInvariance, PTL DEF Spec

\* No step loses an account or changes its e-mail, password, id at the provider
\* or kind, and its provider only ever by a script's map that names one
\* (auth_service.go:238-268 with the table's constraints).
THEOREM IdentityCorrect == Spec => IdentityStable
<1>1. ASSUME AccountsInv, ProviderInv, [Next]_vars, NEW u \in users
      PROVE  \E v \in users' :
               /\ v.ID = u.ID /\ v.Email = u.Email
               /\ v.Password = u.Password /\ v.ProviderID = u.ProviderID
               /\ v.Provider = "password" <=> u.Provider = "password"
               /\ v.Provider = u.Provider \/ u.ID \in moved'
  <2>1. Keeps(users, users') /\ Stays(users, users', moved')
    BY <1>1, NextKeeps, NextStays
  <2> QED
    BY <2>1 DEF Keeps, Stays, SameIdentity
<1>2. AccountsInv /\ ProviderInv /\ [Next]_vars =>
        [\A u \in users : \E v \in users' :
           /\ v.ID = u.ID /\ v.Email = u.Email
           /\ v.Password = u.Password /\ v.ProviderID = u.ProviderID
           /\ v.Provider = "password" <=> u.Provider = "password"
           /\ v.Provider = u.Provider \/ u.ID \in moved']_vars
  BY <1>1
<1> QED
  BY <1>2, AccountsInvariance, ProviderInvariance, PTL DEF Spec, IdentityStable

\* A session is for the account whose credentials were presented, its provider
\* included unless a script's map named another one for it
\* (auth_service.go:173-181, 219-235, 243-265, 413, 443).
THEOREM SessionCorrect == Spec => []SessionMatchesAccount
<1>1. AccountsInv /\ ProviderInv => SessionMatchesAccount
  BY DEF AccountsInv, SessionOK, Presented, ProviderInv, AllOfCaller, OfCaller,
         SessionMatchesAccount
<1> QED
  BY <1>1, AccountsInvariance, ProviderInvariance, PTL

\* An acknowledged registration stands, and is the only one of its address
\* (auth_service.go:97-135, user_repository_postgres.go).
THEOREM RegisteredCorrect == Spec => []RegisteredStands
<1>1. AccountsInv => RegisteredStands
  <2> SUFFICES ASSUME AccountsInv, NEW r \in Requests, At(r, "ok"), Op(r) = "register"
               PROVE  /\ \E u \in ByEmail(req[r].call.Email) : u.Password = req[r].call.Password
                      /\ \A s \in Requests \ {r} :
                           At(s, "ok") /\ Op(s) = "register" =>
                             req[s].call.Email # req[r].call.Email
    BY DEF RegisteredStands
  <2>1. \E u \in users : Presented(u, req[r].call)
    BY DEF AccountsInv, RequestOK, At
  <2>2. \A s \in Requests : At(s, "ok") /\ Op(s) = "register" => Registered(req[s])
    BY DEF At, Op, Registered
  <2> QED
    BY <2>1, <2>2 DEF AccountsInv, OneRegistration, Presented, ByEmail
<1> QED
  BY <1>1, AccountsInvariance, PTL

\* An update is lost only to a writer that had not seen it
\* (user_repository_postgres.go, UpdateUser).
THEOREM LostUpdatesCorrect == Spec => []OnlyUnseenIsLost
<1>1. AccountsInv => OnlyUnseenIsLost
  BY DEF AccountsInv
<1> QED
  BY <1>1, AccountsInvariance, PTL

\* A password login that its scripts refused stores no session
\* (auth_service.go:183-217).
THEOREM RefusedCorrect == Spec => []RefusedLoginHasNoSession
<1>1. AccountsInv => RefusedLoginHasNoSession
  BY DEF AccountsInv, SessionOK, RefusedLoginHasNoSession, Op
<1> QED
  BY <1>1, AccountsInvariance, PTL

\* Only a password login to an account of a provider panics (auth_service.go:177).
THEOREM PanicsCorrect == Spec => []PanicsOnlyOnOAuthAccount
<1>1. AccountsInv => PanicsOnlyOnOAuthAccount
  BY DEF AccountsInv, RequestOK, PanicsOnlyOnOAuthAccount, At, Op, ByEmail
<1> QED
  BY <1>1, AccountsInvariance, PTL

-----------------------------------------------------------------------------
(* Types. *)

Local == [pc : Steps \cup Answers, call : Call \cup {Nil}, map : Patches \cup {Nil},
          user : User \cup {Nil}, seen : User \cup {Nil}, refused : BOOLEAN]

\* A request knows what it was asked, and has a user where it needs one.
LocalOK(q) ==
  /\ q \in Local
  /\ q.pc # "new" => q.call \in Call
  /\ q.pc \in Working \cup {"create"} => q.user \in User

TypeInv ==
  /\ users \subseteq User /\ \A u \in users : u.ID \in Ids
  /\ req \in [Requests -> Local]
  /\ \A r \in Requests : LocalOK(req[r])
  /\ sessions \subseteq [req : Requests, user : Ids]
  /\ intended \subseteq User
  /\ clobbered \subseteq Ids
  /\ moved \subseteq Ids

LEMMA UpdatedIsUser ==
  ASSUME TypedPatches, NEW user \in User, NEW updates \in Patches \cup {Nil}
  PROVE  updateUserFromMap(user, updates) \in User
<1> DEFINE set(f) == updates # Nil /\ f \in DOMAIN updates \cap Settable
           updated == [f \in DOMAIN user |-> IF set(f) THEN updates[f] ELSE user[f]]
           back == [updated EXCEPT !.ID = user.ID, !.Email = user.Email,
                                   !.Password = user.Password]
<1>1. DOMAIN user = Fields
  BY DEF User, Fields
<1>2. updated["Provider"] \in Providers \cup {"password"}
  BY <1>1 DEF TypedPatches, Fields, User
<1>3. updated["IsActive"] \in BOOLEAN /\ updated["IsVerified"] \in BOOLEAN
  BY <1>1 DEF TypedPatches, Fields, User
<1>4. updated["ProviderID"] = user.ProviderID /\ updated["LastLogin"] = user.LastLogin
  BY <1>1 DEF Fields, Settable
<1>5. updated = [f \in Fields |-> updated[f]]
  BY <1>1
<1> HIDE DEF updated
<1>6. /\ back = [f \in Fields |-> back[f]]
      /\ back.ID = user.ID /\ back.Email = user.Email /\ back.Password = user.Password
      /\ back.IsActive = updated["IsActive"] /\ back.IsVerified = updated["IsVerified"]
      /\ back.Provider = updated["Provider"] /\ back.ProviderID = updated["ProviderID"]
      /\ back.LastLogin = updated["LastLogin"]
  BY <1>5 DEF Fields
<1> HIDE DEF back
<1>7. /\ back.ID \in Ids \cup {Nil} /\ back.Email \in Emails
      /\ back.Password \in Passwords \cup {Nil} /\ back.ProviderID \in ProviderIDs \cup {Nil}
      /\ back.Provider \in Providers \cup {"password"}
      /\ back.IsActive \in BOOLEAN /\ back.IsVerified \in BOOLEAN /\ back.LastLogin \in BOOLEAN
  BY <1>2, <1>3, <1>4, <1>6 DEF User
<1>8. back \in User
  BY <1>6, <1>7 DEF User, Fields
<1> QED
  BY <1>8 DEF updateUserFromMap, updated, back

LEMMA ChangedIsUser ==
  ASSUME TypedPatches, NEW q \in Local, NEW user \in User
  PROVE  Change(q, user) \in User
<1>1. [user EXCEPT !.LastLogin = TRUE] \in User
  BY DEF User
<1>2. q.map \in Patches \cup {Nil}
  BY DEF Local
<1> QED
  BY <1>1, <1>2, UpdatedIsUser DEF Change

LEMMA EndIsLocal ==
  ASSUME NEW q \in Local, q.call \in Call, NEW answer \in Answers
  PROVE  LocalOK(End(q, answer))
<1>1. End(q, answer) \in Local
  BY DEF Local, End
<1>2. End(q, answer).pc = answer /\ End(q, answer).call = q.call
  BY DEF Local, End
<1>3. answer \notin Working \cup {"create"}
  BY DEF Answers, Working
<1> QED
  BY <1>1, <1>2, <1>3 DEF LocalOK

LEMMA GotoIsLocal ==
  ASSUME NEW q \in Local, q.call \in Call, q.user \in User, NEW pc \in Steps \cup Answers
  PROVE  LocalOK(Goto(q, pc))
<1>1. CASE pc \in Answers
  BY <1>1, EndIsLocal DEF Goto
<1>2. CASE pc \notin Answers
  <2>1. Goto(q, pc) = [q EXCEPT !.pc = pc]
    BY <1>2 DEF Goto
  <2>2. /\ [q EXCEPT !.pc = pc] \in Local
        /\ [q EXCEPT !.pc = pc].call = q.call /\ [q EXCEPT !.pc = pc].user = q.user
    BY DEF Local
  <2> QED
    BY <2>1, <2>2 DEF LocalOK
<1> QED
  BY <1>1, <1>2

\* A step of one request that keeps the tables' types.
LEMMA TypedStep ==
  ASSUME TypeInv, NEW r \in Requests, NEW q, LocalOK(q), Become(r, q),
         users' \subseteq User, \A u \in users' : u.ID \in Ids,
         sessions' \subseteq [req : Requests, user : Ids],
         intended' \subseteq User, clobbered' \subseteq Ids, moved' \subseteq Ids
  PROVE  TypeInv'
<1>1. q \in Local
  BY DEF LocalOK
<1>2. /\ req' \in [Requests -> Local] /\ req'[r] = q
      /\ \A s \in Requests : s # r => req'[s] = req[s]
  BY <1>1 DEF TypeInv, Become
<1>3. \A s \in Requests : LocalOK(req'[s])
  BY <1>2 DEF TypeInv
<1> QED
  BY <1>2, <1>3 DEF TypeInv, LocalOK

LEMMA TypedQuiet ==
  ASSUME TypeInv, NEW r \in Requests, NEW q, LocalOK(q), Become(r, q),
         UNCHANGED <<database, sessions>>
  PROVE  TypeInv'
BY TypedStep DEF TypeInv, database

LEMMA TypedNewCall ==
  ASSUME TypeInv, NEW r \in Requests, NEW call \in Call, PreActions(r, call)
  PROVE  TypeInv'
<1> DEFINE q == [NewRequest EXCEPT !.call = call]
           refusal == [q EXCEPT !.refused = TRUE]
<1>1. PICK res \in Results :
        Become(r, IF Refuses(res) THEN End(refusal, "error")
                  ELSE [q EXCEPT !.pc = "lookup",
                                 !.map = IF call.op = "login" THEN Nil ELSE res.map])
  BY DEF PreActions
<1> DEFINE map == IF call.op = "login" THEN Nil ELSE res.map
           lookup == [q EXCEPT !.pc = "lookup", !.map = map]
<1>2. refusal \in Local /\ refusal.call = call
  BY DEF Local, NewRequest, Steps
<1>3. LocalOK(End(refusal, "error"))
  BY <1>2, EndIsLocal DEF Answers
<1>4. map \in Patches \cup {Nil}
  BY DEF Results
<1> HIDE DEF map
<1>5. LocalOK(lookup)
  BY <1>4 DEF Local, LocalOK, NewRequest, Steps, Working
<1>6. \E p : LocalOK(p) /\ Become(r, p)
  BY <1>1, <1>3, <1>5 DEF map
<1>7. UNCHANGED <<database, sessions>>
  BY DEF PreActions
<1> QED
  BY <1>6, <1>7, TypedQuiet

LEMMA TypedCalls ==
  ASSUME TypeInv, NEW r \in Requests, Register(r) \/ Login(r) \/ ProcessOAuthLogin(r)
  PROVE  TypeInv'
<1>1. \E call \in Call : PreActions(r, call)
  BY DEF Register, Login, ProcessOAuthLogin, PasswordCall, Call
<1> QED
  BY <1>1, TypedNewCall

LEMMA TypedMissing ==
  ASSUME TypedPatches, TypeInv, NEW r \in Requests, Missing(r)
  PROVE  TypeInv'
<1> DEFINE q == req[r]
           new == NewUser(q.call)
<1>1. q \in Local /\ q.pc = "lookup" /\ q.call \in Call
  BY DEF TypeInv, LocalOK, Missing, At
<1>2. new \in User
  BY <1>1 DEF NewUser, User, Call
<1>3. q.map \in Patches \cup {Nil}
  BY <1>1 DEF Local
<1>4. updateUserFromMap(new, q.map) \in User
  BY <1>2, <1>3, UpdatedIsUser
<1> HIDE DEF new
<1>5. LocalOK([q EXCEPT !.pc = "create", !.user = updateUserFromMap(new, q.map), !.map = Nil])
  BY <1>1, <1>4 DEF LocalOK, Local, Steps
<1>6. LocalOK([q EXCEPT !.pc = "create", !.user = new])
  BY <1>1, <1>2 DEF LocalOK, Local, Steps
<1>7. \E p : LocalOK(p) /\ Become(r, p)
  BY <1>5, <1>6 DEF Missing, new
<1> QED
  BY <1>7, TypedQuiet DEF Missing

LEMMA TypedLoginFails ==
  ASSUME TypeInv, NEW r \in Requests, LoginFails(r)
  PROVE  TypeInv'
<1>1. LocalOK(End(req[r], "error"))
  BY EndIsLocal DEF TypeInv, LocalOK, LoginFails, At, Answers
<1> QED
  BY <1>1, TypedQuiet DEF LoginFails

LEMMA TypedFoundUser ==
  ASSUME AccountsInv, TypeInv, NEW r \in Requests, FoundUser(r)
  PROVE  TypeInv'
<1> DEFINE q == req[r]
<1>1. q \in Local /\ q.pc = "lookup" /\ q.call \in Call
      /\ Op(r) \in {"register", "login", "oauth"}
  BY DEF TypeInv, LocalOK, FoundUser, At, Op, Call
<1>2. PICK u \in ByEmail(q.call.Email) :
        LET have == [q EXCEPT !.user = u, !.seen = u] IN
        Become(r,
          CASE Op(r) = "register" -> End(q, "error")
            [] Op(r) = "login" -> IF u.Password = Nil THEN End(q, "panicked")
                                  ELSE IF u.Password = q.call.Password THEN Goto(have, "post")
                                  ELSE End(q, "error")
            [] Op(r) = "oauth" -> IF SameAccount(u, q.call) THEN Goto(have, "touch")
                                  ELSE End(q, "error"))
  BY DEF FoundUser
<1> DEFINE have == [q EXCEPT !.user = u, !.seen = u]
<1>3. u \in User
  BY DEF ByEmail, TypeInv
<1>4. have \in Local /\ have.call \in Call /\ have.user \in User
  BY <1>1, <1>3 DEF Local
<1> HIDE DEF have
<1>5. LocalOK(Goto(have, "post")) /\ LocalOK(Goto(have, "touch"))
  BY <1>4, GotoIsLocal DEF Steps
<1>6. LocalOK(End(q, "error")) /\ LocalOK(End(q, "panicked"))
  BY <1>1, EndIsLocal DEF Answers
<1>7. \/ Become(r, End(q, "error")) \/ Become(r, End(q, "panicked"))
      \/ Become(r, Goto(have, "post")) \/ Become(r, Goto(have, "touch"))
  BY <1>1, <1>2 DEF have
<1>8. UNCHANGED <<database, sessions>>
  BY DEF FoundUser
<1> QED
  BY <1>5, <1>6, <1>7, <1>8, TypedQuiet

LEMMA TypedCreateUser ==
  ASSUME TypeInv, NEW r \in Requests, CreateUser(r)
  PROVE  TypeInv'
<1> DEFINE q == req[r]
<1>1. q \in Local /\ q.pc = "create" /\ q.call \in Call /\ q.user \in User
  BY DEF TypeInv, LocalOK, CreateUser, At
<1>2. PICK o \in Outcomes, id \in Ids \ {u.ID : u \in users} :
        LET new == [q.user EXCEPT !.ID = id] IN
        /\ IF Applied(o) THEN users' = users \cup {new} /\ intended' = intended \cup {new}
                         ELSE UNCHANGED <<users, intended>>
        /\ Become(r, Goto([q EXCEPT !.user = new, !.seen = new], AfterCreate(q, o)))
  BY DEF CreateUser
<1> DEFINE new == [q.user EXCEPT !.ID = id]
           have == [q EXCEPT !.user = new, !.seen = new]
<1>3. new \in User /\ new.ID \in Ids
  BY <1>1 DEF User
<1> HIDE DEF new
<1>4. have \in Local /\ have.call \in Call /\ have.user \in User
  BY <1>1, <1>3 DEF Local
<1> HIDE DEF have
<1>5. AfterCreate(q, o) \in Steps \cup Answers
  BY DEF AfterCreate, BeforeSession, Steps, Answers
<1>6. LocalOK(Goto(have, AfterCreate(q, o)))
  BY <1>4, <1>5, GotoIsLocal
<1>7. Become(r, Goto(have, AfterCreate(q, o)))
  BY <1>2 DEF have, new
<1>8. \/ users' = users \cup {new} /\ intended' = intended \cup {new}
      \/ UNCHANGED <<users, intended>>
  BY <1>2 DEF new
<1>9. /\ users' \subseteq User /\ \A u \in users' : u.ID \in Ids
      /\ intended' \subseteq User
      /\ sessions' \subseteq [req : Requests, user : Ids] /\ clobbered' \subseteq Ids
      /\ moved' \subseteq Ids
  BY <1>3, <1>8 DEF TypeInv, CreateUser
<1> QED
  BY <1>6, <1>7, <1>9, TypedStep

LEMMA AfterUpdateIsStep ==
  ASSUME NEW q, NEW o, q.pc \in {"touch", "save_pre", "save_post"}, CallOK(q.call),
         q.pc = "touch" => q.call.op # "register"
  PROVE  AfterUpdate(q, o) \in Steps \cup Answers
<1>1. AfterUpdate(q, o) \in {"ok", "error", "session", "save_pre"}
  BY AfterUpdateLeads DEF CallOK
<1> QED
  BY <1>1 DEF Steps, Answers

LEMMA TypedUpdateUser ==
  ASSUME TypedPatches, AccountsInv, TypeInv, NEW r \in Requests, UpdateUser(r)
  PROVE  TypeInv'
<1> DEFINE q == req[r]
           new == Change(q, q.user)
<1>1. /\ q \in Local /\ q.call \in Call /\ q.user \in User
      /\ q.pc \in {"touch", "save_pre", "save_post"}
  BY DEF TypeInv, LocalOK, UpdateUser, Working
<1>2. /\ RequestOK(q, users) /\ CallOK(q.call) /\ Owns(q, users)
      /\ q.pc = "touch" => q.call.op # "register"
  BY <1>1 DEF AccountsInv, RequestOK, Working
<1>3. PICK o \in Outcomes :
        /\ IF Applied(o)
             THEN /\ users' = Overwrite(users, new)
                  /\ intended' = Rewrite(intended, new.ID, q)
                  /\ clobbered' = IF q.seen \in users THEN clobbered
                                                      ELSE clobbered \cup {new.ID}
                  /\ moved' \subseteq moved \cup {new.ID}
             ELSE UNCHANGED database
        /\ Become(r, Goto([q EXCEPT !.user = Copy(q.user, new), !.seen = new],
                          AfterUpdate(q, o)))
  BY DEF UpdateUser
<1>4. new \in User
  BY <1>1, ChangedIsUser
<1>5. new.ID \in Ids
  BY <1>2, ChangedUser DEF Owns, SameIdentity, TypeInv
<1>6. \A u \in intended : Change(q, u) \in User
  BY <1>1, ChangedIsUser DEF TypeInv
<1> HIDE DEF new
<1> DEFINE have == [q EXCEPT !.user = Copy(q.user, new), !.seen = new]
<1>7. have \in Local /\ have.call \in Call /\ have.user \in User
  BY <1>1, <1>4 DEF Local, Copy
<1> HIDE DEF have
<1>8. LocalOK(Goto(have, AfterUpdate(q, o)))
  BY <1>1, <1>2, <1>7, AfterUpdateIsStep, GotoIsLocal
<1>9. Become(r, Goto(have, AfterUpdate(q, o)))
  BY <1>3 DEF have
<1>10. /\ users' \subseteq User /\ \A u \in users' : u.ID \in Ids
       /\ intended' \subseteq User /\ clobbered' \subseteq Ids /\ moved' \subseteq Ids
  <2>1. CASE Applied(o)
    BY <1>3, <1>4, <1>5, <1>6, <2>1 DEF TypeInv, Overwrite, Rewrite
  <2>2. CASE ~Applied(o)
    BY <1>3, <2>2 DEF TypeInv, database
  <2> QED
    BY <2>1, <2>2
<1>11. sessions' \subseteq [req : Requests, user : Ids]
  BY DEF TypeInv, UpdateUser
<1> QED
  BY <1>8, <1>9, <1>10, <1>11, TypedStep

LEMMA TypedStoreSession ==
  ASSUME AccountsInv, TypeInv, NEW r \in Requests, StoreSession(r)
  PROVE  TypeInv'
<1> DEFINE q == req[r]
<1>1. q \in Local /\ q.call \in Call /\ q.user \in User /\ q.pc = "session"
  BY DEF TypeInv, LocalOK, StoreSession, At, Working
<1>2. Owns(q, users)
  BY <1>1 DEF AccountsInv, RequestOK, Working
<1>3. q.user.ID \in Ids
  BY <1>2 DEF Owns, SameIdentity, TypeInv
<1>4. PICK o \in Outcomes :
        /\ sessions' = IF Applied(o) THEN sessions \cup {[req |-> r, user |-> q.user.ID]}
                                     ELSE sessions
        /\ Become(r, IF Err(o) THEN End(q, "error") ELSE Goto(q, AfterSession(q)))
  BY DEF StoreSession
<1>5. AfterSession(q) \in Steps
  BY DEF AfterSession, Steps
<1>6. LocalOK(End(q, "error")) /\ LocalOK(Goto(q, AfterSession(q)))
  BY <1>1, <1>5, EndIsLocal, GotoIsLocal DEF Answers
<1>7. sessions' \subseteq [req : Requests, user : Ids]
  BY <1>3, <1>4 DEF TypeInv
<1>8. /\ users' \subseteq User /\ \A u \in users' : u.ID \in Ids
      /\ intended' \subseteq User /\ clobbered' \subseteq Ids /\ moved' \subseteq Ids
  BY DEF TypeInv, StoreSession, database
<1> QED
  BY <1>4, <1>6, <1>7, <1>8, TypedStep

LEMMA TypedPostActions ==
  ASSUME TypeInv, NEW r \in Requests, PostActions(r)
  PROVE  TypeInv'
<1> DEFINE q == req[r]
<1>1. q \in Local /\ q.call \in Call /\ q.user \in User
  BY DEF TypeInv, LocalOK, PostActions, At, Working
<1>2. PICK res \in Results :
        LET to == AfterPost(q, res) IN
        Become(r, Goto([q EXCEPT !.map = IF to = "save_post" THEN res.map ELSE Nil,
                                 !.refused = q.refused \/ Refuses(res)], to))
  BY DEF PostActions
<1> DEFINE to == AfterPost(q, res)
           map == IF to = "save_post" THEN res.map ELSE Nil
           refused == q.refused \/ Refuses(res)
           have == [q EXCEPT !.map = map, !.refused = refused]
<1>3. to \in Steps \cup Answers
  BY DEF AfterPost, Steps, Answers
<1>4. map \in Patches \cup {Nil} /\ refused \in BOOLEAN
  BY DEF Results
<1> HIDE DEF map, refused, to
<1>5. have \in Local /\ have.call \in Call /\ have.user \in User
  BY <1>1, <1>4 DEF Local
<1> HIDE DEF have
<1>6. LocalOK(Goto(have, to))
  BY <1>3, <1>5, GotoIsLocal
<1>7. Become(r, Goto(have, to))
  BY <1>2 DEF have, map, refused, to
<1> QED
  BY <1>6, <1>7, TypedQuiet DEF PostActions

LEMMA TypedRestart == TypeInv /\ Restart => TypeInv'
<1> SUFFICES ASSUME TypeInv, Restart PROVE TypeInv'
  OBVIOUS
<1>1. ASSUME NEW r \in Requests PROVE LocalOK(req'[r])
  <2>1. CASE req[r].pc \in Steps \ {"new"}
    <3>1. req'[r] = End(req[r], "lost")
      BY <2>1 DEF Restart
    <3>2. req[r] \in Local /\ req[r].call \in Call
      BY <2>1 DEF TypeInv, LocalOK
    <3> QED
      BY <3>1, <3>2, EndIsLocal DEF Answers
  <2>2. CASE req[r].pc \notin Steps \ {"new"}
    BY <2>2 DEF Restart, TypeInv
  <2> QED
    BY <2>1, <2>2
<1>2. req' \in [Requests -> Local]
  BY <1>1 DEF Restart, LocalOK
<1> QED
  BY <1>1, <1>2 DEF TypeInv, LocalOK, Restart, database

LEMMA InitTyped == Init => TypeInv
BY DEF Init, TypeInv, LocalOK, Local, NewRequest, Steps, Working

LEMMA NextTyped ==
  ASSUME TypedPatches, AccountsInv, TypeInv, [Next]_vars
  PROVE  TypeInv'
<1>1. CASE UNCHANGED vars
  BY <1>1 DEF vars, TypeInv, LocalOK
<1>2. CASE Restart
  BY <1>2, TypedRestart
<1>3. ASSUME NEW r \in Requests, Register(r) \/ Login(r) \/ ProcessOAuthLogin(r) \/ Serve(r)
      PROVE  TypeInv'
  BY <1>3, TypedCalls, TypedMissing, TypedLoginFails, TypedFoundUser, TypedCreateUser,
     TypedUpdateUser, TypedStoreSession, TypedPostActions DEF Serve
<1> QED
  BY <1>1, <1>2, <1>3 DEF Next

\* Rows and copies of rows stay users, and a request that works on a copy has one,
\* whatever the scripts' maps name (auth_service.go:238-268).
THEOREM TypesInvariance ==
  ASSUME TypedPatches
  PROVE  Spec => []TypeInv
<1>1. AccountsInv /\ TypeInv /\ [Next]_vars => TypeInv'
  BY NextTyped
<1> QED
  BY <1>1, InitTyped, AccountsInvariance, PTL DEF Spec

\* Every variable has its type, and the table meets its constraints
\* (000001_create_users_table.up.sql).
THEOREM TypeCorrect ==
  ASSUME TypedPatches
  PROVE  Spec => []TypeOK
<1>1. AccountsInv /\ TypeInv => TypeOK
  BY DEF AccountsInv, TableOK, TypeInv, Local, TypeOK
<1> QED
  BY <1>1, AccountsInvariance, TypesInvariance, PTL

-----------------------------------------------------------------------------
(* Calls only move forward: the part of EveryRequestEnds that is about       *)
(* single steps.                                                             *)

\* How many steps a call may still have at a place, up to its answer.
Left(pc, op) ==
  CASE pc \in Answers -> 0
    [] pc = "new" -> 7
    [] pc = "lookup" -> 6
    [] pc = "create" -> 5
    [] pc = "save_pre" -> 4
    [] pc = "session" -> 3
    [] pc = "touch" -> IF op = "login" THEN 2 ELSE 5
    [] pc = "post" -> IF op = "login" THEN 5 ELSE 2
    [] pc = "save_post" -> IF op = "login" THEN 4 ELSE 1

StepsLeft(q) == Left(q.pc, q.call.op)

\* No step takes a call back, and an answer is final: each leaves it alone or
\* takes it nearer to its answer, whatever scripts say and statements do.
MovesForward ==
  [][\A r \in Requests : req'[r] = req[r] \/ StepsLeft(req'[r]) < StepsLeft(req[r])]_vars

LEMMA Moved ==
  ASSUME AccountsInv, NEW r \in Requests, NEW q, Become(r, q)
  PROVE  req'[r] = q /\ \A s \in Requests : s # r => req'[s] = req[s]
BY DEF AccountsInv, Become

\* The places in their order.
LEMMA LeftIs ==
  ASSUME NEW op
  PROVE  /\ \A pc \in Answers : Left(pc, op) = 0
         /\ Left("new", op) = 7 /\ Left("lookup", op) = 6
         /\ Left("create", op) = 5 /\ Left("save_pre", op) = 4
         /\ Left("session", op) = 3
         /\ Left("touch", op) = IF op = "login" THEN 2 ELSE 5
         /\ Left("post", op) = IF op = "login" THEN 5 ELSE 2
         /\ Left("save_post", op) = IF op = "login" THEN 4 ELSE 1
BY DEF Left, Answers

LEMMA PreActionsForward ==
  ASSUME AccountsInv, NEW r \in Requests, NEW call, PreActions(r, call)
  PROVE  /\ StepsLeft(req'[r]) < StepsLeft(req[r])
         /\ \A s \in Requests : s # r => req'[s] = req[s]
<1> DEFINE q == [NewRequest EXCEPT !.call = call]
<1>1. PICK res \in Results :
        Become(r, IF Refuses(res) THEN End([q EXCEPT !.refused = TRUE], "error")
                  ELSE [q EXCEPT !.pc = "lookup",
                                 !.map = IF call.op = "login" THEN Nil ELSE res.map])
  BY DEF PreActions
<1> DEFINE map == IF call.op = "login" THEN Nil ELSE res.map
           refusal == [q EXCEPT !.refused = TRUE]
           lookup == [q EXCEPT !.pc = "lookup", !.map = map]
<1>2. DOMAIN refusal = Locals /\ lookup.pc = "lookup"
  BY DEF NewRequest, Locals
<1>3. End(refusal, "error").pc = "error"
  <2> HIDE DEF refusal
  <2> QED
    BY <1>2, Ended
<1>4. Become(r, End(refusal, "error")) \/ Become(r, lookup)
  BY <1>1
<1> HIDE DEF refusal, lookup
<1>5. /\ req'[r].pc \in {"error", "lookup"}
      /\ \A s \in Requests : s # r => req'[s] = req[s]
  BY <1>2, <1>3, <1>4, Moved
<1>6. req[r].pc = "new"
  BY DEF PreActions, At
<1> QED
  BY <1>5, <1>6, LeftIs DEF StepsLeft, Answers

LEMMA LookupForward ==
  ASSUME AccountsInv, NEW r \in Requests, Missing(r) \/ LoginFails(r) \/ FoundUser(r)
  PROVE  /\ StepsLeft(req'[r]) < StepsLeft(req[r])
         /\ \A s \in Requests : s # r => req'[s] = req[s]
<1> DEFINE q == req[r]
<1>1. DOMAIN q = Locals /\ q.pc = "lookup" /\ q.call.op \in {"register", "login", "oauth"}
  BY DEF AccountsInv, RequestOK, CallOK, Missing, LoginFails, FoundUser, At
<1>2. CASE Missing(r)
  <2>1. PICK user, map : Become(r, [q EXCEPT !.pc = "create", !.user = user, !.map = map])
    <3>1. CASE q.call.op = "register"
      BY <1>2, <3>1 DEF Missing, Op
    <3>2. CASE q.call.op # "register"
      <4>1. [q EXCEPT !.pc = "create", !.user = NewUser(q.call)]
              = [q EXCEPT !.pc = "create", !.user = NewUser(q.call), !.map = q.map]
        BY <1>1 DEF Locals
      <4> QED
        BY <1>2, <3>2, <4>1 DEF Missing, Op
    <3> QED
      BY <3>1, <3>2
  <2> DEFINE p == [q EXCEPT !.pc = "create", !.user = user, !.map = map]
  <2>2. p.pc = "create" /\ p.call = q.call /\ Become(r, p)
    BY <1>1, <2>1 DEF Locals
  <2> HIDE DEF p
  <2>3. /\ req'[r].pc = "create" /\ req'[r].call = q.call
        /\ \A s \in Requests : s # r => req'[s] = req[s]
    BY <2>2, Moved
  <2> QED
    BY <1>1, <2>3, LeftIs DEF StepsLeft
<1>3. ASSUME NEW p, DOMAIN p = Locals, p.call = q.call, NEW pc, Become(r, Goto(p, pc)),
             pc \in Answers \cup {"touch", "post"}
      PROVE  /\ StepsLeft(req'[r]) < StepsLeft(req[r])
             /\ \A s \in Requests : s # r => req'[s] = req[s]
  <2>1. /\ req'[r].pc = pc /\ req'[r].call = q.call
        /\ \A s \in Requests : s # r => req'[s] = req[s]
    BY <1>3, Moved, Gone
  <2> QED
    BY <1>1, <1>3, <2>1, LeftIs DEF StepsLeft
<1>4. ASSUME NEW answer \in Answers PROVE End(q, answer) = Goto(q, answer)
  BY DEF Goto
<1>5. CASE LoginFails(r)
  BY <1>1, <1>3, <1>4, <1>5 DEF LoginFails, Answers
<1>6. CASE FoundUser(r)
  <2>1. PICK u :
          LET have == [q EXCEPT !.user = u, !.seen = u] IN
          Become(r,
            CASE Op(r) = "register" -> End(q, "error")
              [] Op(r) = "login" -> IF u.Password = Nil THEN End(q, "panicked")
                                    ELSE IF u.Password = q.call.Password THEN Goto(have, "post")
                                    ELSE End(q, "error")
              [] Op(r) = "oauth" -> IF SameAccount(u, q.call) THEN Goto(have, "touch")
                                    ELSE End(q, "error"))
    BY <1>6 DEF FoundUser
  <2> DEFINE have == [q EXCEPT !.user = u, !.seen = u]
  <2>2. DOMAIN have = Locals /\ have.call = q.call
    BY <1>1 DEF Locals
  <2>3. \/ \E answer \in Answers : Become(r, Goto(q, answer))
        \/ \E pc \in {"touch", "post"} : Become(r, Goto(have, pc))
    <3> HIDE DEF have
    <3>1. \/ Become(r, End(q, "error")) \/ Become(r, End(q, "panicked"))
          \/ Become(r, Goto(have, "post")) \/ Become(r, Goto(have, "touch"))
      BY <1>1, <2>1, Zenon DEF Op, have
    <3> QED
      BY <1>4, <3>1 DEF Answers
  <2> HIDE DEF have
  <2> QED
    BY <1>1, <1>3, <2>2, <2>3
<1> QED
  BY <1>2, <1>5, <1>6

LEMMA CreateForward ==
  ASSUME AccountsInv, NEW r \in Requests, CreateUser(r)
  PROVE  /\ StepsLeft(req'[r]) < StepsLeft(req[r])
         /\ \A s \in Requests : s # r => req'[s] = req[s]
<1> DEFINE q == req[r]
<1>1. DOMAIN q = Locals /\ q.pc = "create" /\ q.call.op # "login"
  BY DEF AccountsInv, RequestOK, CreateUser, At
<1>2. PICK o, new : Become(r, Goto([q EXCEPT !.user = new, !.seen = new], AfterCreate(q, o)))
  BY DEF CreateUser
<1> DEFINE have == [q EXCEPT !.user = new, !.seen = new]
<1>3. DOMAIN have = Locals /\ have.call = q.call
  BY <1>1 DEF Locals
<1> HIDE DEF have
<1>4. AfterCreate(q, o) \in {"error", "post", "save_pre", "session"}
  BY DEF AfterCreate, BeforeSession
<1>5. /\ req'[r].pc = AfterCreate(q, o) /\ req'[r].call = q.call
      /\ \A s \in Requests : s # r => req'[s] = req[s]
  <2>1. Become(r, Goto(have, AfterCreate(q, o)))
    BY <1>2 DEF have
  <2> QED
    BY <1>3, <2>1, Moved, Gone
<1> QED
  BY <1>1, <1>4, <1>5, LeftIs DEF StepsLeft, Answers

LEMMA UpdateForward ==
  ASSUME AccountsInv, NEW r \in Requests, UpdateUser(r)
  PROVE  /\ StepsLeft(req'[r]) < StepsLeft(req[r])
         /\ \A s \in Requests : s # r => req'[s] = req[s]
<1> DEFINE q == req[r]
<1>1. /\ DOMAIN q = Locals /\ q.pc \in {"touch", "save_pre", "save_post"}
      /\ q.call.op \in {"register", "login", "oauth"}
      /\ q.pc = "touch" => q.call.op # "register"
  BY DEF AccountsInv, RequestOK, CallOK, UpdateUser
<1>2. PICK o, user, new :
        Become(r, Goto([q EXCEPT !.user = user, !.seen = new], AfterUpdate(q, o)))
  BY DEF UpdateUser
<1> DEFINE have == [q EXCEPT !.user = user, !.seen = new]
<1>3. DOMAIN have = Locals /\ have.call = q.call
  BY <1>1 DEF Locals
<1> HIDE DEF have
<1>4. /\ req'[r].pc = AfterUpdate(q, o) /\ req'[r].call = q.call
      /\ \A s \in Requests : s # r => req'[s] = req[s]
  <2>1. Become(r, Goto(have, AfterUpdate(q, o)))
    BY <1>2 DEF have
  <2> QED
    BY <1>3, <2>1, Moved, Gone
<1>5. CASE q.pc = "touch"
  <2>1. /\ AfterUpdate(q, o) \in {"ok", "error", "session", "save_pre"}
        /\ q.call.op = "login" => AfterUpdate(q, o) \in {"ok", "error"}
    BY <1>1, <1>5, AfterUpdateLeads
  <2> QED
    BY <1>4, <1>5, <2>1, LeftIs DEF StepsLeft, Answers
<1>6. CASE q.pc = "save_pre"
  <2>1. AfterUpdate(q, o) \in {"error", "session"}
    <3>1. AfterUpdate(q, o) = IF Err(o) THEN "error" ELSE "session"
      BY <1>6, Zenon DEF AfterUpdate
    <3> QED
      BY <3>1
  <2> QED
    BY <1>4, <1>6, <2>1, LeftIs DEF StepsLeft, Answers
<1>7. CASE q.pc = "save_post"
  <2>1. /\ q.call.op # "login" => AfterUpdate(q, o) = "ok"
        /\ q.call.op = "login" => AfterUpdate(q, o) \in {"error", "session"}
    <3>1. q.call.op # "login" => AfterUpdate(q, o) = "ok"
      BY <1>7, Zenon DEF AfterUpdate
    <3>2. q.call.op = "login" => AfterUpdate(q, o) = IF Err(o) THEN "error" ELSE "session"
      BY <1>7, Zenon DEF AfterUpdate
    <3> QED
      BY <3>1, <3>2
  <2> QED
    BY <1>4, <1>7, <2>1, LeftIs DEF StepsLeft, Answers
<1> QED
  BY <1>1, <1>5, <1>6, <1>7

LEMMA SessionForward ==
  ASSUME AccountsInv, NEW r \in Requests, StoreSession(r)
  PROVE  /\ StepsLeft(req'[r]) < StepsLeft(req[r])
         /\ \A s \in Requests : s # r => req'[s] = req[s]
<1> DEFINE q == req[r]
<1>1. DOMAIN q = Locals /\ q.pc = "session"
  BY DEF AccountsInv, RequestOK, StoreSession, At
<1>2. Become(r, End(q, "error")) \/ Become(r, Goto(q, AfterSession(q)))
  BY DEF StoreSession
<1>3. /\ \A s \in Requests : s # r => req'[s] = req[s]
      /\ req'[r].call = q.call
      /\ req'[r].pc \in {"error", AfterSession(q)}
  BY <1>1, <1>2, Moved, Ended, Gone
<1> QED
  BY <1>1, <1>3, LeftIs DEF StepsLeft, AfterSession, Answers

LEMMA PostForward ==
  ASSUME AccountsInv, NEW r \in Requests, PostActions(r)
  PROVE  /\ StepsLeft(req'[r]) < StepsLeft(req[r])
         /\ \A s \in Requests : s # r => req'[s] = req[s]
<1> DEFINE q == req[r]
<1>1. DOMAIN q = Locals /\ q.pc = "post"
  BY DEF AccountsInv, RequestOK, PostActions, At
<1>2. PICK res, map, refused :
        Become(r, Goto([q EXCEPT !.map = map, !.refused = refused], AfterPost(q, res)))
  <2>1. PICK res \in Results :
          LET to == AfterPost(q, res) IN
          Become(r, Goto([q EXCEPT !.map = IF to = "save_post" THEN res.map ELSE Nil,
                                   !.refused = q.refused \/ Refuses(res)], to))
    BY DEF PostActions
  <2> QED
    BY <2>1
<1> DEFINE have == [q EXCEPT !.map = map, !.refused = refused]
<1>3. DOMAIN have = Locals /\ have.call = q.call
  BY <1>1 DEF Locals
<1> HIDE DEF have
<1>4. /\ req'[r].pc = AfterPost(q, res) /\ req'[r].call = q.call
      /\ \A s \in Requests : s # r => req'[s] = req[s]
  <2>1. Become(r, Goto(have, AfterPost(q, res)))
    BY <1>2 DEF have
  <2> QED
    BY <1>3, <2>1, Moved, Gone
<1>5. /\ q.call.op = "login" => AfterPost(q, res) \in {"error", "session", "save_post"}
      /\ q.call.op # "login" => AfterPost(q, res) \in {"ok", "save_post"}
  BY DEF AfterPost
<1> QED
  BY <1>1, <1>4, <1>5, LeftIs DEF StepsLeft, Answers

\* No account is looked up, created or updated twice by one call, no scripts run
\* twice and no session is stored twice: a call is answered, or lost with the
\* process, after at most seven steps, whatever scripts answer and statements
\* come to, and its answer is final (auth_service.go:75-235, 363-528).  That it
\* takes these steps is what the fairness of the run adds.
THEOREM ForwardCorrect == Spec => MovesForward
<1>1. ASSUME AccountsInv, [Next]_vars
      PROVE  \A r \in Requests : req'[r] = req[r] \/ StepsLeft(req'[r]) < StepsLeft(req[r])
  <2>1. CASE UNCHANGED vars
    BY <2>1 DEF vars
  <2>2. CASE Restart
    <3>1. ASSUME NEW r \in Requests, req[r].pc \in Steps \ {"new"}
          PROVE  StepsLeft(req'[r]) < StepsLeft(req[r])
      <4>1. req'[r] = End(req[r], "lost") /\ DOMAIN req[r] = Locals
        BY <1>1, <2>2, <3>1 DEF Restart, AccountsInv, RequestOK
      <4>2. req'[r].pc = "lost" /\ req'[r].call = req[r].call
        BY <4>1, Ended
      <4> QED
        BY <3>1, <4>2, LeftIs DEF StepsLeft, Steps, Answers
    <3>2. ASSUME NEW r \in Requests, req[r].pc \notin Steps \ {"new"}
          PROVE  req'[r] = req[r]
      BY <2>2, <3>2 DEF Restart
    <3> QED
      BY <3>1, <3>2
  <2>3. ASSUME NEW r \in Requests, Register(r) \/ Login(r) \/ ProcessOAuthLogin(r)
        PROVE  /\ StepsLeft(req'[r]) < StepsLeft(req[r])
               /\ \A s \in Requests : s # r => req'[s] = req[s]
    BY <1>1, <2>3, PreActionsForward DEF Register, Login, ProcessOAuthLogin
  <2>4. ASSUME NEW r \in Requests, Serve(r)
        PROVE  /\ StepsLeft(req'[r]) < StepsLeft(req[r])
               /\ \A s \in Requests : s # r => req'[s] = req[s]
    BY <1>1, <2>4, LookupForward, CreateForward, UpdateForward, SessionForward, PostForward
       DEF Serve
  <2> QED
    BY <1>1, <2>1, <2>2, <2>3, <2>4 DEF Next
<1>2. AccountsInv /\ [Next]_vars =>
        [\A r \in Requests : req'[r] = req[r] \/ StepsLeft(req'[r]) < StepsLeft(req[r])]_vars
  BY <1>1
<1> QED
  BY <1>2, AccountsInvariance, PTL DEF Spec, MovesForward
=============================================================================
