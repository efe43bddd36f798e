---------------------------- MODULE RefreshTokens ----------------------------
(***************************************************************************)
(* The life of refresh tokens: the tail of a login that mints and stores   *)
(* one, RefreshToken (rotation) and Logout of authService, the             *)
(* refresh_tokens table they share, and the clients that hold the tokens.  *)
(*                                                                         *)
(* Every request is served by a goroutine of its own (a slot in Requests,  *)
(* free again once the request is answered), and every database call is    *)
(* one step, so that requests interleave between any two statements: the   *)
(* code uses no transaction.  A statement may succeed, fail, or take effect *)
(* although the driver reports an error (the connection or the request     *)
(* context broke after the server committed).  The process may die at any  *)
(* moment; the table survives.                                             *)
(*                                                                         *)
(* A token is the data its JWT carries that the code reads back: jti, sub. *)
(* Expiry is a set of tokens past their "exp" claim; the expires_at column *)
(* is left out because no query of the code reads it.                      *)
(***************************************************************************)
EXTENDS Naturals, FiniteSets

CONSTANTS
  Users,      \* users.id values
  Jtis,       \* the UUIDs uuid.New() may draw; bounds the tokens ever minted
  Requests,   \* requests the server handles at the same time
  NoToken     \* no token

Token == [jti : Jtis, sub : Users]

ASSUME NoTokenAssumption == NoToken \notin Token

ASSUME RequestsAssumption == IsFiniteSet(Requests)

VARIABLES
  refresh_tokens,  \* the table: a set of rows
  signed,          \* every token signed with JWTRefreshSecret so far
  expired,         \* the signed tokens whose "exp" has passed
  held,            \* the tokens that reached a client
  req,             \* the local state of every request
  \* History, read by no action:
  granted,         \* every row ever inserted, with the token it replaces
  spent,           \* tokens a DELETE was applied for
  loggedOut,       \* tokens whose Logout was answered with success
  course           \* "disturbed" once a statement failed or was not acknowledged, an
                   \* answer got lost or the process died; else "smooth"

database == <<refresh_tokens, granted, spent>>
vars == <<refresh_tokens, signed, expired, held, req, granted, spent, loggedOut,
          course>>

Row == [jti : Jtis, user_id : Users]

Steps == {"idle", "lookup", "delete", "load", "store", "touch", "reply"}

Request == [pc : Steps, op : {"none", "login", "refresh", "logout"},
            tok : Token \cup {NoToken}, new : Token \cup {NoToken}, late : BOOLEAN]

\* late: the presented token was already spent when the request came in.
Idle == [pc |-> "idle", op |-> "none", tok |-> NoToken, new |-> NoToken,
         late |-> FALSE]

Init ==
  /\ refresh_tokens = {}
  /\ signed = {}
  /\ expired = {}
  /\ held = {}
  /\ req = [r \in Requests |-> Idle]
  /\ granted = {}
  /\ spent = {}
  /\ loggedOut = {}
  /\ course = "smooth"

-----------------------------------------------------------------------------
(* What a database call may come to. *)

Outcomes == {"ok", "failed", "unacknowledged"}
Applied(o) == o # "failed"
Err(o) == o # "ok"

Undisturbed == course' = course
Disturbed == course' = "disturbed"

At(r, pc) == req[r].pc = pc

Goto(r, pc) == req' = [req EXCEPT ![r].pc = pc]

\* The handler returns (success or error) and its goroutine ends.
Return(r) == req' = [req EXCEPT ![r] = Idle]

Continue(r, pc) == IF pc = "idle" THEN Return(r) ELSE Goto(r, pc)

-----------------------------------------------------------------------------
(* The repository and the JWT service. *)

\* (mutant) The "storedToken == nil" test is forgotten.
FoundUnchecked(table, jti) == TRUE

\* (mutants) A DELETE of all sessions of the user; a DELETE that matches no row.
DeleteRowsOfUser(table, jti) ==
  {row \in table : \A x \in table : x.jti = jti => x.user_id # row.user_id}
DeleteNoRow(table, jti) == table

\* GetByJTI answers (nil, nil) when there is no such row, and the service
\* treats that as an error: only a row that is there lets a rotation go on.
Found(table, jti) == \E row \in table : row.jti = jti

InsertRow(table, t) == table \cup {[jti |-> t.jti, user_id |-> t.sub]}

\* No error, and no difference, when there is no such row.
DeleteRow(table, jti) == {row \in table : row.jti # jti}

\* GenerateRefreshToken: uuid.New() never draws a jti twice.
Fresh(j) == \A t \in signed : t.jti # j

Valid(t) == t \notin expired

Sign(r, t, op, late) ==
  /\ signed' = signed \cup {t}
  /\ req' = [req EXCEPT ![r].pc = "store", ![r].op = op, ![r].new = t,
                        ![r].late = late]

-----------------------------------------------------------------------------
(* Requests. *)

\* Login and ProcessOAuthLogin up to GenerateRefreshToken: the user is
\* authenticated, nothing has been stored for the new session.
LoginSign(r) ==
  /\ At(r, "idle")
  /\ \E j \in Jtis, u \in Users :
       Fresh(j) /\ Sign(r, [jti |-> j, sub |-> u], "login", FALSE)
  /\ UNCHANGED <<database, expired, held, loggedOut, course>>

\* RefreshToken and Logout with a token some client holds.  A token that is
\* expired (or was never signed here) is refused with no effect.
Present(r, op, pc) ==
  /\ At(r, "idle")
  /\ \E t \in held :
       /\ Valid(t)
       /\ req' = [req EXCEPT ![r] = [pc |-> pc, op |-> op, tok |-> t,
                                     new |-> NoToken, late |-> t \in spent]]
  /\ UNCHANGED <<database, signed, expired, held, loggedOut, course>>

RefreshToken(r) == Present(r, "refresh", "lookup")
Logout(r) == Present(r, "logout", "delete")

\* refreshTokenRepo.GetByJTI; a driver error fails the request as well.
GetByJTI(r) ==
  /\ At(r, "lookup")
  /\ \/ Found(refresh_tokens, req[r].tok.jti) /\ Goto(r, "delete") /\ Undisturbed
     \/ ~Found(refresh_tokens, req[r].tok.jti) /\ Return(r) /\ Undisturbed
     \/ Return(r) /\ Disturbed
  /\ UNCHANGED <<database, signed, expired, held, loggedOut>>

\* (mutants) The error of the DELETE is dropped; the request starts over when
\* the DELETE fails.
AfterDeleteUnchecked(op, o) == IF op = "logout" THEN "idle" ELSE "load"
AfterDeleteRetrying(op, o) ==
  IF Err(o) THEN "lookup" ELSE IF op = "logout" THEN "idle" ELSE "load"

AfterDelete(op, o) == IF op = "logout" \/ Err(o) THEN "idle" ELSE "load"

\* refreshTokenRepo.Delete.  Logout returns its error, so a success is the
\* answer the client gets; a rotation goes on to mint a new token.
Delete(r) ==
  LET t == req[r].tok IN
  /\ At(r, "delete")
  /\ \E o \in Outcomes :
       /\ IF Applied(o)
            THEN /\ refresh_tokens' = DeleteRow(refresh_tokens, t.jti)
                 /\ spent' = spent \cup {t}
            ELSE UNCHANGED <<refresh_tokens, spent>>
       /\ loggedOut' = IF req[r].op = "logout" /\ ~Err(o)
                         THEN loggedOut \cup {t} ELSE loggedOut
       /\ Continue(r, AfterDelete(req[r].op, o))
       /\ IF Err(o) THEN Disturbed ELSE Undisturbed
  /\ UNCHANGED <<signed, expired, held, granted>>

\* userRepo.GetUserByID for the subject of the presented token, and
\* GenerateRefreshToken for the user it returns.  The user is still there, since
\* nothing deletes users.
LoadUserAndSign(r) ==
  /\ At(r, "load")
  /\ \/ \E j \in Jtis :
          /\ Fresh(j)
          /\ Sign(r, [jti |-> j, sub |-> req[r].tok.sub], "refresh", req[r].late)
          /\ Undisturbed
     \/ Return(r) /\ Disturbed /\ UNCHANGED signed
  /\ UNCHANGED <<database, expired, held, loggedOut>>

\* (mutant) The error of the INSERT is dropped.
AfterCreateUnchecked(op, o) == IF op = "login" THEN "touch" ELSE "reply"

AfterCreate(op, o) ==
  IF Err(o) THEN "idle" ELSE IF op = "login" THEN "touch" ELSE "reply"

\* refreshTokenRepo.Create.
Create(r) ==
  LET new == req[r].new IN
  /\ At(r, "store")
  /\ \E o \in Outcomes :
       /\ IF Applied(o)
            THEN /\ refresh_tokens' = InsertRow(refresh_tokens, new)
                 /\ granted' = granted \cup {[token |-> new, parent |-> req[r].tok]}
            ELSE UNCHANGED <<refresh_tokens, granted>>
       /\ Continue(r, AfterCreate(req[r].op, o))
       /\ IF Err(o) THEN Disturbed ELSE Undisturbed
  /\ UNCHANGED <<signed, expired, held, spent, loggedOut>>

\* What a login still does once its token is stored: Login fails if it cannot
\* write last_login; ProcessOAuthLogin cannot fail any more.
FinishLogin(r) ==
  /\ At(r, "touch")
  /\ \/ Goto(r, "reply") /\ Undisturbed
     \/ Return(r) /\ Disturbed
  /\ UNCHANGED <<database, signed, expired, held, loggedOut>>

\* (mutant) The client gets its old token back.
AnswerOld(q) == IF q.op = "refresh" THEN q.tok ELSE q.new

Answer(q) == q.new

\* The handler writes the tokens to the response, which may get lost.
Reply(r) ==
  /\ At(r, "reply")
  /\ \/ held' = held \cup {Answer(req[r])} /\ Undisturbed
     \/ UNCHANGED held /\ Disturbed
  /\ Return(r)
  /\ UNCHANGED <<database, signed, expired, loggedOut>>

-----------------------------------------------------------------------------
(* The environment. *)

\* The server process dies and is started again: goroutines are gone.
Restart ==
  /\ \E r \in Requests : ~At(r, "idle")
  /\ req' = [r \in Requests |-> Idle]
  /\ Disturbed
  /\ UNCHANGED <<database, signed, expired, held, loggedOut>>

Expire ==
  /\ \E t \in signed \ expired : expired' = expired \cup {t}
  /\ UNCHANGED <<database, signed, held, req, loggedOut, course>>

-----------------------------------------------------------------------------
\* The steps of a request the server is handling.
Serve(r) ==
  \/ GetByJTI(r)
  \/ Delete(r)
  \/ LoadUserAndSign(r)
  \/ Create(r)
  \/ FinishLogin(r)
  \/ Reply(r)

Next ==
  \/ \E r \in Requests : LoginSign(r) \/ RefreshToken(r) \/ Logout(r) \/ Serve(r)
  \/ Restart
  \/ Expire

Spec == Init /\ [][Next]_vars

\* A goroutine keeps running and its database calls return.
FairSpec == Spec /\ \A r \in Requests : WF_vars(Serve(r))

-----------------------------------------------------------------------------
(* Properties. *)

\* Every variable has its type, and a request that is about to store or to
\* answer with a new token has one (auth_service.go:310-319, 219-235).
TypeOK ==
  /\ refresh_tokens \subseteq Row
  /\ signed \subseteq Token
  /\ expired \subseteq signed
  /\ held \subseteq signed
  /\ req \in [Requests -> Request]
  /\ \A r \in Requests : req[r].pc \in {"store", "touch", "reply"} => req[r].new \in Token
  /\ granted \subseteq [token : Token, parent : Token \cup {NoToken}]
  /\ spent \subseteq Token
  /\ loggedOut \subseteq spent
  /\ course \in {"smooth", "disturbed"}

\* The table holds exactly the granted tokens that were not spent, each under
\* the user it was signed for: whatever requests, failures and restarts do, a
\* row that was deleted never comes back, none vanishes without a DELETE for
\* its own jti, and user_id never disagrees with the "sub" of the JWT that
\* RefreshToken trusts instead of it (auth_service.go:286, 300).
TableIsLedger ==
  refresh_tokens = {[jti |-> g.token.jti, user_id |-> g.token.sub] :
                      g \in {h \in granted : h.token \notin spent}}

\* No client holds a token that was not stored before the answer was sent,
\* even if statements fail or the server restarts in between.
HeldWasStored == held \subseteq {g.token : g \in granted}

\* A rotation whose request came in after its token had been spent, by a
\* rotation or by a logout, never gets past the lookup.
LateIsRefused ==
  \A r \in Requests : req[r].late /\ req[r].op = "refresh" => req[r].pc = "lookup"

\* Once a client was told that it is logged out, its token is out of the table
\* for good, also when rotations of that token were under way.
LogoutIsFinal ==
  \A t \in loggedOut : \A row \in refresh_tokens : row.jti # t.jti

\* The lookup and the DELETE of a rotation are two statements, so that one
\* token may be rotated more than once; but only by requests the server was
\* handling at the same time.  A token has at most as many successors as
\* there are such requests: one, when requests come one after the other.
Successors(t) == {g \in granted : g.parent = t}

ForksOnlyByOverlap ==
  \A t \in spent : Cardinality(Successors(t)) <= Cardinality(Requests)

\* The row of a session.
Live(t) == \E row \in refresh_tokens : row.jti = t.jti

\* The holder of a spent token was told that it is logged out, has a successor,
\* or has a request on the way to one.
Continued(t) ==
  \/ t \in loggedOut
  \/ \E g \in Successors(t) : g.token \in held
  \/ \E r \in Requests : req[r].tok = t /\ req[r].pc \in {"load", "store", "reply"}

\* Somebody has the token of a row, or is about to be answered with it.
Owned(row) ==
  \/ \E t \in held : t.jti = row.jti
  \/ \E r \in Requests : req[r].pc \in {"touch", "reply"} /\ req[r].new.jti = row.jti

\* As long as nothing goes wrong nobody loses a session, whatever overlaps:
\* whoever holds a token that was not logged out and was rotated has a successor
\* of it, or a request on the way to one.  Deleting the old row before the new
\* one is there (auth_service.go:296, 315) is what makes this depend on faults.
NobodyLosesASession ==
  course = "smooth" =>
    \A t \in held : Live(t) \/ Continued(t)

\* As long as nothing goes wrong every row is a session that somebody has, or is
\* about to be answered with: none is stored for nobody (auth_service.go:224-235).
NoRowWithoutHolder ==
  course = "smooth" =>
    \A row \in refresh_tokens : Owned(row)

\* Seen from outside, the service only ever begins sessions, revokes tokens,
\* and replaces tokens that are revoked already by tokens of the same user.
Ledger == INSTANCE SessionLedger

ImplementsLedger == Ledger!Spec

\* Every request is answered, or lost with the process that was serving it.
EveryRequestEnds == \A r \in Requests : ~At(r, "idle") ~> At(r, "idle")

-----------------------------------------------------------------------------
(* The inductive invariant: what a request relies on while others run. *)

Granted == {g.token : g \in granted}

\* uuid.New() gave every token ever signed a jti of its own.
OneTokenPerJti == \A s, t \in signed : s.jti = t.jti => s = t

\* A request that replaces or revokes a token presents one that reached its
\* client; once past its DELETE that token is spent; a token to be stored was
\* never stored before, a token to be answered with was, and a rotation's is
\* for the user of the presented one.
InStep(q) ==
  /\ q.op \in {"refresh", "logout"} => q.tok \in held
  /\ q.op = "login" => q.tok = NoToken /\ q.pc \in {"store", "touch", "reply"}
  /\ q.op = "logout" => q.pc = "delete"
  /\ q.op = "refresh" => q.pc \in {"lookup", "delete", "load", "store", "reply"}
  /\ q.op = "none" \/ q.pc = "idle" => q = Idle
  /\ q.late \/ (q.op = "refresh" /\ q.pc \in {"load", "store", "reply"}) =>
       q.tok \in spent
  /\ q.pc = "store" => /\ q.new \in signed \ Granted
                       /\ q.op = "refresh" => q.new.sub = q.tok.sub
  /\ q.pc \in {"touch", "reply"} => q.new \in Granted

\* Two requests never store the same token.
NoSharedNew ==
  \A r, s \in Requests :
    At(r, "store") /\ At(s, "store") /\ r # s => req[r].new # req[s].new

\* The strengthening of TypeOK, TableIsLedger, HeldWasStored and LateIsRefused
\* that every step preserves (auth_service.go:219-235, 286-319, 322-334).
IInv ==
  /\ TypeOK
  /\ OneTokenPerJti
  /\ Granted \subseteq signed
  /\ spent \subseteq Granted
  /\ HeldWasStored
  /\ TableIsLedger
  /\ \A r \in Requests : InStep(req[r])
  /\ NoSharedNew
  /\ LateIsRefused

\* The requests that may still give a token one more successor.
Rotating(t) ==
  {r \in Requests : /\ req[r].op = "refresh" /\ req[r].tok = t
                    /\ req[r].pc \in {"delete", "load", "store"}}

\* What makes ForksOnlyByOverlap inductive: a spent token lets no more requests
\* past the lookup, so that those on their way and the successors there are
\* never exceed the requests there can be (auth_service.go:291-319).
ForkInv ==
  \A t \in Token :
    /\ t \notin spent => Successors(t) = {}
    /\ t \in spent =>
         /\ IsFiniteSet(Successors(t))
         /\ Cardinality(Successors(t)) + Cardinality(Rotating(t)) <= Cardinality(Requests)

\* What makes NobodyLosesASession and NoRowWithoutHolder inductive.
CalmInv ==
  /\ spent \subseteq held
  /\ \A r \in Requests : req[r].op = "refresh" /\ At(r, "reply") =>
       [token |-> req[r].new, parent |-> req[r].tok] \in granted
  /\ course = "smooth" => \A t \in spent : Continued(t)
  /\ course = "smooth" => \A row \in refresh_tokens : Owned(row)

\* All of it (auth_service.go:205-235, 270-334).
Inductive == IInv /\ ForkInv /\ CalmInv
=============================================================================
