-------------------------- MODULE AuthServiceProofs --------------------------
(* Proofs about AuthService: it runs its two components as they are, so    *)
(* that what is proved of the accounts holds here, and whoever holds a     *)
(* refresh token presented the credentials of its account.                 *)
EXTENDS AuthService, TLAPS

\* Accounts again, with the theorems about it.
P == INSTANCE AccountsProofs WITH req <- areq, Requests <- Calls

\* RefreshTokens again, with the theorems about it.
R == INSTANCE RefreshTokensProofs WITH req <- treq, Requests <- Calls \cup Others,
                                       Users <- Ids

-----------------------------------------------------------------------------
(* The components in the service. *)

LEMMA AccountsStep ==
  [Next]_vars => [Acc!Next]_<<users, areq, sessions, intended, clobbered, moved>>
<1> SUFFICES ASSUME [Next]_vars, ~UNCHANGED accounts PROVE Acc!Next
  BY DEF accounts
<1>1. CASE UNCHANGED vars
  BY <1>1 DEF vars
<1>2. CASE Restart
  BY <1>2 DEF Restart, Acc!Next
<1>3. CASE Expire
  BY <1>3 DEF Expire
<1>4. ASSUME NEW r \in Calls, BeforeToken(r) PROVE Acc!Next
  BY <1>4 DEF BeforeToken, Acc!Next, Acc!Serve
<1>5. ASSUME NEW r \in Calls, SignToken(r) \/ SendTokens(r) PROVE FALSE
  BY <1>5 DEF SignToken, SendTokens
<1>6. ASSUME NEW r \in Calls, StoreToken(r) \/ AfterToken(r) PROVE Acc!Next
  BY <1>6 DEF StoreToken, AfterToken, Acc!Next, Acc!Serve
<1>7. ASSUME NEW r \in Others, TokenRequest(r) \/ LoadUserAndSign(r) PROVE FALSE
  BY <1>7 DEF TokenRequest, LoadUserAndSign
<1> QED
  BY <1>1, <1>2, <1>3, <1>4, <1>5, <1>6, <1>7 DEF Next

LEMMA TokensStep == [Next]_vars => [Tok!Next]_Tok!vars
<1> SUFFICES ASSUME [Next]_vars, ~UNCHANGED tokens PROVE Tok!Next
  BY DEF tokens, Tok!vars, Tok!database
<1>1. CASE UNCHANGED vars
  BY <1>1 DEF vars
<1>2. CASE Restart
  BY <1>2 DEF Restart, Tok!Next
<1>3. CASE Expire
  BY <1>3 DEF Expire, Tok!Next
<1>4. ASSUME NEW r \in Calls, BeforeToken(r) PROVE FALSE
  BY <1>4 DEF BeforeToken
<1>5. ASSUME NEW r \in Calls, SignToken(r) \/ SendTokens(r) PROVE Tok!Next
  BY <1>5 DEF SignToken, SendTokens, Tok!Next, Tok!Serve
<1>6. ASSUME NEW r \in Calls, StoreToken(r) \/ AfterToken(r) PROVE Tok!Next
  BY <1>6 DEF StoreToken, AfterToken, Tok!Next, Tok!Serve
<1>7. ASSUME NEW r \in Others, TokenRequest(r) \/ LoadUserAndSign(r) PROVE Tok!Next
  BY <1>7 DEF TokenRequest, LoadUserAndSign, Tok!Next, Tok!Serve
<1> QED
  BY <1>1, <1>2, <1>3, <1>4, <1>5, <1>6, <1>7 DEF Next

\* Within the service the accounts are as module Accounts has them, so that what
\* is shown there holds here.
THEOREM AccountsInside == Spec => Acc!Spec
<1>1. Init => Acc!Init
  BY DEF Init
<1> QED
  BY <1>1, AccountsStep, PTL DEF Spec, Acc!Spec, Acc!vars

\* And the refresh tokens as module RefreshTokens has them.
THEOREM TokensInside == Spec => Tok!Spec
<1>1. Init => Tok!Init
  BY DEF Init
<1> QED
  BY <1>1, TokensStep, PTL DEF Spec, Tok!Spec

-----------------------------------------------------------------------------
(* Both instances of Accounts are the same. *)

LEMMA SameHelpers ==
  /\ Acc!database = P!database /\ Acc!NewRequest = P!NewRequest
  /\ Acc!Answers = P!Answers /\ Acc!Steps = P!Steps /\ Acc!Outcomes = P!Outcomes
  /\ Acc!Results = P!Results
BY DEF Acc!database, P!database, Acc!NewRequest, P!NewRequest, Acc!Answers, P!Answers,
   Acc!Steps, P!Steps, Acc!Outcomes, P!Outcomes, Acc!Results, P!Results

LEMMA SamePreActions ==
  ASSUME NEW r, NEW call, Acc!PreActions(r, call) PROVE P!PreActions(r, call)
BY DEF Acc!PreActions, P!PreActions, Acc!At, P!At, Acc!Results, P!Results, Acc!NewRequest,
   P!NewRequest, Acc!Become, P!Become, Acc!Refuses, P!Refuses, Acc!End, P!End,
   Acc!database, P!database

LEMMA SameNewCall ==
  ASSUME NEW r, Acc!Register(r) \/ Acc!Login(r) \/ Acc!ProcessOAuthLogin(r)
  PROVE  P!Register(r) \/ P!Login(r) \/ P!ProcessOAuthLogin(r)
BY SamePreActions DEF Acc!Register, P!Register, Acc!Login, P!Login, Acc!ProcessOAuthLogin,
   P!ProcessOAuthLogin, Acc!PasswordCall, P!PasswordCall

LEMMA SameLookup ==
  ASSUME NEW r
  PROVE  /\ Acc!Missing(r) => P!Missing(r)
         /\ Acc!LoginFails(r) => P!LoginFails(r)
         /\ Acc!FoundUser(r) => P!FoundUser(r)
<1>1. Acc!Missing(r) => P!Missing(r)
  BY DEF Acc!Missing, P!Missing, Acc!At, P!At, Acc!Op, P!Op, Acc!Become, P!Become,
     Acc!NewUser, P!NewUser, Acc!updateUserFromMap, P!updateUserFromMap, Acc!Settable,
     P!Settable, Acc!database, P!database
<1>2. Acc!LoginFails(r) => P!LoginFails(r)
  BY DEF Acc!LoginFails, P!LoginFails, Acc!At, P!At, Acc!Op, P!Op, Acc!Become, P!Become,
     Acc!End, P!End, Acc!database, P!database
<1>3. Acc!FoundUser(r) => P!FoundUser(r)
  BY DEF Acc!FoundUser, P!FoundUser, Acc!At, P!At, Acc!ByEmail, P!ByEmail, Acc!Op, P!Op,
     Acc!SameAccount, P!SameAccount, Acc!Become, P!Become, Acc!End, P!End, Acc!Goto, P!Goto,
     Acc!Answers, P!Answers, Acc!database, P!database
<1> QED
  BY <1>1, <1>2, <1>3

LEMMA SameWrites ==
  ASSUME NEW r
  PROVE  /\ Acc!CreateUser(r) => P!CreateUser(r)
         /\ Acc!UpdateUser(r) => P!UpdateUser(r)
<1>1. Acc!CreateUser(r) => P!CreateUser(r)
  BY DEF Acc!CreateUser, P!CreateUser, Acc!At, P!At, Acc!Outcomes, P!Outcomes, Acc!Applied,
     P!Applied, Acc!Err, P!Err, Acc!SchemaAllows, P!SchemaAllows, Acc!Authenticable,
     P!Authenticable, Acc!AfterCreate, P!AfterCreate, Acc!BeforeSession, P!BeforeSession,
     Acc!Become, P!Become, Acc!End, P!End, Acc!Goto, P!Goto, Acc!Answers, P!Answers
<1>2. Acc!UpdateUser(r) => P!UpdateUser(r)
  BY DEF Acc!UpdateUser, P!UpdateUser, Acc!Change, P!Change, Acc!updateUserFromMap,
     P!updateUserFromMap, Acc!NamesProvider, P!NamesProvider, Acc!Settable, P!Settable, Acc!Overwrite, P!Overwrite, Acc!Rewrite,
     P!Rewrite, Acc!SchemaAllows, P!SchemaAllows, Acc!Authenticable, P!Authenticable,
     Acc!AfterUpdate, P!AfterUpdate, Acc!BeforeSession, P!BeforeSession, Acc!Copy, P!Copy,
     Acc!Outcomes, P!Outcomes, Acc!Applied, P!Applied, Acc!Err, P!Err, Acc!Become, P!Become,
     Acc!End, P!End, Acc!Goto, P!Goto, Acc!Answers, P!Answers, Acc!database, P!database
<1> QED
  BY <1>1, <1>2

LEMMA SameEnd ==
  ASSUME NEW r
  PROVE  /\ Acc!StoreSession(r) => P!StoreSession(r)
         /\ Acc!PostActions(r) => P!PostActions(r)
<1>1. Acc!StoreSession(r) => P!StoreSession(r)
  BY DEF Acc!StoreSession, P!StoreSession, Acc!At, P!At, Acc!Outcomes, P!Outcomes, Acc!Applied,
     P!Applied, Acc!Become, P!Become, Acc!Err, P!Err, Acc!End, P!End, Acc!Goto, P!Goto,
     Acc!AfterSession, P!AfterSession, Acc!Answers, P!Answers, Acc!database, P!database
<1>2. Acc!PostActions(r) => P!PostActions(r)
  BY DEF Acc!PostActions, P!PostActions, Acc!At, P!At, Acc!Results, P!Results, Acc!AfterPost,
     P!AfterPost, Acc!Refuses, P!Refuses, Acc!Become, P!Become, Acc!End, P!End, Acc!Goto,
     P!Goto, Acc!Answers, P!Answers, Acc!database, P!database
<1> QED
  BY <1>1, <1>2

LEMMA SameNext == Acc!Next => P!Next
<1>1. Acc!Restart => P!Restart
  BY DEF Acc!Restart, P!Restart, Acc!Steps, P!Steps, Acc!End, P!End, Acc!database, P!database
<1>2. ASSUME NEW r, Acc!Serve(r) PROVE P!Serve(r)
  BY <1>2, SameLookup, SameWrites, SameEnd DEF Acc!Serve, P!Serve
<1> QED
  BY <1>1, <1>2, SameNewCall DEF Acc!Next, P!Next

LEMMA SameAssumption == P!AccountsAssumption
BY ServiceAssumption DEF P!AccountsAssumption

LEMMA AccountsRun == Spec => P!Spec
<1>1. Init => P!Init
  BY DEF Init, Acc!Init, P!Init, Acc!NewRequest, P!NewRequest
<1>2. [Next]_vars => [P!Next]_P!vars
  BY AccountsStep, SameNext DEF P!vars
<1> QED
  BY <1>1, <1>2, PTL DEF Spec, P!Spec

\* The inductive invariant of the accounts holds in the service.
THEOREM AccountsHold == Spec => []P!AccountsInv
<1>1. P!Spec => []P!AccountsInv
  BY SameAssumption, P!AccountsInvariance
<1> QED
  BY <1>1, AccountsRun, PTL

\* While tokens are minted, rotated and revoked next to them, no step loses an
\* account or changes its e-mail, password, id at the provider or kind, whatever
\* user map the scripts return, and none but a script's map that names a provider
\* changes its provider (auth_service.go:238-268).
THEOREM ServiceKeepsIdentity == Spec => P!IdentityStable
<1>1. P!Spec => P!IdentityStable
  BY SameAssumption, P!IdentityCorrect
<1> QED
  BY <1>1, AccountsRun, PTL

\* And every promise of the accounts stands in the service: sessions are for
\* the account with the credentials that the call presented, registrations stand, a refused login stores
\* no session, an update is lost only to a request that has not seen it, and
\* only a password login to an OAuth account panics
\* (auth_service.go:75-235, 363-528).
THEOREM ServiceKeepsAccounts ==
  Spec => [](/\ P!SessionMatchesAccount /\ P!RegisteredStands /\ P!OnlyUnseenIsLost
             /\ P!RefusedLoginHasNoSession /\ P!PanicsOnlyOnOAuthAccount)
<1>1. P!Spec => []P!SessionMatchesAccount
  BY SameAssumption, P!SessionCorrect
<1>2. P!Spec => []P!RegisteredStands
  BY SameAssumption, P!RegisteredCorrect
<1>3. P!Spec => []P!OnlyUnseenIsLost
  BY SameAssumption, P!LostUpdatesCorrect
<1>4. P!Spec => []P!RefusedLoginHasNoSession
  BY SameAssumption, P!RefusedCorrect
<1>5. P!Spec => []P!PanicsOnlyOnOAuthAccount
  BY SameAssumption, P!PanicsCorrect
<1> QED
  BY <1>1, <1>2, <1>3, <1>4, <1>5, AccountsRun, PTL

-----------------------------------------------------------------------------
(* And so are both instances of RefreshTokens. *)

LEMMA SameTokenHelpers ==
  /\ Tok!database = R!database /\ Tok!Idle = R!Idle /\ Tok!Outcomes = R!Outcomes
  /\ Tok!Undisturbed = R!Undisturbed /\ Tok!Disturbed = R!Disturbed
BY DEF Tok!database, R!database, Tok!Idle, R!Idle, Tok!Outcomes, R!Outcomes,
   Tok!Undisturbed, R!Undisturbed, Tok!Disturbed, R!Disturbed

LEMMA SameSign ==
  ASSUME NEW r
  PROVE  /\ Tok!LoginSign(r) => R!LoginSign(r)
         /\ Tok!LoadUserAndSign(r) => R!LoadUserAndSign(r)
<1>1. Tok!LoginSign(r) => R!LoginSign(r)
  BY DEF Tok!LoginSign, R!LoginSign, Tok!At, R!At, Tok!Fresh, R!Fresh, Tok!Sign, R!Sign,
     Tok!database, R!database
<1>2. Tok!LoadUserAndSign(r) => R!LoadUserAndSign(r)
  BY DEF Tok!LoadUserAndSign, R!LoadUserAndSign, Tok!At, R!At, Tok!Fresh, R!Fresh, Tok!Sign,
     R!Sign, Tok!Undisturbed, R!Undisturbed, Tok!Disturbed, R!Disturbed, Tok!Return, R!Return,
     Tok!Idle, R!Idle, Tok!database, R!database
<1> QED
  BY <1>1, <1>2

LEMMA SamePresent ==
  ASSUME NEW r
  PROVE  /\ Tok!RefreshToken(r) => R!RefreshToken(r)
         /\ Tok!Logout(r) => R!Logout(r)
         /\ Tok!GetByJTI(r) => R!GetByJTI(r)
<1>1. \A op, pc : Tok!Present(r, op, pc) => R!Present(r, op, pc)
  BY DEF Tok!Present, R!Present, Tok!At, R!At, Tok!Valid, R!Valid, Tok!database, R!database
<1>2. Tok!GetByJTI(r) => R!GetByJTI(r)
  BY DEF Tok!GetByJTI, R!GetByJTI, Tok!At, R!At, Tok!Found, R!Found, Tok!Goto, R!Goto,
     Tok!Return, R!Return, Tok!Idle, R!Idle, Tok!Undisturbed, R!Undisturbed, Tok!Disturbed,
     R!Disturbed, Tok!database, R!database
<1> QED
  BY <1>1, <1>2 DEF Tok!RefreshToken, R!RefreshToken, Tok!Logout, R!Logout

LEMMA SameTokenWrites ==
  ASSUME NEW r
  PROVE  /\ Tok!Delete(r) => R!Delete(r)
         /\ Tok!Create(r) => R!Create(r)
<1>1. \A pc : Tok!Continue(r, pc) => R!Continue(r, pc)
  BY DEF Tok!Continue, R!Continue, Tok!Return, R!Return, Tok!Idle, R!Idle, Tok!Goto, R!Goto
<1>2. \A op, o : /\ Tok!AfterDelete(op, o) = R!AfterDelete(op, o)
                 /\ Tok!AfterCreate(op, o) = R!AfterCreate(op, o)
                 /\ (Tok!Applied(o) <=> R!Applied(o)) /\ (Tok!Err(o) <=> R!Err(o))
  BY DEF Tok!AfterDelete, R!AfterDelete, Tok!AfterCreate, R!AfterCreate, Tok!Applied,
     R!Applied, Tok!Err, R!Err
<1>3. Tok!Delete(r) => R!Delete(r)
  BY <1>1, <1>2 DEF Tok!Delete, R!Delete, Tok!At, R!At, Tok!Outcomes, R!Outcomes,
     Tok!Applied, R!Applied, Tok!Err, R!Err,
     Tok!DeleteRow, R!DeleteRow, Tok!Undisturbed, R!Undisturbed, Tok!Disturbed, R!Disturbed
<1>4. Tok!Create(r) => R!Create(r)
  BY <1>1, <1>2 DEF Tok!Create, R!Create, Tok!At, R!At, Tok!Outcomes, R!Outcomes,
     Tok!Applied, R!Applied, Tok!Err, R!Err,
     Tok!InsertRow, R!InsertRow, Tok!Undisturbed, R!Undisturbed, Tok!Disturbed, R!Disturbed
<1> QED
  BY <1>3, <1>4

LEMMA SameTokenEnd ==
  ASSUME NEW r
  PROVE  /\ Tok!FinishLogin(r) => R!FinishLogin(r)
         /\ Tok!Reply(r) => R!Reply(r)
BY DEF Tok!FinishLogin, R!FinishLogin, Tok!Reply, R!Reply, Tok!Answer, R!Answer, Tok!At, R!At,
   Tok!Goto, R!Goto, Tok!Return, R!Return, Tok!Idle, R!Idle, Tok!Undisturbed, R!Undisturbed,
   Tok!Disturbed, R!Disturbed, Tok!database, R!database

LEMMA SameTokenNext == Tok!Next => R!Next
<1>1. Tok!Restart => R!Restart
  BY DEF Tok!Restart, R!Restart, Tok!At, R!At, Tok!Idle, R!Idle, Tok!Disturbed, R!Disturbed,
     Tok!database, R!database
<1>2. Tok!Expire => R!Expire
  BY DEF Tok!Expire, R!Expire, Tok!database, R!database
<1>3. ASSUME NEW r, Tok!Serve(r) PROVE R!Serve(r)
  BY <1>3, SameSign, SamePresent, SameTokenWrites, SameTokenEnd DEF Tok!Serve, R!Serve
<1> QED
  BY <1>1, <1>2, <1>3, SameSign, SamePresent DEF Tok!Next, R!Next

LEMMA SameTokenAssumptions == R!NoTokenAssumption /\ R!RequestsAssumption
<1>1. R!NoTokenAssumption
  BY ServiceAssumption DEF R!NoTokenAssumption, R!Token
<1>2. R!RequestsAssumption
  BY ServiceAssumption DEF R!RequestsAssumption, R!IsFiniteSet, IsFiniteSet
<1> QED
  BY <1>1, <1>2

LEMMA TokensRun == Spec => R!Spec
<1>1. Init => R!Init
  BY DEF Init, Tok!Init, R!Init, Tok!Idle, R!Idle
<1>2. [Next]_vars => [R!Next]_R!vars
  BY TokensStep, SameTokenNext DEF R!vars, Tok!vars, R!database, Tok!database
<1> QED
  BY <1>1, <1>2, PTL DEF Spec, R!Spec

\* The inductive invariant of the refresh tokens holds in the service.
THEOREM TokensHold == Spec => []R!Inductive
<1>1. R!Spec => []R!Inductive
  BY SameTokenAssumptions, R!InductiveHolds
<1> QED
  BY <1>1, TokensRun, PTL

\* The whole service implements the ledger of sessions: with accounts, scripts
\* and failures around it, a step still begins a session, revokes a token,
\* continues a revoked one for the same user, or does none of that
\* (auth_service.go:155-235, 270-334, 363-528).
THEOREM ServiceImplementsLedger == Spec => R!ImplementsLedger
<1>1. R!Spec => R!ImplementsLedger
  BY SameTokenAssumptions, R!Implementation
<1> QED
  BY <1>1, TokensRun, PTL

\* And every promise of the refresh tokens stands in the service: logouts are
\* final, forks need overlap, late rotations are refused, and without faults
\* nobody loses a session and no row is stored for nobody
\* (auth_service.go:219-235, 286-334).
THEOREM ServiceKeepsTokens ==
  Spec => [](/\ R!TableIsLedger /\ R!LateIsRefused /\ R!LogoutIsFinal
             /\ R!ForksOnlyByOverlap /\ R!NobodyLosesASession /\ R!NoRowWithoutHolder)
<1>1. R!Spec => []R!TableIsLedger
  BY SameTokenAssumptions, R!TableCorrect
<1>2. R!Spec => []R!LateIsRefused
  BY SameTokenAssumptions, R!LateCorrect
<1>3. R!Spec => []R!LogoutIsFinal
  BY SameTokenAssumptions, R!LogoutCorrect
<1>4. R!Spec => []R!ForksOnlyByOverlap
  BY SameTokenAssumptions, R!ForksCorrect
<1>5. R!Spec => []R!NobodyLosesASession
  BY SameTokenAssumptions, R!NobodyLosesCorrect
<1>6. R!Spec => []R!NoRowWithoutHolder
  BY SameTokenAssumptions, R!NoRowWithoutHolderCorrect
<1> QED
  BY <1>1, <1>2, <1>3, <1>4, <1>5, <1>6, TokensRun, PTL

\* Requests of the service only move forward: neither the account of a call nor
\* the token of a login, a rotation or a logout goes back a step or does anything
\* twice, and answers are final (auth_service.go:75-235, 270-334, 363-528).
THEOREM ServiceMovesForward == Spec => P!MovesForward /\ R!MovesForward
<1>1. P!Spec => P!MovesForward
  BY SameAssumption, P!ForwardCorrect
<1>2. R!Spec => R!MovesForward
  BY SameTokenAssumptions, R!ForwardCorrect
<1> QED
  BY <1>1, <1>2, AccountsRun, TokensRun, PTL

-----------------------------------------------------------------------------
(* Tokens and credentials. *)

Parts == {"pc", "op", "tok", "new", "late"}

\* The session of a token began with a call that was answered with success.
Earned(t, calls, ms) == \E m \in ms : m.token = t /\ calls[m.call].pc = "ok"

\* A token is for an account whose credentials the call it goes back to presented.
MintOK(m, table, calls, known) ==
  /\ m.call \in Calls /\ m.token \in known /\ calls[m.call].pc # "new"
  /\ \E u \in table : u.ID = m.token.sub /\ P!Presented(u, calls[m.call].call)

OneCallEach(ms) == \A m, n \in ms : m.token = n.token => m.call = n.call

\* The token part q of call r.
CallTokenOK(q, r, calls, ms) ==
  /\ DOMAIN q = Parts
  /\ q.pc \in {"idle", "store", "touch", "reply"}
  /\ q.pc # "idle" => q.op = "login" /\ [call |-> r, token |-> q.new] \in ms
  /\ q.pc = "reply" => calls[r].pc = "ok"

\* A rotation or logout works on tokens that were earned.
OtherTokenOK(q, calls, ms) ==
  /\ DOMAIN q = Parts
  /\ q.pc \in {"lookup", "delete", "load"} => Earned(q.tok, calls, ms)
  /\ q.pc \in {"store", "touch", "reply"} => Earned(q.new, calls, ms)

AuthInv ==
  /\ treq = [r \in Calls \cup Others |-> treq[r]]
  /\ \A m \in minted : MintOK(m, users, areq, signed)
  /\ OneCallEach(minted)
  /\ \A r \in Calls : CallTokenOK(treq[r], r, areq, minted)
  /\ \A r \in Others : OtherTokenOK(treq[r], areq, minted)
  /\ \A t \in held : Earned(t, areq, minted)

\* What a step may do to the calls.
Stand(calls, new) ==
  \A r \in Calls : \/ new[r] = calls[r]
                   \/ /\ calls[r].pc \notin P!Answers /\ new[r].pc # "new"
                      /\ calls[r].pc # "new" => new[r].call = calls[r].call

LEMMA EarnedStands ==
  ASSUME NEW t, NEW calls, NEW later, NEW ms, NEW more, Earned(t, calls, ms),
         \A m \in ms : m.call \in Calls, ms \subseteq more, Stand(calls, later)
  PROVE  Earned(t, later, more)
BY DEF Earned, Stand, P!Answers

LEMMA MintStands ==
  ASSUME NEW m, NEW table, NEW after, NEW calls, NEW later, NEW known, NEW more,
         MintOK(m, table, calls, known), P!Keeps(table, after), Stand(calls, later),
         known \subseteq more
  PROVE  MintOK(m, after, later, more)
BY DEF MintOK, P!Keeps, P!SameIdentity, P!Presented, Stand

\* A step in which request r may change and tokens may be added.
LEMMA AuthStep ==
  ASSUME AuthInv, P!Keeps(users, users'), Stand(areq, areq'), NEW r,
         treq' = [treq EXCEPT ![r] = treq'[r]],
         signed \subseteq signed', minted \subseteq minted', OneCallEach(minted'),
         \A m \in minted' \ minted : MintOK(m, users', areq', signed'),
         r \in Calls => CallTokenOK(treq'[r], r, areq', minted'),
         r \in Others => OtherTokenOK(treq'[r], areq', minted'),
         \A t \in held' \ held : Earned(t, areq', minted')
  PROVE  AuthInv'
<1>1. \A m \in minted : MintOK(m, users, areq, signed) /\ m.call \in Calls
  BY DEF AuthInv, MintOK
<1>2. \A m \in minted' : MintOK(m, users', areq', signed')
  BY <1>1, MintStands
<1>3. /\ treq' = [s \in Calls \cup Others |-> treq'[s]]
      /\ \A s \in Calls \cup Others : s # r => treq'[s] = treq[s]
  BY DEF AuthInv
<1>4. ASSUME NEW s \in Calls, s # r PROVE CallTokenOK(treq'[s], s, areq', minted')
  <2>1. CallTokenOK(treq[s], s, areq, minted)
    BY DEF AuthInv
  <2>2. treq[s].pc = "reply" => areq'[s].pc = "ok"
    BY <2>1 DEF CallTokenOK, Stand, P!Answers
  <2> QED
    BY <1>3, <1>4, <2>1, <2>2 DEF CallTokenOK
<1>5. ASSUME NEW s \in Others, s # r PROVE OtherTokenOK(treq'[s], areq', minted')
  <2>1. OtherTokenOK(treq[s], areq, minted)
    BY DEF AuthInv
  <2>2. OtherTokenOK(treq[s], areq', minted')
    BY <1>1, <2>1, EarnedStands DEF OtherTokenOK
  <2> QED
    BY <1>3, <1>5, <2>2
<1>6. ASSUME NEW t \in held' PROVE Earned(t, areq', minted')
  <2>1. CASE t \in held
    BY <1>1, <2>1, EarnedStands DEF AuthInv
  <2> QED
    BY <2>1
<1>7. /\ \A s \in Calls : CallTokenOK(treq'[s], s, areq', minted')
      /\ \A s \in Others : OtherTokenOK(treq'[s], areq', minted')
  BY <1>4, <1>5
<1> QED
  BY <1>2, <1>3, <1>6, <1>7 DEF AuthInv, MintOK, OneCallEach, CallTokenOK, OtherTokenOK, Earned,
     P!Presented

\* What a step of the accounts does to the rows and the calls.
LEMMA AccountsMove ==
  P!AccountsInv /\ [Next]_vars => P!Keeps(users, users') /\ Stand(areq, areq')
<1> SUFFICES ASSUME P!AccountsInv, [Next]_vars PROVE P!Keeps(users, users') /\ Stand(areq, areq')
  OBVIOUS
<1>1. [P!Next]_P!vars
  BY AccountsStep, SameNext DEF P!vars
<1> QED
  BY <1>1, SameAssumption, P!NextKeeps, P!CallsStand DEF Stand

\* Where a request leads.
LEMMA Moved ==
  ASSUME AuthInv, NEW r \in Calls \cup Others
  PROVE  /\ \A pc : Tok!Goto(r, pc) => treq'[r] = [treq[r] EXCEPT !.pc = pc]
         /\ Tok!Return(r) => treq'[r] = Tok!Idle
         /\ \A pc : Tok!Goto(r, pc) \/ Tok!Return(r) => treq' = [treq EXCEPT ![r] = treq'[r]]
BY DEF AuthInv, Tok!Goto, Tok!Return

LEMMA IdleOK ==
  ASSUME NEW r, NEW calls, NEW ms
  PROVE  CallTokenOK(Tok!Idle, r, calls, ms) /\ OtherTokenOK(Tok!Idle, calls, ms)
BY DEF Tok!Idle, CallTokenOK, OtherTokenOK, Parts

LEMMA PCOnly ==
  ASSUME NEW q, DOMAIN q = Parts, NEW pc
  PROVE  LET new == [q EXCEPT !.pc = pc] IN
         DOMAIN new = Parts /\ new.pc = pc /\ new.op = q.op /\ new.tok = q.tok /\ new.new = q.new
BY DEF Parts

\* Only the accounts move.
LEMMA TokensRest ==
  ASSUME AuthInv, P!Keeps(users, users'), Stand(areq, areq'), UNCHANGED <<tokens, minted>>
  PROVE  AuthInv'
<1>1. PICK r : r \notin Calls \cup Others
  BY NoSetContainsEverything
<1>2. treq' = [treq EXCEPT ![r] = treq'[r]]
  BY <1>1 DEF AuthInv, tokens
<1> QED
  BY <1>1, <1>2, AuthStep DEF AuthInv, tokens

LEMMA SignTokenStep ==
  ASSUME P!AccountsInv, AuthInv, NEW r \in Calls, SignToken(r),
         P!Keeps(users, users'), Stand(areq, areq')
  PROVE  AuthInv'
<1>1. PICK j \in Jtis, u \in Ids :
        Tok!Fresh(j) /\ Tok!Sign(r, [jti |-> j, sub |-> u], "login", FALSE)
  BY DEF SignToken, Tok!LoginSign
<1> DEFINE t == [jti |-> j, sub |-> u]
           m == [call |-> r, token |-> t]
<1>2. DOMAIN treq[r] = Parts
  BY DEF AuthInv, CallTokenOK
<1>3. /\ treq' = [treq EXCEPT ![r] = treq'[r]] /\ DOMAIN treq'[r] = Parts
      /\ treq'[r].pc = "store" /\ treq'[r].op = "login" /\ treq'[r].new = t
  BY <1>1, <1>2 DEF Tok!Sign, AuthInv, Parts
<1>4. /\ minted' = minted \cup {m} /\ signed' = signed \cup {t} /\ t \notin signed
      /\ UNCHANGED <<users, areq, held>>
  BY <1>1, <1>3 DEF SignToken, Tok!Sign, Tok!Fresh, Tok!LoginSign, accounts
<1>5. MintOK(m, users, areq, signed')
  <2>1. P!RequestOK(areq[r], users) /\ areq[r].pc = "session" /\ u = areq[r].user.ID
    BY <1>3 DEF P!AccountsInv, SignToken, SubjectIsUser
  <2>2. P!Owns(areq[r], users)
    BY <2>1 DEF P!RequestOK, P!Working
  <2> QED
    BY <1>4, <2>1, <2>2 DEF MintOK, P!Owns, P!SameIdentity, P!Presented
<1>6. OneCallEach(minted')
  BY <1>4 DEF OneCallEach, AuthInv, MintOK
<1>7. CallTokenOK(treq'[r], r, areq', minted')
  BY <1>3, <1>4 DEF CallTokenOK
<1>8. r \notin Others
  BY ServiceAssumption
<1> QED
  BY <1>3, <1>4, <1>5, <1>6, <1>7, <1>8, AuthStep

\* A step of a call after its token was signed.
LEMMA CallStep ==
  ASSUME AuthInv, P!Keeps(users, users'), Stand(areq, areq'), NEW r \in Calls,
         Tok!Return(r) \/ \E pc : /\ Tok!Goto(r, pc) /\ pc \in {"touch", "reply"}
                                  /\ pc = "reply" => areq'[r].pc = "ok",
         treq[r].pc # "idle", UNCHANGED <<signed, minted>>,
         \A t \in held' \ held : Earned(t, areq', minted)
  PROVE  AuthInv'
<1>1. CallTokenOK(treq[r], r, areq, minted)
  BY DEF AuthInv
<1>2. treq' = [treq EXCEPT ![r] = treq'[r]]
  BY Moved
<1>3. CallTokenOK(treq'[r], r, areq', minted)
  <2>1. CASE Tok!Return(r)
    BY <2>1, Moved, IdleOK
  <2>2. ASSUME NEW pc, Tok!Goto(r, pc), pc \in {"touch", "reply"}, pc = "reply" => areq'[r].pc = "ok"
        PROVE  CallTokenOK(treq'[r], r, areq', minted)
    <3>1. treq'[r] = [treq[r] EXCEPT !.pc = pc]
      BY <2>2, Moved
    <3> QED
      BY <1>1, <2>2, <3>1, PCOnly DEF CallTokenOK
  <2> QED
    BY <2>1, <2>2
<1>4. r \notin Others
  BY ServiceAssumption
<1>5. OneCallEach(minted)
  BY DEF AuthInv
<1> QED
  BY <1>2, <1>3, <1>4, <1>5, AuthStep

LEMMA StoreTokenStep ==
  ASSUME AuthInv, NEW r \in Calls, StoreToken(r), P!Keeps(users, users'), Stand(areq, areq')
  PROVE  AuthInv'
<1>1. treq[r].pc = "store" /\ treq[r].op = "login"
  BY DEF AuthInv, CallTokenOK, StoreToken, Tok!Create, Tok!At
<1>2. PICK o : Tok!Continue(r, Tok!AfterCreate(treq[r].op, o))
  BY DEF StoreToken, Tok!Create
<1>3. Tok!Return(r) \/ Tok!Goto(r, "touch")
  BY <1>1, <1>2 DEF Tok!Continue, Tok!AfterCreate
<1>4. UNCHANGED <<signed, minted, held>>
  BY DEF StoreToken, Tok!Create
<1> QED
  BY <1>1, <1>3, <1>4, CallStep

LEMMA AfterTokenStep ==
  ASSUME AuthInv, NEW r \in Calls, AfterToken(r), P!Keeps(users, users'), Stand(areq, areq')
  PROVE  AuthInv'
<1>1. CASE UNCHANGED tokens
  BY <1>1, TokensRest DEF AfterToken
<1>2. CASE Tok!FinishLogin(r) /\ (AnswersTokens(areq'[r].pc) <=> treq'[r].pc = "reply")
  <2>1. /\ treq[r].pc # "idle" /\ UNCHANGED <<signed, minted, held>>
        /\ Tok!Return(r) \/ Tok!Goto(r, "reply")
    BY <1>2 DEF Tok!FinishLogin, Tok!At, AfterToken
  <2>2. ASSUME Tok!Goto(r, "reply") PROVE areq'[r].pc = "ok"
    <3>1. treq'[r] = [treq[r] EXCEPT !.pc = "reply"] /\ DOMAIN treq[r] = Parts
      BY <2>2, Moved DEF AuthInv, CallTokenOK
    <3>2. treq'[r].pc = "reply"
      BY <3>1, PCOnly
    <3> QED
      BY <1>2, <3>2 DEF AnswersTokens
  <2> QED
    BY <2>1, <2>2, CallStep
<1> QED
  BY <1>1, <1>2 DEF AfterToken

LEMMA SendTokensStep ==
  ASSUME AuthInv, NEW r \in Calls, SendTokens(r), P!Keeps(users, users'), Stand(areq, areq')
  PROVE  AuthInv'
<1>1. /\ treq[r].pc = "reply" /\ Tok!Return(r) /\ UNCHANGED <<signed, minted, areq>>
      /\ held' \subseteq held \cup {treq[r].new}
  BY DEF SendTokens, Tok!Reply, Tok!At, Tok!Answer, accounts
<1>2. Earned(treq[r].new, areq, minted)
  BY <1>1 DEF AuthInv, CallTokenOK, Earned
<1> QED
  BY <1>1, <1>2, CallStep

\* A step of a rotation or logout that signs nothing.
LEMMA OtherStep ==
  ASSUME AuthInv, NEW r \in Others, UNCHANGED <<users, areq, signed, minted>>,
         treq' = [treq EXCEPT ![r] = treq'[r]], OtherTokenOK(treq'[r], areq, minted),
         \A t \in held' \ held : Earned(t, areq, minted)
  PROVE  AuthInv'
<1>1. P!Keeps(users, users') /\ Stand(areq, areq')
  BY DEF P!Keeps, P!SameIdentity, Stand
<1>2. r \notin Calls /\ OneCallEach(minted)
  BY ServiceAssumption DEF AuthInv
<1> QED
  BY <1>1, <1>2, AuthStep

LEMMA TokenRequestStep ==
  ASSUME AuthInv, NEW r \in Others, TokenRequest(r)
  PROVE  AuthInv'
<1>1. OtherTokenOK(treq[r], areq, minted) /\ UNCHANGED <<users, areq, minted>>
  BY DEF AuthInv, TokenRequest, accounts
\* The steps that only move the request.
<1>2. ASSUME \/ Tok!Return(r)
             \/ \E pc : Tok!Goto(r, pc) /\ OtherTokenOK([treq[r] EXCEPT !.pc = pc], areq, minted)
      PROVE  /\ treq' = [treq EXCEPT ![r] = treq'[r]]
             /\ OtherTokenOK(treq'[r], areq, minted)
  <2>1. treq' = [treq EXCEPT ![r] = treq'[r]]
    BY <1>2, Moved
  <2>2. CASE Tok!Return(r)
    BY <2>1, <2>2, Moved, IdleOK
  <2>3. ASSUME NEW pc, Tok!Goto(r, pc), OtherTokenOK([treq[r] EXCEPT !.pc = pc], areq, minted)
        PROVE  OtherTokenOK(treq'[r], areq, minted)
    <3>1. treq'[r] = [treq[r] EXCEPT !.pc = pc]
      BY <2>3, Moved
    <3> QED
      BY <2>3, <3>1
  <2> QED
    BY <1>2, <2>1, <2>2, <2>3
<1>3. CASE Tok!RefreshToken(r) \/ Tok!Logout(r)
  <2>1. PICK pc \in {"lookup", "delete"}, op \in {"refresh", "logout"} : Tok!Present(r, op, pc)
    BY <1>3 DEF Tok!RefreshToken, Tok!Logout
  <2>2. PICK t \in held :
          treq' = [treq EXCEPT ![r] = [pc |-> pc, op |-> op, tok |-> t, new |-> NoToken,
                                       late |-> t \in spent]]
    BY <2>1 DEF Tok!Present
  <2>3. treq'[r] = [pc |-> pc, op |-> op, tok |-> t, new |-> NoToken, late |-> t \in spent]
    BY <2>2 DEF AuthInv
  <2>4. Earned(t, areq, minted)
    BY DEF AuthInv
  <2>5. OtherTokenOK(treq'[r], areq, minted)
    BY <2>3, <2>4 DEF OtherTokenOK, Parts
  <2>6. UNCHANGED <<signed, held>>
    BY <2>1 DEF Tok!Present
  <2> QED
    BY <1>1, <2>2, <2>3, <2>5, <2>6, OtherStep
<1>4. CASE Tok!GetByJTI(r)
  <2>1. /\ treq[r].pc = "lookup" /\ UNCHANGED <<signed, held>>
        /\ Tok!Return(r) \/ Tok!Goto(r, "delete")
    BY <1>4 DEF Tok!GetByJTI, Tok!At
  <2>2. OtherTokenOK([treq[r] EXCEPT !.pc = "delete"], areq, minted)
    BY <1>1, <2>1, PCOnly DEF OtherTokenOK
  <2> QED
    BY <1>1, <1>2, <2>1, <2>2, OtherStep
<1>5. CASE Tok!Delete(r)
  <2>1. PICK o : Tok!Continue(r, Tok!AfterDelete(treq[r].op, o))
    BY <1>5 DEF Tok!Delete
  <2>2. /\ treq[r].pc = "delete" /\ UNCHANGED <<signed, held>>
        /\ Tok!Return(r) \/ Tok!Goto(r, "load")
    BY <1>5, <2>1 DEF Tok!Delete, Tok!At, Tok!Continue, Tok!AfterDelete
  <2>3. OtherTokenOK([treq[r] EXCEPT !.pc = "load"], areq, minted)
    BY <1>1, <2>2, PCOnly DEF OtherTokenOK
  <2> QED
    BY <1>1, <1>2, <2>2, <2>3, OtherStep
<1>6. CASE Tok!Create(r)
  <2>1. PICK o : Tok!Continue(r, Tok!AfterCreate(treq[r].op, o))
    BY <1>6 DEF Tok!Create
  <2>2. /\ treq[r].pc = "store" /\ UNCHANGED <<signed, held>>
        /\ Tok!Return(r) \/ Tok!Goto(r, "reply") \/ Tok!Goto(r, "touch")
    BY <1>6, <2>1 DEF Tok!Create, Tok!At, Tok!Continue, Tok!AfterCreate
  <2>3. /\ OtherTokenOK([treq[r] EXCEPT !.pc = "reply"], areq, minted)
        /\ OtherTokenOK([treq[r] EXCEPT !.pc = "touch"], areq, minted)
    BY <1>1, <2>2, PCOnly DEF OtherTokenOK
  <2> QED
    BY <1>1, <1>2, <2>2, <2>3, OtherStep
<1>7. CASE Tok!Reply(r)
  <2>1. /\ treq[r].pc = "reply" /\ Tok!Return(r) /\ UNCHANGED signed
        /\ held' \subseteq held \cup {treq[r].new}
    BY <1>7 DEF Tok!Reply, Tok!At, Tok!Answer
  <2>2. Earned(treq[r].new, areq, minted)
    BY <1>1, <2>1 DEF OtherTokenOK
  <2> QED
    BY <1>1, <1>2, <2>1, <2>2, OtherStep
<1> QED
  BY <1>3, <1>4, <1>5, <1>6, <1>7 DEF TokenRequest

LEMMA LoadUserAndSignStep ==
  ASSUME AuthInv, NEW r \in Others, LoadUserAndSign(r)
  PROVE  AuthInv'
<1>1. /\ OtherTokenOK(treq[r], areq, minted) /\ treq[r].pc = "load"
      /\ UNCHANGED <<users, areq, held>>
  BY DEF AuthInv, LoadUserAndSign, Tok!LoadUserAndSign, Tok!At, accounts
<1>2. CASE Tok!Return(r) /\ UNCHANGED signed
  <2>1. treq' = [treq EXCEPT ![r] = treq'[r]] /\ treq'[r] = Tok!Idle
    BY <1>2, Moved
  <2>2. UNCHANGED minted
    BY <2>1 DEF LoadUserAndSign, Tok!Idle
  <2> QED
    BY <1>1, <1>2, <2>1, <2>2, IdleOK, OtherStep
<1>3. ASSUME NEW j \in Jtis, Tok!Fresh(j),
             Tok!Sign(r, [jti |-> j, sub |-> treq[r].tok.sub], "refresh", treq[r].late)
      PROVE  AuthInv'
  <2> DEFINE old == treq[r].tok
             t == [jti |-> j, sub |-> old.sub]
             Rotated == {[call |-> m.call, token |-> t] : m \in {n \in minted : n.token = old}}
  <2>1. /\ treq' = [treq EXCEPT ![r] = treq'[r]] /\ DOMAIN treq'[r] = Parts
        /\ treq'[r].pc = "store" /\ treq'[r].new = t
    BY <1>1, <1>3 DEF Tok!Sign, AuthInv, OtherTokenOK, Parts
  <2>2. minted' = minted \cup Rotated /\ signed' = signed \cup {t} /\ t \notin signed
    BY <1>3, <2>1 DEF LoadUserAndSign, Tok!Sign, Tok!Fresh
  <2>3. PICK m \in minted : m.token = old /\ areq[m.call].pc = "ok"
    BY <1>1 DEF OtherTokenOK, Earned
  <2>4. \A n \in minted : MintOK(n, users, areq, signed) /\ (n.token = old => n.call = m.call)
    BY <2>3 DEF AuthInv, OneCallEach
  <2>5. Rotated = {[call |-> m.call, token |-> t]}
    BY <2>3, <2>4
  <2>6. MintOK([call |-> m.call, token |-> t], users, areq, signed')
    BY <2>2, <2>3, <2>4 DEF MintOK
  <2>7. OneCallEach(minted')
    BY <2>2, <2>4, <2>5 DEF OneCallEach, AuthInv, MintOK
  <2>8. Earned(t, areq, minted')
    <3>1. [call |-> m.call, token |-> t] \in minted'
      BY <2>2, <2>5
    <3> QED
      BY <2>3, <3>1 DEF Earned
  <2>9. OtherTokenOK(treq'[r], areq, minted')
    BY <2>1, <2>8 DEF OtherTokenOK
  <2>10. P!Keeps(users, users') /\ Stand(areq, areq') /\ r \notin Calls
    BY <1>1, ServiceAssumption DEF P!Keeps, P!SameIdentity, Stand
  <2> HIDE DEF t, Rotated
  <2> QED
    BY <1>1, <2>1, <2>2, <2>5, <2>6, <2>7, <2>9, <2>10, AuthStep
<1> QED
  BY <1>2, <1>3 DEF LoadUserAndSign, Tok!LoadUserAndSign

LEMMA RestartStep ==
  ASSUME AuthInv, Restart, P!Keeps(users, users'), Stand(areq, areq')
  PROVE  AuthInv'
<1>1. CASE UNCHANGED tokens
  BY <1>1, TokensRest DEF Restart
<1>2. CASE Tok!Restart
  <2>1. treq' = [r \in Calls \cup Others |-> Tok!Idle] /\ UNCHANGED <<signed, held, minted>>
    BY <1>2 DEF Tok!Restart, Restart
  <2>2. /\ \A m \in minted : MintOK(m, users', areq', signed) /\ m.call \in Calls
        /\ \A t \in held : Earned(t, areq', minted)
    <3>1. \A m \in minted : MintOK(m, users, areq, signed) /\ m.call \in Calls
      BY DEF AuthInv, MintOK
    <3> QED
      BY <3>1, MintStands, EarnedStands DEF AuthInv
  <2>3. /\ \A r \in Calls : CallTokenOK(treq'[r], r, areq', minted)
        /\ \A r \in Others : OtherTokenOK(treq'[r], areq', minted)
    BY <2>1, IdleOK
  <2>4. treq' = [r \in Calls \cup Others |-> treq'[r]]
    BY <2>1
  <2> QED
    BY <2>1, <2>2, <2>3, <2>4 DEF AuthInv, MintOK, OneCallEach, CallTokenOK, OtherTokenOK, Earned,
       P!Presented
<1> QED
  BY <1>1, <1>2 DEF Restart

LEMMA ExpireStep ==
  ASSUME AuthInv, Expire, P!Keeps(users, users'), Stand(areq, areq')
  PROVE  AuthInv'
<1>1. UNCHANGED <<treq, signed, held, minted>>
  BY DEF Expire, Tok!Expire
<1>2. PICK r : r \notin Calls \cup Others
  BY NoSetContainsEverything
<1>3. treq' = [treq EXCEPT ![r] = treq'[r]]
  BY <1>1, <1>2 DEF AuthInv
<1> QED
  BY <1>1, <1>2, <1>3, AuthStep DEF AuthInv

LEMMA InitAuth == Init => AuthInv
<1> SUFFICES ASSUME Init PROVE AuthInv
  OBVIOUS
<1>1. /\ treq = [r \in Calls \cup Others |-> Tok!Idle]
      /\ held = {} /\ minted = {}
  BY DEF Init, Tok!Init
<1> QED
  BY <1>1, IdleOK DEF AuthInv, OneCallEach

LEMMA NextAuth == P!AccountsInv /\ AuthInv /\ [Next]_vars => AuthInv'
<1> SUFFICES ASSUME P!AccountsInv, AuthInv, [Next]_vars PROVE AuthInv'
  OBVIOUS
<1>1. P!Keeps(users, users') /\ Stand(areq, areq')
  BY AccountsMove
<1>2. CASE UNCHANGED vars
  BY <1>1, <1>2, TokensRest DEF vars
<1>3. ASSUME NEW r \in Calls, BeforeToken(r) PROVE AuthInv'
  BY <1>1, <1>3, TokensRest DEF BeforeToken
<1>4. ASSUME NEW r \in Calls, SignToken(r) \/ StoreToken(r) \/ AfterToken(r) \/ SendTokens(r)
      PROVE  AuthInv'
  BY <1>1, <1>4, SignTokenStep, StoreTokenStep, AfterTokenStep, SendTokensStep
<1>5. ASSUME NEW r \in Others, TokenRequest(r) \/ LoadUserAndSign(r) PROVE AuthInv'
  BY <1>5, TokenRequestStep, LoadUserAndSignStep
<1>6. CASE Restart \/ Expire
  BY <1>1, <1>6, RestartStep, ExpireStep
<1> QED
  BY <1>2, <1>3, <1>4, <1>5, <1>6 DEF Next

\* Every token goes back to one call, which presented the credentials of the
\* token's account; tokens that are held or shown go back to one that succeeded.
THEOREM AuthInvariance == Spec => []AuthInv
<1>1. Init => AuthInv
  BY InitAuth
<1>2. P!AccountsInv /\ AuthInv /\ [Next]_vars => AuthInv'
  BY NextAuth
<1> QED
  BY <1>1, <1>2, AccountsHold, PTL DEF Spec

\* Whoever holds a refresh token owes it to a successful call that presented the
\* credentials of its account, through any number of rotations; the provider too,
\* unless a script's map has named another one for the account
\* (auth_service.go:173-181, 219, 243-265, 300, 413, 443).
THEOREM HoldersCorrect == Spec => []HoldersPresentedCredentials
<1>1. ASSUME AuthInv, P!ProviderInv, NEW t \in held
      PROVE  \E m \in minted :
               LET call == areq[m.call].call IN
               /\ m.token = t
               /\ areq[m.call].pc = "ok"
               /\ \E u \in users : /\ u.ID = t.sub /\ u.Email = call.Email
                                   /\ u.Password = call.Password
                                   /\ u.ProviderID = call.ProviderID
                                   /\ u.Provider = call.Provider \/ u.ID \in moved
  <2>1. PICK m \in minted : m.token = t /\ areq[m.call].pc = "ok"
    BY <1>1 DEF AuthInv, Earned
  <2>2. PICK u \in users : u.ID = t.sub /\ P!Presented(u, areq[m.call].call)
    BY <1>1, <2>1 DEF AuthInv, MintOK
  <2>3. m.call \in Calls
    BY <1>1 DEF AuthInv, MintOK
  <2>4. u.Provider = areq[m.call].call.Provider \/ u.ID \in moved
    BY <1>1, <2>1, <2>2, <2>3 DEF P!ProviderInv, P!ProviderOK, P!AllOfCaller, P!OfCaller,
       P!Presented
  <2> QED
    BY <2>1, <2>2, <2>4 DEF P!Presented
<1>2. AuthInv /\ P!ProviderInv => HoldersPresentedCredentials
  BY <1>1 DEF HoldersPresentedCredentials
<1>3. P!Spec => []P!ProviderInv
  BY SameAssumption, P!ProviderInvariance
<1> QED
  BY <1>2, <1>3, AccountsRun, AuthInvariance, PTL

\* A call that did not succeed gave its client no token.
THEOREM FailedCallsCorrect == Spec => []FailedCallsGiveNoToken
<1>1. AuthInv => FailedCallsGiveNoToken
  BY DEF AuthInv, OneCallEach, Earned, FailedCallsGiveNoToken
<1> QED
  BY <1>1, AuthInvariance, PTL

-----------------------------------------------------------------------------
(* A call and its token go together.                                        *)

\* A token is stored by a call that is about to, and waits while that call
\* writes last_login, runs its last scripts or saves what they made.
Phase(q, call) ==
  /\ q.pc = "store" => call.pc = "session"
  /\ q.pc = "touch" => P!Trailing(call)

PhaseInv == \A r \in Calls : Phase(treq[r], areq[r])

LEMMA IdlePhase == \A call : Phase(Tok!Idle, call)
BY DEF Phase, Tok!Idle

\* Where a call's token goes.
LEMMA PhaseOf ==
  ASSUME AuthInv, NEW r \in Calls, NEW pc, Tok!Return(r) \/ Tok!Goto(r, pc)
  PROVE  treq'[r].pc \in {"idle", pc}
<1>1. DOMAIN treq[r] = Parts
  BY DEF AuthInv, CallTokenOK
<1>2. CASE Tok!Return(r)
  <2>1. treq'[r] = Tok!Idle
    BY <1>2, Moved
  <2> QED
    BY <2>1 DEF Tok!Idle
<1>3. CASE Tok!Goto(r, pc)
  <2>1. treq'[r] = [treq[r] EXCEPT !.pc = pc]
    BY <1>3, Moved
  <2> QED
    BY <1>1, <2>1, PCOnly
<1> QED
  BY <1>2, <1>3

\* A request for tokens leaves the others alone.
LEMMA OtherTokensStay ==
  ASSUME AuthInv, NEW r \in Calls \cup Others,
         Tok!LoginSign(r) \/ Tok!RefreshToken(r) \/ Tok!Logout(r) \/ Tok!Serve(r),
         NEW s \in Calls \cup Others, s # r
  PROVE  treq'[s] = treq[s]
<1>1. \A pc : Tok!Goto(r, pc) \/ Tok!Return(r) => treq'[s] = treq[s]
  BY DEF AuthInv, Tok!Goto, Tok!Return
<1>2. \A t, op, late : Tok!Sign(r, t, op, late) => treq'[s] = treq[s]
  BY DEF AuthInv, Tok!Sign
<1>3. \A op, pc : Tok!Present(r, op, pc) => treq'[s] = treq[s]
  BY DEF AuthInv, Tok!Present
<1> QED
  BY <1>1, <1>2, <1>3 DEF Tok!LoginSign, Tok!RefreshToken, Tok!Logout, Tok!Serve,
     Tok!GetByJTI, Tok!Delete, Tok!LoadUserAndSign, Tok!Create, Tok!FinishLogin, Tok!Reply,
     Tok!Continue

LEMMA OtherCallsStay ==
  ASSUME P!AccountsInv, NEW r \in Calls,
         Acc!Register(r) \/ Acc!Login(r) \/ Acc!ProcessOAuthLogin(r) \/ Acc!Serve(r),
         NEW s \in Calls, s # r
  PROVE  areq'[s] = areq[s]
<1>1. P!Register(r) \/ P!Login(r) \/ P!ProcessOAuthLogin(r) \/ P!Serve(r)
  BY SameNewCall, SameLookup, SameWrites, SameEnd DEF Acc!Serve, P!Serve
<1> QED
  BY <1>1, SameAssumption, P!OthersStay

LEMMA PhaseBefore ==
  ASSUME P!AccountsInv, PhaseInv, NEW r \in Calls, BeforeToken(r)
  PROVE  PhaseInv'
<1>1. treq' = treq /\ treq[r].pc = "idle"
  BY DEF BeforeToken, NoTokenYet, tokens
<1>2. \A s \in Calls : s # r => areq'[s] = areq[s]
  BY OtherCallsStay DEF BeforeToken, Acc!Serve
<1>3. \A s \in Calls : Phase(treq'[s], areq'[s])
  BY <1>1, <1>2 DEF PhaseInv, Phase
<1> QED
  BY <1>3 DEF PhaseInv, Phase, P!Trailing

LEMMA PhaseSign ==
  ASSUME AuthInv, PhaseInv, NEW r \in Calls, SignToken(r)
  PROVE  PhaseInv'
<1>1. areq' = areq /\ areq[r].pc = "session" /\ Tok!LoginSign(r)
  BY DEF SignToken, accounts
<1>2. DOMAIN treq[r] = Parts /\ treq = [s \in Calls \cup Others |-> treq[s]]
  BY DEF AuthInv, CallTokenOK
<1>3. treq'[r].pc = "store"
  BY <1>1, <1>2 DEF Tok!LoginSign, Tok!Sign, Parts
<1>4. \A s \in Calls : s # r => treq'[s] = treq[s]
  BY <1>1, OtherTokensStay
<1>5. \A s \in Calls : Phase(treq'[s], areq'[s])
  BY <1>1, <1>3, <1>4 DEF PhaseInv, Phase
<1> QED
  BY <1>5 DEF PhaseInv, Phase, P!Trailing

LEMMA PhaseStore ==
  ASSUME P!AccountsInv, AuthInv, PhaseInv, NEW r \in Calls, StoreToken(r)
  PROVE  PhaseInv'
<1>1. treq[r].pc = "store" /\ treq[r].op = "login" /\ DOMAIN treq[r] = Parts
  BY DEF AuthInv, CallTokenOK, StoreToken, Tok!Create, Tok!At
<1>2. PICK o : Tok!Continue(r, Tok!AfterCreate(treq[r].op, o))
  BY DEF StoreToken, Tok!Create
<1>3. Tok!Return(r) \/ Tok!Goto(r, "touch")
  BY <1>1, <1>2 DEF Tok!Continue, Tok!AfterCreate
<1>4. treq'[r].pc \in {"idle", "touch"}
  BY <1>3, PhaseOf
<1>5. areq'[r].pc = "error" \/ P!Trailing(areq'[r])
  BY SameAssumption, SameEnd, P!SessionTrails DEF StoreToken
<1>6. treq'[r].pc = "touch" => areq'[r].pc # "error"
  BY DEF StoreToken
<1>7. \A s \in Calls : s # r => areq'[s] = areq[s] /\ treq'[s] = treq[s]
  BY OtherCallsStay, OtherTokensStay DEF StoreToken, Acc!Serve, Tok!Serve
<1>8. \A s \in Calls : Phase(treq'[s], areq'[s])
  BY <1>4, <1>5, <1>6, <1>7 DEF PhaseInv, Phase
<1> QED
  BY <1>8 DEF PhaseInv, Phase, P!Trailing

LEMMA PhaseAfter ==
  ASSUME P!AccountsInv, AuthInv, PhaseInv, NEW r \in Calls, AfterToken(r)
  PROVE  PhaseInv'
<1>1. treq[r].pc = "touch" /\ P!Trailing(areq[r]) /\ DOMAIN treq[r] = Parts
  BY DEF AuthInv, CallTokenOK, AfterToken, PhaseInv, Phase
<1>2. areq'[r].pc \in P!Answers \/ P!Trailing(areq'[r])
  <2>1. P!UpdateUser(r) \/ P!PostActions(r)
    BY SameWrites, SameEnd DEF AfterToken
  <2> QED
    BY <1>1, <2>1, SameAssumption, P!TrailingStep
<1>3. \A s \in Calls : s # r => areq'[s] = areq[s]
  BY OtherCallsStay DEF AfterToken, Acc!Serve
<1>4. CASE areq'[r].pc \in P!Answers
  <2>1. Tok!FinishLogin(r)
    BY <1>4, SameHelpers DEF AfterToken
  <2>2. Tok!Return(r) \/ Tok!Goto(r, "reply")
    BY <2>1 DEF Tok!FinishLogin
  <2>3. treq'[r].pc \in {"idle", "reply"}
    BY <2>2, PhaseOf
  <2>4. \A s \in Calls : s # r => treq'[s] = treq[s]
    BY <2>1, OtherTokensStay DEF Tok!Serve
  <2>5. \A s \in Calls : Phase(treq'[s], areq'[s])
    BY <1>3, <2>3, <2>4 DEF PhaseInv, Phase
  <2> QED
    BY <2>5 DEF PhaseInv, Phase, P!Trailing
<1>5. CASE areq'[r].pc \notin P!Answers
  <2>1. treq' = treq
    BY <1>5, SameHelpers DEF AfterToken, tokens
  <2>2. \A s \in Calls : Phase(treq'[s], areq'[s])
    BY <1>1, <1>2, <1>3, <1>5, <2>1 DEF PhaseInv, Phase
  <2> QED
    BY <2>2 DEF PhaseInv, Phase, P!Trailing
<1> QED
  BY <1>4, <1>5

\* Sending tokens, rotating and logging out leave the calls alone.
LEMMA PhaseRest ==
  ASSUME AuthInv, PhaseInv, NEW r \in Calls \cup Others,
         Tok!RefreshToken(r) \/ Tok!Logout(r) \/ Tok!Serve(r), areq' = areq,
         r \in Calls => Tok!Return(r)
  PROVE  PhaseInv'
<1>1. \A s \in Calls : s # r => treq'[s] = treq[s]
  BY OtherTokensStay
<1>2. r \in Calls => treq'[r] = Tok!Idle
  BY Moved
<1>3. \A s \in Calls : Phase(treq'[s], areq'[s])
  BY <1>1, <1>2, IdlePhase DEF PhaseInv
<1> QED
  BY <1>3 DEF PhaseInv, Phase, P!Trailing

LEMMA PhaseRestart == PhaseInv /\ AuthInv /\ Restart => PhaseInv'
<1> SUFFICES ASSUME PhaseInv, AuthInv, Restart PROVE PhaseInv'
  OBVIOUS
<1>1. \A r \in Calls : treq'[r].pc = "idle"
  <2>1. CASE Tok!Restart
    BY <2>1 DEF Tok!Restart, Tok!Idle
  <2>2. CASE ~TokensUnderWay /\ UNCHANGED tokens
    BY <2>2 DEF TokensUnderWay, tokens
  <2> QED
    BY <2>1, <2>2 DEF Restart
<1> QED
  BY <1>1 DEF PhaseInv, Phase

LEMMA NextPhase ==
  ASSUME P!AccountsInv, AuthInv, PhaseInv, [Next]_vars
  PROVE  PhaseInv'
<1>1. CASE UNCHANGED <<treq, areq>>
  BY <1>1 DEF PhaseInv, Phase, P!Trailing
<1>2. ASSUME NEW r \in Calls, BeforeToken(r) \/ SignToken(r) \/ StoreToken(r) \/ AfterToken(r)
      PROVE  PhaseInv'
  BY <1>2, PhaseBefore, PhaseSign, PhaseStore, PhaseAfter
<1>3. ASSUME NEW r \in Calls, SendTokens(r) PROVE PhaseInv'
  BY <1>3, PhaseRest DEF SendTokens, Tok!Serve, Tok!Reply, accounts
<1>4. ASSUME NEW r \in Others, TokenRequest(r) \/ LoadUserAndSign(r) PROVE PhaseInv'
  <2>1. r \notin Calls
    BY ServiceAssumption
  <2>2. Tok!RefreshToken(r) \/ Tok!Logout(r) \/ Tok!Serve(r)
    BY <1>4 DEF TokenRequest, LoadUserAndSign, Tok!Serve
  <2>3. areq' = areq
    BY <1>4 DEF TokenRequest, LoadUserAndSign, accounts
  <2> QED
    BY <2>1, <2>2, <2>3, PhaseRest
<1>5. CASE Restart
  BY <1>5, PhaseRestart
<1>6. CASE Expire
  BY <1>1, <1>6 DEF Expire, Tok!Expire, accounts
<1>7. CASE UNCHANGED vars
  BY <1>1, <1>7 DEF vars, accounts, tokens
<1> QED
  BY <1>2, <1>3, <1>4, <1>5, <1>6, <1>7 DEF Next

\* From its signing to the answer a token is where its call is
\* (auth_service.go:219-235, 413-440, 505-520).
THEOREM PhaseInvariance == Spec => []PhaseInv
<1>1. Init => PhaseInv
  <2>1. Init => \A r \in Calls : treq[r] = Tok!Idle
    BY DEF Init, Tok!Init
  <2> QED
    BY <2>1, IdlePhase DEF PhaseInv
<1>2. P!AccountsInv /\ AuthInv /\ PhaseInv /\ [Next]_vars => PhaseInv'
  BY NextPhase
<1> QED
  BY <1>1, <1>2, AccountsHold, AuthInvariance, PTL DEF Spec

LEMMA SameTypes ==
  /\ P!TypeOK => Acc!TypeOK
  /\ R!TypeOK => Tok!TypeOK
<1>1. P!TypeOK => Acc!TypeOK
  BY DEF P!TypeOK, Acc!TypeOK, P!User, Acc!User, P!Call, Acc!Call, P!Steps, Acc!Steps,
     P!Answers, Acc!Answers, P!SchemaAllows, Acc!SchemaAllows, P!Authenticable,
     Acc!Authenticable
<1>2. R!TypeOK => Tok!TypeOK
  BY DEF R!TypeOK, Tok!TypeOK, R!Row, Tok!Row, R!Token, Tok!Token, R!Request, Tok!Request,
     R!Steps, Tok!Steps
<1> QED
  BY <1>1, <1>2

\* The accounts and the tokens keep their types next to each other, and a call
\* has a token under way only while it is about to store it, has stored it, or
\* has succeeded (auth_service.go:219-235, 413-440, 505-520).
THEOREM TypeCorrect ==
  ASSUME P!TypedPatches
  PROVE  Spec => []TypeOK
<1>1. P!Spec => []P!TypeOK
  BY SameAssumption, P!TypeCorrect
<1>2. P!TypeOK /\ R!Inductive /\ AuthInv /\ PhaseInv => TypeOK
  BY SameTypes DEF R!Inductive, R!IInv, AuthInv, MintOK, CallTokenOK, PhaseInv, Phase,
     P!Trailing, TypeOK
<1> QED
  BY <1>1, <1>2, AccountsRun, TokensHold, AuthInvariance, PhaseInvariance, PTL
=============================================================================
