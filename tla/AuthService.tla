----------------------------- MODULE AuthService -----------------------------
(***************************************************************************)
(* authService as a whole: the accounts (module Accounts) and the refresh  *)
(* tokens (module RefreshTokens) together.  A login is one request of      *)
(* both: Accounts finds out who it is for, RefreshTokens mints and stores  *)
(* the token, and whether the client gets it depends on what Accounts says *)
(* in the end.  A rotation loads the user its token names from the table   *)
(* of Accounts.                                                            *)
(*                                                                         *)
(* A step of one component leaves the other alone, except where the code   *)
(* ties them: the INSERT of the token is a single statement, seen by both. *)
(* So every step here is one of Accounts or leaves it alone, and one of    *)
(* RefreshTokens or leaves it alone: what is shown of either holds here.   *)
(***************************************************************************)
EXTENDS Naturals, FiniteSets

CONSTANTS
  Ids, Emails, Passwords, Providers, ProviderIDs, Patches, Nil,  \* of Accounts
  Jtis, NoToken,                                                 \* of RefreshTokens
  Calls,    \* calls of Register, Login and ProcessOAuthLogin
  Others    \* requests that rotate or log out

ASSUME ServiceAssumption ==
  /\ Calls \cap Others = {}
  /\ "password" \notin Providers
  /\ Nil \notin Ids \cup Passwords \cup ProviderIDs \cup Patches
  /\ NoToken \notin [jti : Jtis, sub : Ids]
  /\ IsFiniteSet(Calls \cup Others)

VARIABLES
  users, areq, sessions, intended, clobbered, moved,
  refresh_tokens, signed, expired, held, treq, granted, spent, loggedOut, course,
  \* History, read by no action:
  minted    \* every token signed, with the call that its session began with

Acc == INSTANCE Accounts WITH req <- areq, Requests <- Calls

Tok == INSTANCE RefreshTokens WITH req <- treq, Requests <- Calls \cup Others,
                                   Users <- Ids

accounts == <<users, areq, sessions, intended, clobbered, moved>>
tokens == <<refresh_tokens, signed, expired, held, treq, granted, spent, loggedOut,
            course>>
vars == <<accounts, tokens, minted>>

Init == Acc!Init /\ Tok!Init /\ minted = {}

-----------------------------------------------------------------------------
(* Calls. *)

\* Has the call a token under way?
NoTokenYet(r) == treq[r].pc = "idle"

\* Everything up to the token: scripts, lookups, the account itself.
BeforeToken(r) ==
  /\ NoTokenYet(r)
  /\ \/ Acc!Register(r) \/ Acc!Login(r) \/ Acc!ProcessOAuthLogin(r)
     \/ Acc!Missing(r) \/ Acc!LoginFails(r) \/ Acc!FoundUser(r)
     \/ Acc!CreateUser(r) \/ Acc!UpdateUser(r) \/ Acc!PostActions(r)
  /\ UNCHANGED <<tokens, minted>>

\* GenerateRefreshToken(user), for the user that this call found or created.
SubjectIsUser(r, sub) == sub = areq[r].user.ID

SignToken(r) ==
  /\ NoTokenYet(r)
  /\ areq[r].pc = "session"
  /\ Tok!LoginSign(r)
  /\ SubjectIsUser(r, treq'[r].new.sub)
  /\ minted' = minted \cup {[call |-> r, token |-> treq'[r].new]}
  /\ UNCHANGED accounts

\* refreshTokenRepo.Create: one statement, with one outcome.
StoreToken(r) ==
  /\ Acc!StoreSession(r)
  /\ Tok!Create(r)
  /\ sessions' # sessions <=> granted' # granted
  /\ areq'[r].pc = "error" <=> treq'[r].pc = "idle"
  /\ UNCHANGED minted

\* (mutant) The tokens are returned along with the error, and sent.
AnswersAnyhow(answer) == TRUE

\* Only a call that succeeds returns its tokens.
AnswersTokens(answer) == answer = "ok"

\* What follows: last_login, post-login scripts and their updates.
AfterToken(r) ==
  /\ treq[r].pc = "touch"
  /\ Acc!UpdateUser(r) \/ Acc!PostActions(r)
  /\ IF areq'[r].pc \in Acc!Answers
       THEN /\ Tok!FinishLogin(r)
            /\ AnswersTokens(areq'[r].pc) <=> treq'[r].pc = "reply"
       ELSE UNCHANGED tokens
  /\ UNCHANGED minted

SendTokens(r) ==
  /\ Tok!Reply(r)
  /\ UNCHANGED <<accounts, minted>>

-----------------------------------------------------------------------------
(* Rotations and logouts. *)

\* userRepo.GetUserByID: without the user there is no new token.
LoadUserAndSign(r) ==
  /\ Tok!LoadUserAndSign(r)
  /\ IF treq'[r].pc = "store"
       THEN /\ \E u \in users : u.ID = treq[r].tok.sub
            /\ minted' = minted \cup {[call |-> m.call, token |-> treq'[r].new] :
                                        m \in {n \in minted : n.token = treq[r].tok}}
       ELSE UNCHANGED minted
  /\ UNCHANGED accounts

TokenRequest(r) ==
  /\ \/ Tok!RefreshToken(r) \/ Tok!Logout(r) \/ Tok!GetByJTI(r) \/ Tok!Delete(r)
     \/ Tok!Create(r) \/ Tok!Reply(r)
  /\ UNCHANGED <<accounts, minted>>

-----------------------------------------------------------------------------
Expire == Tok!Expire /\ UNCHANGED <<accounts, minted>>

\* The process is one: it takes all requests with it.
CallsUnderWay == \E r \in Calls : areq[r].pc \in Acc!Steps \ {"new"}
TokensUnderWay == \E r \in Calls \cup Others : treq[r].pc # "idle"

Restart ==
  /\ Acc!Restart \/ (~CallsUnderWay /\ UNCHANGED accounts)
  /\ Tok!Restart \/ (~TokensUnderWay /\ UNCHANGED tokens)
  /\ UNCHANGED minted

Next ==
  \/ \E r \in Calls : BeforeToken(r) \/ SignToken(r) \/ StoreToken(r) \/ AfterToken(r)
                        \/ SendTokens(r)
  \/ \E r \in Others : TokenRequest(r) \/ LoadUserAndSign(r)
  \/ Expire
  \/ Restart

Spec == Init /\ [][Next]_vars

-----------------------------------------------------------------------------
(* Properties. *)

\* Every variable has its type; a call has a token under way only while it is
\* about to store it, has stored it, or has succeeded.
TypeOK ==
  /\ Acc!TypeOK /\ Tok!TypeOK
  /\ \A m \in minted : m.call \in Calls /\ m.token \in signed
  /\ \A r \in Calls :
       /\ treq[r].pc = "store" => areq[r].pc = "session"
       /\ treq[r].pc = "touch" => areq[r].pc \in {"touch", "post", "save_post"}
       /\ treq[r].pc = "reply" => areq[r].pc = "ok"

\* Whoever holds a refresh token, rotated however often, owes it to a call that
\* was answered with success and presented the e-mail of the token's account with
\* its password, or its provider and its id there; only a script may have named
\* another provider since (auth_service.go:173-181, 219, 300, 413, 443).
HoldersPresentedCredentials ==
  \A t \in held :
    \E m \in minted :
      LET call == areq[m.call].call IN
      /\ m.token = t
      /\ areq[m.call].pc = "ok"
      /\ \E u \in users : /\ u.ID = t.sub /\ u.Email = call.Email
                          /\ u.Password = call.Password /\ u.ProviderID = call.ProviderID
                          /\ u.Provider = call.Provider \/ u.ID \in moved

\* A call that was refused, failed or got lost before its end gave its client
\* no token, even where the token is in the table already.
FailedCallsGiveNoToken ==
  \A m \in minted : areq[m.call].pc \in {"error", "panicked", "lost"} => m.token \notin held
=============================================================================
