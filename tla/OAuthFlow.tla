------------------------------ MODULE OAuthFlow ------------------------------
(***************************************************************************)
(* The OAuth web flow: OAuthLogin hands out a state token and sends the    *)
(* browser to a provider; OAuthCallback checks the state token, exchanges  *)
(* the provider's code, asks who the user is, logs that user in            *)
(* (ProcessOAuthLogin, one step here: see Accounts) and sends the tokens   *)
(* to the callback URL that the state token carries.                       *)
(*                                                                         *)
(* The providers are external: people with accounts there, who authorise;  *)
(* codes that work once.  A call to a provider may fail, may be carried    *)
(* out without an answer, or may never return: the HTTP client has no      *)
(* timeout and is not bound to the request's context.  A browser may open  *)
(* a callback again, at the same time or later, and with any provider      *)
(* name.  The server keeps nothing of a flow: the state token is signed    *)
(* with a secret compiled in (stateSecret) and goes round with the browser,*)
(* so that tokens made elsewhere with that secret are as good as its own.  *)
(***************************************************************************)
EXTENDS Integers, FiniteSets

CONSTANTS
  URLs,       \* callback URLs that frontends name
  OtherStates,\* state tokens that OAuthLogin did not make, with or without "exp"
  People,     \* who has accounts at the providers
  GitHubIDs,  \* [People -> Nat]: account numbers at GitHub
  Mail,       \* [People -> SUBSET Entry]: the addresses a provider knows
  Mantissa,   \* bits of a float64's mantissa
  TTL,        \* life of a state token (15 minutes)
  MaxTime,    \* bound: the end of time
  MaxCodes,   \* bound: codes ever issued
  Requests,   \* callbacks the server handles at the same time
  Nil

Providers == {"github", "google"}

\* What a provider query parameter may be.
Names == Providers \cup {"other"}

Entry == [email : STRING, primary : BOOLEAN, verified : BOOLEAN]

ASSUME FlowAssumption ==
  /\ Mantissa \in Nat \ {0} /\ TTL \in Nat \ {0} /\ MaxTime \in Nat /\ MaxCodes \in Nat
  /\ GitHubIDs \in [People -> 0 .. 2 ^ Mantissa]
  /\ \A p, q \in People : GitHubIDs[p] = GitHubIDs[q] => p = q
  /\ \A p \in People : \A d, e \in Mail[p] : d.primary /\ e.primary => d = e
  /\ \A p \in People : \A e \in Mail[p] : e \in Entry /\ e.email # ""
  /\ \A s \in OtherStates :
       /\ {"callback_url", "secret"} \subseteq DOMAIN s
       /\ "exp" \in DOMAIN s => s.exp \in Int
  /\ Nil \notin People

VARIABLES
  now,        \* the clock
  process,    \* how often the server process was started again
  states,     \* state tokens handed out
  codes,      \* codes issued by providers
  live,       \* those that were not exchanged yet
  req,        \* the local state of every callback
  logins      \* history, read by no action: calls of ProcessOAuthLogin that got
              \* past its provider checks

provider_side == <<codes, live>>
vars == <<now, process, states, codes, live, req, logins>>

Steps == {"idle", "exchange", "userinfo", "emails", "process", "redirect", "hung"}

\* token: the provider's access token, good for one person's data; info: the
\* user info; told, read by no action: the address that the provider's user info
\* came with.
Idle == [pc |-> "idle", provider |-> Nil, callbackURL |-> Nil, code |-> Nil,
         token |-> Nil, info |-> Nil, told |-> Nil]

Init ==
  /\ now = 0
  /\ process = 0
  /\ states = {}
  /\ codes = {}
  /\ live = {}
  /\ req = [r \in Requests |-> Idle]
  /\ logins = {}

At(r, pc) == req[r].pc = pc
Become(r, q) == req' = [req EXCEPT ![r] = q]

\* The handler waits for good, and nothing of its state matters any more.
WaitsForever(r) == Become(r, [Idle EXCEPT !.pc = "hung"])

\* The handler answers with an error, or with the redirect.
Return(r) == Become(r, Idle)

-----------------------------------------------------------------------------
(* State tokens. *)

\* (mutant) A secret drawn at start-up.
StateSecretPerProcess(p) == p

\* The secret a process signs and checks state tokens with.
StateSecret(p) == 0

\* A token without "exp" does not expire.
Unexpired(s) == "exp" \in DOMAIN s => now < s.exp

GenerateStateToken(url) ==
  [callback_url |-> url, exp |-> now + TTL, secret |-> StateSecret(process)]

ValidateStateToken(s) == s.secret = StateSecret(process) /\ Unexpired(s)

\* An unknown provider: the token was made but nobody gets it.
OAuthLogin ==
  /\ \E provider \in Names, url \in URLs :
       /\ provider \in Providers
       /\ states' = states \cup {GenerateStateToken(url)}
  /\ UNCHANGED <<now, process, provider_side, req, logins>>

-----------------------------------------------------------------------------
(* The providers (external). *)

\* A person authorises the service and is sent back with a code.
Authorise ==
  /\ Cardinality(codes) < MaxCodes
  /\ \E provider \in Providers, person \in People :
       LET code == [provider |-> provider, person |-> person, n |-> Cardinality(codes) + 1] IN
       codes' = codes \cup {code} /\ live' = live \cup {code}
  /\ UNCHANGED <<now, process, states, req, logins>>

\* A provider exchanges a code that it issued and did not exchange before.
Redeemable(provider, code) == code \in live /\ code.provider = provider

\* The user info a provider may send for a token, decoded.  "id" may be absent
\* or of another type than the provider uses (both Nil), "email" may be absent
\* or null ("") or any address the provider has of the person, verified or not:
\* Google says which ("verified_email"), and nobody reads it.  The whole body
\* may be "null" (Nil).
UserInfos(token) ==
  {Nil} \cup
  [id : {IF token.provider = "github" THEN GitHubIDs[token.person] ELSE token.person, Nil},
   email : {e.email : e \in Mail[token.person]} \cup {""}]

-----------------------------------------------------------------------------
(* What the service makes of the answers. *)

\* (mutants) The number is decoded to a type with half the bits; any primary
\* address will do.
HalfFloat(n) == n - (n % 2 ^ (Mantissa \div 2))
AnyPrimary(list) == {e \in list : e.primary}

\* encoding/json decodes numbers to float64: the nearest multiple of a power
\* of two that leaves Mantissa bits, ties to even.
Float(n) ==
  LET k == CHOOSE k \in 0..n : n < 2 ^ (Mantissa + k) /\ \A j \in 0..(k - 1) : n >= 2 ^ (Mantissa + j)
      unit == 2 ^ k
      q == n \div unit
      rest == 2 * (n % unit)
  IN  IF rest > unit \/ (rest = unit /\ q % 2 = 1) THEN (q + 1) * unit ELSE q * unit

\* The entries the loop over GitHub's list may return: there is one primary.
PrimaryVerified(list) == {e \in list : e.primary /\ e.verified}

\* GitHub's "id" is a number and printed with %.0f, Google's is a string.
GetProviderID(provider, info) ==
  IF info = Nil \/ info.id = Nil THEN Nil
  ELSE IF provider = "github" THEN Float(info.id) ELSE info.id

\* GitHub's strategy would ask for the list of addresses once more, but
\* GetUserInfo has put one in by then.
GetEmail(info) == IF info = Nil THEN "" ELSE info.email

\* (mutant) GitHub is asked again until it sends an address.
AfterUserInfoPolling(provider, info) ==
  IF provider = "github" /\ GetEmail(info) = "" THEN "userinfo" ELSE "process"

\* The user info is complete, but for the address GitHub keeps apart.
AfterUserInfo(provider, info) ==
  IF provider = "github" /\ GetEmail(info) = "" THEN "emails" ELSE "process"

-----------------------------------------------------------------------------
(* The callback. *)

\* Any browser, with the code a provider gave it and a state token, from OAuthLogin
\* or from elsewhere; with one that is not valid the callback is answered at once
\* and changes nothing.
OAuthCallback(r) ==
  /\ At(r, "idle")
  /\ \E provider \in Names, s \in states \cup OtherStates, code \in codes :
       /\ ValidateStateToken(s)
       /\ Become(r, [Idle EXCEPT !.pc = "exchange", !.provider = provider,
                                 !.callbackURL = s.callback_url, !.code = code])
  /\ UNCHANGED <<now, process, states, provider_side, logins>>

Exchanged(r) == Become(r, [req[r] EXCEPT !.pc = "userinfo",
                                         !.token = [provider |-> req[r].provider,
                                                    person |-> req[r].code.person]])

\* The answer to an exchange may get lost after the code was used up.
ExchangeCodeForToken(r) ==
  LET q == req[r] IN
  /\ At(r, "exchange")
  /\ \/ /\ Redeemable(q.provider, q.code)
        /\ live' = live \ {q.code}
        /\ Exchanged(r) \/ Return(r)
     \/ Return(r) /\ UNCHANGED live
  /\ UNCHANGED <<now, process, states, codes, logins>>

\* No answer, another status than 200, no JSON object: the callback fails.
GetUserInfo(r) ==
  /\ At(r, "userinfo")
  /\ \/ Return(r)
     \/ \E info \in UserInfos(req[r].token) :
          Become(r, [req[r] EXCEPT !.pc = AfterUserInfo(req[r].provider, info), !.info = info,
                                   !.told = GetEmail(info)])
  /\ UNCHANGED <<now, process, states, provider_side, logins>>

\* Fails as well where no address is primary and verified; and where the user
\* info was "null", because the address is written into a nil map.
GetGitHubUserEmail(r) ==
  LET q == req[r] IN
  /\ At(r, "emails")
  /\ \/ Return(r)
     \/ \E e \in PrimaryVerified(Mail[q.token.person]) :
          /\ q.info # Nil
          /\ Become(r, [q EXCEPT !.pc = "process", !.info.email = e.email])
  /\ UNCHANGED <<now, process, states, provider_side, logins>>

\* ProcessOAuthLogin: which user this is, then all that Accounts models; a script
\* in it may never end.
ProcessOAuthLogin(r) ==
  LET q == req[r]
      login == [provider |-> q.provider, id |-> GetProviderID(q.provider, q.info),
                email |-> GetEmail(q.info), code |-> q.code, told |-> q.told] IN
  /\ At(r, "process")
  /\ IF login.id = Nil \/ login.email = ""
       THEN Return(r) /\ UNCHANGED logins
       ELSE /\ logins' = logins \cup {login}
            /\ \/ Return(r)
               \/ Become(r, [Idle EXCEPT !.pc = "redirect", !.callbackURL = q.callbackURL])
               \/ WaitsForever(r)
  /\ UNCHANGED <<now, process, states, provider_side>>

\* The redirect with the tokens, to req[r].callbackURL.
Redirect(r) ==
  /\ At(r, "redirect")
  /\ Return(r)
  /\ UNCHANGED <<now, process, states, provider_side, logins>>

-----------------------------------------------------------------------------
(* The environment. *)

\* A provider never answers.
Hang(r) ==
  /\ req[r].pc \in {"exchange", "userinfo", "emails"}
  /\ WaitsForever(r)
  /\ UNCHANGED <<now, process, states, provider_side, logins>>

Tick ==
  /\ now < MaxTime
  /\ now' = now + 1
  /\ UNCHANGED <<process, states, provider_side, req, logins>>

\* Requests are lost with the process; what browsers and providers have is not.
Restart ==
  /\ process < 1
  /\ process' = process + 1
  /\ req' = [r \in Requests |-> Idle]
  /\ UNCHANGED <<now, states, provider_side, logins>>

Serve(r) ==
  \/ ExchangeCodeForToken(r)
  \/ GetUserInfo(r)
  \/ GetGitHubUserEmail(r)
  \/ ProcessOAuthLogin(r)
  \/ Redirect(r)

Next ==
  \/ OAuthLogin \/ Authorise \/ Tick \/ Restart
  \/ \E r \in Requests : OAuthCallback(r) \/ Serve(r) \/ Hang(r)

Spec == Init /\ [][Next]_vars

FairSpec == Spec /\ \A r \in Requests : WF_vars(Serve(r))

-----------------------------------------------------------------------------
(* Properties. *)

\* A login is for the very account with which somebody authorised the service,
\* at the provider it is said to be of: account numbers survive the detour over
\* float64 (github_provider.go:13), codes do not pass for another provider's
\* whatever provider name the callback carries (oauth_handler.go:51, 65-77).
LoginIsWhoAuthorised ==
  \A l \in logins :
    /\ l.provider = l.code.provider
    /\ l.id = IF l.provider = "github" THEN GitHubIDs[l.code.person] ELSE l.code.person

\* The e-mail of a login, by which ProcessOAuthLogin finds the account, is an
\* address that the provider has of the person who authorised: the one its user
\* info named or, where GitHub's named none, the person's primary address and a
\* verified one (oauth2_service.go:100-107, 134-140).
EmailIsProviders ==
  \A l \in logins :
    \E e \in Mail[l.code.person] :
      /\ e.email = l.email
      /\ l.told # l.email =>
           l.told = "" /\ l.provider = "github" /\ e.primary /\ e.verified

\* A flow that was started goes on, whatever happens to the server: until its
\* time is over a state token is valid, also to another process than the one
\* that made it (auth_service.go:20, 350-361).
StartedFlowsStand == \A s \in states : now < s.exp => ValidateStateToken(s)

\* Every callback is answered or lost with the process, unless the provider or a
\* script leaves it hanging (oauth2_service.go:69, 78, 114 and
\* action_executor.go:107 set no timeout).
EveryCallbackEnds ==
  \A r \in Requests : ~At(r, "idle") ~> At(r, "idle") \/ At(r, "hung")
=============================================================================
