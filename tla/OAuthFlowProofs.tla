--------------------------- MODULE OAuthFlowProofs ---------------------------
(* Proofs about OAuthFlow: flows that were started stand, the address of a *)
(* login is one that the provider has of the person, and the account of a  *)
(* login is the one with which somebody authorised it.                     *)
EXTENDS OAuthFlow, TLAPS

StateToken == [callback_url : URLs, exp : Int, secret : {0}]

\* Every process accepts the state tokens that any of them made.
StatesInv ==
  /\ now \in Nat
  /\ states \subseteq StateToken

Shaped(q) ==
  DOMAIN q = {"pc", "provider", "callbackURL", "code", "token", "info", "told"}

\* The account that a person has at a provider, by the provider's own numbering.
Account(provider, person) == IF provider = "github" THEN GitHubIDs[person] ELSE person

\* The user info named this address of the person, or GitHub's list did.
AddressOf(provider, person, told, email) ==
  \E e \in Mail[person] :
    /\ e.email = email
    /\ told # email => told = "" /\ provider = "github" /\ e.primary /\ e.verified

\* What a callback learnt from the provider is about the person of its code, who
\* has the code from that very provider.
AboutPerson(q) ==
  /\ q.pc \in {"exchange", "userinfo", "emails", "process"} => q.code.person \in People
  /\ q.pc \in {"userinfo", "emails", "process"} =>
       /\ q.token.provider = q.provider /\ q.code.provider = q.provider
       /\ q.token.person = q.code.person
  /\ q.pc = "emails" => q.told = "" /\ q.provider = "github"
  /\ q.pc \in {"emails", "process"} /\ q.info # Nil =>
       /\ q.info = [id |-> q.info.id, email |-> q.info.email]
       /\ q.info.id \in {Account(q.token.provider, q.token.person), Nil}
       /\ q.info.email # "" => AddressOf(q.provider, q.token.person, q.told, q.info.email)

InFlow(q) == Shaped(q) /\ AboutPerson(q)

RequestsInv ==
  /\ req = [r \in Requests |-> req[r]]
  /\ \A r \in Requests : InFlow(req[r])

LoginsInv == \A l \in logins : AddressOf(l.provider, l.code.person, l.told, l.email)

CodesInv == \A c \in codes : c.person \in People

FlowInv == StatesInv /\ RequestsInv /\ LoginsInv /\ CodesInv

-----------------------------------------------------------------------------
LEMMA TTLIsInt == TTL \in Int
<1>1. TTL \in Nat \ {0}
  BY FlowAssumption, Zenon
<1> QED
  BY <1>1

LEMMA IdleInFlow == InFlow(Idle)
BY DEF InFlow, Shaped, AboutPerson, Idle

LEMMA InitFlow == Init => FlowInv
<1> SUFFICES ASSUME Init PROVE FlowInv
  OBVIOUS
<1>1. StatesInv /\ LoginsInv /\ CodesInv
  BY DEF Init, StatesInv, LoginsInv, CodesInv
<1>2. RequestsInv
  BY IdleInFlow DEF Init, RequestsInv
<1> QED
  BY <1>1, <1>2 DEF FlowInv

LEMMA LoginsAlone == LoginsInv /\ UNCHANGED logins => LoginsInv'
BY DEF LoginsInv, AddressOf

LEMMA CodesAlone == CodesInv /\ UNCHANGED codes => CodesInv'
BY DEF CodesInv

\* A step of one callback, which keeps the state tokens and the time.
LEMMA CallbackStep ==
  ASSUME StatesInv, RequestsInv, NEW r \in Requests, NEW q, InFlow(q),
         Become(r, q), UNCHANGED <<now, states>>
  PROVE  StatesInv' /\ RequestsInv'
<1>1. StatesInv'
  BY DEF StatesInv
<1>2. req' = [s \in Requests |-> req'[s]] /\ req'[r] = q
      /\ \A s \in Requests : s # r => req'[s] = req[s]
  BY DEF RequestsInv, Become
<1>3. ASSUME NEW s \in Requests PROVE InFlow(req'[s])
  BY <1>2, <1>3 DEF RequestsInv
<1>4. ASSUME NEW s \in Requests PROVE InFlow(req[s])'
  BY <1>3 DEF InFlow, Shaped, AboutPerson, AddressOf
<1> QED
  BY <1>1, <1>2, <1>4 DEF RequestsInv

\* The same, where the callback is answered.
LEMMA ReturnStep ==
  ASSUME StatesInv, RequestsInv, NEW r \in Requests, Return(r), UNCHANGED <<now, states>>
  PROVE  StatesInv' /\ RequestsInv'
BY CallbackStep, IdleInFlow DEF Return

\* The same, where it never is.
LEMMA HungStep ==
  ASSUME StatesInv, RequestsInv, NEW r \in Requests, WaitsForever(r), UNCHANGED <<now, states>>
  PROVE  StatesInv' /\ RequestsInv'
<1> DEFINE q == [Idle EXCEPT !.pc = "hung"]
<1>1. InFlow(q)
  BY DEF InFlow, Shaped, AboutPerson, Idle
<1> QED
  BY <1>1, CallbackStep DEF WaitsForever

LEMMA OAuthCallbackFlow ==
  ASSUME FlowInv, NEW r \in Requests, OAuthCallback(r)
  PROVE  FlowInv'
<1>1. PICK provider \in Names, s \in states \cup OtherStates, code \in codes :
        Become(r, [Idle EXCEPT !.pc = "exchange", !.provider = provider,
                               !.callbackURL = s.callback_url, !.code = code])
  BY DEF OAuthCallback
<1> DEFINE q == [Idle EXCEPT !.pc = "exchange", !.provider = provider,
                             !.callbackURL = s.callback_url, !.code = code]
<1>2. code.person \in People
  BY <1>1 DEF FlowInv, CodesInv
<1>3. Shaped(q) /\ q.pc = "exchange" /\ q.code = code
  BY DEF Shaped, Idle
<1>4. InFlow(q)
  BY <1>2, <1>3 DEF InFlow, AboutPerson
<1>5. StatesInv' /\ RequestsInv'
  BY <1>1, <1>4, CallbackStep DEF FlowInv, OAuthCallback
<1> QED
  BY <1>5, LoginsAlone, CodesAlone DEF FlowInv, OAuthCallback, provider_side

LEMMA ExchangeFlow ==
  ASSUME FlowInv, NEW r \in Requests, ExchangeCodeForToken(r)
  PROVE  FlowInv'
<1>1. CASE Return(r)
  BY <1>1, ReturnStep, LoginsAlone, CodesAlone DEF FlowInv, ExchangeCodeForToken
<1>2. CASE Redeemable(req[r].provider, req[r].code) /\ Exchanged(r)
  <2> DEFINE q == [req[r] EXCEPT !.pc = "userinfo",
                                 !.token = [provider |-> req[r].provider,
                                            person |-> req[r].code.person]]
  <2>1. InFlow(req[r]) /\ req[r].pc = "exchange"
    BY DEF FlowInv, RequestsInv, ExchangeCodeForToken, At
  <2>2. /\ Shaped(q) /\ q.pc = "userinfo"
        /\ q.code = req[r].code /\ q.provider = req[r].provider
        /\ q.token.person = q.code.person /\ q.token.provider = q.provider
    BY <2>1 DEF InFlow, Shaped
  <2>3. q.code.provider = q.provider
    BY <1>2, <2>2 DEF Redeemable
  <2>4. InFlow(q)
    BY <2>1, <2>2, <2>3 DEF InFlow, AboutPerson
  <2>5. StatesInv' /\ RequestsInv'
    BY <1>2, <2>4, CallbackStep DEF FlowInv, ExchangeCodeForToken, Exchanged
  <2> QED
    BY <2>5, LoginsAlone, CodesAlone DEF FlowInv, ExchangeCodeForToken
<1> QED
  BY <1>1, <1>2 DEF ExchangeCodeForToken

\* A provider sends its own number of its user, and addresses it has of the user.
LEMMA InfoIsTheirs ==
  ASSUME NEW token, NEW info \in UserInfos(token), info # Nil, NEW provider
  PROVE  /\ info = [id |-> info.id, email |-> info.email]
         /\ info.id \in {Account(token.provider, token.person), Nil}
         /\ info.email # "" => AddressOf(provider, token.person, info.email, info.email)
BY DEF UserInfos, AddressOf, Account

LEMMA GetUserInfoFlow ==
  ASSUME FlowInv, NEW r \in Requests, GetUserInfo(r)
  PROVE  FlowInv'
<1>1. CASE Return(r)
  BY <1>1, ReturnStep, LoginsAlone, CodesAlone DEF FlowInv, GetUserInfo, provider_side
<1>2. CASE \E info \in UserInfos(req[r].token) :
             Become(r, [req[r] EXCEPT !.pc = AfterUserInfo(req[r].provider, info), !.info = info,
                                      !.told = GetEmail(info)])
  <2>1. PICK info \in UserInfos(req[r].token) :
          Become(r, [req[r] EXCEPT !.pc = AfterUserInfo(req[r].provider, info), !.info = info,
                                   !.told = GetEmail(info)])
    BY <1>2
  <2> DEFINE q == [req[r] EXCEPT !.pc = AfterUserInfo(req[r].provider, info), !.info = info,
                                 !.told = GetEmail(info)]
  <2>2. InFlow(req[r]) /\ req[r].pc = "userinfo"
    BY DEF FlowInv, RequestsInv, GetUserInfo, At
  <2>3. /\ AfterUserInfo(req[r].provider, info) \in {"emails", "process"}
        /\ AfterUserInfo(req[r].provider, info) = "emails" =>
             GetEmail(info) = "" /\ req[r].provider = "github"
    BY DEF AfterUserInfo
  <2>4. /\ Shaped(q) /\ q.pc = AfterUserInfo(req[r].provider, info) /\ q.info = info
        /\ q.told = GetEmail(info)
        /\ q.token = req[r].token /\ q.code = req[r].code /\ q.provider = req[r].provider
    BY <2>2 DEF InFlow, Shaped
  <2>5. info # Nil =>
          /\ info = [id |-> info.id, email |-> info.email]
          /\ info.id \in {Account(req[r].token.provider, req[r].token.person), Nil}
          /\ info.email # "" =>
               AddressOf(req[r].provider, req[r].token.person, info.email, info.email)
    BY InfoIsTheirs, Zenon
  <2>6. info # Nil => q.told = info.email
    BY <2>4 DEF GetEmail
  <2> HIDE DEF q
  <2>7. InFlow(q)
    BY <2>2, <2>3, <2>4, <2>5, <2>6 DEF InFlow, AboutPerson
  <2>8. StatesInv' /\ RequestsInv'
    BY <2>1, <2>7, CallbackStep DEF FlowInv, GetUserInfo, q
  <2> QED
    BY <2>8, LoginsAlone, CodesAlone DEF FlowInv, GetUserInfo, provider_side
<1> QED
  BY <1>1, <1>2 DEF GetUserInfo

LEMMA GetGitHubUserEmailFlow ==
  ASSUME FlowInv, NEW r \in Requests, GetGitHubUserEmail(r)
  PROVE  FlowInv'
<1>1. CASE Return(r)
  BY <1>1, ReturnStep, LoginsAlone, CodesAlone DEF FlowInv, GetGitHubUserEmail, provider_side
<1>2. CASE \E e \in PrimaryVerified(Mail[req[r].token.person]) :
             /\ req[r].info # Nil
             /\ Become(r, [req[r] EXCEPT !.pc = "process", !.info.email = e.email])
  <2>1. PICK e \in PrimaryVerified(Mail[req[r].token.person]) :
             /\ req[r].info # Nil
             /\ Become(r, [req[r] EXCEPT !.pc = "process", !.info.email = e.email])
    BY <1>2
  <2> DEFINE q == [req[r] EXCEPT !.pc = "process", !.info.email = e.email]
  <2>2. InFlow(req[r]) /\ req[r].pc = "emails"
    BY DEF FlowInv, RequestsInv, GetGitHubUserEmail, At
  <2>3. AddressOf("github", req[r].token.person, "", e.email)
    BY DEF PrimaryVerified, AddressOf
  <2>4. req[r].info = [id |-> req[r].info.id, email |-> req[r].info.email]
    BY <2>1, <2>2 DEF InFlow, AboutPerson
  <2>5. q.info = [id |-> req[r].info.id, email |-> e.email]
    BY <2>2, <2>4 DEF InFlow, Shaped
  <2>6. /\ Shaped(q) /\ q.pc = "process"
        /\ q.token = req[r].token /\ q.code = req[r].code /\ q.provider = req[r].provider
        /\ q.told = req[r].told
    BY <2>2 DEF InFlow, Shaped
  <2>7. /\ q.info = [id |-> q.info.id, email |-> q.info.email]
        /\ q.info.id = req[r].info.id /\ q.info.email = e.email
    BY <2>5
  <2>8. InFlow(q)
    BY <2>1, <2>2, <2>3, <2>6, <2>7 DEF InFlow, AboutPerson
  <2>9. StatesInv' /\ RequestsInv'
    BY <2>1, <2>8, CallbackStep DEF FlowInv, GetGitHubUserEmail
  <2> QED
    BY <2>9, LoginsAlone, CodesAlone DEF FlowInv, GetGitHubUserEmail, provider_side
<1> QED
  BY <1>1, <1>2 DEF GetGitHubUserEmail

LEMMA ProcessOAuthLoginFlow ==
  ASSUME FlowInv, NEW r \in Requests, ProcessOAuthLogin(r)
  PROVE  FlowInv'
<1> DEFINE login == [provider |-> req[r].provider,
                     id |-> GetProviderID(req[r].provider, req[r].info),
                     email |-> GetEmail(req[r].info), code |-> req[r].code,
                     told |-> req[r].told]
<1>1. InFlow(req[r]) /\ req[r].pc = "process"
  BY DEF FlowInv, RequestsInv, ProcessOAuthLogin, At
<1>2. CASE Return(r) /\ UNCHANGED logins
  BY <1>2, ReturnStep, LoginsAlone, CodesAlone DEF FlowInv, ProcessOAuthLogin, provider_side
<1>3. CASE /\ login.email # ""
           /\ logins' = logins \cup {login}
           /\ \/ Return(r)
              \/ Become(r, [Idle EXCEPT !.pc = "redirect", !.callbackURL = req[r].callbackURL])
              \/ WaitsForever(r)
  <2>1. AddressOf(login.provider, login.code.person, login.told, login.email)
    BY <1>1, <1>3 DEF InFlow, AboutPerson, GetEmail
  <2>2. LoginsInv'
    BY <1>3, <2>1 DEF FlowInv, LoginsInv, AddressOf
  <2> DEFINE q == [Idle EXCEPT !.pc = "redirect", !.callbackURL = req[r].callbackURL]
  <2>3. InFlow(q)
    BY DEF InFlow, Shaped, AboutPerson, Idle
  <2>4. StatesInv' /\ RequestsInv'
    BY <1>3, <2>3, ReturnStep, HungStep, CallbackStep DEF FlowInv, ProcessOAuthLogin
  <2> QED
    BY <2>2, <2>4, CodesAlone DEF FlowInv, ProcessOAuthLogin, provider_side
<1> QED
  BY <1>2, <1>3 DEF ProcessOAuthLogin

LEMMA HangFlow ==
  ASSUME FlowInv, NEW r \in Requests, Hang(r)
  PROVE  FlowInv'
BY HungStep, LoginsAlone, CodesAlone DEF FlowInv, Hang, provider_side

\* A new state token is like all the others.
LEMMA OAuthLoginFlow == FlowInv /\ OAuthLogin => FlowInv'
<1> SUFFICES ASSUME FlowInv, OAuthLogin PROVE FlowInv'
  OBVIOUS
<1>1. PICK url \in URLs : states' = states \cup {GenerateStateToken(url)}
  BY DEF OAuthLogin
<1>2. GenerateStateToken(url) \in StateToken
  BY TTLIsInt DEF GenerateStateToken, StateToken, StateSecret, FlowInv, StatesInv
<1>3. StatesInv'
  BY <1>1, <1>2 DEF FlowInv, StatesInv, OAuthLogin
<1>4. RequestsInv'
  BY DEF FlowInv, RequestsInv, InFlow, Shaped, AboutPerson, AddressOf, OAuthLogin
<1> QED
  BY <1>3, <1>4, LoginsAlone, CodesAlone DEF FlowInv, OAuthLogin, provider_side

LEMMA EnvironmentFlow == FlowInv /\ (Authorise \/ Tick \/ Restart \/ UNCHANGED vars) => FlowInv'
<1> SUFFICES ASSUME FlowInv, Authorise \/ Tick \/ Restart \/ UNCHANGED vars PROVE FlowInv'
  OBVIOUS
<1>1. StatesInv'
  BY TTLIsInt DEF FlowInv, StatesInv, StateToken, Authorise, Tick, Restart, vars
<1>2. CodesInv'
  <2>1. CASE Authorise
    BY <2>1 DEF FlowInv, CodesInv, Authorise
  <2>2. CASE UNCHANGED codes
    BY <2>2, CodesAlone DEF FlowInv
  <2> QED
    BY <2>1, <2>2 DEF Tick, Restart, vars, provider_side
<1>3. CASE UNCHANGED <<req, states, logins>>
  <2>1. RequestsInv'
    BY <1>3 DEF FlowInv, RequestsInv, InFlow, Shaped, AboutPerson, AddressOf
  <2> QED
    BY <1>1, <1>2, <1>3, <2>1, LoginsAlone DEF FlowInv
<1>4. CASE Restart
  <2>1. req' = [r \in Requests |-> Idle]
    BY <1>4 DEF Restart
  <2>2. RequestsInv'
    BY <2>1 DEF RequestsInv, InFlow, Shaped, AboutPerson, Idle
  <2> QED
    BY <1>1, <1>2, <1>4, <2>2, LoginsAlone DEF FlowInv, Restart
<1> QED
  BY <1>3, <1>4 DEF Authorise, Tick, vars, provider_side

LEMMA RedirectFlow ==
  ASSUME FlowInv, NEW r \in Requests, Redirect(r)
  PROVE  FlowInv'
BY ReturnStep, LoginsAlone, CodesAlone DEF FlowInv, Redirect, provider_side

LEMMA NextFlow == FlowInv /\ [Next]_vars => FlowInv'
<1> SUFFICES ASSUME FlowInv, [Next]_vars PROVE FlowInv'
  OBVIOUS
<1>1. ASSUME NEW r \in Requests, OAuthCallback(r) \/ Serve(r) \/ Hang(r) PROVE FlowInv'
  BY <1>1, OAuthCallbackFlow, ExchangeFlow, GetUserInfoFlow, GetGitHubUserEmailFlow,
     ProcessOAuthLoginFlow, RedirectFlow, HangFlow DEF Serve
<1> QED
  BY <1>1, OAuthLoginFlow, EnvironmentFlow DEF Next

\* What a callback learnt from a provider is about the person who authorised the
\* service with its code, at the provider that the code is from: the number, and
\* the address with where it came from (oauth_handler.go:51-88,
\* oauth2_service.go:57-141).
THEOREM FlowInvariance == Spec => []FlowInv
BY InitFlow, NextFlow, PTL DEF Spec

\* A state token is good until it expires, for whichever process serves
\* (auth_service.go:20, 350-361).
THEOREM StartedCorrect == Spec => []StartedFlowsStand
<1>1. FlowInv => StartedFlowsStand
  BY DEF FlowInv, StatesInv, StateToken, StartedFlowsStand, ValidateStateToken,
         StateSecret, Unexpired
<1> QED
  BY <1>1, FlowInvariance, PTL

\* The address of a login is one that the provider has of the person who
\* authorised: the one the user info named, verified or not, or else GitHub's
\* primary and verified one (oauth2_service.go:100-107, 134-140).
THEOREM EmailCorrect == Spec => []EmailIsProviders
<1>1. FlowInv => EmailIsProviders
  BY DEF FlowInv, LoginsInv, AddressOf, EmailIsProviders
<1> QED
  BY <1>1, FlowInvariance, PTL

-----------------------------------------------------------------------------
(* Whose login it is: what is left is that float64 keeps account numbers.   *)

\* What the power operator means: the prover knows 2 ^ 0 and 2 ^ 1, but not
\* this recursion, so the theorem that needs it states it as a hypothesis.
PowersOfTwo == \A n \in Nat : 2 ^ n \in Nat \ {0} /\ 2 ^ (n + 1) = 2 * 2 ^ n

LEMMA NumbersFit == /\ Mantissa \in Nat \ {0}
                    /\ \A p \in People : GitHubIDs[p] \in 0 .. 2 ^ Mantissa
<1>1. Mantissa \in Nat \ {0} /\ GitHubIDs \in [People -> 0 .. 2 ^ Mantissa]
  BY FlowAssumption, Zenon
<1> QED
  BY <1>1

\* The exponent that Float looks for.
Exponent(n, k) ==
  n < 2 ^ (Mantissa + k) /\ \A j \in 0 .. (k - 1) : n >= 2 ^ (Mantissa + j)

\* A number that fits into the mantissa is not rounded.
LEMMA SmallIsExact ==
  ASSUME NEW n \in Nat, n < 2 ^ Mantissa
  PROVE  Float(n) = n
<1> DEFINE k == CHOOSE i \in 0 .. n : Exponent(n, i)
<1>1. Mantissa \in Nat /\ Mantissa + 0 = Mantissa
  BY NumbersFit
<1>2. Exponent(n, 0)
  BY <1>1 DEF Exponent
<1>3. k \in 0 .. n /\ Exponent(n, k)
  BY <1>2
<1>4. k = 0
  <2>1. ASSUME k > 0 PROVE FALSE
    <3>1. 0 \in 0 .. (k - 1)
      BY <1>3, <2>1
    <3>2. n >= 2 ^ (Mantissa + 0)
      BY <1>3, <3>1 DEF Exponent
    <3> QED
      BY <1>1, <3>2
  <2> QED
    BY <1>3, <2>1
<1> HIDE DEF k
<1>5. 2 ^ k = 1 /\ n \div 1 = n /\ n % 1 = 0
  BY <1>4
<1>6. Float(n) = LET unit == 2 ^ k
                     q == n \div unit
                     rest == 2 * (n % unit)
                 IN  IF rest > unit \/ (rest = unit /\ q % 2 = 1)
                       THEN (q + 1) * unit ELSE q * unit
  BY DEF Float, Exponent, k
<1> QED
  BY <1>5, <1>6

\* Neither is the first one that does not fit, which is even.
LEMMA BoundaryIsExact ==
  ASSUME PowersOfTwo
  PROVE  Float(2 ^ Mantissa) = 2 ^ Mantissa
<1> DEFINE n == 2 ^ Mantissa
<1> DEFINE k == CHOOSE i \in 0 .. n : Exponent(n, i)
<1>1. /\ Mantissa \in Nat \ {0} /\ Mantissa + 0 = Mantissa
      /\ Mantissa - 1 \in Nat /\ (Mantissa - 1) + 1 = Mantissa
  BY NumbersFit
<1>2. n \in Nat \ {0} /\ 2 ^ (Mantissa + 1) = 2 * n
  BY <1>1 DEF PowersOfTwo
<1>3. PICK half \in Nat : n = 2 * half
  <2>1. 2 ^ (Mantissa - 1) \in Nat /\ 2 ^ ((Mantissa - 1) + 1) = 2 * 2 ^ (Mantissa - 1)
    BY <1>1 DEF PowersOfTwo
  <2> QED
    BY <1>1, <2>1
<1> HIDE DEF n
<1>4. Exponent(n, 1)
  <2>1. \A j \in 0 .. (1 - 1) : j = 0
    OBVIOUS
  <2>2. n < 2 * n
    BY <1>2
  <2> QED
    BY <1>1, <1>2, <2>1, <2>2 DEF Exponent, n
<1>5. k \in 0 .. n /\ Exponent(n, k)
  BY <1>2, <1>4
<1> HIDE DEF k
<1>6. k # 0
  BY <1>1, <1>2, <1>5 DEF Exponent, n
<1>7. ~ k > 1
  <2>1. ASSUME k > 1 PROVE FALSE
    <3>1. 1 \in 0 .. (k - 1)
      BY <1>5, <2>1
    <3>2. n >= 2 ^ (Mantissa + 1)
      BY <1>5, <3>1 DEF Exponent
    <3>3. n >= 2 * n
      BY <1>2, <3>2
    <3> QED
      BY <1>2, <3>3
  <2> QED
    BY <2>1
<1>8. k = 1
  BY <1>5, <1>6, <1>7
<1>9. 2 ^ k = 2 /\ n \div 2 = half /\ n % 2 = 0 /\ half * 2 = n
  BY <1>3, <1>8
<1>10. Float(n) = LET unit == 2 ^ k
                      q == n \div unit
                      rest == 2 * (n % unit)
                  IN  IF rest > unit \/ (rest = unit /\ q % 2 = 1)
                        THEN (q + 1) * unit ELSE q * unit
  BY DEF Float, Exponent, k
<1>11. Float(n) = n
  BY <1>9, <1>10
<1> QED
  BY <1>11 DEF n

LEMMA NumbersAreExact ==
  ASSUME PowersOfTwo, NEW p \in People
  PROVE  Float(GitHubIDs[p]) = GitHubIDs[p]
<1>1. Mantissa \in Nat /\ GitHubIDs[p] \in 0 .. 2 ^ Mantissa
  BY NumbersFit
<1>2. 2 ^ Mantissa \in Nat
  BY <1>1 DEF PowersOfTwo
<1>3. CASE GitHubIDs[p] = 2 ^ Mantissa
  BY <1>3, BoundaryIsExact
<1>4. CASE GitHubIDs[p] # 2 ^ Mantissa
  BY <1>1, <1>2, <1>4, SmallIsExact
<1> QED
  BY <1>3, <1>4

\* Every login so far is the account's own.
Own(l) == l.provider = l.code.provider /\ l.id = Account(l.provider, l.code.person)

LEMMA LoginIsOwn == LoginIsWhoAuthorised <=> \A l \in logins : Own(l)
BY DEF LoginIsWhoAuthorised, Own, Account

LEMMA ProcessOAuthLoginOwn ==
  ASSUME PowersOfTwo, FlowInv, LoginIsWhoAuthorised,
         NEW r \in Requests, ProcessOAuthLogin(r)
  PROVE  LoginIsWhoAuthorised'
<1> DEFINE login == [provider |-> req[r].provider,
                     id |-> GetProviderID(req[r].provider, req[r].info),
                     email |-> GetEmail(req[r].info), code |-> req[r].code,
                     told |-> req[r].told]
<1>1. InFlow(req[r]) /\ req[r].pc = "process"
  BY DEF FlowInv, RequestsInv, ProcessOAuthLogin, At
<1>2. CASE UNCHANGED logins
  BY <1>2 DEF LoginIsWhoAuthorised
<1>3. CASE /\ login.id # Nil
           /\ logins' = logins \cup {login}
  <2>1. /\ req[r].code.person \in People
        /\ req[r].code.provider = req[r].provider
        /\ req[r].token.provider = req[r].provider
        /\ req[r].token.person = req[r].code.person
    BY <1>1 DEF InFlow, AboutPerson
  <2>2. req[r].info # Nil /\ req[r].info.id # Nil
    BY <1>3 DEF GetProviderID
  <2>3. req[r].info.id = Account(req[r].provider, req[r].code.person)
    BY <1>1, <2>1, <2>2 DEF InFlow, AboutPerson
  <2>4. GetProviderID(req[r].provider, req[r].info) = Account(req[r].provider, req[r].code.person)
    BY <2>1, <2>2, <2>3, NumbersAreExact DEF GetProviderID, Account
  <2>5. Own(login)
    BY <2>1, <2>4 DEF Own
  <2>6. \A l \in logins' : Own(l)
    BY <1>3, <2>5, LoginIsOwn
  <2> QED
    BY <2>6 DEF LoginIsWhoAuthorised, Own, Account
<1> QED
  BY <1>2, <1>3 DEF ProcessOAuthLogin

LEMMA NextOwn ==
  ASSUME PowersOfTwo, FlowInv, LoginIsWhoAuthorised, [Next]_vars
  PROVE  LoginIsWhoAuthorised'
<1>1. CASE UNCHANGED logins
  BY <1>1 DEF LoginIsWhoAuthorised
<1>2. CASE \E r \in Requests : ProcessOAuthLogin(r)
  BY <1>2, ProcessOAuthLoginOwn
<1> QED
  BY <1>1, <1>2 DEF Next, Serve, vars, OAuthLogin, Authorise, Tick, Restart, OAuthCallback,
     ExchangeCodeForToken, GetUserInfo, GetGitHubUserEmail, Redirect, Hang

\* A login is for the very account with which somebody authorised the service, at
\* the provider it is said to be of, for account numbers up to and including
\* 2 ^ Mantissa (github_provider.go:13, oauth_handler.go:51, 65-77).
THEOREM LoginCorrect ==
  ASSUME PowersOfTwo
  PROVE  Spec => []LoginIsWhoAuthorised
<1>1. Init => LoginIsWhoAuthorised
  BY DEF Init, LoginIsWhoAuthorised
<1>2. FlowInv /\ LoginIsWhoAuthorised /\ [Next]_vars => LoginIsWhoAuthorised'
  BY NextOwn
<1> QED
  BY <1>1, <1>2, FlowInvariance, PTL DEF Spec

-----------------------------------------------------------------------------
(* Callbacks only move forward: the part of EveryCallbackEnds that is about  *)
(* single steps.                                                             *)

\* The most steps a callback still has from here to its answer.
StepsLeft(pc) ==
  CASE pc \in {"hung", "redirect"} -> 1 [] pc = "process" -> 2 [] pc = "emails" -> 3
    [] pc = "userinfo" -> 4 [] pc = "exchange" -> 5

\* No step takes a callback back, so that no call to a provider is made twice:
\* it is answered or lost, or comes nearer to its answer.
MovesForward ==
  [][\A r \in Requests :
       \/ req'[r] = req[r]
       \/ req[r].pc = "idle" \/ req'[r].pc = "idle"
       \/ StepsLeft(req'[r].pc) < StepsLeft(req[r].pc)]_vars

LEMMA ServeForward ==
  ASSUME FlowInv, NEW r \in Requests, Serve(r) \/ Hang(r)
  PROVE  /\ \A s \in Requests : s # r => req'[s] = req[s]
         /\ req'[r].pc = "idle" \/ StepsLeft(req'[r].pc) < StepsLeft(req[r].pc)
<1>1. /\ req = [s \in Requests |-> req[s]]
      /\ DOMAIN req[r] = {"pc", "provider", "callbackURL", "code", "token", "info", "told"}
  BY DEF FlowInv, RequestsInv, InFlow, Shaped
<1>2. ASSUME NEW q, Become(r, q)
      PROVE  req'[r] = q /\ \A s \in Requests : s # r => req'[s] = req[s]
  BY <1>1, <1>2 DEF Become
<1>3. Return(r) => req'[r].pc = "idle" /\ \A s \in Requests : s # r => req'[s] = req[s]
  BY <1>2 DEF Return, Idle
<1>4. WaitsForever(r) => req'[r].pc = "hung" /\ \A s \in Requests : s # r => req'[s] = req[s]
  <2> DEFINE q == [Idle EXCEPT !.pc = "hung"]
  <2>1. q.pc = "hung" /\ (WaitsForever(r) => Become(r, q))
    BY DEF Idle, WaitsForever
  <2> HIDE DEF q
  <2> QED
    BY <1>2, <2>1
<1>5. CASE ExchangeCodeForToken(r)
  <2>1. Exchanged(r) => req'[r].pc = "userinfo" /\ \A s \in Requests : s # r => req'[s] = req[s]
    <3> DEFINE q == [req[r] EXCEPT !.pc = "userinfo",
                                   !.token = [provider |-> req[r].provider,
                                              person |-> req[r].code.person]]
    <3>1. q.pc = "userinfo"
      BY <1>1
    <3>2. Exchanged(r) => Become(r, q)
      BY DEF Exchanged
    <3> HIDE DEF q
    <3> QED
      BY <1>2, <3>1, <3>2
  <2> QED
    BY <1>3, <1>5, <2>1 DEF ExchangeCodeForToken, At, StepsLeft
<1>6. CASE GetUserInfo(r)
  <2> DEFINE q(info) == [req[r] EXCEPT !.pc = AfterUserInfo(req[r].provider, info), !.info = info,
                                       !.told = GetEmail(info)]
  <2>1. req[r].pc = "userinfo" /\ (Return(r) \/ \E info : Become(r, q(info)))
    BY <1>6 DEF GetUserInfo, At
  <2>2. CASE Return(r)
    BY <1>3, <2>2
  <2>3. CASE \E info : Become(r, q(info))
    <3>1. PICK info : Become(r, q(info))
      BY <2>3
    <3>2. q(info).pc \in {"emails", "process"}
      BY <1>1 DEF AfterUserInfo
    <3> HIDE DEF q
    <3>3. req'[r].pc \in {"emails", "process"} /\ \A s \in Requests : s # r => req'[s] = req[s]
      BY <1>2, <3>1, <3>2
    <3> QED
      BY <2>1, <3>3 DEF StepsLeft
  <2> QED
    BY <2>1, <2>2, <2>3
<1>7. CASE GetGitHubUserEmail(r)
  <2>1. ASSUME NEW email, Become(r, [req[r] EXCEPT !.pc = "process", !.info.email = email])
        PROVE  req'[r].pc = "process" /\ \A s \in Requests : s # r => req'[s] = req[s]
    <3> DEFINE q == [req[r] EXCEPT !.pc = "process", !.info.email = email]
    <3>1. q.pc = "process"
      BY <1>1
    <3>2. Become(r, q)
      BY <2>1
    <3> HIDE DEF q
    <3> QED
      BY <1>2, <3>1, <3>2
  <2>2. req[r].pc = "emails"
    BY <1>7 DEF GetGitHubUserEmail, At
  <2>3. Return(r) \/ \E email : Become(r, [req[r] EXCEPT !.pc = "process", !.info.email = email])
    BY <1>7 DEF GetGitHubUserEmail
  <2>4. CASE Return(r)
    BY <1>3, <2>4
  <2>5. CASE \E email : Become(r, [req[r] EXCEPT !.pc = "process", !.info.email = email])
    <3>1. PICK email : Become(r, [req[r] EXCEPT !.pc = "process", !.info.email = email])
      BY <2>5
    <3>2. req'[r].pc = "process" /\ \A s \in Requests : s # r => req'[s] = req[s]
      BY <2>1, <3>1
    <3> QED
      BY <2>2, <3>2 DEF StepsLeft
  <2> QED
    BY <2>3, <2>4, <2>5
<1>8. CASE ProcessOAuthLogin(r)
  <2> DEFINE q == [Idle EXCEPT !.pc = "redirect", !.callbackURL = req[r].callbackURL]
  <2>1. req[r].pc = "process" /\ (Return(r) \/ Become(r, q) \/ WaitsForever(r))
    BY <1>8 DEF ProcessOAuthLogin, At
  <2>2. q.pc = "redirect"
    BY DEF Idle
  <2> HIDE DEF q
  <2>3. CASE Return(r)
    BY <1>3, <2>3
  <2>4. CASE Become(r, q) \/ WaitsForever(r)
    <3>1. req'[r].pc \in {"redirect", "hung"} /\ \A s \in Requests : s # r => req'[s] = req[s]
      BY <1>2, <1>4, <2>2, <2>4
    <3> QED
      BY <2>1, <3>1 DEF StepsLeft
  <2> QED
    BY <2>1, <2>3, <2>4
<1>9. CASE Redirect(r)
  BY <1>3, <1>9 DEF Redirect, At, StepsLeft
<1>10. CASE Hang(r)
  BY <1>4, <1>10 DEF Hang, StepsLeft
<1> QED
  BY <1>5, <1>6, <1>7, <1>8, <1>9, <1>10 DEF Serve

\* A callback asks a provider for each thing at most once and is answered, lost
\* with the process or left hanging after at most five steps of its own,
\* whatever the providers answer (oauth_handler.go:51-88,
\* oauth2_service.go:57-141).
THEOREM ForwardCorrect == Spec => MovesForward
<1>1. ASSUME FlowInv, [Next]_vars
      PROVE  \A r \in Requests : \/ req'[r] = req[r]
                                 \/ req[r].pc = "idle" \/ req'[r].pc = "idle"
                                 \/ StepsLeft(req'[r].pc) < StepsLeft(req[r].pc)
  <2>1. CASE UNCHANGED vars \/ OAuthLogin \/ Authorise \/ Tick
    BY <2>1 DEF vars, OAuthLogin, Authorise, Tick
  <2>2. CASE Restart
    BY <2>2 DEF Restart, Idle
  <2>3. ASSUME NEW r \in Requests, OAuthCallback(r)
        PROVE  req[r].pc = "idle" /\ \A s \in Requests : s # r => req'[s] = req[s]
    BY <2>3 DEF OAuthCallback, Become, At, FlowInv, RequestsInv
  <2> QED
    BY <1>1, <2>1, <2>2, <2>3, ServeForward DEF Next
<1>2. FlowInv /\ [Next]_vars =>
        [\A r \in Requests : \/ req'[r] = req[r]
                             \/ req[r].pc = "idle" \/ req'[r].pc = "idle"
                             \/ StepsLeft(req'[r].pc) < StepsLeft(req[r].pc)]_vars
  BY <1>1
<1> QED
  BY <1>2, FlowInvariance, PTL DEF Spec, MovesForward
=============================================================================
