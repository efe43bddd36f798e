------------------------- MODULE RefreshTokensProofs -------------------------
(***************************************************************************)
(* Proofs about RefreshTokens for any number of users and jtis and any     *)
(* finite number of requests, in three parts:                              *)
(*   - the life cycle: IInv is inductive, one lemma per action; the safety *)
(*     properties and the step simulation of SessionLedger follow from it; *)
(*   - forks: the argument by counting;                                    *)
(*   - smooth courses: nobody loses a session, and no row is for nobody.   *)
(***************************************************************************)
EXTENDS RefreshTokens, FiniteSetTheorems, TLAPS

LEMMA IdleIsRequest == Idle \in Request /\ InStep(Idle)
  BY DEF Idle, Request, Steps, InStep

\* The initial state satisfies the inductive invariant.
LEMMA InitIInv == Init => IInv
<1> SUFFICES ASSUME Init PROVE IInv
  OBVIOUS
<1>1. \A r \in Requests : req[r] = Idle
  BY DEF Init
<1>2. TypeOK
  BY <1>1, IdleIsRequest DEF Init, TypeOK, Idle
<1>3. Granted = {} /\ TableIsLedger
  BY DEF Init, Granted, TableIsLedger
<1>4. \A r \in Requests : InStep(req[r])
  BY <1>1, IdleIsRequest
<1>5. NoSharedNew /\ LateIsRefused
  BY <1>1 DEF NoSharedNew, LateIsRefused, At, Idle
<1> QED
  BY <1>2, <1>3, <1>4, <1>5 DEF Init, IInv, OneTokenPerJti, HeldWasStored

\* A step that leaves the table and the tokens alone and moves one request to
\* a state that is in step, and not to "store", preserves the invariant.
LEMMA MoveRequest ==
  ASSUME IInv, NEW r \in Requests, NEW q \in Request,
         req' = [req EXCEPT ![r] = q],
         UNCHANGED <<database, signed, expired, held, loggedOut>>, Undisturbed \/ Disturbed,
         InStep(q), q.pc # "store",
         q.pc = "store" \/ q.pc = "touch" \/ q.pc = "reply" => q.new \in Token,
         q.late /\ q.op = "refresh" => q.pc = "lookup"
  PROVE  IInv'
<1>1. TypeOK'
  BY DEF IInv, TypeOK, database, Undisturbed, Disturbed
<1>2. OneTokenPerJti' /\ (Granted \subseteq signed)' /\ (spent \subseteq Granted)'
      /\ HeldWasStored' /\ TableIsLedger'
  BY DEF IInv, OneTokenPerJti, Granted, HeldWasStored, TableIsLedger, database
<1>3. \A s \in Requests : InStep(req'[s])
  BY DEF IInv, TypeOK
<1>4. (\A s \in Requests : InStep(req[s]))'
  BY <1>3 DEF InStep, Granted, database
<1>5. NoSharedNew'
  BY DEF IInv, TypeOK, NoSharedNew, At
<1>6. LateIsRefused'
  BY DEF IInv, TypeOK, LateIsRefused
<1> QED
  BY <1>1, <1>2, <1>4, <1>5, <1>6 DEF IInv

\* Facts about one request that every action below starts from.
LEMMA RequestFacts ==
  ASSUME IInv, NEW r \in Requests
  PROVE  /\ req[r] \in Request
         /\ InStep(req[r])
         /\ req[r].late /\ req[r].op = "refresh" => req[r].pc = "lookup"
         /\ req[r].pc \in {"store", "touch", "reply"} => req[r].new \in Token
  BY DEF IInv, TypeOK, LateIsRefused

\* Ending a request.
LEMMA ReturnIInv ==
  ASSUME IInv, NEW r \in Requests, Return(r), Undisturbed \/ Disturbed,
         UNCHANGED <<database, signed, expired, held, loggedOut>>
  PROVE  IInv'
  BY IdleIsRequest, MoveRequest DEF Return, Idle

LEMMA PresentIInv ==
  ASSUME IInv, NEW r \in Requests, RefreshToken(r) \/ Logout(r)
  PROVE  IInv'
<1>1. PICK op \in {"refresh", "logout"}, pc \in {"lookup", "delete"} :
        /\ Present(r, op, pc)
        /\ op = "refresh" => pc = "lookup"
        /\ op = "logout" => pc = "delete"
  BY DEF RefreshToken, Logout
<1>2. PICK t \in held :
        req' = [req EXCEPT ![r] = [pc |-> pc, op |-> op, tok |-> t,
                                   new |-> NoToken, late |-> t \in spent]]
  BY <1>1 DEF Present
<1> DEFINE q == [pc |-> pc, op |-> op, tok |-> t, new |-> NoToken, late |-> t \in spent]
<1>3. t \in Token
  BY DEF IInv, TypeOK
<1>4. q \in Request
  BY <1>3 DEF Request, Steps
<1>5. InStep(q)
  BY <1>1 DEF InStep
<1>6. UNCHANGED <<database, signed, expired, held, loggedOut>> /\ Undisturbed
  BY <1>1 DEF Present, Undisturbed
<1> QED
  BY <1>1, <1>2, <1>4, <1>5, <1>6, MoveRequest

\* A rotation whose token was spent before it came in finds no row.
LEMMA LateFindsNothing ==
  ASSUME IInv, NEW t \in spent
  PROVE  ~Found(refresh_tokens, t.jti)
<1> SUFFICES ASSUME NEW g \in granted, g.token \notin spent, g.token.jti = t.jti
             PROVE  FALSE
  BY DEF IInv, TableIsLedger, Found
<1>1. g.token \in signed /\ t \in signed
  BY DEF IInv, Granted
<1> QED
  BY <1>1 DEF IInv, OneTokenPerJti

LEMMA GetByJTIIInv ==
  ASSUME IInv, NEW r \in Requests, GetByJTI(r)
  PROVE  IInv'
<1>1. CASE Return(r)
  BY <1>1, ReturnIInv DEF GetByJTI
<1>2. CASE Found(refresh_tokens, req[r].tok.jti) /\ Goto(r, "delete")
  <2> DEFINE q == [req[r] EXCEPT !.pc = "delete"]
  <2>1. req[r] \in Request /\ InStep(req[r]) /\ req[r].pc = "lookup"
    BY RequestFacts DEF GetByJTI, At
  <2>2. req[r].op = "refresh"
    BY <2>1 DEF Request, InStep, Idle
  <2>3. ~q.late
    BY <1>2, <2>1, LateFindsNothing DEF InStep, Request
  <2>4. q \in Request /\ q.pc = "delete" /\ q.op = "refresh" /\ q.tok = req[r].tok
    BY <2>1, <2>2 DEF Request, Steps
  <2>5. InStep(q)
    BY <2>1, <2>2, <2>3, <2>4 DEF InStep
  <2>6. req' = [req EXCEPT ![r] = q]
    BY <1>2 DEF Goto, IInv, TypeOK
  <2>7. UNCHANGED <<database, signed, expired, held, loggedOut>> /\ (Undisturbed \/ Disturbed)
    BY DEF GetByJTI
  <2> HIDE DEF q
  <2> QED
    BY <2>3, <2>4, <2>5, <2>6, <2>7, MoveRequest
<1> QED
  BY <1>1, <1>2 DEF GetByJTI

LEMMA FinishLoginIInv ==
  ASSUME IInv, NEW r \in Requests, FinishLogin(r)
  PROVE  IInv'
<1>1. CASE Return(r)
  BY <1>1, ReturnIInv DEF FinishLogin
<1>2. CASE Goto(r, "reply")
  <2> DEFINE q == [req[r] EXCEPT !.pc = "reply"]
  <2>1. req[r] \in Request /\ InStep(req[r]) /\ req[r].pc = "touch"
    BY RequestFacts DEF FinishLogin, At
  <2>2. req[r].op = "login"
    BY <2>1 DEF Request, InStep, Idle
  <2>3. req[r].new \in Token
    BY <2>1, RequestFacts
  <2>4. /\ q \in Request /\ q.pc = "reply" /\ q.op = "login"
        /\ q.tok = req[r].tok /\ q.new = req[r].new /\ q.late = req[r].late
    BY <2>1, <2>2 DEF Request, Steps
  <2>5. InStep(q)
    BY <2>1, <2>2, <2>4 DEF InStep
  <2>6. req' = [req EXCEPT ![r] = q]
    BY <1>2 DEF Goto, IInv, TypeOK
  <2>7. UNCHANGED <<database, signed, expired, held, loggedOut>> /\ (Undisturbed \/ Disturbed)
    BY DEF FinishLogin
  <2> HIDE DEF q
  <2> QED
    BY <2>3, <2>4, <2>5, <2>6, <2>7, MoveRequest
<1> QED
  BY <1>1, <1>2 DEF FinishLogin

\* Signing a token with a jti of its own, for a login or for the rotation of
\* a spent token of the same user.
LEMMA SignIInv ==
  ASSUME IInv, NEW r \in Requests, NEW j \in Jtis, NEW u \in Users, NEW op,
         Fresh(j), Sign(r, [jti |-> j, sub |-> u], op, FALSE),
         UNCHANGED <<database, expired, held, loggedOut>>, Undisturbed,
         \/ op = "login" /\ req[r] = Idle
         \/ /\ op = "refresh" /\ req[r].op = "refresh" /\ req[r].tok \in spent
            /\ u = req[r].tok.sub
  PROVE  IInv'
<1> DEFINE t == [jti |-> j, sub |-> u]
           q == [req[r] EXCEPT !.pc = "store", !.op = op, !.new = t, !.late = FALSE]
<1>1. req[r] \in Request /\ InStep(req[r])
  BY RequestFacts
<1>2. t \in Token /\ t \notin signed /\ t \notin Granted
  BY DEF Token, Fresh, IInv
<1>3. q \in Request
  BY <1>1, <1>2 DEF Request, Steps
<1>4. /\ q.pc = "store" /\ q.op = op /\ q.new = t /\ q.late = FALSE
      /\ q.tok = req[r].tok
  BY <1>1 DEF Request
<1>5. req' = [req EXCEPT ![r] = q] /\ signed' = signed \cup {t}
  BY DEF Sign, IInv, TypeOK
<1> HIDE DEF q
<1>6. req' \in [Requests -> Request] /\ req'[r] = q
      /\ \A s \in Requests : s # r => req'[s] = req[s]
  BY <1>3, <1>5 DEF IInv, TypeOK
<1>7. TypeOK'
  BY <1>2, <1>4, <1>5, <1>6 DEF IInv, TypeOK, database, Undisturbed
<1>8. OneTokenPerJti'
  BY <1>5 DEF IInv, OneTokenPerJti, Fresh
<1>9. (Granted \subseteq signed)' /\ (spent \subseteq Granted)'
      /\ HeldWasStored' /\ TableIsLedger'
  BY <1>5 DEF IInv, Granted, HeldWasStored, TableIsLedger, database
<1>10. \A s \in Requests : InStep(req[s])'
  <2> TAKE s \in Requests
  <2>1. InStep(req[s]) /\ Granted' = Granted /\ held' = held /\ spent' = spent
    BY DEF IInv, Granted, database
  <2>2. CASE s # r
    BY <2>1, <2>2, <1>5, <1>6 DEF InStep
  <2>3. CASE s = r
    <3>1. op = "refresh" => req[r].tok \in held
      BY <1>1 DEF InStep
    <3>2. op = "login" => q.tok = NoToken
      BY <1>4 DEF Idle
    <3> QED
      BY <2>1, <2>3, <3>1, <3>2, <1>2, <1>4, <1>5, <1>6 DEF InStep
  <2> QED
    BY <2>2, <2>3
<1>11. NoSharedNew'
  BY <1>2, <1>4, <1>6 DEF IInv, NoSharedNew, At, InStep
<1>12. LateIsRefused'
  BY <1>4, <1>6 DEF IInv, LateIsRefused
<1> QED
  BY <1>7, <1>8, <1>9, <1>10, <1>11, <1>12 DEF IInv

LEMMA LoginSignIInv ==
  ASSUME IInv, NEW r \in Requests, LoginSign(r)
  PROVE  IInv'
<1>1. PICK j \in Jtis, u \in Users :
        Fresh(j) /\ Sign(r, [jti |-> j, sub |-> u], "login", FALSE)
  BY DEF LoginSign
<1>2. req[r] = Idle
  BY RequestFacts DEF LoginSign, At, InStep
<1>3. UNCHANGED <<database, expired, held, loggedOut>> /\ Undisturbed
  BY DEF LoginSign, Undisturbed
<1> QED
  BY <1>1, <1>2, <1>3, SignIInv

LEMMA LoadUserAndSignIInv ==
  ASSUME IInv, NEW r \in Requests, LoadUserAndSign(r)
  PROVE  IInv'
<1>1. UNCHANGED <<database, expired, held, loggedOut>>
  BY DEF LoadUserAndSign
<1>2. CASE Return(r) /\ Disturbed /\ UNCHANGED signed
  BY <1>1, <1>2, ReturnIInv
<1>3. ASSUME NEW j \in Jtis, Fresh(j),
             Sign(r, [jti |-> j, sub |-> req[r].tok.sub], "refresh", req[r].late),
             Undisturbed
      PROVE  IInv'
  <2>1. InStep(req[r]) /\ req[r] \in Request /\ req[r].pc = "load"
    BY RequestFacts DEF LoadUserAndSign, At
  <2>2. req[r].op = "refresh"
    BY <2>1 DEF Request, InStep, Idle
  <2>3. req[r].tok \in spent /\ ~req[r].late
    BY <2>1, <2>2, RequestFacts DEF InStep, Request
  <2>4. req[r].tok.sub \in Users
    BY <2>3 DEF IInv, TypeOK, Token
  <2>5. Sign(r, [jti |-> j, sub |-> req[r].tok.sub], "refresh", FALSE)
    BY <1>3, <2>1, <2>3 DEF Request
  <2> QED
    BY <1>1, <1>3, <2>2, <2>3, <2>4, <2>5, SignIInv
<1> QED
  BY <1>2, <1>3 DEF LoadUserAndSign

\* The step of a request that ran a statement: it answers, or goes on.
LEMMA ContinueMoves ==
  ASSUME IInv, NEW r \in Requests, NEW pc \in Steps, Continue(r, pc)
  PROVE  \E q \in Request :
           /\ req' = [req EXCEPT ![r] = q]
           /\ q = IF pc = "idle" THEN Idle ELSE [req[r] EXCEPT !.pc = pc]
<1>1. CASE pc = "idle"
  BY <1>1, IdleIsRequest DEF Continue, Return
<1>2. CASE pc # "idle"
  <2>1. [req[r] EXCEPT !.pc = pc] \in Request
    BY RequestFacts DEF Request
  <2> QED
    BY <1>2, <2>1 DEF Continue, Goto, IInv, TypeOK
<1> QED
  BY <1>1, <1>2

LEMMA DeleteIInv ==
  ASSUME IInv, NEW r \in Requests, Delete(r)
  PROVE  IInv'
<1> DEFINE t == req[r].tok
<1>1. PICK o \in Outcomes :
        /\ IF Applied(o)
             THEN /\ refresh_tokens' = DeleteRow(refresh_tokens, t.jti)
                  /\ spent' = spent \cup {t}
             ELSE UNCHANGED <<refresh_tokens, spent>>
        /\ loggedOut' = IF req[r].op = "logout" /\ ~Err(o)
                          THEN loggedOut \cup {t} ELSE loggedOut
        /\ Continue(r, AfterDelete(req[r].op, o))
        /\ course' = course \/ Disturbed
  BY DEF Delete, Undisturbed
<1>2. UNCHANGED <<signed, expired, held, granted>>
  BY DEF Delete
<1>3. req[r] \in Request /\ InStep(req[r]) /\ req[r].pc = "delete"
      /\ (req[r].late => req[r].op # "refresh")
  BY RequestFacts DEF Delete, At
<1>4. req[r].op \in {"refresh", "logout"}
  BY <1>3 DEF Request, InStep, Idle
<1>5. t \in held /\ t \in Granted /\ t \in signed /\ t \in Token
  BY <1>3, <1>4 DEF InStep, IInv, TypeOK, HeldWasStored, Granted
<1>6. PICK q \in Request :
        /\ req' = [req EXCEPT ![r] = q]
        /\ q = IF AfterDelete(req[r].op, o) = "idle" THEN Idle
               ELSE [req[r] EXCEPT !.pc = AfterDelete(req[r].op, o)]
  BY <1>1, ContinueMoves DEF AfterDelete, Steps
<1>7. q # Idle => /\ q.pc = "load" /\ q.op = "refresh" /\ q.tok = t
                  /\ q.late = FALSE /\ t \in spent'
  BY <1>1, <1>3, <1>4, <1>6 DEF AfterDelete, Outcomes, Applied, Err, Request
<1>8. req' \in [Requests -> Request] /\ req'[r] = q
      /\ \A s \in Requests : s # r => req'[s] = req[s]
  BY <1>6 DEF IInv, TypeOK
<1>9. spent \subseteq spent' /\ spent' \subseteq spent \cup {t}
      /\ loggedOut' \subseteq spent'
  BY <1>1 DEF IInv, TypeOK, Applied, Err
<1>10. TypeOK'
  <2>1. refresh_tokens' \subseteq Row
    BY <1>1 DEF IInv, TypeOK, DeleteRow
  <2>2. q.pc \notin {"store", "touch", "reply"}
    BY <1>7 DEF Idle
  <2> QED
    BY <1>1, <1>2, <1>5, <1>8, <1>9, <2>1, <2>2 DEF IInv, TypeOK, Disturbed
<1>11. OneTokenPerJti' /\ (Granted \subseteq signed)' /\ (spent \subseteq Granted)'
       /\ HeldWasStored'
  BY <1>2, <1>5, <1>9 DEF IInv, OneTokenPerJti, Granted, HeldWasStored
<1>12. TableIsLedger'
  <2>1. \A g \in granted : g.token.jti = t.jti => g.token = t
    BY <1>5 DEF IInv, OneTokenPerJti, Granted
  <2> QED
    BY <1>1, <1>2, <2>1 DEF IInv, TableIsLedger, DeleteRow
<1>13. \A s \in Requests : InStep(req[s])'
  <2> TAKE s \in Requests
  <2>1. CASE s # r
    <3>1. InStep(req[s]) /\ req'[s] = req[s] /\ Granted' = Granted
      BY <1>2, <1>8, <2>1 DEF IInv, Granted
    <3> QED
      BY <1>2, <1>9, <3>1 DEF InStep
  <2>2. CASE s = r /\ q = Idle
    BY <1>8, <2>2 DEF InStep, Idle
  <2>3. CASE s = r /\ q # Idle
    BY <1>2, <1>5, <1>7, <1>8, <2>3 DEF InStep, Idle
  <2> QED
    BY <2>1, <2>2, <2>3
<1>14. NoSharedNew' /\ LateIsRefused'
  BY <1>7, <1>8 DEF IInv, NoSharedNew, LateIsRefused, At, Idle
<1> QED
  BY <1>10, <1>11, <1>12, <1>13, <1>14 DEF IInv

LEMMA CreateIInv ==
  ASSUME IInv, NEW r \in Requests, Create(r)
  PROVE  IInv'
<1> DEFINE new == req[r].new
           g == [token |-> new, parent |-> req[r].tok]
<1>1. PICK o \in Outcomes :
        /\ IF Applied(o)
             THEN /\ refresh_tokens' = InsertRow(refresh_tokens, new)
                  /\ granted' = granted \cup {g}
             ELSE UNCHANGED <<refresh_tokens, granted>>
        /\ Continue(r, AfterCreate(req[r].op, o))
        /\ course' = course \/ Disturbed
  BY DEF Create, Undisturbed
<1>2. UNCHANGED <<signed, expired, held, spent, loggedOut>>
  BY DEF Create
<1>3. req[r] \in Request /\ InStep(req[r]) /\ req[r].pc = "store"
      /\ req[r].op \in {"login", "refresh"}
      /\ (req[r].late => req[r].op # "refresh")
  BY RequestFacts DEF Create, At, InStep, Request, Idle
<1>4. new \in signed /\ new \notin Granted /\ new \in Token
      /\ g \in [token : Token, parent : Token \cup {NoToken}]
  BY <1>3 DEF InStep, IInv, TypeOK, Request
<1>5. PICK q \in Request :
        /\ req' = [req EXCEPT ![r] = q]
        /\ q = IF AfterCreate(req[r].op, o) = "idle" THEN Idle
               ELSE [req[r] EXCEPT !.pc = AfterCreate(req[r].op, o)]
  BY <1>1, ContinueMoves DEF AfterCreate, Steps
<1>6. q # Idle =>
        /\ q.pc \in {"touch", "reply"} /\ q.op = req[r].op /\ q.tok = req[r].tok
        /\ q.late = req[r].late /\ q.new = new /\ new \in Granted'
        /\ q.op = "refresh" => q.pc = "reply"
  <2> SUFFICES ASSUME q # Idle
               PROVE  /\ q.pc \in {"touch", "reply"} /\ q.op = req[r].op
                      /\ q.tok = req[r].tok /\ q.late = req[r].late /\ q.new = new
                      /\ new \in Granted'
                      /\ q.op = "refresh" => q.pc = "reply"
    OBVIOUS
  <2>1. q = [req[r] EXCEPT !.pc = AfterCreate(req[r].op, o)] /\ ~Err(o)
    BY <1>5 DEF AfterCreate
  <2>2. AfterCreate(req[r].op, o) = IF req[r].op = "login" THEN "touch" ELSE "reply"
    BY <2>1 DEF AfterCreate
  <2>3. g \in granted'
    BY <1>1, <2>1 DEF Applied, Err
  <2>4. new \in Granted'
    BY <2>3 DEF Granted
  <2> QED
    BY <1>3, <2>1, <2>2, <2>4 DEF Request
<1>7. req' \in [Requests -> Request] /\ req'[r] = q
      /\ \A s \in Requests : s # r => req'[s] = req[s]
  BY <1>5 DEF IInv, TypeOK
<1>8. Granted \subseteq Granted' /\ Granted' \subseteq Granted \cup {new}
  BY <1>1 DEF Granted
<1>9. TypeOK'
  <2>1. refresh_tokens' \subseteq Row
    BY <1>1, <1>4 DEF IInv, TypeOK, InsertRow, Row, Token
  <2>2. granted' \subseteq [token : Token, parent : Token \cup {NoToken}]
    BY <1>1, <1>4 DEF IInv, TypeOK
  <2>3. q.pc \in {"store", "touch", "reply"} => q.new \in Token
    BY <1>4, <1>6 DEF Idle
  <2> QED
    BY <1>1, <1>2, <1>7, <2>1, <2>2, <2>3 DEF IInv, TypeOK, Disturbed
<1>10. OneTokenPerJti' /\ (Granted \subseteq signed)' /\ (spent \subseteq Granted)'
  BY <1>2, <1>4, <1>8 DEF IInv, OneTokenPerJti
<1>11. HeldWasStored'
  BY <1>2, <1>8 DEF IInv, HeldWasStored, Granted
<1>12. TableIsLedger'
  <2>1. new \notin spent
    BY <1>4 DEF IInv
  <2>2. CASE ~Applied(o)
    BY <1>1, <1>2, <2>2 DEF IInv, TableIsLedger
  <2>3. CASE Applied(o)
    <3> DEFINE Unspent(G) == {h \in G : h.token \notin spent}
               Rows(H) == {[jti |-> h.token.jti, user_id |-> h.token.sub] : h \in H}
    <3>1. Unspent(granted') = Unspent(granted) \cup {g}
      BY <1>1, <2>1, <2>3
    <3>2. Rows(Unspent(granted')) =
            Rows(Unspent(granted)) \cup {[jti |-> new.jti, user_id |-> new.sub]}
      <4>1. \A H : Rows(H \cup {g}) =
                     Rows(H) \cup {[jti |-> g.token.jti, user_id |-> g.token.sub]}
        OBVIOUS
      <4>2. g.token = new
        OBVIOUS
      <4> HIDE DEF Unspent, Rows, g
      <4> QED
        BY <3>1, <4>1, <4>2
    <3> QED
      BY <1>1, <1>2, <2>3, <3>2 DEF IInv, TableIsLedger, InsertRow
  <2> QED
    BY <2>2, <2>3
<1>13. \A s \in Requests : InStep(req[s])'
  <2> TAKE s \in Requests
  <2>1. CASE s # r
    <3>1. InStep(req[s]) /\ req'[s] = req[s] /\ (req[s].pc = "store" => req[s].new # new)
      BY <1>3, <1>7, <2>1 DEF IInv, NoSharedNew, At
    <3> QED
      BY <1>2, <1>8, <3>1 DEF InStep
  <2>2. CASE s = r /\ q = Idle
    BY <1>7, <2>2 DEF InStep, Idle
  <2>3. CASE s = r /\ q # Idle
    BY <1>2, <1>3, <1>6, <1>7, <2>3 DEF InStep
  <2> QED
    BY <2>1, <2>2, <2>3
<1>14. NoSharedNew'
  BY <1>6, <1>7 DEF IInv, NoSharedNew, At, Idle
<1>15. LateIsRefused'
  BY <1>3, <1>6, <1>7 DEF IInv, LateIsRefused, Idle
<1> QED
  BY <1>9, <1>10, <1>11, <1>12, <1>13, <1>14, <1>15 DEF IInv

\* A client gets hold of a stored token; more is presentable, nothing else
\* changes.
LEMMA ReplyIInv ==
  ASSUME IInv, NEW r \in Requests, Reply(r)
  PROVE  IInv'
<1>1. UNCHANGED <<database, signed, expired, loggedOut>> /\ Return(r)
      /\ held \subseteq held' /\ held' \subseteq held \cup {req[r].new}
  BY DEF Reply, Answer
<1>2. req[r].new \in Granted
  BY RequestFacts DEF Reply, At, InStep
<1>3. req' \in [Requests -> Request] /\ req'[r] = Idle
      /\ \A s \in Requests : s # r => req'[s] = req[s]
  BY <1>1, IdleIsRequest DEF Return, IInv, TypeOK
<1>4. TypeOK'
  BY <1>1, <1>2, <1>3 DEF IInv, TypeOK, database, Idle, Reply, Undisturbed, Disturbed
<1>5. OneTokenPerJti' /\ (Granted \subseteq signed)' /\ (spent \subseteq Granted)'
      /\ HeldWasStored' /\ TableIsLedger'
  BY <1>1, <1>2 DEF IInv, OneTokenPerJti, Granted, HeldWasStored, TableIsLedger, database
<1>6. \A s \in Requests : InStep(req[s])'
  BY <1>1, <1>3 DEF IInv, InStep, Granted, database, Idle
<1>7. NoSharedNew' /\ LateIsRefused'
  BY <1>3 DEF IInv, NoSharedNew, LateIsRefused, At, Idle
<1> QED
  BY <1>4, <1>5, <1>6, <1>7 DEF IInv

LEMMA RestartIInv == IInv /\ Restart => IInv'
<1> SUFFICES ASSUME IInv, Restart PROVE IInv'
  OBVIOUS
<1>1. UNCHANGED <<refresh_tokens, granted, spent, signed, expired, held, loggedOut>>
      /\ req' = [r \in Requests |-> Idle] /\ course' = "disturbed"
  BY DEF Restart, database, Disturbed
<1>2. TypeOK'
  BY <1>1, IdleIsRequest DEF IInv, TypeOK, Idle
<1>3. OneTokenPerJti' /\ (Granted \subseteq signed)' /\ (spent \subseteq Granted)'
      /\ HeldWasStored' /\ TableIsLedger'
  BY <1>1 DEF IInv, OneTokenPerJti, Granted, HeldWasStored, TableIsLedger
<1>4. \A s \in Requests : InStep(req[s])'
  BY <1>1 DEF InStep, Idle
<1>5. NoSharedNew' /\ LateIsRefused'
  BY <1>1 DEF NoSharedNew, LateIsRefused, At, Idle
<1> QED
  BY <1>2, <1>3, <1>4, <1>5 DEF IInv

LEMMA ExpireIInv == IInv /\ (Expire \/ UNCHANGED vars) => IInv'
<1> SUFFICES ASSUME IInv, Expire \/ UNCHANGED vars PROVE IInv'
  OBVIOUS
<1>1. UNCHANGED <<refresh_tokens, granted, spent, signed, held, req, loggedOut, course>>
      /\ expired' \subseteq signed
  BY DEF Expire, vars, database, IInv, TypeOK
<1>2. \A s \in Requests : InStep(req[s])'
  BY <1>1 DEF IInv, InStep, Granted
<1> QED
  BY <1>1, <1>2 DEF IInv, TypeOK, OneTokenPerJti, Granted, HeldWasStored,
                    TableIsLedger, NoSharedNew, LateIsRefused, At

-----------------------------------------------------------------------------
\* Every step of the service, of its clients and of its environment preserves
\* the inductive invariant.
LEMMA NextIInv == IInv /\ [Next]_vars => IInv'
<1> SUFFICES ASSUME IInv, [Next]_vars PROVE IInv'
  OBVIOUS
<1>1. ASSUME NEW r \in Requests, LoginSign(r) \/ RefreshToken(r) \/ Logout(r) \/ Serve(r)
      PROVE  IInv'
  BY <1>1, LoginSignIInv, PresentIInv, GetByJTIIInv, DeleteIInv, LoadUserAndSignIInv,
     CreateIInv, FinishLoginIInv, ReplyIInv DEF Serve
<1> QED
  BY <1>1, RestartIInv, ExpireIInv DEF Next

\* The inductive invariant holds in every reachable state, however requests,
\* failed statements and restarts interleave (auth_service.go:270-334).
THEOREM Invariance == Spec => []IInv
  BY InitIInv, NextIInv, PTL DEF Spec

\* Every variable keeps its type.
THEOREM TypeCorrect == Spec => []TypeOK
<1>1. IInv => TypeOK
  BY DEF IInv
<1> QED
  BY <1>1, Invariance, PTL

\* The refresh_tokens table is the ledger: granted and not spent, under the
\* user the token was signed for.
THEOREM TableCorrect == Spec => []TableIsLedger
<1>1. IInv => TableIsLedger
  BY DEF IInv
<1> QED
  BY <1>1, Invariance, PTL

\* No client ever holds a token that was not stored.
THEOREM HeldCorrect == Spec => []HeldWasStored
<1>1. IInv => HeldWasStored
  BY DEF IInv
<1> QED
  BY <1>1, Invariance, PTL

\* A rotation that comes in after its token was spent never passes the lookup.
THEOREM LateCorrect == Spec => []LateIsRefused
<1>1. IInv => LateIsRefused
  BY DEF IInv
<1> QED
  BY <1>1, Invariance, PTL

\* An acknowledged logout takes the token out of the table for good.
THEOREM LogoutCorrect == Spec => []LogoutIsFinal
<1>1. IInv => LogoutIsFinal
  <2> SUFFICES ASSUME IInv, NEW t \in loggedOut PROVE ~Found(refresh_tokens, t.jti)
    BY DEF LogoutIsFinal, Found
  <2>1. t \in spent
    BY DEF IInv, TypeOK
  <2> QED
    BY <2>1, LateFindsNothing
<1> QED
  BY <1>1, Invariance, PTL

-----------------------------------------------------------------------------
(* The service implements SessionLedger: only a DELETE and an INSERT that   *)
(* were applied are steps of the ledger, everything else stutters.          *)

LEMMA InitLedger == Init => Ledger!Init
  BY DEF Init, Ledger!Init

\* An applied INSERT begins a session or continues one of the same user.
LEMMA CreateStep ==
  ASSUME IInv, NEW r \in Requests, Create(r)
  PROVE  [Ledger!Next]_(Ledger!ledger)
<1> DEFINE new == req[r].new
           tok == req[r].tok
<1>1. UNCHANGED spent
      /\ \/ granted' = granted \cup {[token |-> new, parent |-> tok]}
         \/ UNCHANGED granted
  BY DEF Create
<1>2. InStep(req[r]) /\ req[r] \in Request /\ req[r].pc = "store"
  BY RequestFacts DEF Create, At
<1>3. new \in signed \ Granted /\ new \in Token
  BY <1>2 DEF InStep, IInv, TypeOK
<1>4. Ledger!Fresh(new)
  BY <1>3 DEF Ledger!Fresh, IInv, OneTokenPerJti, Granted
<1>5. new \in Ledger!Token
  BY <1>3 DEF Token, Ledger!Token
<1>6. CASE UNCHANGED granted
  BY <1>1, <1>6 DEF Ledger!ledger
<1>7. CASE req[r].op = "login" /\ granted' = granted \cup {[token |-> new, parent |-> tok]}
  <2>1. tok = NoToken
    BY <1>2, <1>7 DEF InStep
  <2>2. Ledger!Begin(new)
    BY <1>1, <1>4, <1>7, <2>1 DEF Ledger!Begin
  <2> QED
    BY <1>5, <2>2 DEF Ledger!Next
<1>8. CASE req[r].op = "refresh" /\ granted' = granted \cup {[token |-> new, parent |-> tok]}
  <2>1. tok \in spent /\ new.sub = tok.sub
    BY <1>2, <1>8 DEF InStep
  <2>2. tok \in Ledger!Token
    BY <2>1 DEF IInv, TypeOK, Token, Ledger!Token
  <2>3. Ledger!Rotate(tok, new)
    BY <1>1, <1>4, <1>8, <2>1 DEF Ledger!Rotate
  <2> QED
    BY <1>5, <2>2, <2>3 DEF Ledger!Next
<1>9. req[r].op \in {"login", "refresh"}
  BY <1>2 DEF Request, InStep, Idle
<1> QED
  BY <1>1, <1>6, <1>7, <1>8, <1>9

\* An applied DELETE revokes the token, or repeats that for a revoked one.
LEMMA DeleteStep ==
  ASSUME IInv, NEW r \in Requests, Delete(r)
  PROVE  [Ledger!Next]_(Ledger!ledger)
<1> DEFINE t == req[r].tok
<1>1. UNCHANGED granted /\ (spent' = spent \cup {t} \/ UNCHANGED spent)
  BY DEF Delete
<1>2. InStep(req[r]) /\ req[r] \in Request /\ req[r].pc = "delete"
  BY RequestFacts DEF Delete, At
<1>3. t \in held
  BY <1>2 DEF InStep, Request, Idle
<1>4. t \in Granted /\ t \in Ledger!Token
  BY <1>3 DEF IInv, TypeOK, HeldWasStored, Granted, Token, Ledger!Token
<1>5. CASE t \in spent \/ UNCHANGED spent
  BY <1>1, <1>5 DEF Ledger!ledger
<1>6. CASE t \notin spent /\ spent' = spent \cup {t}
  <2>1. Ledger!Revoke(t)
    BY <1>1, <1>4, <1>6 DEF Ledger!Revoke, Granted
  <2> QED
    BY <1>4, <2>1 DEF Ledger!Next
<1> QED
  BY <1>1, <1>5, <1>6

LEMMA NextLedger == IInv /\ [Next]_vars => [Ledger!Next]_(Ledger!ledger)
<1> SUFFICES ASSUME IInv, [Next]_vars PROVE [Ledger!Next]_(Ledger!ledger)
  OBVIOUS
<1>1. ASSUME NEW r \in Requests, Serve(r)
      PROVE  [Ledger!Next]_(Ledger!ledger)
  <2>1. CASE GetByJTI(r) \/ LoadUserAndSign(r) \/ FinishLogin(r) \/ Reply(r)
    BY <2>1 DEF GetByJTI, LoadUserAndSign, FinishLogin, Reply, database, Ledger!ledger
  <2> QED
    BY <1>1, <2>1, CreateStep, DeleteStep DEF Serve
<1>2. ASSUME NEW r \in Requests, LoginSign(r) \/ RefreshToken(r) \/ Logout(r)
      PROVE  UNCHANGED Ledger!ledger
  BY <1>2 DEF LoginSign, RefreshToken, Logout, Present, database, Ledger!ledger
<1>3. CASE Restart \/ Expire \/ UNCHANGED vars
  BY <1>3 DEF Restart, Expire, vars, database, Ledger!ledger
<1> QED
  BY <1>1, <1>2, <1>3 DEF Next

\* The refresh-token service implements the ledger of sessions.
THEOREM Implementation == Spec => ImplementsLedger
<1>1. Spec => []IInv
  BY Invariance
<1> QED
  BY <1>1, InitLedger, NextLedger, PTL DEF Spec, ImplementsLedger, Ledger!Spec

-----------------------------------------------------------------------------
(***************************************************************************)
(* A token forks only by overlap: the counting argument for any finite     *)
(* number of requests.  When a token is spent, at most all requests are    *)
(* rotating it; from then on each step takes one away, and at most one     *)
(* successor is added for it.                                              *)
(***************************************************************************)

LEMMA RotatingIsFinite ==
  ASSUME NEW t
  PROVE  /\ IsFiniteSet(Rotating(t))
         /\ Cardinality(Rotating(t)) \in Nat /\ Cardinality(Requests) \in Nat
         /\ Cardinality(Rotating(t)) <= Cardinality(Requests)
<1>1. Rotating(t) \subseteq Requests
  BY DEF Rotating
<1> QED
  BY <1>1, RequestsAssumption, FS_Subset, FS_CardinalityType

LEMMA InitForkInv == Init => ForkInv
  BY DEF Init, ForkInv, Successors

\* A step that grants and spends nothing keeps the count, if no request begins
\* to rotate a token that is spent.
LEMMA QuietFork ==
  ASSUME ForkInv, UNCHANGED <<granted, spent>>,
         \A t \in spent : Rotating(t)' \subseteq Rotating(t)
  PROVE  ForkInv'
<1> SUFFICES ASSUME NEW t \in Token
             PROVE  /\ t \notin spent => Successors(t)' = {}
                    /\ t \in spent =>
                         /\ IsFiniteSet(Successors(t)')
                         /\ Cardinality(Successors(t)') + Cardinality(Rotating(t)')
                              <= Cardinality(Requests)
  BY DEF ForkInv
<1>1. Successors(t)' = Successors(t)
  BY DEF Successors
<1>2. CASE t \notin spent
  BY <1>1, <1>2 DEF ForkInv
<1>3. CASE t \in spent
  <2>1. IsFiniteSet(Rotating(t)') /\ Cardinality(Rotating(t)') <= Cardinality(Rotating(t))
    BY <1>3, RotatingIsFinite, FS_Subset
  <2>2. /\ IsFiniteSet(Successors(t))
        /\ Cardinality(Successors(t)) + Cardinality(Rotating(t)) <= Cardinality(Requests)
    BY <1>3 DEF ForkInv
  <2>3. /\ Cardinality(Successors(t)) \in Nat /\ Cardinality(Rotating(t)) \in Nat
        /\ Cardinality(Rotating(t)') \in Nat /\ Cardinality(Requests) \in Nat
    BY <2>1, <2>2, RotatingIsFinite, FS_CardinalityType
  <2> QED
    BY <1>1, <1>3, <2>1, <2>2, <2>3
<1> QED
  BY <1>2, <1>3

LEMMA GetByJTIFork ==
  ASSUME IInv, ForkInv, NEW r \in Requests, GetByJTI(r)
  PROVE  ForkInv'
<1>1. UNCHANGED <<granted, spent>>
  BY DEF GetByJTI, database
<1>2. ASSUME NEW t \in spent
      PROVE  Rotating(t)' \subseteq Rotating(t)
  <2>1. CASE Return(r)
    BY <2>1 DEF Return, Rotating, IInv, TypeOK, Idle
  <2>2. CASE Found(refresh_tokens, req[r].tok.jti) /\ Goto(r, "delete")
    <3>1. req[r].tok # t
      BY <2>2, LateFindsNothing
    <3> QED
      BY <2>2, <3>1 DEF Goto, Rotating, IInv, TypeOK, Request
  <2> QED
    BY <2>1, <2>2 DEF GetByJTI
<1> QED
  BY <1>1, <1>2, QuietFork

\* The first DELETE finds no successor yet; a later one changes nothing.
LEMMA DeleteFork ==
  ASSUME IInv, ForkInv, NEW r \in Requests, Delete(r)
  PROVE  ForkInv'
<1> DEFINE u == req[r].tok
<1>1. PICK o \in Outcomes :
        /\ spent' = spent \/ spent' = spent \cup {u}
        /\ Continue(r, AfterDelete(req[r].op, o))
  BY DEF Delete
<1>2. granted' = granted
  BY DEF Delete
<1>3. req[r] \in Request /\ InStep(req[r]) /\ req[r].pc = "delete"
  BY RequestFacts DEF Delete, At
<1>4. \A t \in Token : Rotating(t)' \subseteq Rotating(t)
  <2>1. PICK q \in Request :
          /\ req' = [req EXCEPT ![r] = q]
          /\ q = IF AfterDelete(req[r].op, o) = "idle" THEN Idle
                 ELSE [req[r] EXCEPT !.pc = AfterDelete(req[r].op, o)]
    BY <1>1, ContinueMoves DEF AfterDelete, Steps
  <2>2. q.op = "refresh" => req[r].op = "refresh" /\ q.tok = req[r].tok
    BY <1>3, <2>1 DEF Idle, Request
  <2>3. req'[r] = q /\ \A s \in Requests : s # r => req'[s] = req[s]
    BY <2>1 DEF IInv, TypeOK
  <2> QED
    BY <1>3, <2>2, <2>3 DEF Rotating
<1>5. CASE spent' = spent
  BY <1>2, <1>4, <1>5, QuietFork DEF IInv, TypeOK
<1>6. CASE spent' = spent \cup {u} /\ u \notin spent
  <2> SUFFICES ASSUME NEW t \in Token
               PROVE  /\ t \notin spent' => Successors(t)' = {}
                      /\ t \in spent' =>
                           /\ IsFiniteSet(Successors(t)')
                           /\ Cardinality(Successors(t)') + Cardinality(Rotating(t)')
                                <= Cardinality(Requests)
    BY DEF ForkInv
  <2>1. Successors(t)' = Successors(t)
    BY <1>2 DEF Successors
  <2>2. IsFiniteSet(Rotating(t)) /\ Rotating(t)' \subseteq Rotating(t)
    BY <1>4, RotatingIsFinite
  <2>3. /\ Cardinality(Rotating(t)') <= Cardinality(Rotating(t))
        /\ Cardinality(Rotating(t)') \in Nat /\ Cardinality(Rotating(t)) \in Nat
        /\ Cardinality(Requests) \in Nat
        /\ Cardinality(Rotating(t)) <= Cardinality(Requests)
    BY <2>2, RotatingIsFinite, FS_Subset, FS_CardinalityType
  <2>4. CASE t \notin spent
    <3>1. Successors(t) = {}
      BY <2>4 DEF ForkInv
    <3>2. IsFiniteSet(Successors(t)) /\ Cardinality(Successors(t)) = 0
      BY <3>1, FS_EmptySet
    <3> QED
      BY <2>1, <2>3, <3>1, <3>2
  <2>5. CASE t \in spent
    <3>1. /\ IsFiniteSet(Successors(t))
          /\ Cardinality(Successors(t)) + Cardinality(Rotating(t)) <= Cardinality(Requests)
      BY <2>5 DEF ForkInv
    <3>2. Cardinality(Successors(t)) \in Nat
      BY <3>1, FS_CardinalityType
    <3> QED
      BY <1>6, <2>1, <2>3, <2>5, <3>1, <3>2
  <2> QED
    BY <2>4, <2>5
<1>7. CASE spent' = spent \cup {u} /\ u \in spent
  BY <1>5, <1>7
<1> QED
  BY <1>1, <1>5, <1>6, <1>7

\* A successor takes the place of the request that stored it.
LEMMA CreateFork ==
  ASSUME IInv, ForkInv, NEW r \in Requests, Create(r)
  PROVE  ForkInv'
<1> DEFINE g == [token |-> req[r].new, parent |-> req[r].tok]
<1>1. PICK o \in Outcomes :
        /\ granted' = granted \/ granted' = granted \cup {g}
        /\ Continue(r, AfterCreate(req[r].op, o))
  BY DEF Create
<1>2. spent' = spent
  BY DEF Create
<1>3. req[r] \in Request /\ InStep(req[r]) /\ req[r].pc = "store"
      /\ req[r].op \in {"login", "refresh"}
  BY RequestFacts DEF Create, At, InStep, Request, Idle
<1>4. \A t \in Token : Rotating(t)' \subseteq Rotating(t) \ {r}
  <2>1. PICK q \in Request :
          /\ req' = [req EXCEPT ![r] = q]
          /\ q = IF AfterCreate(req[r].op, o) = "idle" THEN Idle
                 ELSE [req[r] EXCEPT !.pc = AfterCreate(req[r].op, o)]
    BY <1>1, ContinueMoves DEF AfterCreate, Steps
  <2>2. q.pc \notin {"delete", "load", "store"}
    BY <1>3, <2>1 DEF AfterCreate, Idle, Request
  <2>3. req'[r] = q /\ \A s \in Requests : s # r => req'[s] = req[s]
    BY <2>1 DEF IInv, TypeOK
  <2> QED
    BY <2>2, <2>3 DEF Rotating
<1>5. CASE granted' = granted
  BY <1>2, <1>4, <1>5, QuietFork DEF IInv, TypeOK
<1>6. CASE granted' = granted \cup {g}
  <2> SUFFICES ASSUME NEW t \in Token
               PROVE  /\ t \notin spent' => Successors(t)' = {}
                      /\ t \in spent' =>
                           /\ IsFiniteSet(Successors(t)')
                           /\ Cardinality(Successors(t)') + Cardinality(Rotating(t)')
                                <= Cardinality(Requests)
    BY DEF ForkInv
  <2>1. /\ Cardinality(Rotating(t)) \in Nat /\ Cardinality(Requests) \in Nat
        /\ IsFiniteSet(Rotating(t))
    BY RotatingIsFinite
  <2>2. CASE req[r].tok # t
    <3>1. Successors(t)' = Successors(t)
      BY <1>6, <2>2 DEF Successors
    <3>2. Rotating(t)' \subseteq Rotating(t)
      BY <1>4
    <3>3. /\ Cardinality(Rotating(t)') <= Cardinality(Rotating(t))
          /\ Cardinality(Rotating(t)') \in Nat
      BY <2>1, <3>2, FS_Subset, FS_CardinalityType
    <3>4. t \in spent => /\ IsFiniteSet(Successors(t))
                         /\ Cardinality(Successors(t)) \in Nat
                         /\ Cardinality(Successors(t)) + Cardinality(Rotating(t))
                              <= Cardinality(Requests)
      BY FS_CardinalityType DEF ForkInv
    <3>5. t \notin spent => Successors(t) = {}
      BY DEF ForkInv
    <3> QED
      BY <1>2, <2>1, <3>1, <3>3, <3>4, <3>5
  <2>3. CASE req[r].tok = t
    <3>1. req[r].op = "refresh" /\ t \in spent /\ r \in Rotating(t)
      BY <1>3, <2>3, NoTokenAssumption DEF InStep, Rotating
    <3>2. /\ IsFiniteSet(Successors(t))
          /\ Cardinality(Successors(t)) + Cardinality(Rotating(t)) <= Cardinality(Requests)
      BY <3>1 DEF ForkInv
    <3>3. Successors(t)' = Successors(t) \cup {g}
      BY <1>6, <2>3 DEF Successors
    <3>4. /\ IsFiniteSet(Successors(t)')
          /\ Cardinality(Successors(t)') <= Cardinality(Successors(t)) + 1
          /\ Cardinality(Successors(t)) \in Nat /\ Cardinality(Successors(t)') \in Nat
      <4>1. IsFiniteSet(Successors(t) \cup {g})
        BY <3>2, FS_AddElement
      <4>2. Cardinality(Successors(t) \cup {g}) \in {Cardinality(Successors(t)), Cardinality(Successors(t)) + 1}
        BY <3>2, FS_AddElement
      <4>3. Cardinality(Successors(t)) \in Nat
        BY <3>2, FS_CardinalityType
      <4> QED
        BY <3>3, <4>1, <4>2, <4>3
    <3>5. /\ IsFiniteSet(Rotating(t) \ {r})
          /\ Cardinality(Rotating(t) \ {r}) = Cardinality(Rotating(t)) - 1
      BY <2>1, <3>1, FS_RemoveElement
    <3>6. /\ Cardinality(Rotating(t)') <= Cardinality(Rotating(t) \ {r})
          /\ Cardinality(Rotating(t)') \in Nat
      BY <1>4, <3>5, FS_Subset, FS_CardinalityType
    <3> QED
      BY <1>2, <2>1, <3>1, <3>2, <3>4, <3>5, <3>6
  <2> QED
    BY <2>2, <2>3
<1> QED
  BY <1>1, <1>5, <1>6

\* A request that signs keeps the token it was presented.
LEMMA SignKeepsTok ==
  ASSUME IInv, NEW r \in Requests, NEW t, NEW op, NEW late, Sign(r, t, op, late)
  PROVE  req'[r].tok = req[r].tok
<1> DEFINE q == [req[r] EXCEPT !.pc = "store", !.op = op, !.new = t, !.late = late]
<1>1. req[r] \in Request
  BY RequestFacts
<1>2. req' = [req EXCEPT ![r] = q]
  BY DEF Sign, IInv, TypeOK
<1>3. req'[r] = q
  BY <1>2 DEF IInv, TypeOK
<1>4. q.tok = req[r].tok
  BY <1>1 DEF Request
<1> QED
  BY <1>3, <1>4

\* All other steps grant nothing, spend nothing and start no rotation past
\* its lookup.
LEMMA OtherFork ==
  ASSUME IInv, ForkInv, NEW r \in Requests,
         LoginSign(r) \/ RefreshToken(r) \/ Logout(r) \/ LoadUserAndSign(r)
           \/ FinishLogin(r) \/ Reply(r)
  PROVE  ForkInv'
<1>1. UNCHANGED <<granted, spent>>
  BY DEF LoginSign, RefreshToken, Logout, Present, LoadUserAndSign, FinishLogin, Reply, database
<1>2. \A s \in Requests : s # r => req'[s] = req[s]
  BY DEF LoginSign, RefreshToken, Logout, Present, LoadUserAndSign, FinishLogin, Reply,
         Sign, Return, Goto, IInv, TypeOK
<1>3. \A t \in Token : r \in Rotating(t)' => r \in Rotating(t)
  <2>1. CASE LoginSign(r)
    <3>1. req[r] = Idle
      BY <2>1, RequestFacts DEF LoginSign, At, InStep
    <3>2. req'[r].tok = NoToken
      <4>1. PICK j \in Jtis, u \in Users : Sign(r, [jti |-> j, sub |-> u], "login", FALSE)
        BY <2>1 DEF LoginSign
      <4>2. req'[r].tok = req[r].tok
        BY <4>1, SignKeepsTok
      <4> QED
        BY <3>1, <4>2 DEF Idle
    <3> QED
      BY <3>2, NoTokenAssumption DEF Rotating
  <2>2. CASE RefreshToken(r) \/ Logout(r)
    BY <2>2 DEF RefreshToken, Logout, Present, Rotating, IInv, TypeOK
  <2>3. CASE LoadUserAndSign(r)
    <3>1. req[r] \in Request /\ InStep(req[r]) /\ req[r].pc = "load"
      BY <2>3, RequestFacts DEF LoadUserAndSign, At
    <3>2. req[r].op = "refresh"
      BY <3>1 DEF Request, InStep, Idle
    <3>3. req'[r] = Idle \/ req'[r].tok = req[r].tok
      <4>1. CASE Return(r)
        BY <4>1 DEF Return, IInv, TypeOK
      <4> QED
        BY <2>3, <4>1, SignKeepsTok DEF LoadUserAndSign
    <3> QED
      BY <3>1, <3>2, <3>3 DEF Rotating, Idle
  <2>4. CASE FinishLogin(r) \/ Reply(r)
    BY <2>4 DEF FinishLogin, Reply, Goto, Return, Rotating, IInv, TypeOK, Request, Idle
  <2> QED
    BY <2>1, <2>2, <2>3, <2>4
<1>4. \A t \in Token : Rotating(t)' \subseteq Rotating(t)
  BY <1>2, <1>3 DEF Rotating
<1> QED
  BY <1>1, <1>4, QuietFork DEF IInv, TypeOK

LEMMA EnvironmentFork ==
  ASSUME IInv, ForkInv, Restart \/ Expire \/ UNCHANGED vars
  PROVE  ForkInv'
<1>1. UNCHANGED <<granted, spent>>
  BY DEF Restart, Expire, vars, database
<1>2. \A t : Rotating(t)' \subseteq Rotating(t)
  BY DEF Restart, Expire, vars, Rotating, Idle
<1> QED
  BY <1>1, <1>2, QuietFork

LEMMA NextForkInv == IInv /\ ForkInv /\ [Next]_vars => ForkInv'
  BY GetByJTIFork, DeleteFork, CreateFork, OtherFork, EnvironmentFork DEF Next, Serve

\* A spent token never has more successors, and rotations on their way to one,
\* than there are requests at the same time.
THEOREM ForkInvariance == Spec => []ForkInv
  BY Invariance, InitForkInv, NextForkInv, PTL DEF Spec

\* A session forks only by overlapping requests (auth_service.go:291-319): no
\* token is ever replaced more often than the server handles requests at once.
THEOREM ForksCorrect == Spec => []ForksOnlyByOverlap
<1>1. IInv /\ ForkInv => ForksOnlyByOverlap
  <2> SUFFICES ASSUME IInv, ForkInv, NEW t \in spent
               PROVE  Cardinality(Successors(t)) <= Cardinality(Requests)
    BY DEF ForksOnlyByOverlap
  <2>1. /\ IsFiniteSet(Successors(t))
        /\ Cardinality(Successors(t)) + Cardinality(Rotating(t)) <= Cardinality(Requests)
    BY DEF ForkInv, IInv, TypeOK
  <2>2. /\ Cardinality(Successors(t)) \in Nat /\ Cardinality(Rotating(t)) \in Nat
        /\ Cardinality(Requests) \in Nat
    BY <2>1, RotatingIsFinite, FS_CardinalityType
  <2> QED
    BY <2>1, <2>2
<1> QED
  BY <1>1, Invariance, ForkInvariance, PTL

-----------------------------------------------------------------------------
(***************************************************************************)
(* As long as no statement fails, no answer gets lost and the process      *)
(* lives, nobody loses a session and no session is stored for nobody.      *)
(***************************************************************************)

LEMMA InitCalmInv == Init => CalmInv
  BY DEF Init, CalmInv, At, Idle

\* What a step must leave alone to keep every holder's prospects.
Kept(r) ==
  /\ req[r].pc \in {"load", "store", "reply"} =>
       req'[r].tok = req[r].tok /\ req'[r].pc \in {"load", "store", "reply"}
  /\ req[r].pc \in {"touch", "reply"} =>
       req'[r].new = req[r].new /\ req'[r].pc \in {"touch", "reply"}

LEMMA CalmKept ==
  ASSUME CalmInv, granted \subseteq granted', held \subseteq held',
         loggedOut \subseteq loggedOut', course' = "smooth" => course = "smooth",
         course = "smooth" /\ course' = "smooth" => \A r \in Requests : Kept(r)
  PROVE  /\ course' = "smooth" => \A t \in spent : Continued(t)'
         /\ course' = "smooth" => \A row \in refresh_tokens : Owned(row)'
<1> SUFFICES ASSUME course' = "smooth"
             PROVE  /\ \A t \in spent : Continued(t)'
                    /\ \A row \in refresh_tokens : Owned(row)'
  OBVIOUS
<1>1. course = "smooth" /\ \A r \in Requests : Kept(r)
  OBVIOUS
<1>2. ASSUME NEW t \in spent PROVE Continued(t)'
  <2>1. Continued(t)
    BY <1>1, <1>2 DEF CalmInv
  <2>2. CASE t \in loggedOut
    BY <2>2 DEF Continued
  <2>3. CASE \E g \in Successors(t) : g.token \in held
    BY <2>3 DEF Continued, Successors
  <2>4. CASE \E r \in Requests : req[r].tok = t /\ req[r].pc \in {"load", "store", "reply"}
    BY <1>1, <2>4 DEF Continued, Kept
  <2> QED
    BY <2>1, <2>2, <2>3, <2>4 DEF Continued
<1>3. ASSUME NEW row \in refresh_tokens PROVE Owned(row)'
  BY <1>1, <1>3 DEF CalmInv, Owned, Kept
<1> QED
  BY <1>2, <1>3

\* A request that is not at work on a new token has none to lose.
LEMMA IdleKept ==
  ASSUME NEW r \in Requests, req[r].pc \in {"idle", "lookup", "delete"}
  PROVE  Kept(r)
  BY DEF Kept

LEMMA SmoothBefore == ASSUME Undisturbed \/ Disturbed PROVE course' = "smooth" => course = "smooth"
  BY DEF Undisturbed, Disturbed

\* Steps that leave the table and the answers alone.
LEMMA QuietCalm ==
  ASSUME IInv, CalmInv, NEW r \in Requests,
         UNCHANGED <<database, held, loggedOut>>, Undisturbed \/ Disturbed,
         \A s \in Requests : s # r => req'[s] = req[s],
         course' = "smooth" => Kept(r),
         req'[r].pc = "reply" => req'[r].op # "refresh"
  PROVE  CalmInv'
<1>1. UNCHANGED <<refresh_tokens, granted, spent, held, loggedOut>>
  BY DEF database
<1>2. course' = "smooth" => \A s \in Requests : Kept(s)
  BY DEF Kept
<1>3. (spent \subseteq held)'
  BY <1>1 DEF CalmInv
<1>4. (\A s \in Requests : req[s].op = "refresh" /\ At(s, "reply") =>
         [token |-> req[s].new, parent |-> req[s].tok] \in granted)'
  BY <1>1 DEF CalmInv, At
<1>5. /\ course' = "smooth" => \A t \in spent : Continued(t)'
      /\ course' = "smooth" => \A row \in refresh_tokens : Owned(row)'
  BY <1>1, <1>2, SmoothBefore, CalmKept
<1> QED
  BY <1>1, <1>3, <1>4, <1>5 DEF CalmInv

\* What a request's step does to req.
LEMMA Others ==
  ASSUME IInv, NEW r \in Requests, NEW q, req' = [req EXCEPT ![r] = q]
  PROVE  req'[r] = q /\ \A s \in Requests : s # r => req'[s] = req[s]
  BY DEF IInv, TypeOK

LEMMA LoginSignCalm ==
  ASSUME IInv, CalmInv, NEW r \in Requests, LoginSign(r)
  PROVE  CalmInv'
<1>1. UNCHANGED <<database, held, loggedOut>> /\ Undisturbed
  BY DEF LoginSign, Undisturbed
<1>2. Kept(r)
  BY IdleKept DEF LoginSign, At
<1>3. PICK j \in Jtis, u \in Users : Sign(r, [jti |-> j, sub |-> u], "login", FALSE)
  BY DEF LoginSign
<1>4. req'[r].pc = "store" /\ \A s \in Requests : s # r => req'[s] = req[s]
  <2>1. req' = [req EXCEPT ![r] = [req[r] EXCEPT !.pc = "store", !.op = "login",
                                     !.new = [jti |-> j, sub |-> u], !.late = FALSE]]
    BY <1>3 DEF Sign, IInv, TypeOK
  <2>2. /\ req'[r] = [req[r] EXCEPT !.pc = "store", !.op = "login",
                             !.new = [jti |-> j, sub |-> u], !.late = FALSE]
        /\ \A s \in Requests : s # r => req'[s] = req[s]
    BY <2>1, Others
  <2>3. req[r] \in Request
    BY RequestFacts
  <2> QED
    BY <2>2, <2>3 DEF Request
<1> QED
  BY <1>1, <1>2, <1>4, QuietCalm

LEMMA PresentCalm ==
  ASSUME IInv, CalmInv, NEW r \in Requests, RefreshToken(r) \/ Logout(r)
  PROVE  CalmInv'
<1>1. PICK op \in {"refresh", "logout"}, pc \in {"lookup", "delete"} : Present(r, op, pc)
  BY DEF RefreshToken, Logout
<1>2. UNCHANGED <<database, held, loggedOut>> /\ Undisturbed
  BY <1>1 DEF Present, Undisturbed
<1>3. Kept(r)
  BY <1>1, IdleKept DEF Present, At
<1>4. req'[r].pc = pc /\ \A s \in Requests : s # r => req'[s] = req[s]
  BY <1>1 DEF Present, IInv, TypeOK
<1> QED
  BY <1>2, <1>3, <1>4, QuietCalm

LEMMA GetByJTICalm ==
  ASSUME IInv, CalmInv, NEW r \in Requests, GetByJTI(r)
  PROVE  CalmInv'
<1>1. UNCHANGED <<database, held, loggedOut>> /\ (Undisturbed \/ Disturbed)
  BY DEF GetByJTI
<1>2. Kept(r)
  BY IdleKept DEF GetByJTI, At
<1>3. req'[r].pc # "reply" /\ \A s \in Requests : s # r => req'[s] = req[s]
  BY DEF GetByJTI, Return, Goto, Idle, IInv, TypeOK, Request
<1> QED
  BY <1>1, <1>2, <1>3, QuietCalm

LEMMA LoadUserAndSignCalm ==
  ASSUME IInv, CalmInv, NEW r \in Requests, LoadUserAndSign(r)
  PROVE  CalmInv'
<1>1. UNCHANGED <<database, held, loggedOut>> /\ (Undisturbed \/ Disturbed)
  BY DEF LoadUserAndSign
<1>2. req[r] \in Request /\ InStep(req[r]) /\ req[r].pc = "load"
  BY RequestFacts DEF LoadUserAndSign, At
<1>3. CASE Return(r) /\ Disturbed
  <2>1. course' # "smooth" /\ req'[r] = Idle /\ \A s \in Requests : s # r => req'[s] = req[s]
    BY <1>3, Others DEF Return, Disturbed
  <2> QED
    BY <1>1, <2>1, QuietCalm DEF Idle
<1>4. ASSUME NEW t, NEW late, Sign(r, t, "refresh", late)
      PROVE  CalmInv'
  <2>1. req' = [req EXCEPT ![r] = [req[r] EXCEPT !.pc = "store", !.op = "refresh",
                                     !.new = t, !.late = late]]
    BY <1>4 DEF Sign, IInv, TypeOK
  <2>2. /\ req'[r].pc = "store" /\ req'[r].tok = req[r].tok
        /\ \A s \in Requests : s # r => req'[s] = req[s]
    <3>1. /\ req'[r] = [req[r] EXCEPT !.pc = "store", !.op = "refresh",
                               !.new = t, !.late = late]
          /\ \A s \in Requests : s # r => req'[s] = req[s]
      BY <2>1, Others
    <3> QED
      BY <1>2, <3>1 DEF Request
  <2>3. Kept(r)
    BY <1>2, <2>2 DEF Kept
  <2> QED
    BY <1>1, <2>2, <2>3, QuietCalm
<1> QED
  BY <1>3, <1>4 DEF LoadUserAndSign

LEMMA FinishLoginCalm ==
  ASSUME IInv, CalmInv, NEW r \in Requests, FinishLogin(r)
  PROVE  CalmInv'
<1>1. UNCHANGED <<database, held, loggedOut>> /\ (Undisturbed \/ Disturbed)
  BY DEF FinishLogin
<1>2. req[r] \in Request /\ InStep(req[r]) /\ req[r].pc = "touch"
  BY RequestFacts DEF FinishLogin, At
<1>3. CASE Return(r) /\ Disturbed
  <2>1. course' # "smooth" /\ req'[r] = Idle /\ \A s \in Requests : s # r => req'[s] = req[s]
    BY <1>3, Others DEF Return, Disturbed
  <2> QED
    BY <1>1, <2>1, QuietCalm DEF Idle
<1>4. CASE Goto(r, "reply")
  <2>1. req' = [req EXCEPT ![r] = [req[r] EXCEPT !.pc = "reply"]]
    BY <1>4 DEF Goto, IInv, TypeOK
  <2>2. /\ req'[r].pc = "reply" /\ req'[r].new = req[r].new /\ req'[r].op = req[r].op
        /\ \A s \in Requests : s # r => req'[s] = req[s]
    <3>1. /\ req'[r] = [req[r] EXCEPT !.pc = "reply"]
          /\ \A s \in Requests : s # r => req'[s] = req[s]
      BY <2>1, Others
    <3> QED
      BY <1>2, <3>1 DEF Request
  <2>3. req'[r].op # "refresh"
    BY <1>2, <2>2 DEF InStep
  <2>4. Kept(r)
    BY <1>2, <2>2 DEF Kept
  <2> QED
    BY <1>1, <2>2, <2>3, <2>4, QuietCalm
<1> QED
  BY <1>3, <1>4 DEF FinishLogin

\* A rotation goes on towards a successor; a logout is acknowledged.
LEMMA DeleteCalm ==
  ASSUME IInv, CalmInv, NEW r \in Requests, Delete(r)
  PROVE  CalmInv'
<1>0. PICK t : t = req[r].tok
  OBVIOUS
<1>1. PICK o \in Outcomes :
        /\ \/ refresh_tokens' = DeleteRow(refresh_tokens, t.jti) /\ spent' = spent \cup {t}
           \/ UNCHANGED <<refresh_tokens, spent>>
        /\ loggedOut' = IF req[r].op = "logout" /\ ~Err(o)
                          THEN loggedOut \cup {t} ELSE loggedOut
        /\ Continue(r, AfterDelete(req[r].op, o))
        /\ IF Err(o) THEN Disturbed ELSE Undisturbed
  BY <1>0 DEF Delete
<1>2. granted' = granted /\ held' = held
  BY DEF Delete
<1>3. req[r] \in Request /\ InStep(req[r]) /\ req[r].pc = "delete"
  BY RequestFacts DEF Delete, At
<1>4. req[r].op \in {"refresh", "logout"} /\ t \in held
  BY <1>0, <1>3 DEF Request, InStep, Idle
<1>5. PICK q \in Request :
        /\ req' = [req EXCEPT ![r] = q]
        /\ q = IF AfterDelete(req[r].op, o) = "idle" THEN Idle
               ELSE [req[r] EXCEPT !.pc = AfterDelete(req[r].op, o)]
  BY <1>1, ContinueMoves DEF AfterDelete, Steps
<1>6. req'[r] = q /\ \A s \in Requests : s # r => req'[s] = req[s]
  BY <1>5, Others
<1>7. q.pc # "reply"
  BY <1>3, <1>5 DEF AfterDelete, Idle, Request
<1>8. spent' \subseteq spent \cup {t} /\ refresh_tokens' \subseteq refresh_tokens
      /\ loggedOut \subseteq loggedOut'
  BY <1>1 DEF DeleteRow
<1>9. \A s \in Requests : Kept(s)
  BY <1>3, <1>6 DEF Kept
<1>10. course' = "smooth" => Continued(t)'
  <2> SUFFICES ASSUME course' = "smooth" PROVE Continued(t)'
    OBVIOUS
  <2>1. ~Err(o)
    BY <1>1 DEF Disturbed
  <2>2. CASE req[r].op = "logout"
    BY <1>1, <2>1, <2>2 DEF Continued
  <2>3. CASE req[r].op = "refresh"
    <3>1. q = [req[r] EXCEPT !.pc = "load"]
      BY <1>5, <2>1, <2>3 DEF AfterDelete
    <3>2. q.pc = "load" /\ q.tok = t
      BY <1>0, <1>3, <3>1 DEF Request
    <3> QED
      BY <1>6, <3>2 DEF Continued
  <2> QED
    BY <1>4, <2>2, <2>3
<1>11. /\ course' = "smooth" => \A u \in spent : Continued(u)'
       /\ course' = "smooth" => \A row \in refresh_tokens : Owned(row)'
  BY <1>1, <1>2, <1>8, <1>9, SmoothBefore, CalmKept
<1>12. (\A s \in Requests : req[s].op = "refresh" /\ At(s, "reply") =>
          [token |-> req[s].new, parent |-> req[s].tok] \in granted)'
  BY <1>2, <1>6, <1>7 DEF CalmInv, At
<1>13. (spent \subseteq held)'
  BY <1>2, <1>4, <1>8 DEF CalmInv
<1> QED
  BY <1>8, <1>10, <1>11, <1>12, <1>13 DEF CalmInv

\* The row of a new token belongs to the request that answers with it.
LEMMA CreateCalm ==
  ASSUME IInv, CalmInv, NEW r \in Requests, Create(r)
  PROVE  CalmInv'
<1>0. PICK new : new = req[r].new
  OBVIOUS
<1> DEFINE g == [token |-> new, parent |-> req[r].tok]
<1>1. PICK o \in Outcomes :
        /\ IF Applied(o)
             THEN /\ refresh_tokens' = InsertRow(refresh_tokens, new)
                  /\ granted' = granted \cup {g}
             ELSE UNCHANGED <<refresh_tokens, granted>>
        /\ Continue(r, AfterCreate(req[r].op, o))
        /\ IF Err(o) THEN Disturbed ELSE Undisturbed
  BY <1>0 DEF Create
<1>2. held' = held /\ spent' = spent /\ loggedOut' = loggedOut /\ granted \subseteq granted'
  BY <1>1 DEF Create
<1>3. req[r] \in Request /\ InStep(req[r]) /\ req[r].pc = "store"
      /\ req[r].op \in {"login", "refresh"}
  BY RequestFacts DEF Create, At, InStep, Request, Idle
<1>4. PICK q \in Request :
        /\ req' = [req EXCEPT ![r] = q]
        /\ q = IF AfterCreate(req[r].op, o) = "idle" THEN Idle
               ELSE [req[r] EXCEPT !.pc = AfterCreate(req[r].op, o)]
  BY <1>1, ContinueMoves DEF AfterCreate, Steps
<1>5. req'[r] = q /\ \A s \in Requests : s # r => req'[s] = req[s]
  BY <1>4, Others
<1>6. ~Err(o) =>
        /\ g \in granted' /\ q.tok = req[r].tok /\ q.new = new /\ q.op = req[r].op
        /\ q.pc = IF req[r].op = "login" THEN "touch" ELSE "reply"
        /\ refresh_tokens' = InsertRow(refresh_tokens, new)
  <2> SUFFICES ASSUME ~Err(o)
               PROVE  /\ g \in granted' /\ q.tok = req[r].tok /\ q.new = new
                      /\ q.op = req[r].op
                      /\ q.pc = IF req[r].op = "login" THEN "touch" ELSE "reply"
                      /\ refresh_tokens' = InsertRow(refresh_tokens, new)
    OBVIOUS
  <2>1. g \in granted' /\ refresh_tokens' = InsertRow(refresh_tokens, new)
    BY <1>1 DEF Applied, Err
  <2>2. q = [req[r] EXCEPT !.pc = IF req[r].op = "login" THEN "touch" ELSE "reply"]
    BY <1>4 DEF AfterCreate
  <2>3. q.tok = req[r].tok /\ q.new = new /\ q.op = req[r].op
        /\ q.pc = IF req[r].op = "login" THEN "touch" ELSE "reply"
    BY <1>0, <1>3, <2>2 DEF Request
  <2> QED
    BY <2>1, <2>3
<1>7. Err(o) => q = Idle
  BY <1>4 DEF AfterCreate
<1>8. course' = "smooth" => course = "smooth" /\ ~Err(o)
  BY <1>1 DEF Undisturbed, Disturbed
<1>9. (\A s \in Requests : req[s].op = "refresh" /\ At(s, "reply") =>
         [token |-> req[s].new, parent |-> req[s].tok] \in granted)'
  <2> SUFFICES ASSUME NEW s \in Requests, req'[s].op = "refresh", req'[s].pc = "reply"
               PROVE  [token |-> req'[s].new, parent |-> req'[s].tok] \in granted'
    BY DEF At
  <2>1. CASE s # r
    BY <1>2, <1>5, <2>1 DEF CalmInv, At
  <2>2. CASE s = r
    <3>1. ~Err(o)
      BY <1>5, <1>7, <2>2 DEF Idle
    <3> QED
      BY <1>5, <1>6, <2>2, <3>1
  <2> QED
    BY <2>1, <2>2
<1>10. course' = "smooth" =>
         /\ \A t \in spent' : Continued(t)'
         /\ \A row \in refresh_tokens' : Owned(row)'
  <2> SUFFICES ASSUME course' = "smooth"
               PROVE  /\ \A t \in spent : Continued(t)'
                      /\ \A row \in refresh_tokens' : Owned(row)'
    BY <1>2
  <2>1. ~Err(o) /\ course = "smooth"
    BY <1>8
  <2>2. ASSUME NEW t \in spent PROVE Continued(t)'
    <3>1. Continued(t)
      BY <2>1, <2>2 DEF CalmInv
    <3>2. CASE t \in loggedOut
      BY <1>2, <3>2 DEF Continued
    <3>3. CASE \E h \in Successors(t) : h.token \in held
      BY <1>2, <3>3 DEF Continued, Successors
    <3>4. CASE \E s \in Requests : req[s].tok = t /\ req[s].pc \in {"load", "store", "reply"}
      <4>1. PICK s \in Requests : req[s].tok = t /\ req[s].pc \in {"load", "store", "reply"}
        BY <3>4
      <4>2. CASE s # r
        BY <1>5, <4>1, <4>2 DEF Continued
      <4>3. CASE s = r
        <5>1. t # NoToken
          BY <2>2, NoTokenAssumption DEF IInv, TypeOK
        <5>2. req[r].op = "refresh"
          BY <1>3, <4>1, <4>3, <5>1 DEF InStep
        <5> QED
          BY <1>5, <1>6, <2>1, <4>1, <4>3, <5>2 DEF Continued
      <4> QED
        BY <4>2, <4>3
    <3> QED
      BY <3>1, <3>2, <3>3, <3>4 DEF Continued
  <2>3. ASSUME NEW row \in refresh_tokens PROVE Owned(row)'
    <3>1. Owned(row)
      BY <2>1, <2>3 DEF CalmInv
    <3>2. \A s \in Requests : req[s].pc \in {"touch", "reply"} => req'[s] = req[s]
      BY <1>3, <1>5
    <3> QED
      BY <1>2, <3>1, <3>2 DEF Owned
  <2>4. Owned([jti |-> new.jti, user_id |-> new.sub])'
    BY <1>3, <1>5, <1>6, <2>1 DEF Owned
  <2> QED
    BY <1>6, <2>1, <2>2, <2>3, <2>4 DEF InsertRow
<1>11. (spent \subseteq held)'
  BY <1>2 DEF CalmInv
<1> QED
  BY <1>9, <1>10, <1>11 DEF CalmInv

\* The client takes over from the request.
LEMMA ReplyCalm ==
  ASSUME IInv, CalmInv, NEW r \in Requests, Reply(r)
  PROVE  CalmInv'
<1>1. UNCHANGED <<refresh_tokens, granted, spent, loggedOut>> /\ held \subseteq held'
  BY DEF Reply, database
<1>2. course' = "smooth" => course = "smooth" /\ req[r].new \in held'
  BY DEF Reply, Answer, Undisturbed, Disturbed
<1>3. req[r] \in Request /\ InStep(req[r]) /\ req[r].pc = "reply"
  BY RequestFacts DEF Reply, At
<1>4. req'[r] = Idle /\ \A s \in Requests : s # r => req'[s] = req[s]
  BY Others DEF Reply, Return
<1>5. (\A s \in Requests : req[s].op = "refresh" /\ At(s, "reply") =>
         [token |-> req[s].new, parent |-> req[s].tok] \in granted)'
  BY <1>1, <1>4 DEF CalmInv, At, Idle
<1>6. course' = "smooth" => \A t \in spent' : Continued(t)'
  <2> SUFFICES ASSUME course' = "smooth", NEW t \in spent PROVE Continued(t)'
    BY <1>1
  <2>1. Continued(t)
    BY <1>2 DEF CalmInv
  <2>2. CASE t \in loggedOut
    BY <1>1, <2>2 DEF Continued
  <2>3. CASE \E h \in Successors(t) : h.token \in held
    BY <1>1, <2>3 DEF Continued, Successors
  <2>4. CASE \E s \in Requests : req[s].tok = t /\ req[s].pc \in {"load", "store", "reply"}
    <3>1. PICK s \in Requests : req[s].tok = t /\ req[s].pc \in {"load", "store", "reply"}
      BY <2>4
    <3>2. CASE s # r
      BY <1>4, <3>1, <3>2 DEF Continued
    <3>3. CASE s = r
      <4>1. t # NoToken
        BY NoTokenAssumption DEF IInv, TypeOK
      <4>2. req[r].op = "refresh"
        BY <1>3, <3>1, <3>3, <4>1 DEF InStep, Request, Idle
      <4> DEFINE g == [token |-> req[r].new, parent |-> t]
      <4>3. g \in granted'
        BY <1>1, <1>3, <3>1, <3>3, <4>2 DEF CalmInv, At
      <4>4. g \in Successors(t)' /\ g.token \in held'
        BY <1>2, <4>3 DEF Successors
      <4> QED
        BY <4>4 DEF Continued
    <3> QED
      BY <3>2, <3>3
  <2> QED
    BY <2>1, <2>2, <2>3, <2>4 DEF Continued
<1>7. course' = "smooth" => \A row \in refresh_tokens' : Owned(row)'
  BY <1>1, <1>2, <1>4 DEF CalmInv, Owned
<1>8. (spent \subseteq held)'
  BY <1>1 DEF CalmInv
<1> QED
  BY <1>5, <1>6, <1>7, <1>8 DEF CalmInv

LEMMA EnvironmentCalm ==
  ASSUME IInv, CalmInv, Restart \/ Expire \/ UNCHANGED vars
  PROVE  CalmInv'
<1>1. UNCHANGED <<refresh_tokens, granted, spent, held, loggedOut>>
  BY DEF Restart, Expire, vars, database
<1>2. CASE Restart
  BY <1>1, <1>2 DEF Restart, Disturbed, CalmInv, At, Idle
<1>3. CASE Expire \/ UNCHANGED vars
  <2>1. UNCHANGED <<req, course>>
    BY <1>3 DEF Expire, vars
  <2> QED
    BY <1>1, <2>1 DEF CalmInv, At, Continued, Successors, Owned
<1> QED
  BY <1>2, <1>3

LEMMA NextCalmInv == IInv /\ CalmInv /\ [Next]_vars => CalmInv'
  BY LoginSignCalm, PresentCalm, GetByJTICalm, DeleteCalm, LoadUserAndSignCalm, CreateCalm,
     FinishLoginCalm, ReplyCalm, EnvironmentCalm DEF Next, Serve

THEOREM CalmInvariance == Spec => []CalmInv
  BY Invariance, InitCalmInv, NextCalmInv, PTL DEF Spec

\* The whole inductive invariant holds in every reachable state.
THEOREM InductiveHolds == Spec => []Inductive
<1>1. IInv /\ ForkInv /\ CalmInv => Inductive
  BY DEF Inductive
<1> QED
  BY <1>1, Invariance, ForkInvariance, CalmInvariance, PTL

\* Without faults nobody loses a session, however many requests overlap
\* (auth_service.go:291-319).
THEOREM NobodyLosesCorrect == Spec => []NobodyLosesASession
<1>1. IInv /\ CalmInv => NobodyLosesASession
  <2> SUFFICES ASSUME IInv, CalmInv, course = "smooth", NEW t \in held, ~Continued(t)
               PROVE  Live(t)
    BY DEF NobodyLosesASession
  <2>1. t \notin spent
    BY DEF CalmInv
  <2>2. PICK g \in granted : g.token = t
    BY DEF IInv, HeldWasStored
  <2>3. [jti |-> t.jti, user_id |-> t.sub] \in refresh_tokens
    BY <2>1, <2>2 DEF IInv, TableIsLedger
  <2> QED
    BY <2>3 DEF Live
<1> QED
  BY <1>1, Invariance, CalmInvariance, PTL

\* Without faults no session is stored for nobody (auth_service.go:224-235).
THEOREM NoRowWithoutHolderCorrect == Spec => []NoRowWithoutHolder
<1>1. CalmInv => NoRowWithoutHolder
  BY DEF CalmInv, NoRowWithoutHolder
<1> QED
  BY <1>1, CalmInvariance, PTL

-----------------------------------------------------------------------------
(* Requests only move forward: the part of EveryRequestEnds that is about    *)
(* single steps.                                                             *)

\* How many steps a request may still have from here to its answer.
StepsLeft(pc) ==
  CASE pc = "idle" -> 0 [] pc = "reply" -> 1 [] pc = "touch" -> 2 [] pc = "store" -> 3
    [] pc = "load" -> 4 [] pc = "delete" -> 5 [] pc = "lookup" -> 6

\* No step takes a request that is being served back or makes it do anything
\* twice: each leaves it alone or takes it nearer to its answer, whatever fails.
MovesForward ==
  [][\A r \in Requests :
       \/ req'[r] = req[r]
       \/ req[r].pc = "idle"
       \/ StepsLeft(req'[r].pc) < StepsLeft(req[r].pc)]_vars

\* Every step of a request ends it or goes to a later statement of the function.
LEMMA ServeForward ==
  ASSUME IInv, NEW r \in Requests, Serve(r)
  PROVE  /\ \A s \in Requests : s # r => req'[s] = req[s]
         /\ StepsLeft(req'[r].pc) < StepsLeft(req[r].pc)
<1>1. req \in [Requests -> Request] /\ DOMAIN req[r] = {"pc", "op", "tok", "new", "late"}
  BY DEF IInv, TypeOK, Request
<1>2. Return(r) => req'[r].pc = "idle" /\ \A s \in Requests : s # r => req'[s] = req[s]
  <2>1. Return(r) => req' = [req EXCEPT ![r] = Idle]
    BY DEF Return
  <2>2. Idle.pc = "idle"
    BY DEF Idle
  <2>3. req' = [req EXCEPT ![r] = Idle] =>
          req'[r] = Idle /\ \A s \in Requests : s # r => req'[s] = req[s]
    BY <1>1
  <2> QED
    BY <2>1, <2>2, <2>3
<1>3. ASSUME NEW pc, Goto(r, pc)
      PROVE  req'[r].pc = pc /\ \A s \in Requests : s # r => req'[s] = req[s]
  <2>1. [req[r] EXCEPT !.pc = pc].pc = pc
    BY <1>1
  <2> QED
    BY <1>1, <1>3, <2>1 DEF Goto
<1>4. ASSUME NEW pc, Continue(r, pc)
      PROVE  req'[r].pc = pc /\ \A s \in Requests : s # r => req'[s] = req[s]
  BY <1>2, <1>3, <1>4 DEF Continue
<1>5. CASE GetByJTI(r)
  BY <1>2, <1>3, <1>5 DEF GetByJTI, At, StepsLeft
<1>6. CASE Delete(r)
  <2>1. PICK o : Continue(r, AfterDelete(req[r].op, o))
    BY <1>6 DEF Delete
  <2>2. AfterDelete(req[r].op, o) \in {"idle", "load"}
    BY DEF AfterDelete
  <2> QED
    BY <1>4, <1>6, <2>1, <2>2 DEF Delete, At, StepsLeft
<1>7. CASE LoadUserAndSign(r)
  <2>1. ASSUME NEW t, NEW op, NEW late, Sign(r, t, op, late)
        PROVE  req'[r].pc = "store" /\ \A s \in Requests : s # r => req'[s] = req[s]
    BY <1>1, <2>1 DEF Sign
  <2>2. Return(r) \/ \E t : Sign(r, t, "refresh", req[r].late)
    BY <1>7 DEF LoadUserAndSign
  <2>3. req[r].pc = "load"
    BY <1>7 DEF LoadUserAndSign, At
  <2> QED
    BY <1>2, <2>1, <2>2, <2>3 DEF StepsLeft
<1>8. CASE Create(r)
  <2>1. PICK o : Continue(r, AfterCreate(req[r].op, o))
    BY <1>8 DEF Create
  <2>2. AfterCreate(req[r].op, o) \in {"idle", "touch", "reply"}
    BY DEF AfterCreate
  <2> QED
    BY <1>4, <1>8, <2>1, <2>2 DEF Create, At, StepsLeft
<1>9. CASE FinishLogin(r) \/ Reply(r)
  BY <1>2, <1>3, <1>9 DEF FinishLogin, Reply, At, StepsLeft
<1> QED
  BY <1>5, <1>6, <1>7, <1>8, <1>9 DEF Serve

\* Nothing is retried and nothing starts over: a request under way is answered,
\* or lost with the process, after at most six steps of its own, whatever other
\* requests and failing statements do in between (auth_service.go:205-235,
\* 270-334).  That it takes these steps is what the fairness of the run adds.
THEOREM ForwardCorrect == Spec => MovesForward
<1>1. ASSUME IInv, [Next]_vars
      PROVE  \A r \in Requests : \/ req'[r] = req[r]
                                 \/ req[r].pc = "idle"
                                 \/ StepsLeft(req'[r].pc) < StepsLeft(req[r].pc)
  <2>1. CASE UNCHANGED vars \/ Expire
    BY <2>1 DEF vars, Expire
  <2>2. CASE Restart
    <3>1. \A r \in Requests : req'[r].pc = "idle"
      BY <2>2 DEF Restart, Idle
    <3>2. \A r \in Requests : req[r].pc \in Steps
      BY <1>1 DEF IInv, TypeOK, Request
    <3> QED
      BY <3>1, <3>2 DEF Steps, StepsLeft
  <2>3. ASSUME NEW r \in Requests, LoginSign(r) \/ RefreshToken(r) \/ Logout(r)
        PROVE  req[r].pc = "idle" /\ \A s \in Requests : s # r => req'[s] = req[s]
    <3>1. req \in [Requests -> Request]
      BY <1>1 DEF IInv, TypeOK
    <3>2. ASSUME NEW t, NEW op, NEW late, Sign(r, t, op, late)
          PROVE  \A s \in Requests : s # r => req'[s] = req[s]
      BY <3>1, <3>2 DEF Sign
    <3>3. CASE LoginSign(r)
      <4>1. \E t : Sign(r, t, "login", FALSE)
        BY <3>3 DEF LoginSign
      <4> QED
        BY <3>2, <3>3, <4>1 DEF LoginSign, At
    <3>4. ASSUME NEW op, NEW pc, Present(r, op, pc)
          PROVE  req[r].pc = "idle" /\ \A s \in Requests : s # r => req'[s] = req[s]
      BY <3>1, <3>4 DEF Present, At
    <3> QED
      BY <2>3, <3>3, <3>4 DEF RefreshToken, Logout
  <2> QED
    BY <1>1, <2>1, <2>2, <2>3, ServeForward DEF Next
<1>2. IInv /\ [Next]_vars =>
        [\A r \in Requests : \/ req'[r] = req[r]
                             \/ req[r].pc = "idle"
                             \/ StepsLeft(req'[r].pc) < StepsLeft(req[r].pc)]_vars
  BY <1>1
<1> QED
  BY <1>2, Invariance, PTL DEF Spec, MovesForward
=============================================================================
