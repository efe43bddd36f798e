------------------------- MODULE ActionExecutorProofs -------------------------
(* Proofs about ActionExecutor, for any actions, keys, messages and number of *)
(* runs: what a chain of scripts comes to is what its scripts mean.  A run is *)
(* compared, after every call, with the calls it has made so far, each        *)
(* resolved by the answers heard before it; what is heard later changes no    *)
(* call of the past.                                                          *)
EXTENDS ActionExecutor, FiniteSetTheorems, WellFoundedInduction, TLAPS

RunParts == {"pc", "todo", "at", "api", "last", "user", "result", "active", "complete", "heard"}
APIParts == {"allowCalled", "denyCalled", "allow", "user", "message"}

Hearings == {"none", "ok", "not ok"}

RunShape(run) ==
  /\ DOMAIN run = RunParts /\ DOMAIN run.api = APIParts
  /\ run.todo \in Seq(Drafts) /\ run.active \subseteq Drafts
  /\ run.api.user = Shared \/ run.api.user \subseteq Keys
  /\ run.user \subseteq Keys
  /\ run.last \in Hearings

\* What was read of the active actions: all that come before one that was read,
\* and every one of them unless the connection broke.
ReadOK(run) ==
  /\ \A i \in DOMAIN run.todo : run.todo[i] \in run.active
  /\ run.complete => \A a \in run.active : \E i \in DOMAIN run.todo : run.todo[i] = a
  /\ \A i \in DOMAIN run.todo, a \in run.active :
       a.priority < run.todo[i].priority => \E j \in 1..(i - 1) : run.todo[j] = a

-----------------------------------------------------------------------------
(* What the first m calls of a script mean. *)

NoneOf(code, ops, m) == \A l \in 1..m : code[l].op \notin ops

LastAt(code, ops, m, k) ==
  /\ k \in 1..m /\ code[k].op \in ops
  /\ \A l \in 1..m : code[l].op \in ops => l <= k

Verdict == {"allow", "deny"}

VerdictSoFar(code, m, api) ==
  /\ GaveVerdict(api) <=> ~NoneOf(code, Verdict, m)
  /\ \/ NoneOf(code, Verdict, m) /\ api.allow = TRUE
     \/ \E k \in 1..m : LastAt(code, Verdict, m, k) /\ api.allow = (code[k].op = "allow")

\* No message.
Silence == ""

MessageSoFar(code, m, api) ==
  \/ NoneOf(code, {"deny"}, m) /\ api.message = Silence
  \/ \E k \in 1..m : LastAt(code, {"deny"}, m, k) /\ api.message = code[k].message

UserSoFar(code, m, api) ==
  \/ NoneOf(code, {"setUser"}, m) /\ api.user = Shared
  \/ \E k \in 1..m : LastAt(code, {"setUser"}, m, k) /\ api.user = code[k].user

ScriptSoFar(code, m, api) ==
  /\ NoneOf(code, {"throw"}, m)
  /\ VerdictSoFar(code, m, api)
  /\ MessageSoFar(code, m, api)
  /\ UserSoFar(code, m, api)

\* The keys changed in place by the first m calls, by a whole script.
ChangedSoFar(code, m) == {code[k].key : k \in {l \in 1..m : code[l].op = "change"}}
ChangedIn(code) == {code[k].key : k \in Positions(code, "change")}

\* The map a script leaves to the chain.
SetBy(code) ==
  LET sets == Positions(code, "setUser") IN
  IF sets = {} THEN Shared ELSE code[LastOf(sets)].user

-----------------------------------------------------------------------------
(* What the first n scripts of a chain mean. *)

ChangedBefore(run, n) == UNION {ChangedIn(Resolved(run, j)) : j \in 1..n}

Speaks(run, j) == Said(Resolved(run, j)) # Silence

MessageAfter(run, n, message) ==
  \/ (\A j \in 1..n : ~Speaks(run, j)) /\ message = Silence
  \/ \E j \in 1..n :
       /\ Speaks(run, j) /\ message = Said(Resolved(run, j))
       /\ \A k \in 1..n : Speaks(run, k) => k <= j

ResultAfter(run, n) ==
  /\ MessageAfter(run, n, run.result.Message)
  /\ run.result.User = IF n = 0 THEN Shared ELSE SetBy(Resolved(run, n))

\* Answers were heard by calls already made.
HeardOK(run) ==
  \A h \in run.heard :
    /\ h.at[1] \in Nat /\ h.at[2] \in Nat
    /\ h.at[1] < run.at[1] \/ (h.at[1] = run.at[1] /\ h.at[2] < run.at[2])

PlaceOK(run) ==
  /\ run.at = <<run.at[1], run.at[2]>>
  /\ run.at[1] \in 1..(Len(run.todo) + 1) /\ run.at[2] \in Nat \ {0}
  /\ run.at[1] \in DOMAIN run.todo => run.at[2] <= Len(Script(run)) + 1
  /\ run.at[1] \notin DOMAIN run.todo => run.at[2] = 1

Running(run) ==
  LET n == run.at[1] - 1
      m == run.at[2] - 1
      code == Resolved(run, run.at[1]) IN
  /\ PlaceOK(run)
  /\ HeardOK(run)
  /\ run.last = Heard(run, run.at[1], run.at[2])
  /\ \A j \in 1..n : ~Stops(Resolved(run, j))
  /\ run.result.Allow = TRUE /\ ResultAfter(run, n)
  /\ run.user = ChangedBefore(run, n) \cup ChangedSoFar(code, m)
  /\ ScriptSoFar(code, m, run.api)

\* The chain has come through, or to script n, which denies.
Done(run) ==
  \E n \in 0..Len(run.todo) :
    /\ ResultAfter(run, n)
    /\ run.user = ChangedBefore(run, n)
    /\ \/ n = Len(run.todo) /\ run.result.Allow = TRUE /\ \A j \in 1..n : ~Stops(Resolved(run, j))
       \/ /\ n > 0 /\ n = run.at[1] /\ run.result.Allow = FALSE
          /\ \A j \in 1..(n - 1) : ~Stops(Resolved(run, j))
          /\ Denies(Resolved(run, n)) /\ ~Fails(Resolved(run, n))

Failed(run) ==
  \/ run.todo = <<>>
  \/ \E n \in 1..Len(run.todo) :
       (\A j \in 1..(n - 1) : ~Stops(Resolved(run, j))) /\ Fails(Resolved(run, n))

RunOK(run) ==
  /\ run.pc \in {"idle", "running", "done", "failed"}
  /\ run.pc = "idle" => run = IdleRun
  /\ RunShape(run)
  /\ ReadOK(run)
  /\ run.pc = "running" => Running(run)
  /\ run.pc = "done" => Done(run)
  /\ run.pc = "failed" => Failed(run)

TableOK ==
  /\ DOMAIN actions \subseteq 1..created /\ created \in 0..MaxActions
  /\ \A id \in DOMAIN actions : actions[id] \in Drafts

ExecutorInv ==
  /\ TableOK
  /\ runs = [r \in Runs |-> runs[r]]
  /\ \A r \in Runs : RunOK(runs[r])

-----------------------------------------------------------------------------
(* Lemmas about the operators. *)

LEMMA LastIs ==
  ASSUME NEW S, NEW k \in S, \A l \in S : l \in Nat /\ l <= k
  PROVE  LastOf(S) = k
<1>1. \A x \in S : (\A l \in S : l <= x) => x = k
  OBVIOUS
<1> QED
  BY <1>1 DEF LastOf

\* There is a last word, where there is any.
LEMMA LastExists ==
  ASSUME NEW m \in Nat, NEW S, S \subseteq 1..m, S # {}
  PROVE  LastOf(S) \in S /\ \A l \in S : l <= LastOf(S)
<1> DEFINE T == {m - k : k \in S}
<1>1. T \subseteq Nat
  OBVIOUS
<1>2. T # {}
  <2>1. PICK k : k \in S
    OBVIOUS
  <2>2. m - k \in T
    BY <2>1
  <2> QED
    BY <2>2
<1>3. PICK x \in T : \A y \in T : ~(<<y, x>> \in OpToRel(<, Nat))
  <2> HIDE DEF T
  <2> QED
    BY <1>1, <1>2, NatLessThanWellFounded, WFMin
<1>4. \A y \in T : ~(y < x)
  BY <1>1, <1>3 DEF OpToRel
<1>5. PICK k \in S : x = m - k
  OBVIOUS
<1>6. \A l \in S : l <= k
  <2>1. \A l \in S : ~(m - l < m - k)
    BY <1>4, <1>5
  <2> QED
    BY <2>1
<1> QED
  BY <1>6 DEF LastOf

LEMMA BoundIsNat == MaxActions \in Nat
BY ExecutorAssumption, Zenon

\* What a draft is, as far as it matters here.
LEMMA DraftShape ==
  ASSUME NEW a \in Drafts
  PROVE  a.code \in Seq(ApiCall) /\ a.priority \in Nat
BY ExecutorAssumption DEF Action

LEMMA CallShape ==
  ASSUME NEW c \in ApiCall
  PROVE  /\ c.op = "setUser" => c.user \in SUBSET Keys
         /\ c.op = "change" => c.key \in Keys
BY DEF ApiCall

\* One call more.
LEMMA LastAtGrows ==
  ASSUME NEW code, NEW ops, NEW m \in Nat, code[m + 1].op \notin ops
  PROVE  /\ NoneOf(code, ops, m) <=> NoneOf(code, ops, m + 1)
         /\ \A k \in 1..m : k \in 1..(m + 1) /\ (LastAt(code, ops, m, k) => LastAt(code, ops, m + 1, k))
BY DEF NoneOf, LastAt

LEMMA LastAtHere ==
  ASSUME NEW code, NEW ops, NEW m \in Nat, code[m + 1].op \in ops
  PROVE  m + 1 \in 1..(m + 1) /\ LastAt(code, ops, m + 1, m + 1) /\ ~NoneOf(code, ops, m + 1)
BY DEF NoneOf, LastAt

\* Scripts that agree on their first calls.
LEMMA LastAtAgrees ==
  ASSUME NEW code, NEW other, NEW ops, NEW m \in Nat, \A k \in 1..m : other[k] = code[k]
  PROVE  /\ NoneOf(code, ops, m) <=> NoneOf(other, ops, m)
         /\ \A k : LastAt(code, ops, m, k) <=> LastAt(other, ops, m, k)
BY DEF NoneOf, LastAt

LEMMA ScriptAgrees ==
  ASSUME NEW code, NEW other, NEW m \in Nat, NEW api, \A k \in 1..m : other[k] = code[k],
         ScriptSoFar(code, m, api)
  PROVE  ScriptSoFar(other, m, api) /\ ChangedSoFar(other, m) = ChangedSoFar(code, m)
<1>1. \A k \in 1..m : other[k] = code[k]
  OBVIOUS
<1>2. NoneOf(other, {"throw"}, m)
  BY DEF ScriptSoFar, NoneOf
<1>3. VerdictSoFar(other, m, api)
  BY <1>1, LastAtAgrees DEF ScriptSoFar, VerdictSoFar
<1>4. MessageSoFar(other, m, api)
  BY <1>1, LastAtAgrees DEF ScriptSoFar, MessageSoFar
<1>5. UserSoFar(other, m, api)
  BY <1>1, LastAtAgrees DEF ScriptSoFar, UserSoFar
<1>6. ChangedSoFar(other, m) = ChangedSoFar(code, m)
  BY <1>1 DEF ChangedSoFar
<1> QED
  BY <1>2, <1>3, <1>4, <1>5, <1>6 DEF ScriptSoFar

\* A call does to the environment of a script what it does to its meaning.
LEMMA ScriptGrows ==
  ASSUME NEW code, NEW m \in Nat, NEW api, DOMAIN api = APIParts, ScriptSoFar(code, m, api),
         code[m + 1].op # "throw"
  PROVE  ScriptSoFar(code, m + 1, Called(api, code[m + 1]))
<1> DEFINE c == code[m + 1]
           new == Called(api, c)
<1>1. NoneOf(code, {"throw"}, m + 1)
  BY DEF ScriptSoFar, NoneOf
<1>2. VerdictSoFar(code, m + 1, new)
  <2>1. CASE c.op \in Verdict
    <3>1. GaveVerdict(new) /\ new.allow = (c.op = "allow")
      BY <2>1 DEF GaveVerdict, Called, Allow, Deny, APIParts, Verdict
    <3> QED
      BY <2>1, <3>1, LastAtHere DEF VerdictSoFar
  <2>2. CASE c.op \notin Verdict
    <3>1. (GaveVerdict(new) <=> GaveVerdict(api)) /\ new.allow = api.allow
      BY <2>2 DEF GaveVerdict, Called, SetUser, APIParts, Verdict
    <3> HIDE DEF new
    <3> QED
      BY <2>2, <3>1, LastAtGrows DEF ScriptSoFar, VerdictSoFar
  <2> QED
    BY <2>1, <2>2
<1>3. MessageSoFar(code, m + 1, new)
  <2>1. CASE c.op = "deny"
    <3>1. new.message = c.message
      BY <2>1 DEF Called, Deny, APIParts
    <3> QED
      BY <2>1, <3>1, LastAtHere DEF MessageSoFar
  <2>2. CASE c.op # "deny"
    <3>1. new.message = api.message
      BY <2>2 DEF Called, SetUser, Allow, APIParts
    <3>2. code[m + 1].op \notin {"deny"}
      BY <2>2
    <3>3. /\ NoneOf(code, {"deny"}, m) <=> NoneOf(code, {"deny"}, m + 1)
          /\ \A k \in 1..m : /\ k \in 1..(m + 1)
                            /\ LastAt(code, {"deny"}, m, k) => LastAt(code, {"deny"}, m + 1, k)
      BY <3>2, LastAtGrows
    <3> HIDE DEF new
    <3>4. MessageSoFar(code, m, api)
      BY DEF ScriptSoFar
    <3>5. CASE NoneOf(code, {"deny"}, m) /\ api.message = Silence
      BY <3>1, <3>3, <3>5 DEF MessageSoFar
    <3>6. ASSUME NEW k \in 1..m, LastAt(code, {"deny"}, m, k), api.message = code[k].message
          PROVE  MessageSoFar(code, m + 1, new)
      <4>1. k \in 1..(m + 1) /\ LastAt(code, {"deny"}, m + 1, k)
        BY <3>3, <3>6
      <4>2. new.message = code[k].message
        BY <3>1, <3>6
      <4> QED
        BY <4>1, <4>2, Zenon DEF MessageSoFar
    <3> QED
      BY <3>4, <3>5, <3>6 DEF MessageSoFar
  <2> QED
    BY <2>1, <2>2
<1>4. UserSoFar(code, m + 1, new)
  <2>1. CASE c.op = "setUser"
    <3>1. new.user = c.user
      BY <2>1 DEF Called, SetUser, APIParts
    <3> QED
      BY <2>1, <3>1, LastAtHere DEF UserSoFar
  <2>2. CASE c.op # "setUser"
    <3>1. new.user = api.user
      BY <2>2 DEF Called, Deny, Allow, APIParts
    <3>2. code[m + 1].op \notin {"setUser"}
      BY <2>2
    <3>3. /\ NoneOf(code, {"setUser"}, m) <=> NoneOf(code, {"setUser"}, m + 1)
          /\ \A k \in 1..m : /\ k \in 1..(m + 1)
                            /\ LastAt(code, {"setUser"}, m, k) => LastAt(code, {"setUser"}, m + 1, k)
      BY <3>2, LastAtGrows
    <3> HIDE DEF new
    <3> QED
      BY <3>1, <3>3 DEF ScriptSoFar, UserSoFar
  <2> QED
    BY <2>1, <2>2
<1> QED
  BY <1>1, <1>2, <1>3, <1>4 DEF ScriptSoFar

LEMMA ChangedGrows ==
  ASSUME NEW code, NEW m \in Nat, NEW user
  PROVE  Changed(user \cup ChangedSoFar(code, m), code[m + 1])
           = user \cup ChangedSoFar(code, m + 1)
<1>1. 1..(m + 1) = (1..m) \cup {m + 1}
  OBVIOUS
<1> QED
  BY <1>1 DEF Changed, ChangedSoFar

\* A fresh environment is that of a script that has done nothing.
LEMMA ScriptStarts ==
  ASSUME NEW code
  PROVE  ScriptSoFar(code, 0, FreshAPI) /\ ChangedSoFar(code, 0) = {}
<1>1. 1..0 = {}
  OBVIOUS
<1> QED
  BY <1>1 DEF ScriptSoFar, VerdictSoFar, MessageSoFar, UserSoFar, NoneOf, ChangedSoFar, FreshAPI, Silence,
              GaveVerdict

\* At its end, the environment says what the script means.
LEMMA ScriptEnds ==
  ASSUME NEW code, NEW m \in Nat, NEW api, DOMAIN code = 1..m, ScriptSoFar(code, m, api)
  PROVE  /\ GaveVerdict(api) <=> ~Fails(code)
         /\ GaveVerdict(api) => (api.allow = ~Denies(code))
         /\ Said(code) = api.message
         /\ SetBy(code) = api.user
         /\ ChangedIn(code) = ChangedSoFar(code, m)
<1>1. ASSUME NEW ops, NEW S, S = {k \in DOMAIN code : code[k].op \in ops}
      PROVE  /\ S = {} <=> NoneOf(code, ops, m)
             /\ \A k : LastAt(code, ops, m, k) => LastOf(S) = k /\ S # {}
  BY <1>1, LastIs DEF NoneOf, LastAt
<1>2. \A op : Positions(code, op) = {k \in DOMAIN code : code[k].op \in {op}}
  BY DEF Positions
<1>3. Verdicts(code) = {k \in DOMAIN code : code[k].op \in Verdict}
  BY DEF Verdicts, Positions, Verdict
<1>4. Positions(code, "throw") = {}
  BY DEF ScriptSoFar, NoneOf, Positions
<1>5. Verdicts(code) = {} <=> NoneOf(code, Verdict, m)
  BY <1>3 DEF NoneOf
<1>6. GaveVerdict(api) <=> ~Fails(code)
  BY <1>4, <1>5 DEF ScriptSoFar, VerdictSoFar, Fails
<1>7. ASSUME GaveVerdict(api) PROVE api.allow = ~Denies(code)
  <2>1. PICK k \in 1..m : LastAt(code, Verdict, m, k) /\ api.allow = (code[k].op = "allow")
    BY <1>7 DEF ScriptSoFar, VerdictSoFar
  <2>2. LastOf(Verdicts(code)) = k /\ Verdicts(code) # {}
    BY <2>1, <1>1, <1>3
  <2>3. code[k].op \in Verdict
    BY <2>1 DEF LastAt
  <2> QED
    BY <2>1, <2>2, <2>3 DEF Denies, Verdict
<1>8. Said(code) = api.message
  BY <1>1, <1>2, ZenonT(40) DEF ScriptSoFar, MessageSoFar, Said, Silence
<1>9. SetBy(code) = api.user
  BY <1>1, <1>2, ZenonT(40) DEF ScriptSoFar, UserSoFar, SetBy
<1>10. ChangedIn(code) = ChangedSoFar(code, m)
  BY DEF ChangedIn, ChangedSoFar, Positions
<1> QED
  BY <1>6, <1>7, <1>8, <1>9, <1>10

-----------------------------------------------------------------------------
(* What is heard, and when. *)

\* Which calls a script makes depends on the answers, and on nothing else.
LEMMA ResolvedSame ==
  ASSUME NEW run, NEW new, new.todo = run.todo, new.heard = run.heard
  PROVE  /\ \A i, k : Heard(new, i, k) = Heard(run, i, k)
         /\ \A i : Resolved(new, i) = Resolved(run, i)
BY DEF Heard, Resolved

LEMMA ResolvedDomain ==
  ASSUME NEW run, run.todo \in Seq(Drafts), NEW i \in DOMAIN run.todo
  PROVE  /\ run.todo[i] \in Drafts
         /\ Len(run.todo[i].code) \in Nat
         /\ DOMAIN Resolved(run, i) = 1..Len(run.todo[i].code)
<1>1. run.todo[i] \in Drafts
  OBVIOUS
<1> QED
  BY <1>1, DraftShape DEF Resolved

\* The answer to the next call changes none of the calls made, that one included.
LEMMA ResolvedGrows ==
  ASSUME NEW run, NEW new, NEW i \in Nat, NEW k \in Nat, NEW x, new.todo = run.todo,
         new.heard = run.heard \cup {x}, x.at = <<i, k>>
  PROVE  /\ \A j : j # i => Resolved(new, j) = Resolved(run, j)
         /\ DOMAIN Resolved(new, i) = DOMAIN Resolved(run, i)
         /\ \A l \in 1..k : l \in DOMAIN Resolved(run, i)
                              => Resolved(new, i)[l] = Resolved(run, i)[l]
<1> DEFINE Before(r, j, l) == {h \in r.heard : h.at[1] = j /\ h.at[2] < l}
<1>1. x.at[1] = i /\ x.at[2] = k
  OBVIOUS
<1>2. \A j, l : j # i => Before(new, j, l) = Before(run, j, l)
  BY <1>1
<1>3. \A l \in 1..k : Before(new, i, l) = Before(run, i, l)
  BY <1>1
<1>4. \A j, l : Before(new, j, l) = Before(run, j, l) => Heard(new, j, l) = Heard(run, j, l)
  BY DEF Heard
<1> HIDE DEF Before
<1>5. \A j : j # i => Resolved(new, j) = Resolved(run, j)
  BY <1>2, <1>4 DEF Resolved
<1>6. \A l \in 1..k : Heard(new, i, l) = Heard(run, i, l)
  BY <1>3, <1>4
<1>7. DOMAIN Resolved(new, i) = DOMAIN Resolved(run, i)
  BY DEF Resolved
<1>8. \A l \in 1..k : l \in DOMAIN Resolved(run, i) => Resolved(new, i)[l] = Resolved(run, i)[l]
  BY <1>6 DEF Resolved
<1> QED
  BY <1>5, <1>7, <1>8

Told(ok) == IF ok THEN "ok" ELSE "not ok"

\* The last answer heard is the one just heard.
LEMMA HeardHere ==
  ASSUME NEW run, NEW new, NEW i \in Nat, NEW k \in Nat, NEW x, HeardOK(run), run.at = <<i, k>>,
         new.heard = run.heard \cup {x}, x.at = <<i, k>>
  PROVE  Heard(new, i, k + 1) = Told(x.ok)
<1> DEFINE before == {h \in new.heard : h.at[1] = i /\ h.at[2] < k + 1}
<1>1. x.at[1] = i /\ x.at[2] = k /\ x \in before
  OBVIOUS
<1>2. ASSUME NEW h \in before PROVE h = x \/ (h.at[2] \in Nat /\ h.at[2] < k)
  BY DEF HeardOK
<1>3. (CHOOSE h \in before : \A g \in before : g.at[2] <= h.at[2]) = x
  <2> HIDE DEF before
  <2>1. \A g \in before : g.at[2] <= x.at[2]
    BY <1>1, <1>2
  <2>2. \A h \in before : (\A g \in before : g.at[2] <= h.at[2]) => h = x
    BY <1>1, <1>2
  <2> QED
    BY <1>1, <2>1, <2>2
<1>4. before # {}
  BY <1>1
<1> QED
  BY <1>3, <1>4 DEF Heard, Told

LEMMA HeardOn ==
  ASSUME NEW run, NEW i \in Nat, NEW k \in Nat, HeardOK(run), run.at = <<i, k>>
  PROVE  /\ Heard(run, i, k + 1) = Heard(run, i, k)
         /\ Heard(run, i + 1, 1) = "none"
<1>1. {h \in run.heard : h.at[1] = i /\ h.at[2] < k + 1}
        = {h \in run.heard : h.at[1] = i /\ h.at[2] < k}
  BY DEF HeardOK
<1>2. {h \in run.heard : h.at[1] = i + 1 /\ h.at[2] < 1} = {}
  BY DEF HeardOK
<1> QED
  BY <1>1, <1>2 DEF Heard

-----------------------------------------------------------------------------
(* The chain. *)

\* What the scripts before mean depends on the calls they make only.
LEMMA ChainSame ==
  ASSUME NEW run, NEW new, NEW n \in Nat, new.result = run.result,
         \A j \in 1..n : Resolved(new, j) = Resolved(run, j)
  PROVE  /\ ResultAfter(run, n) => ResultAfter(new, n)
         /\ ChangedBefore(new, n) = ChangedBefore(run, n)
<1>1. ChangedBefore(new, n) = ChangedBefore(run, n)
  BY DEF ChangedBefore
<1>2. ASSUME ResultAfter(run, n) PROVE ResultAfter(new, n)
  <2>1. MessageAfter(new, n, new.result.Message)
    BY <1>2 DEF ResultAfter, MessageAfter, Speaks
  <2>2. n # 0 => n \in 1..n
    OBVIOUS
  <2> QED
    BY <1>2, <2>1, <2>2 DEF ResultAfter
<1> QED
  BY <1>1, <1>2

\* One script more.
LEMMA ChainGrows ==
  ASSUME NEW run, NEW n \in Nat, ResultAfter(run, n), NEW api,
         Said(Resolved(run, n + 1)) = api.message, SetBy(Resolved(run, n + 1)) = api.user
  PROVE  LET result == Combine(run.result, api) IN
         /\ MessageAfter(run, n + 1, result.Message)
         /\ result.User = SetBy(Resolved(run, n + 1))
<1> DEFINE result == Combine(run.result, api)
<1>1. /\ Speaks(run, n + 1) => result.Message = Said(Resolved(run, n + 1))
      /\ ~Speaks(run, n + 1) => result.Message = run.result.Message
      /\ result.User = api.user
  BY DEF Combine, Speaks, Silence
<1> HIDE DEF result
<1>2. ASSUME Speaks(run, n + 1) PROVE MessageAfter(run, n + 1, result.Message)
  <2>1. n + 1 \in 1..(n + 1) /\ \A k \in 1..(n + 1) : k <= n + 1
    OBVIOUS
  <2> QED
    BY <1>1, <1>2, <2>1 DEF MessageAfter
<1>3. ASSUME ~Speaks(run, n + 1) PROVE MessageAfter(run, n + 1, result.Message)
  <2>1. \A k \in 1..(n + 1) : Speaks(run, k) => k \in 1..n
    BY <1>3
  <2>2. CASE (\A j \in 1..n : ~Speaks(run, j)) /\ run.result.Message = Silence
    BY <1>1, <1>3, <2>1, <2>2 DEF MessageAfter
  <2>3. ASSUME NEW j \in 1..n, Speaks(run, j), run.result.Message = Said(Resolved(run, j)),
               \A k \in 1..n : Speaks(run, k) => k <= j
        PROVE  MessageAfter(run, n + 1, result.Message)
    <3>1. j \in 1..(n + 1)
      OBVIOUS
    <3> QED
      BY <1>1, <1>3, <2>1, <2>3, <3>1 DEF MessageAfter
  <2> QED
    BY <2>2, <2>3 DEF ResultAfter, MessageAfter
<1> QED
  BY <1>1, <1>2, <1>3 DEF result

LEMMA ChangedBeforeGrows ==
  ASSUME NEW run, NEW n \in Nat
  PROVE  ChangedBefore(run, n + 1) = ChangedBefore(run, n) \cup ChangedIn(Resolved(run, n + 1))
<1>1. 1..(n + 1) = (1..n) \cup {n + 1}
  OBVIOUS
<1> QED
  BY <1>1 DEF ChangedBefore

\* Where a run can be.
LEMMA Places ==
  ASSUME NEW run, RunShape(run), PlaceOK(run)
  PROVE  /\ run.at[1] \in Nat \ {0} /\ run.at[2] \in Nat \ {0}
         /\ Len(run.todo) \in Nat /\ DOMAIN run.todo = 1..Len(run.todo)
         /\ run.at[1] <= Len(run.todo) + 1
         /\ run.at[1] \in DOMAIN run.todo =>
              /\ Script(run) \in Seq(ApiCall) /\ Len(Script(run)) \in Nat
              /\ DOMAIN Script(run) = 1..Len(Script(run))
              /\ DOMAIN Resolved(run, run.at[1]) = 1..Len(Script(run))
              /\ run.at[2] <= Len(Script(run)) + 1
<1>1. Len(run.todo) \in Nat /\ DOMAIN run.todo = 1..Len(run.todo)
  BY DEF RunShape
<1>2. run.at[1] \in 1..(Len(run.todo) + 1) /\ run.at[2] \in Nat \ {0}
  BY DEF PlaceOK
<1>3. ASSUME run.at[1] \in DOMAIN run.todo
      PROVE  /\ Script(run) \in Seq(ApiCall) /\ Len(Script(run)) \in Nat
             /\ DOMAIN Script(run) = 1..Len(Script(run))
             /\ DOMAIN Resolved(run, run.at[1]) = 1..Len(Script(run))
             /\ run.at[2] <= Len(Script(run)) + 1
  <2>1. run.todo[run.at[1]] \in Drafts
    BY <1>3 DEF RunShape
  <2>2. Script(run) \in Seq(ApiCall)
    BY <2>1, DraftShape DEF Script
  <2>3. DOMAIN Resolved(run, run.at[1]) = DOMAIN Script(run)
    BY DEF Resolved, Script
  <2> QED
    BY <1>3, <2>2, <2>3 DEF PlaceOK
<1> QED
  BY <1>1, <1>2, <1>3

-----------------------------------------------------------------------------
(* Steps of a run. *)

\* A call that a script gets past, made as its answers resolve it.
LEMMA Advance ==
  ASSUME NEW run, RunShape(run), Running(run), InScript(run),
         NEW new, new.todo = run.todo, new.result = run.result,
         new.at = <<run.at[1], run.at[2] + 1>>, HeardOK(new),
         new.last = Heard(new, run.at[1], run.at[2] + 1),
         \A j \in 1..(run.at[1] - 1) : Resolved(new, j) = Resolved(run, j),
         \A l \in 1..run.at[2] : Resolved(new, run.at[1])[l] = Resolved(run, run.at[1])[l],
         NEW call, call = Resolved(run, run.at[1])[run.at[2]], call.op # "throw",
         new.api = Called(run.api, call), new.user = Changed(run.user, call)
  PROVE  Running(new)
<1> DEFINE i == run.at[1]
           k == run.at[2]
           m == k - 1
           n == i - 1
           code == Resolved(run, i)
           other == Resolved(new, i)
<1> PlaceOK(run) /\ HeardOK(run)
  BY DEF Running
<1>1. /\ i \in DOMAIN run.todo /\ k <= Len(Script(run)) /\ Len(Script(run)) \in Nat
      /\ i \in 1..(Len(run.todo) + 1)
  BY Places DEF InScript, InChain
<1>2. i \in Nat \ {0} /\ k \in Nat \ {0} /\ m \in Nat /\ n \in Nat /\ m + 1 = k /\ n + 1 = i
  BY Places
<1>3. new.at[1] = i /\ new.at[2] = k + 1 /\ k + 1 - 1 = k
  BY <1>2
<1>4. PlaceOK(new)
  BY <1>1, <1>2, <1>3, SMTT(20) DEF PlaceOK, Script, Running
<1>5. ScriptSoFar(code, k, new.api)
  <2>1. ScriptSoFar(code, m, run.api) /\ DOMAIN run.api = APIParts
    BY DEF Running, RunShape
  <2> HIDE DEF code, m
  <2> QED
    BY <1>2, <2>1, ScriptGrows DEF code
<1>6. ScriptSoFar(other, k, new.api) /\ ChangedSoFar(other, k) = ChangedSoFar(code, k)
  BY <1>2, <1>5, ScriptAgrees
<1>7. ResultAfter(new, n) /\ ChangedBefore(new, n) = ChangedBefore(run, n)
  BY <1>2, ChainSame DEF Running
<1>8. new.user = ChangedBefore(new, n) \cup ChangedSoFar(other, k)
  <2>1. run.user = ChangedBefore(run, n) \cup ChangedSoFar(code, m)
    BY DEF Running
  <2>2. call = code[m + 1]
    BY <1>2
  <2> HIDE DEF i, m, n, code, other
  <2>3. Changed(run.user, call) = ChangedBefore(run, n) \cup ChangedSoFar(code, m + 1)
    <3>1. ASSUME NEW user
          PROVE  Changed(user \cup ChangedSoFar(code, m), code[m + 1])
                   = user \cup ChangedSoFar(code, m + 1)
      BY <1>2, ChangedGrows, Zenon
    <3> QED
      BY <2>1, <2>2, <3>1, Zenon
  <2> QED
    BY <1>2, <1>6, <1>7, <2>3
<1>9. \A j \in 1..n : ~Stops(Resolved(new, j))
  BY DEF Running
<1>10. new.result.Allow = TRUE
  BY DEF Running
<1> QED
  BY <1>2, <1>3, <1>4, <1>6, <1>7, <1>8, <1>9, <1>10 DEF Running

LEMMA RunStep ==
  ASSUME ExecutorInv, NEW r \in Runs, NEW q, runs' = [runs EXCEPT ![r] = q],
         UNCHANGED <<actions, created>>, RunOK(q)
  PROVE  ExecutorInv'
<1>1. TableOK'
  BY DEF ExecutorInv, TableOK
<1>2. runs' = [s \in Runs |-> runs'[s]] /\ \A s \in Runs : RunOK(runs'[s])
  BY DEF ExecutorInv
<1> QED
  BY <1>1, <1>2 DEF ExecutorInv

LEMMA FreshShape == DOMAIN FreshAPI = APIParts /\ FreshAPI.user = Shared
<1>1. ASSUME NEW message
      PROVE  LET api == [allowCalled |-> FALSE, denyCalled |-> FALSE, allow |-> TRUE,
                         user |-> Shared, message |-> message] IN
             DOMAIN api = APIParts /\ api.user = Shared
  BY DEF APIParts
<1> QED
  BY <1>1, Zenon DEF FreshAPI

LEMMA IdleOK == RunOK(IdleRun)
<1>1. RunShape(IdleRun)
  <2>1. "none" \in Hearings
    BY DEF Hearings
  <2> QED
    BY <2>1, FreshShape DEF RunShape, IdleRun, RunParts
<1>2. ReadOK(IdleRun)
  BY DEF ReadOK, IdleRun
<1>3. IdleRun.pc = "idle"
  BY DEF IdleRun
<1> QED
  BY <1>1, <1>2, <1>3 DEF RunOK

LEMMA CallStep == ASSUME ExecutorInv, NEW r \in Runs, CallAPI(r) PROVE ExecutorInv'
<1> DEFINE run == runs[r]
           i == run.at[1]
           k == run.at[2]
           code == Script(run)
           call == NextCall(run)
           on == [run EXCEPT !.at[2] = @ + 1]
           made == [on EXCEPT !.api = Called(run.api, call), !.user = Changed(run.user, call)]
           failed == [run EXCEPT !.pc = "failed"]
<1>1. /\ RunOK(run) /\ run.pc = "running" /\ InScript(run)
      /\ UNCHANGED <<actions, created>>
      /\ call.op \notin {"hang", "fetch"}
      /\ \/ ~Takes(call, run.last) /\ runs' = [runs EXCEPT ![r] = on]
         \/ Takes(call, run.last) /\ call.op = "throw" /\ runs' = [runs EXCEPT ![r] = failed]
         \/ Takes(call, run.last) /\ call.op # "throw" /\ runs' = [runs EXCEPT ![r] = made]
  BY DEF ExecutorInv, CallAPI, InScript, InChain
<1>2. RunShape(run) /\ ReadOK(run) /\ Running(run)
  BY <1>1 DEF RunOK
<1> HIDE DEF run
<1>3. /\ i \in DOMAIN run.todo /\ k \in DOMAIN code /\ code \in Seq(ApiCall)
      /\ i \in Nat \ {0} /\ k \in Nat \ {0} /\ run.at = <<i, k>>
      /\ DOMAIN Resolved(run, i) = DOMAIN code
  <2>1. PlaceOK(run) /\ i <= Len(run.todo) /\ k <= Len(code)
    BY <1>1, <1>2 DEF Running, InScript, InChain
  <2>2. i \in DOMAIN run.todo
    BY <1>2, <2>1, Places
  <2>3. run.at = <<i, k>>
    BY <2>1 DEF PlaceOK
  <2> QED
    BY <1>2, <2>1, <2>2, <2>3, Places
<1>4. call \in ApiCall
  BY <1>3 DEF NextCall
<1>5. Resolved(run, i)[k] = IF Takes(call, run.last) THEN call ELSE [op |-> "fetch"]
  BY <1>2, <1>3 DEF Resolved, Running, NextCall, Script
<1>6. /\ DOMAIN on = RunParts /\ on.at = <<i, k + 1>> /\ on.pc = run.pc /\ on.todo = run.todo
      /\ on.result = run.result /\ on.heard = run.heard /\ on.last = run.last /\ on.api = run.api
      /\ on.user = run.user /\ on.active = run.active /\ on.complete = run.complete
  BY <1>2, <1>3 DEF RunShape, RunParts
<1> HIDE DEF on
\* Nothing was heard since the call before.
<1>7. ASSUME NEW new, new.heard = run.heard, new.todo = run.todo, new.at = <<i, k + 1>>,
             new.last = run.last
      PROVE  /\ HeardOK(new) /\ new.last = Heard(new, i, k + 1)
             /\ \A j : Resolved(new, j) = Resolved(run, j)
  <2>1. HeardOK(run) /\ run.last = Heard(run, i, k)
    BY <1>2 DEF Running
  <2>2. HeardOK(new)
    BY <1>3, <1>7, <2>1 DEF HeardOK
  <2> QED
    BY <1>3, <1>7, <2>1, <2>2, HeardOn, ResolvedSame
<1>8. ASSUME ~Takes(call, run.last) PROVE RunOK(on)
  <2> DEFINE nothing == [op |-> "fetch"]
  <2>1. Resolved(run, i)[k] = nothing
    BY <1>5, <1>8
  <2>2. Called(run.api, nothing) = run.api /\ Changed(run.user, nothing) = run.user
    BY DEF Called, Changed
  <2>3. nothing.op # "throw"
    OBVIOUS
  <2> HIDE DEF nothing
  <2>4. Running(on)
    BY <1>1, <1>2, <1>6, <1>7, <2>1, <2>2, <2>3, Advance
  <2>5. RunShape(on) /\ ReadOK(on)
    BY <1>2, <1>6 DEF RunShape, ReadOK
  <2> QED
    BY <1>1, <1>6, <2>4, <2>5 DEF RunOK
<1>9. ASSUME Takes(call, run.last), call.op = "throw" PROVE RunOK(failed)
  <2>1. /\ DOMAIN failed = RunParts /\ failed.pc = "failed" /\ failed.todo = run.todo
        /\ failed.heard = run.heard /\ failed.last = run.last /\ failed.api = run.api
        /\ failed.user = run.user /\ failed.active = run.active
        /\ failed.complete = run.complete
    BY <1>2 DEF RunShape, RunParts
  <2> HIDE DEF failed
  <2>2. \A j : Resolved(failed, j) = Resolved(run, j)
    BY <2>1, ResolvedSame
  <2>3. Fails(Resolved(run, i))
    BY <1>3, <1>5, <1>9 DEF Fails, Positions
  <2>4. Failed(failed)
    BY <1>2, <1>3, <2>1, <2>2, <2>3 DEF Failed, Running, RunShape
  <2>5. RunShape(failed) /\ ReadOK(failed)
    BY <1>2, <2>1 DEF RunShape, ReadOK
  <2> QED
    BY <2>1, <2>4, <2>5 DEF RunOK
<1>10. ASSUME Takes(call, run.last), call.op # "throw" PROVE RunOK(made)
  <2>1. /\ DOMAIN made = RunParts /\ made.pc = run.pc /\ made.todo = run.todo
        /\ made.heard = run.heard /\ made.last = run.last /\ made.api = Called(run.api, call)
        /\ made.user = Changed(run.user, call) /\ made.active = run.active
        /\ made.complete = run.complete /\ made.at = <<i, k + 1>> /\ made.result = run.result
    BY <1>6 DEF RunParts
  <2> HIDE DEF made
  <2>2. Running(made)
    BY <1>1, <1>2, <1>5, <1>7, <1>10, <2>1, Advance
  <2>3. made.user \subseteq Keys
    BY <1>2, <1>4, <2>1, CallShape DEF Changed, RunShape
  <2>4. DOMAIN made.api = APIParts /\ (made.api.user = Shared \/ made.api.user \subseteq Keys)
    BY <1>2, <1>4, <2>1, CallShape DEF Called, Allow, Deny, SetUser, RunShape, APIParts
  <2>5. RunShape(made) /\ ReadOK(made)
    BY <1>2, <2>1, <2>3, <2>4 DEF RunShape, ReadOK
  <2> QED
    BY <1>1, <2>1, <2>2, <2>5 DEF RunOK
<1> QED
  BY <1>1, <1>8, <1>9, <1>10, RunStep DEF run

LEMMA FetchStep == ASSUME ExecutorInv, NEW r \in Runs, FetchAPI(r) PROVE ExecutorInv'
<1> DEFINE run == runs[r]
           i == run.at[1]
           k == run.at[2]
           on == [run EXCEPT !.at[2] = @ + 1]
           answered(outcome) == Fetch(on, outcome)
           x(outcome) == [at |-> run.at, ok |-> outcome = "2xx"]
           new(outcome) == [answered(outcome) EXCEPT !.heard = @ \cup {x(outcome)}]
<1>1. PICK outcome \in FetchOutcomes : runs' = [runs EXCEPT ![r] = new(outcome)]
  BY DEF FetchAPI
<1>2. /\ RunOK(run) /\ run.pc = "running" /\ InScript(run) /\ NextCall(run).op = "fetch"
      /\ UNCHANGED <<actions, created>>
  BY DEF ExecutorInv, FetchAPI, InScript, InChain
<1>3. RunShape(run) /\ ReadOK(run) /\ Running(run) /\ PlaceOK(run) /\ HeardOK(run)
  BY <1>2 DEF RunOK, Running
<1> HIDE DEF run
<1>4. /\ i \in DOMAIN run.todo /\ k \in DOMAIN Script(run) /\ run.at = <<i, k>>
      /\ i \in Nat \ {0} /\ k \in Nat \ {0} /\ DOMAIN Resolved(run, i) = DOMAIN Script(run)
      /\ Len(Script(run)) \in Nat /\ DOMAIN Script(run) = 1..Len(Script(run))
  <2>1. i <= Len(run.todo) /\ k <= Len(Script(run))
    BY <1>2 DEF InScript, InChain
  <2>2. i \in DOMAIN run.todo
    BY <1>3, <2>1, Places
  <2>3. run.at = <<i, k>>
    BY <1>3 DEF PlaceOK
  <2> QED
    BY <1>3, <2>1, <2>2, <2>3, Places
<1>5. /\ DOMAIN on = RunParts /\ on.at = <<i, k + 1>> /\ on.pc = run.pc /\ on.todo = run.todo
      /\ on.result = run.result /\ on.heard = run.heard /\ on.last = run.last /\ on.api = run.api
      /\ on.user = run.user /\ on.active = run.active /\ on.complete = run.complete
  BY <1>3, <1>4 DEF RunShape, RunParts
<1> DEFINE q == new(outcome)
           y == x(outcome)
           word == Told(outcome = "2xx")
<1>6. Fetch(on, outcome) = [on EXCEPT !.last = word]
  BY Zenon DEF Fetch, Told
<1>7. y.at = <<i, k>> /\ y.ok = (outcome = "2xx")
  BY <1>4
<1>8. word \in Hearings
  BY Zenon DEF Hearings, Told
<1> HIDE DEF on, word, x
<1>9. /\ DOMAIN q = RunParts /\ q.at = <<i, k + 1>> /\ q.pc = run.pc /\ q.todo = run.todo
      /\ q.result = run.result /\ q.last = word /\ q.api = run.api /\ q.user = run.user
      /\ q.active = run.active /\ q.complete = run.complete /\ q.heard = run.heard \cup {y}
  BY <1>5, <1>6 DEF RunParts
<1> HIDE DEF q, y
<1>10. q.last = Heard(q, i, k + 1)
  BY <1>3, <1>4, <1>7, <1>9, HeardHere DEF word
<1>11. HeardOK(q)
  BY <1>3, <1>4, <1>7, <1>9 DEF HeardOK
<1>12. /\ \A j \in 1..(i - 1) : Resolved(q, j) = Resolved(run, j)
       /\ \A l \in 1..k : Resolved(q, i)[l] = Resolved(run, i)[l]
  <2>1. /\ \A j : j # i => Resolved(q, j) = Resolved(run, j)
        /\ \A l \in 1..k : l \in DOMAIN Resolved(run, i)
                              => Resolved(q, i)[l] = Resolved(run, i)[l]
    BY <1>4, <1>7, <1>9, ResolvedGrows, SMTT(20)
  <2> QED
    BY <1>4, <2>1
<1>13. Running(q)
  <2> DEFINE call == Resolved(run, i)[k]
  <2>1. call.op = "fetch"
    BY <1>2, <1>4 DEF Resolved, NextCall, Script
  <2>2. call = Resolved(run, i)[k]
    OBVIOUS
  <2> HIDE DEF call
  <2>3. Called(run.api, call) = run.api /\ Changed(run.user, call) = run.user
    BY <2>1 DEF Called, Changed
  <2>4. call.op # "throw"
    BY <2>1
  <2> QED
    BY <1>2, <1>3, <1>9, <1>10, <1>11, <1>12, <2>2, <2>3, <2>4, Advance
<1>14. RunShape(q) /\ ReadOK(q)
  BY <1>3, <1>8, <1>9 DEF RunShape, ReadOK
<1>15. RunOK(q)
  BY <1>2, <1>9, <1>13, <1>14 DEF RunOK
<1> QED
  BY <1>1, <1>2, <1>15, RunStep DEF q, run

LEMMA FinishScriptStep == ASSUME ExecutorInv, NEW r \in Runs, FinishScript(r) PROVE ExecutorInv'
<1> DEFINE run == runs[r]
           i == run.at[1]
           n == i - 1
           code == Resolved(run, i)
           result == Combine(run.result, run.api)
           failed == [run EXCEPT !.pc = "failed"]
           denied == [run EXCEPT !.pc = "done", !.result = result]
           next == [run EXCEPT !.at = NextScript(@), !.api = FreshAPI, !.last = "none",
                               !.result = result]
<1>1. /\ RunOK(run) /\ run.pc = "running" /\ InChain(run) /\ ~InScript(run)
      /\ UNCHANGED <<actions, created>>
      /\ \/ ~GaveVerdict(run.api) /\ runs' = [runs EXCEPT ![r] = failed]
         \/ /\ GaveVerdict(run.api) /\ ~Continues(result)
            /\ runs' = [runs EXCEPT ![r] = denied]
         \/ /\ GaveVerdict(run.api) /\ Continues(result)
            /\ runs' = [runs EXCEPT ![r] = next]
  BY DEF ExecutorInv, FinishScript, InChain
<1>2. RunShape(run) /\ ReadOK(run) /\ Running(run) /\ PlaceOK(run) /\ HeardOK(run)
  BY <1>1 DEF RunOK, Running
<1> HIDE DEF run
<1>3. /\ i \in DOMAIN run.todo /\ i \in Nat \ {0} /\ n \in Nat /\ n + 1 = i
      /\ i <= Len(run.todo) /\ Len(run.todo) \in Nat /\ DOMAIN run.todo = 1..Len(run.todo)
      /\ Len(Script(run)) \in Nat /\ run.at[2] - 1 = Len(Script(run))
      /\ DOMAIN code = 1..Len(Script(run)) /\ run.at = <<i, run.at[2]>>
      /\ run.at[2] \in Nat
  <2>1. i <= Len(run.todo) /\ ~(run.at[2] <= Len(Script(run)))
    BY <1>1 DEF InScript, InChain
  <2>2. i \in DOMAIN run.todo /\ i \in Nat \ {0} /\ n \in Nat /\ n + 1 = i
    BY <1>2, <2>1, Places
  <2>3. run.at = <<i, run.at[2]>>
    BY <1>2 DEF PlaceOK
  <2> QED
    BY <1>2, <2>1, <2>2, <2>3, Places
<1>4. /\ \A j \in 1..n : ~Stops(Resolved(run, j))
      /\ run.result.Allow = TRUE /\ ResultAfter(run, n)
      /\ run.user = ChangedBefore(run, n) \cup ChangedSoFar(code, Len(Script(run)))
      /\ ScriptSoFar(code, Len(Script(run)), run.api)
  BY <1>2, <1>3 DEF Running
<1> HIDE DEF code, n
<1>5. /\ GaveVerdict(run.api) <=> ~Fails(code)
      /\ GaveVerdict(run.api) => (run.api.allow = ~Denies(code))
      /\ Said(code) = run.api.message /\ SetBy(code) = run.api.user
      /\ ChangedIn(code) = ChangedSoFar(code, Len(Script(run)))
  BY <1>3, <1>4, ScriptEnds
<1>6. code = Resolved(run, n + 1)
  BY <1>3 DEF code
<1>7. run.user = ChangedBefore(run, i)
  BY <1>3, <1>4, <1>5, <1>6, ChangedBeforeGrows
<1>8. MessageAfter(run, i, result.Message) /\ result.User = SetBy(code)
  BY <1>3, <1>4, <1>5, <1>6, ChainGrows
<1>9. GaveVerdict(run.api) => (Continues(result) <=> ~Denies(code))
                               /\ result.Allow = ~Denies(code)
  BY <1>4, <1>5 DEF Combine, Continues
<1> HIDE DEF result
\* Whatever the new state of the run, the scripts mean the same.
<1>10. ASSUME NEW new, new.todo = run.todo, new.heard = run.heard, new.result = result,
              new.user = run.user
       PROVE  /\ \A j : Resolved(new, j) = Resolved(run, j)
              /\ ResultAfter(new, i) /\ new.user = ChangedBefore(new, i)
  <2>1. \A j : Resolved(new, j) = Resolved(run, j)
    BY <1>10, ResolvedSame
  <2>2. MessageAfter(new, i, result.Message)
    BY <1>8, <2>1 DEF MessageAfter, Speaks
  <2>3. ResultAfter(new, i)
    BY <1>3, <1>6, <1>8, <1>10, <2>1, <2>2 DEF ResultAfter
  <2>4. ChangedBefore(new, i) = ChangedBefore(run, i)
    BY <2>1 DEF ChangedBefore
  <2> QED
    BY <1>7, <1>10, <2>1, <2>3, <2>4
<1>11. ASSUME ~GaveVerdict(run.api) PROVE RunOK(failed)
  <2>1. /\ DOMAIN failed = RunParts /\ failed.pc = "failed" /\ failed.todo = run.todo
        /\ failed.heard = run.heard /\ failed.last = run.last /\ failed.api = run.api
        /\ failed.user = run.user /\ failed.active = run.active
        /\ failed.complete = run.complete
    BY <1>2 DEF RunShape, RunParts
  <2> HIDE DEF failed
  <2>2. \A j : Resolved(failed, j) = Resolved(run, j)
    BY <2>1, ResolvedSame
  <2>3. i \in 1..Len(failed.todo) /\ Fails(Resolved(failed, i))
    BY <1>3, <1>5, <1>6, <1>11, <2>1, <2>2
  <2>4. \A j \in 1..(i - 1) : ~Stops(Resolved(failed, j))
    BY <1>4, <2>2 DEF n
  <2>5. Failed(failed)
    BY <2>3, <2>4 DEF Failed
  <2>6. RunShape(failed) /\ ReadOK(failed)
    BY <1>2, <2>1 DEF RunShape, ReadOK
  <2> QED
    BY <2>1, <2>5, <2>6 DEF RunOK
<1>12. ASSUME GaveVerdict(run.api), ~Continues(result) PROVE RunOK(denied)
  <2>1. /\ DOMAIN denied = RunParts /\ denied.pc = "done" /\ denied.todo = run.todo
        /\ denied.heard = run.heard /\ denied.last = run.last /\ denied.api = run.api
        /\ denied.user = run.user /\ denied.active = run.active
        /\ denied.complete = run.complete /\ denied.result = result /\ denied.at = run.at
    BY <1>2 DEF RunShape, RunParts
  <2> HIDE DEF denied
  <2>2. /\ \A j : Resolved(denied, j) = Resolved(run, j)
        /\ ResultAfter(denied, i) /\ denied.user = ChangedBefore(denied, i)
    BY <1>10, <2>1
  <2>3. /\ denied.result.Allow = FALSE
        /\ Denies(Resolved(denied, i)) /\ ~Fails(Resolved(denied, i))
    BY <1>3, <1>5, <1>6, <1>9, <1>12, <2>1, <2>2
  <2>4. \A j \in 1..(i - 1) : ~Stops(Resolved(denied, j))
    BY <1>4, <2>2 DEF n
  <2>5. Done(denied)
    <3>1. i \in 0..Len(denied.todo) /\ i > 0 /\ i = denied.at[1]
      BY <1>3, <2>1
    <3> HIDE DEF i
    <3> QED
      BY <2>2, <2>3, <2>4, <3>1 DEF Done
  <2>6. RunShape(denied) /\ ReadOK(denied)
    BY <1>2, <2>1 DEF RunShape, ReadOK
  <2> QED
    BY <2>1, <2>5, <2>6 DEF RunOK
<1>13. ASSUME GaveVerdict(run.api), Continues(result) PROVE RunOK(next)
  <2>1. /\ DOMAIN next = RunParts /\ next.pc = "running" /\ next.todo = run.todo
        /\ next.heard = run.heard /\ next.last = "none" /\ next.api = FreshAPI
        /\ next.user = run.user /\ next.active = run.active
        /\ next.complete = run.complete /\ next.result = result /\ next.at = <<i + 1, 1>>
    BY <1>1, <1>2 DEF RunShape, RunParts, NextScript
  <2> HIDE DEF next
  <2>2. /\ \A j : Resolved(next, j) = Resolved(run, j)
        /\ ResultAfter(next, i) /\ next.user = ChangedBefore(next, i)
    BY <1>10, <2>1
  <2>3. next.result.Allow = TRUE /\ ~Stops(code)
    BY <1>5, <1>9, <1>13, <2>1 DEF Stops
  <2>4. \A j \in 1..i : ~Stops(Resolved(next, j))
    BY <1>3, <1>4, <1>6, <2>2, <2>3
  <2>5. next.at[1] = i + 1 /\ next.at[2] = 1 /\ next.at[1] - 1 = i /\ next.at[2] - 1 = 0
    BY <1>3, <2>1
  <2>6. PlaceOK(next)
    <3>1. next.at[1] \in DOMAIN next.todo => Len(Script(next)) \in Nat
      BY <1>2, <2>1, ResolvedDomain DEF Script, RunShape
    <3> QED
      BY <1>3, <2>1, <2>5, <3>1 DEF PlaceOK
  <2>7. HeardOK(next)
    BY <1>2, <1>3, <2>1, <2>5 DEF HeardOK
  <2>8. next.last = Heard(next, next.at[1], next.at[2])
    <3>1. Heard(run, i + 1, 1) = "none"
      BY <1>2, <1>3, HeardOn
    <3> QED
      BY <2>1, <2>5, <3>1, ResolvedSame
  <2>9. ScriptSoFar(Resolved(next, i + 1), 0, next.api)
        /\ ChangedSoFar(Resolved(next, i + 1), 0) = {}
    BY <2>1, ScriptStarts
  <2>10. Running(next)
    BY <2>2, <2>3, <2>4, <2>5, <2>6, <2>7, <2>8, <2>9 DEF Running
  <2>11. RunShape(next) /\ ReadOK(next)
    <3>1. next.last \in Hearings
      BY <2>1, Zenon DEF Hearings
    <3> QED
      BY <1>2, <2>1, <3>1, FreshShape DEF RunShape, ReadOK
  <2> QED
    BY <2>1, <2>10, <2>11 DEF RunOK
<1> QED
  BY <1>1, <1>11, <1>12, <1>13, RunStep DEF run, result

LEMMA FinishChainStep == ASSUME ExecutorInv, NEW r \in Runs, FinishChain(r) PROVE ExecutorInv'
<1> DEFINE run == runs[r]
           n == Len(run.todo)
           done == [run EXCEPT !.pc = "done"]
<1>1. /\ RunOK(run) /\ run.pc = "running" /\ ~InChain(run) /\ runs' = [runs EXCEPT ![r] = done]
      /\ UNCHANGED <<actions, created>>
  BY DEF ExecutorInv, FinishChain
<1>2. RunShape(run) /\ ReadOK(run) /\ Running(run) /\ PlaceOK(run)
  BY <1>1 DEF RunOK, Running
<1> HIDE DEF run
<1>3. n \in Nat /\ run.at[1] = n + 1 /\ run.at[2] = 1 /\ run.at[1] - 1 = n /\ run.at[2] - 1 = 0
  <2>1. ~(run.at[1] <= n)
    BY <1>1 DEF InChain
  <2>2. run.at[1] \notin DOMAIN run.todo
    BY <1>2, <2>1, Places
  <2>3. run.at[2] = 1
    BY <1>2, <2>2 DEF PlaceOK
  <2> QED
    BY <1>2, <2>1, <2>3, Places
<1>4. /\ \A j \in 1..n : ~Stops(Resolved(run, j))
      /\ run.result.Allow = TRUE /\ ResultAfter(run, n) /\ run.user = ChangedBefore(run, n)
  BY <1>2, <1>3, ScriptStarts DEF Running
<1>5. /\ DOMAIN done = RunParts /\ done.pc = "done" /\ done.todo = run.todo
      /\ done.heard = run.heard /\ done.last = run.last /\ done.api = run.api
      /\ done.user = run.user /\ done.active = run.active
      /\ done.complete = run.complete /\ done.result = run.result
  BY <1>2 DEF RunShape, RunParts
<1> HIDE DEF done
<1>6. \A j : Resolved(done, j) = Resolved(run, j)
  BY <1>5, ResolvedSame
<1>7. ResultAfter(done, n) /\ ChangedBefore(done, n) = ChangedBefore(run, n)
  <2>1. n \in Nat /\ ResultAfter(run, n)
    BY <1>3, <1>4
  <2> HIDE DEF n
  <2> QED
    BY <1>5, <1>6, <2>1, ChainSame
<1>8. Done(done)
  <2>1. n \in 0..Len(done.todo) /\ n = Len(done.todo)
    BY <1>3, <1>5
  <2> HIDE DEF n
  <2> QED
    BY <1>4, <1>5, <1>6, <1>7, <2>1 DEF Done
<1>9. RunShape(done) /\ ReadOK(done)
  BY <1>2, <1>5 DEF RunShape, ReadOK
<1>10. RunOK(done)
  BY <1>5, <1>8, <1>9 DEF RunOK
<1> QED
  BY <1>1, <1>10, RunStep DEF run

LEMMA QueryFailsStep == ASSUME ExecutorInv, NEW r \in Runs, QueryFails(r) PROVE ExecutorInv'
<1> DEFINE q == [IdleRun EXCEPT !.pc = "failed"]
<1>1. runs' = [runs EXCEPT ![r] = q] /\ UNCHANGED <<actions, created>>
  BY DEF ExecutorInv, QueryFails, RunOK
<1>2. RunShape(IdleRun) /\ ReadOK(IdleRun) /\ IdleRun.todo = <<>>
  BY IdleOK DEF RunOK, IdleRun
<1>3. /\ DOMAIN q = RunParts /\ q.pc = "failed" /\ q.todo = IdleRun.todo
      /\ q.last = IdleRun.last /\ q.api = IdleRun.api /\ q.user = IdleRun.user
      /\ q.active = IdleRun.active /\ q.complete = IdleRun.complete
  BY <1>2 DEF RunShape, RunParts
<1> HIDE DEF q
<1>4. RunShape(q) /\ ReadOK(q) /\ Failed(q)
  BY <1>2, <1>3 DEF RunShape, ReadOK, Failed
<1> QED
  BY <1>1, <1>3, <1>4, RunStep DEF RunOK

LEMMA ReturnStep == ASSUME ExecutorInv, NEW r \in Runs, Return(r) PROVE ExecutorInv'
BY IdleOK, RunStep DEF Return

\* An ordering of the selected actions leaves none of them out.
LEMMA OrderingsAreComplete ==
  ASSUME TableOK, NEW type, NEW order \in Orderings(Selected(type))
  PROVE  /\ Cardinality(Selected(type)) \in Nat
         /\ \A id \in Selected(type) : \E j \in 1..Cardinality(Selected(type)) : order[j] = id
<1> DEFINE ids == Selected(type)
           n == Cardinality(ids)
<1>1. ids \subseteq 1..created /\ created \in Nat
  BY BoundIsNat DEF TableOK, Selected
<1>2. IsFiniteSet(1..created)
  BY <1>1, FS_Interval
<1>3. IsFiniteSet(ids)
  BY <1>1, <1>2, FS_Subset
<1>4. n \in Nat
  BY <1>3, FS_CardinalityType
<1>5. order \in [1..n -> ids] /\ \A i, j \in 1..n : i < j => order[i] # order[j]
  BY DEF Orderings
<1> HIDE DEF ids, n
<1>6. order \in Injection(1..n, ids)
  BY <1>4, <1>5 DEF Injection, IsInjective
<1>7. IsFiniteSet(1..n) /\ Cardinality(1..n) = n
  BY <1>4, FS_Interval
<1>8. order \in Surjection(1..n, ids)
  BY <1>3, <1>6, <1>7, FS_Injection DEF n
<1> QED
  BY <1>4, <1>8 DEF Surjection, ids, n

LEMMA ReadStep == ASSUME ExecutorInv, NEW r \in Runs, GetActionsByType(r) PROVE ExecutorInv'
<1>1. PICK type \in Types : \E order \in Orderings(Selected(type)), n \in 0..Cardinality(Selected(type)) :
        runs' = [runs EXCEPT ![r] =
          [IdleRun EXCEPT !.pc = "running",
                          !.todo = [i \in 1..n |-> actions[order[i]]],
                          !.active = {actions[id] : id \in Selected(type)},
                          !.complete = (n = Cardinality(Selected(type)))]]
  BY DEF GetActionsByType
<1> DEFINE ids == Selected(type)
           card == Cardinality(ids)
<1>2. PICK order \in Orderings(ids), n \in 0..card :
        runs' = [runs EXCEPT ![r] =
          [IdleRun EXCEPT !.pc = "running",
                          !.todo = [i \in 1..n |-> actions[order[i]]],
                          !.active = {actions[id] : id \in ids},
                          !.complete = (n = card)]]
  BY <1>1
<1>3. /\ card \in Nat /\ \A id \in ids : \E j \in 1..card : order[j] = id
      /\ order \in [1..card -> ids]
      /\ \A i, j \in 1..card : i < j => actions[order[i]].priority <= actions[order[j]].priority
  BY OrderingsAreComplete DEF ExecutorInv, Orderings
<1>4. \A id \in ids : actions[id] \in Drafts /\ actions[id].priority \in Nat
  BY DraftShape DEF ExecutorInv, TableOK, Selected
<1> HIDE DEF ids, card
<1> DEFINE todo == [i \in 1..n |-> actions[order[i]]]
           active == {actions[id] : id \in ids}
           q == [IdleRun EXCEPT !.pc = "running", !.todo = todo, !.active = active,
                                !.complete = (n = card)]
<1>5. /\ n \in Nat /\ n <= card /\ \A i \in 1..n : i \in 1..card /\ order[i] \in ids
      /\ todo \in Seq(Drafts) /\ Len(todo) = n /\ DOMAIN todo = 1..n
      /\ \A i \in 1..n : todo[i] = actions[order[i]]
  <2>1. n \in Nat /\ n <= card
    BY <1>3
  <2>2. \A i \in 1..n : i \in 1..card /\ order[i] \in ids
    BY <1>3, <2>1
  <2>3. \A i \in 1..n : actions[order[i]] \in Drafts
    BY <1>4, <2>2
  <2> QED
    BY <2>1, <2>2, <2>3
<1> HIDE DEF todo
<1>6. /\ active \subseteq Drafts /\ \A i \in 1..n : todo[i] \in active
      /\ \A a \in active : \E j \in 1..card : a = actions[order[j]]
  BY <1>3, <1>4, <1>5
<1> HIDE DEF active
<1>7. RunShape(IdleRun)
  BY IdleOK DEF RunOK
<1>8. /\ DOMAIN q = RunParts /\ q.pc = "running" /\ q.todo = todo /\ q.active = active
      /\ q.complete = (n = card) /\ q.last = "none" /\ q.api = FreshAPI /\ q.user = {}
      /\ q.at = <<1, 1>> /\ q.heard = {} /\ q.result = FreshResult
  BY <1>7 DEF RunShape, RunParts, IdleRun
<1> HIDE DEF q
<1>9. RunShape(q)
  <2>1. q.last \in Hearings
    BY <1>8, Zenon DEF Hearings
  <2> QED
    BY <1>5, <1>6, <1>8, <2>1, FreshShape DEF RunShape
<1>10. ReadOK(q)
  <2>1. q.complete => \A a \in active : \E i \in 1..n : todo[i] = a
    <3>1. q.complete => n = card
      BY <1>8, Zenon
    <3>2. n = card => \A a \in active : \E i \in 1..n : todo[i] = a
      BY <1>5, <1>6, SMTT(20)
    <3> QED
      BY <3>1, <3>2, Zenon
  <2>2. ASSUME NEW i \in 1..n, NEW a \in active, a.priority < todo[i].priority
        PROVE  \E j \in 1..(i - 1) : todo[j] = a
    <3>1. PICK j \in 1..card : a = actions[order[j]]
      BY <1>6
    <3>2. /\ order[j] \in ids /\ order[i] \in ids /\ i \in 1..card
          /\ a.priority \in Nat /\ todo[i].priority \in Nat
      BY <1>3, <1>4, <1>5, <3>1
    <3>3. ~(i < j) /\ i # j
      BY <1>3, <1>5, <2>2, <3>1, <3>2
    <3>4. j \in 1..(i - 1) /\ j \in 1..n
      BY <1>3, <1>5, <3>3
    <3> QED
      BY <1>5, <3>1, <3>4
  <2> QED
    BY <1>5, <1>6, <1>8, <2>1, <2>2, SMTT(20) DEF ReadOK
<1>11. Running(q)
  <2>1. q.at[1] = 1 /\ q.at[2] = 1 /\ q.at[1] - 1 = 0 /\ q.at[2] - 1 = 0
    BY <1>8
  <2>2. PlaceOK(q)
    <3>1. q.at[1] \in DOMAIN q.todo => Len(Script(q)) \in Nat
      BY <1>9, ResolvedDomain DEF Script, RunShape
    <3> QED
      BY <1>5, <1>8, <2>1, <3>1 DEF PlaceOK
  <2>3. HeardOK(q) /\ q.last = Heard(q, q.at[1], q.at[2])
    BY <1>8, Zenon DEF HeardOK, Heard
  <2>4. q.result.Allow = TRUE /\ q.result.User = Shared /\ q.result.Message = Silence
    <3>1. ASSUME NEW message
          PROVE  LET result == [Allow |-> TRUE, User |-> Shared, Message |-> message] IN
                 result.Allow = TRUE /\ result.User = Shared /\ result.Message = message
      OBVIOUS
    <3> QED
      BY <1>8, <3>1, Zenon DEF FreshResult, Silence
  <2>5. ResultAfter(q, 0) /\ ChangedBefore(q, 0) = {}
    <3>1. 1..0 = {}
      OBVIOUS
    <3> QED
      BY <2>4, <3>1 DEF ResultAfter, MessageAfter, ChangedBefore
  <2> QED
    BY <1>8, <2>1, <2>2, <2>3, <2>4, <2>5, ScriptStarts DEF Running
<1>12. RunOK(q)
  BY <1>8, <1>9, <1>10, <1>11 DEF RunOK
<1> QED
  BY <1>2, <1>12, RunStep DEF GetActionsByType, q, todo, active

-----------------------------------------------------------------------------
(* Steps of administrators: no run looks at the table again. *)

LEMMA TableStep ==
  ASSUME ExecutorInv, TableOK', UNCHANGED runs
  PROVE  ExecutorInv'
BY DEF ExecutorInv

LEMMA AdministerStep == ExecutorInv /\ Administer => ExecutorInv'
<1> SUFFICES ASSUME ExecutorInv, Administer PROVE ExecutorInv'
  OBVIOUS
<1>1. TableOK /\ UNCHANGED runs
  BY DEF ExecutorInv, Administer, CreateAction, UpdateAction, DeleteAction
<1>2. CASE CreateAction
  <2>1. PICK draft \in Drafts : actions' = Stored(created + 1, draft)
    BY <1>2 DEF CreateAction
  <2>2. created \in Nat /\ created' = created + 1 /\ created' \in 0..MaxActions
    BY <1>1, <1>2, BoundIsNat DEF TableOK, CreateAction
  <2>3. /\ DOMAIN actions' = DOMAIN actions \cup {created + 1}
        /\ \A id \in DOMAIN actions' : actions'[id] \in Drafts
    BY <1>1, <2>1 DEF Stored, TableOK
  <2>4. TableOK'
    BY <1>1, <2>2, <2>3 DEF TableOK
  <2> QED
    BY <1>1, <2>4, TableStep
<1>3. CASE UpdateAction
  <2>1. TableOK'
    BY <1>1, <1>3 DEF TableOK, UpdateAction
  <2> QED
    BY <1>1, <2>1, TableStep
<1>4. CASE DeleteAction
  <2>1. TableOK'
    BY <1>1, <1>4 DEF TableOK, DeleteAction
  <2> QED
    BY <1>1, <2>1, TableStep
<1> QED
  BY <1>2, <1>3, <1>4 DEF Administer

LEMMA InitExecutor == Init => ExecutorInv
<1> SUFFICES ASSUME Init PROVE ExecutorInv
  OBVIOUS
<1>1. TableOK
  BY BoundIsNat DEF Init, TableOK
<1>2. runs = [r \in Runs |-> runs[r]] /\ \A r \in Runs : RunOK(runs[r])
  BY IdleOK DEF Init
<1> QED
  BY <1>1, <1>2 DEF ExecutorInv

LEMMA NextExecutor == ExecutorInv /\ [Next]_vars => ExecutorInv'
<1> SUFFICES ASSUME ExecutorInv, [Next]_vars PROVE ExecutorInv'
  OBVIOUS
<1>1. CASE UNCHANGED vars
  <2>1. TableOK' /\ UNCHANGED runs
    BY <1>1 DEF vars, ExecutorInv, TableOK
  <2> QED
    BY <2>1, TableStep
<1>2. ASSUME NEW r \in Runs,
             GetActionsByType(r) \/ QueryFails(r) \/ Execute(r) \/ Return(r)
      PROVE  ExecutorInv'
  BY <1>2, ReadStep, QueryFailsStep, CallStep, FetchStep, FinishScriptStep, FinishChainStep,
     ReturnStep DEF Execute
<1> QED
  BY <1>1, <1>2, AdministerStep DEF Next

-----------------------------------------------------------------------------
(* What the invariant says of a chain that has ended. *)

LEMMA CodesAre ==
  ASSUME NEW run, RunShape(run)
  PROVE  /\ Len(run.todo) \in Nat /\ DOMAIN run.todo = 1..Len(run.todo)
         /\ DOMAIN Codes(run) = 1..Len(run.todo)
         /\ \A i \in 1..Len(run.todo) : Codes(run)[i] = Resolved(run, i)
         /\ Codes(run) # <<>> => Len(run.todo) > 0
<1>1. Len(run.todo) \in Nat /\ DOMAIN run.todo = 1..Len(run.todo)
  BY DEF RunShape
<1>2. /\ DOMAIN Codes(run) = 1..Len(run.todo)
      /\ \A i \in 1..Len(run.todo) : Codes(run)[i] = Resolved(run, i)
  BY <1>1 DEF Codes
<1>3. ASSUME Len(run.todo) = 0 PROVE Codes(run) = <<>>
  <2>1. DOMAIN run.todo = {}
    BY <1>1, <1>3
  <2>2. Codes(run) = [i \in {} |-> Resolved(run, i)]
    BY <2>1 DEF Codes
  <2>3. [i \in {} |-> Resolved(run, i)] = <<>>
    OBVIOUS
  <2> QED
    BY <2>2, <2>3
<1> QED
  BY <1>1, <1>2, <1>3

\* The scripts that ran are those up to the first that stops the chain.
LEMMA RanUpTo ==
  ASSUME NEW run, RunShape(run), NEW n \in 0..Len(run.todo),
         \A j \in 1..(n - 1) : ~Stops(Resolved(run, j)),
         n = Len(run.todo) \/ (n > 0 /\ Stops(Resolved(run, n)))
  PROVE  Ran(Codes(run)) = 1..n /\ (n > 0 => LastOf(Ran(Codes(run))) = n)
<1> DEFINE codes == Codes(run)
           len == Len(run.todo)
<1>1. len \in Nat /\ DOMAIN codes = 1..len /\ \A i \in 1..len : codes[i] = Resolved(run, i)
  BY CodesAre
<1> HIDE DEF codes, len
<1>2. n \in Nat /\ n <= len
  BY <1>1 DEF len
<1>3. ASSUME NEW i \in 1..n PROVE i \in Ran(codes)
  <2>1. i \in 1..len /\ \A j \in 1..(i - 1) : j \in 1..(n - 1) /\ j \in 1..len
    BY <1>1, <1>2
  <2> QED
    BY <1>1, <2>1 DEF Ran
<1>4. ASSUME NEW i \in Ran(codes) PROVE i \in 1..n
  <2>1. i \in 1..len /\ \A j \in 1..(i - 1) : ~Stops(codes[j])
    BY <1>1 DEF Ran
  <2>2. CASE n = len
    BY <2>1, <2>2
  <2>3. CASE n > 0 /\ Stops(Resolved(run, n))
    <3>1. n \in 1..len /\ Stops(codes[n])
      BY <1>1, <1>2, <2>3
    <3>2. ~(n \in 1..(i - 1))
      BY <2>1, <3>1
    <3> QED
      BY <1>2, <2>1, <3>1, <3>2
  <2> QED
    BY <2>2, <2>3 DEF len
<1>5. Ran(codes) = 1..n
  BY <1>3, <1>4
<1>6. ASSUME n > 0 PROVE LastOf(1..n) = n
  <2> DEFINE S == 1..n
  <2>1. n \in S /\ \A l \in S : l \in Nat /\ l <= n
    BY <1>2, <1>6
  <2> HIDE DEF S
  <2>2. LastOf(S) = n
    BY <2>1, LastIs
  <2> QED
    BY <2>2 DEF S
<1> QED
  BY <1>5, <1>6 DEF codes

\* A map that a script set is one of a script.
LEMMA SetIsNotShared ==
  ASSUME NEW run, RunShape(run), NEW i \in DOMAIN run.todo,
         Positions(Resolved(run, i), "setUser") # {}
  PROVE  SetBy(Resolved(run, i)) # Shared
<1> DEFINE code == Resolved(run, i)
           sets == Positions(code, "setUser")
           k == LastOf(sets)
<1>1. /\ run.todo[i] \in Drafts /\ Len(run.todo[i].code) \in Nat
      /\ DOMAIN code = 1..Len(run.todo[i].code)
  BY ResolvedDomain DEF RunShape
<1>2. sets \subseteq 1..Len(run.todo[i].code)
  BY <1>1 DEF Positions
<1>3. k \in sets
  BY <1>1, <1>2, LastExists
<1>4. k \in DOMAIN code /\ code[k].op = "setUser"
  BY <1>3 DEF Positions
<1>5. code[k] = run.todo[i].code[k] /\ k \in DOMAIN run.todo[i].code
  BY <1>4 DEF Resolved
<1>6. code[k] \in ApiCall
  <2>1. run.todo[i].code \in Seq(ApiCall)
    BY <1>1, DraftShape
  <2> QED
    BY <1>5, <2>1
<1>7. code[k].user \in SUBSET Keys
  BY <1>4, <1>6, CallShape
<1>8. SetBy(code) = code[k].user
  BY DEF SetBy
<1>9. \A user \in SUBSET Keys : user # Shared
  BY ExecutorAssumption, Zenon
<1> QED
  BY <1>7, <1>8, <1>9

LEMMA UserIsMeant ==
  ASSUME NEW run, RunShape(run), NEW n \in 1..Len(run.todo),
         Ran(Codes(run)) = 1..n, LastOf(Ran(Codes(run))) = n,
         run.result.User = SetBy(Resolved(run, n)), run.user = ChangedBefore(run, n)
  PROVE  UserOf(run) = UserAfter(Codes(run))
<1> DEFINE codes == Codes(run)
           last == Resolved(run, n)
           sets == Positions(last, "setUser")
<1>1. codes[n] = last /\ n \in DOMAIN run.todo
      /\ \A i \in 1..n : codes[i] = Resolved(run, i)
  BY CodesAre
<1>2. CASE sets # {}
  <2>1. SetBy(last) # Shared
    BY <1>1, <1>2, SetIsNotShared
  <2>2. UserOf(run) = last[LastOf(sets)].user
    BY <1>2, <2>1 DEF UserOf, SetBy
  <2>3. UserAfter(codes) = last[LastOf(sets)].user
    BY <1>1, <1>2 DEF UserAfter
  <2> QED
    BY <2>2, <2>3
<1>3. CASE sets = {}
  <2>1. UserOf(run) = ChangedBefore(run, n)
    BY <1>3 DEF UserOf, SetBy
  <2>2. UserAfter(codes)
          = UNION {{codes[i][k].key : k \in Positions(codes[i], "change")} : i \in 1..n}
    BY <1>1, <1>3 DEF UserAfter
  <2>3. ChangedBefore(run, n)
          = UNION {{codes[i][k].key : k \in Positions(codes[i], "change")} : i \in 1..n}
    BY <1>1 DEF ChangedBefore, ChangedIn
  <2> QED
    BY <2>1, <2>2, <2>3
<1> QED
  BY <1>2, <1>3

-----------------------------------------------------------------------------
(* Theorems. *)

\* After every step of a run, its environment, its result and its user map are
\* what the calls made so far and the scripts before mean (action_executor.go:
\* 63-119, 121-250; action_repository_postgres.go:42-64).
THEOREM ExecutorInvariance == Spec => []ExecutorInv
BY InitExecutor, NextExecutor, PTL DEF Spec

\* Every variable has its type, and a run works on rows it has read.
THEOREM TypeCorrect == Spec => []TypeOK
<1>1. ExecutorInv => TypeOK
  <2> SUFFICES ASSUME ExecutorInv PROVE TypeOK
    OBVIOUS
  <2>1. \A run : RunShape(run) => run.last \in {"none", "ok", "not ok"}
    BY Zenon DEF RunShape, Hearings
  <2>2. ASSUME NEW r \in Runs
        PROVE  /\ runs[r].pc \in {"idle", "running", "done", "failed"}
               /\ \A i \in DOMAIN runs[r].todo : runs[r].todo[i] \in runs[r].active
               /\ runs[r].api.user = Shared \/ runs[r].api.user \subseteq Keys
               /\ runs[r].user \subseteq Keys /\ RunShape(runs[r])
    BY DEF ExecutorInv, RunOK, RunShape, ReadOK
  <2>3. TableOK
    BY DEF ExecutorInv
  <2> QED
    BY <2>1, <2>2, <2>3, Zenon DEF TypeOK, TableOK
<1> QED
  BY <1>1, ExecutorInvariance, PTL

\* What a chain comes to is what the scripts that ran mean: whether it allows,
\* its user map, and that it fails only where one of them fails
\* (action_executor.go:75-118, 133-165, 236-249).
THEOREM MeaningCorrect == Spec => []ResultIsMeaning
<1>1. ExecutorInv => ResultIsMeaning
  <2> SUFFICES ASSUME ExecutorInv, NEW r \in Runs
               PROVE  LET run == runs[r]
                          codes == Codes(run) IN
                      /\ run.pc = "done" =>
                           /\ \A i \in Ran(codes) : ~Fails(codes[i])
                           /\ run.result.Allow <=> \A i \in DOMAIN codes : ~Stops(codes[i])
                           /\ codes # <<>> => UserOf(run) = UserAfter(codes)
                      /\ run.pc = "failed" /\ codes # <<>> => \E i \in Ran(codes) : Fails(codes[i])
    BY DEF ResultIsMeaning
  <2> DEFINE run == runs[r]
             codes == Codes(run)
             len == Len(run.todo)
  <2>1. RunOK(run) /\ RunShape(run)
    BY DEF ExecutorInv, RunOK
  <2> HIDE DEF run
  <2>2. /\ len \in Nat /\ DOMAIN run.todo = 1..len /\ DOMAIN codes = 1..len
        /\ \A i \in 1..len : codes[i] = Resolved(run, i)
        /\ codes # <<>> => len > 0
    BY <2>1, CodesAre
  <2>3. ASSUME run.pc = "done"
        PROVE  /\ \A i \in Ran(codes) : ~Fails(codes[i])
               /\ run.result.Allow <=> \A i \in DOMAIN codes : ~Stops(codes[i])
               /\ codes # <<>> => UserOf(run) = UserAfter(codes)
    <3>1. PICK n \in 0..len :
            /\ ResultAfter(run, n)
            /\ run.user = ChangedBefore(run, n)
            /\ \/ n = len /\ run.result.Allow = TRUE /\ \A j \in 1..n : ~Stops(Resolved(run, j))
               \/ /\ n > 0 /\ n = run.at[1] /\ run.result.Allow = FALSE
                  /\ \A j \in 1..(n - 1) : ~Stops(Resolved(run, j))
                  /\ Denies(Resolved(run, n)) /\ ~Fails(Resolved(run, n))
      BY <2>1, <2>3 DEF RunOK, Done
    <3>2. /\ n \in Nat /\ n <= len /\ \A j \in 1..(n - 1) : ~Stops(Resolved(run, j))
          /\ n = len \/ (n > 0 /\ Stops(Resolved(run, n)))
          /\ \A j \in 1..n : ~Fails(Resolved(run, j))
      <4>1. n \in Nat /\ n <= len /\ \A j \in 1..(n - 1) : j \in 1..n
        BY <2>2
      <4>2. \A j \in 1..n : j \in 1..(n - 1) \/ j = n
        BY <4>1
      <4> QED
        BY <3>1, <4>1, <4>2 DEF Stops
    <3>3. Ran(codes) = 1..n /\ (n > 0 => LastOf(Ran(codes)) = n)
      BY <2>1, <3>2, RanUpTo
    <3> HIDE DEF codes, len
    <3>4. \A i \in Ran(codes) : ~Fails(codes[i])
      BY <2>2, <3>2, <3>3
    <3>5. run.result.Allow <=> \A i \in DOMAIN codes : ~Stops(codes[i])
      <4>1. CASE n = len /\ run.result.Allow = TRUE /\ \A j \in 1..n : ~Stops(Resolved(run, j))
        BY <2>2, <4>1
      <4>2. CASE n > 0 /\ run.result.Allow = FALSE /\ Denies(Resolved(run, n))
        <5>1. n \in 1..len /\ Stops(codes[n])
          BY <2>2, <3>2, <4>2 DEF Stops
        <5> QED
          BY <2>2, <4>2, <5>1
      <4> QED
        BY <3>1, <4>1, <4>2
    <3>6. ASSUME codes # <<>> PROVE UserOf(run) = UserAfter(codes)
      <4>1. n > 0 /\ n \in 1..len
        BY <2>2, <3>1, <3>2, <3>6
      <4>2. run.result.User = SetBy(Resolved(run, n))
        BY <3>1, <4>1 DEF ResultAfter
      <4> QED
        BY <2>1, <3>1, <3>3, <4>1, <4>2, UserIsMeant DEF codes, len
    <3> QED
      BY <3>4, <3>5, <3>6
  <2>4. ASSUME run.pc = "failed", codes # <<>> PROVE \E i \in Ran(codes) : Fails(codes[i])
    <3>1. run.todo # <<>>
      BY <2>2, <2>4
    <3>2. PICK n \in 1..len :
            (\A j \in 1..(n - 1) : ~Stops(Resolved(run, j))) /\ Fails(Resolved(run, n))
      BY <2>1, <2>4, <3>1 DEF RunOK, Failed
    <3>3. n \in 0..len /\ n > 0 /\ n \in 1..n
      BY <2>2
    <3>4. Ran(codes) = 1..n
      BY <2>1, <3>2, <3>3, RanUpTo DEF Stops
    <3> QED
      BY <2>2, <3>2, <3>3, <3>4
  <2> QED
    BY <2>3, <2>4 DEF run
<1> QED
  BY <1>1, ExecutorInvariance, PTL

\* A chain that read its whole list allows only what every active action allows
\* (action_executor.go:63-118, action_repository_postgres.go:42-64).
THEOREM AllowedCorrect == Spec => []AllowedByAll
<1>1. ExecutorInv => AllowedByAll
  <2> SUFFICES ASSUME ExecutorInv, NEW r \in Runs, runs[r].pc = "done", runs[r].result.Allow,
                      runs[r].complete, NEW a \in runs[r].active
               PROVE  \E i \in DOMAIN runs[r].todo :
                        runs[r].todo[i] = a /\ ~Stops(Resolved(runs[r], i))
    BY DEF AllowedByAll
  <2> DEFINE run == runs[r]
  <2>1. RunShape(run) /\ ReadOK(run) /\ Done(run)
    BY DEF ExecutorInv, RunOK
  <2> HIDE DEF run
  <2>2. PICK i \in DOMAIN run.todo : run.todo[i] = a
    BY <2>1 DEF ReadOK, run
  <2>3. \A j \in 1..Len(run.todo) : ~Stops(Resolved(run, j))
    BY <2>1 DEF Done, run
  <2>4. DOMAIN run.todo = 1..Len(run.todo)
    BY <2>1, CodesAre
  <2> QED
    BY <2>2, <2>3, <2>4 DEF run
<1> QED
  BY <1>1, ExecutorInvariance, PTL

\* A refusal is that of a script that denies, after every active action of a
\* lower priority ran and allowed, and it carries the last message said by then
\* (action_executor.go:95-113, action_repository_postgres.go:42-64).
THEOREM RefusalCorrect == Spec => []FirstRefusalDecides
<1>1. ExecutorInv => FirstRefusalDecides
  <2> SUFFICES ASSUME ExecutorInv, NEW r \in Runs, runs[r].pc = "done", ~runs[r].result.Allow
               PROVE  LET run == runs[r]
                          last == run.at[1]
                          speakers == {i \in 1..last : Said(Resolved(run, i)) # ""} IN
                      /\ Denies(Resolved(run, last))
                      /\ run.result.Message =
                           IF speakers = {} THEN "" ELSE Said(Resolved(run, LastOf(speakers)))
                      /\ \A a \in run.active : a.priority < run.todo[last].priority =>
                           \E i \in 1..(last - 1) : run.todo[i] = a /\ ~Stops(Resolved(run, i))
    BY Zenon DEF FirstRefusalDecides
  <2> DEFINE run == runs[r]
             last == run.at[1]
             speakers == {i \in 1..last : Said(Resolved(run, i)) # ""}
  <2>1. RunShape(run) /\ ReadOK(run) /\ Done(run) /\ ~run.result.Allow
    BY DEF ExecutorInv, RunOK
  <2> HIDE DEF run
  <2>2. /\ last \in 0..Len(run.todo) /\ last > 0 /\ ResultAfter(run, last)
        /\ \A j \in 1..(last - 1) : ~Stops(Resolved(run, j))
        /\ Denies(Resolved(run, last))
    BY <2>1 DEF Done
  <2>3. /\ last \in Nat /\ last \in DOMAIN run.todo /\ Len(run.todo) \in Nat
    BY <2>1, <2>2, CodesAre
  <2>4. speakers = {i \in 1..last : Speaks(run, i)}
    BY Zenon DEF Speaks, Silence
  <2>5. MessageAfter(run, last, run.result.Message)
    BY <2>2 DEF ResultAfter
  <2> HIDE DEF last, speakers
  <2>6. run.result.Message = IF speakers = {} THEN "" ELSE Said(Resolved(run, LastOf(speakers)))
    <3>1. CASE (\A j \in 1..last : ~Speaks(run, j)) /\ run.result.Message = Silence
      <4>1. speakers = {}
        BY <2>4, <3>1
      <4> QED
        BY <3>1, <4>1, Zenon DEF Silence
    <3>2. ASSUME NEW j \in 1..last, Speaks(run, j), run.result.Message = Said(Resolved(run, j)),
                 \A k \in 1..last : Speaks(run, k) => k <= j
          PROVE  speakers # {} /\ run.result.Message = Said(Resolved(run, LastOf(speakers)))
      <4>1. j \in speakers /\ \A l \in speakers : l \in Nat /\ l <= j
        BY <2>3, <2>4, <3>2
      <4>2. LastOf(speakers) = j
        BY <4>1, LastIs
      <4> QED
        BY <3>2, <4>1, <4>2
    <3> QED
      BY <2>5, <3>1, <3>2, Zenon DEF MessageAfter
  <2>7. ASSUME NEW a \in run.active, a.priority < run.todo[last].priority
        PROVE  \E i \in 1..(last - 1) : run.todo[i] = a /\ ~Stops(Resolved(run, i))
    BY <2>1, <2>2, <2>3, <2>7 DEF ReadOK
  <2> QED
    BY <2>2, <2>6, <2>7, Zenon DEF run, last, speakers
<1> QED
  BY <1>1, ExecutorInvariance, PTL

-----------------------------------------------------------------------------
(* Chains only move forward: the part of EveryChainEnds that is about single *)
(* steps.                                                                    *)

\* A place in a chain after another one: later in the script, or in a later one.
Later(at, to) == at[1] < to[1] \/ (at[1] = to[1] /\ at[2] < to[2])

\* Where a chain can be: at a call of one of its scripts, at the end of one, or
\* past the last.
PlacesAreBounded ==
  \A r \in Runs :
    LET run == runs[r] IN
    run.pc = "running" =>
      /\ run.at[1] \in 1..(Len(run.todo) + 1) /\ run.at[2] \in Nat \ {0}
      /\ IF run.at[1] <= Len(run.todo) THEN run.at[2] <= Len(Script(run)) + 1
                                       ELSE run.at[2] = 1

\* No step takes a chain back or changes the list it works on: it ends, or goes on
\* to a later call, whatever scripts do and administrators change.
MovesForward ==
  [][\A r \in Runs :
       \/ runs'[r] = runs[r]
       \/ runs[r].pc # "running"
       \/ runs'[r].pc \in {"done", "failed"}
       \/ /\ runs'[r].pc = "running" /\ runs'[r].todo = runs[r].todo
          /\ Later(runs[r].at, runs'[r].at)]_vars

LEMMA ExecuteForward ==
  ASSUME ExecutorInv, NEW r \in Runs, Execute(r)
  PROVE  /\ \A s \in Runs : s # r => runs'[s] = runs[s]
         /\ \/ runs'[r].pc \in {"done", "failed"}
            \/ /\ runs'[r].pc = "running" /\ runs'[r].todo = runs[r].todo
               /\ Later(runs[r].at, runs'[r].at)
<1> DEFINE run == runs[r]
           on == [run EXCEPT !.at[2] = @ + 1]
<1>1. /\ runs = [s \in Runs |-> runs[s]] /\ DOMAIN run = RunParts
      /\ run.pc = "running"
  BY DEF ExecutorInv, RunOK, RunShape, Execute, CallAPI, FetchAPI, FinishScript, FinishChain,
     InScript, InChain
<1>2. run.at = <<run.at[1], run.at[2]>> /\ run.at[1] \in Nat /\ run.at[2] \in Nat
  BY <1>1 DEF ExecutorInv, RunOK, Running, PlaceOK
<1>3. /\ DOMAIN on = RunParts /\ on.pc = "running" /\ on.todo = run.todo
      /\ on.at = <<run.at[1], run.at[2] + 1>>
  BY <1>1, <1>2 DEF RunParts
<1>4. ASSUME NEW q, runs' = [runs EXCEPT ![r] = q]
      PROVE  runs'[r] = q /\ \A s \in Runs : s # r => runs'[s] = runs[s]
  BY <1>1, <1>4
<1>5. ASSUME NEW q, q.pc = "running", q.todo = run.todo,
             q.at = <<run.at[1], run.at[2] + 1>>, runs' = [runs EXCEPT ![r] = q]
      PROVE  /\ \A s \in Runs : s # r => runs'[s] = runs[s]
             /\ runs'[r].pc = "running" /\ runs'[r].todo = runs[r].todo
             /\ Later(runs[r].at, runs'[r].at)
  <2>1. runs'[r] = q /\ \A s \in Runs : s # r => runs'[s] = runs[s]
    BY <1>4, <1>5
  <2>2. q.at[1] = run.at[1] /\ q.at[2] = run.at[2] + 1
    BY <1>5
  <2> HIDE DEF run
  <2>3. Later(run.at, q.at)
    BY <1>2, <2>2 DEF Later
  <2> QED
    BY <1>5, <2>1, <2>3 DEF run
<1>6. CASE FetchAPI(r)
  <2>1. PICK outcome :
          runs' = [runs EXCEPT ![r] =
                     [Fetch(on, outcome) EXCEPT
                        !.heard = @ \cup {[at |-> run.at, ok |-> outcome = "2xx"]}]]
    BY <1>6 DEF FetchAPI
  <2> DEFINE q == [Fetch(on, outcome) EXCEPT
                     !.heard = @ \cup {[at |-> run.at, ok |-> outcome = "2xx"]}]
  <2> HIDE DEF on
  <2>2. q.pc = on.pc /\ q.todo = on.todo /\ q.at = on.at
    BY <1>3 DEF Fetch, RunParts
  <2> HIDE DEF q
  <2>3. runs' = [runs EXCEPT ![r] = q]
    BY <2>1 DEF q, on
  <2> QED
    BY <1>3, <1>5, <2>2, <2>3
<1>7. CASE CallAPI(r)
  <2> DEFINE call == NextCall(run)
             stop == [run EXCEPT !.pc = "failed"]
             done == [on EXCEPT !.api = Called(run.api, call), !.user = Changed(run.user, call)]
  <2>1. runs' = [runs EXCEPT ![r] =
          CASE ~Takes(call, run.last) -> on
            [] Takes(call, run.last) /\ call.op = "throw" -> stop
            [] OTHER -> done]
    BY <1>7 DEF CallAPI
  <2>2. stop.pc = "failed"
    BY <1>1 DEF RunParts
  <2>3. done.pc = on.pc /\ done.todo = on.todo /\ done.at = on.at
    <3> HIDE DEF on
    <3> QED
      BY <1>3 DEF RunParts
  <2> HIDE DEF on, stop, done, call
  <2>4. CASE ~Takes(call, run.last)
    <3>1. runs' = [runs EXCEPT ![r] = on]
      BY <2>1, <2>4
    <3> QED
      BY <1>3, <1>5, <3>1
  <2>5. CASE Takes(call, run.last) /\ call.op = "throw"
    <3>1. runs' = [runs EXCEPT ![r] = stop]
      BY <2>1, <2>5
    <3> QED
      BY <1>4, <2>2, <3>1
  <2>6. CASE Takes(call, run.last) /\ call.op # "throw"
    <3>1. runs' = [runs EXCEPT ![r] = done]
      BY <2>1, <2>6
    <3> QED
      BY <1>3, <1>5, <2>3, <3>1
  <2> QED
    BY <2>4, <2>5, <2>6
<1>8. CASE FinishScript(r)
  <2> DEFINE result == Combine(run.result, run.api)
             failed == [run EXCEPT !.pc = "failed"]
             denied == [run EXCEPT !.pc = "done", !.result = result]
             next == [run EXCEPT !.at = NextScript(@), !.api = FreshAPI, !.last = "none",
                                 !.result = result]
  <2>1. runs' = [runs EXCEPT ![r] = IF ~GaveVerdict(run.api) THEN failed
                                    ELSE IF ~Continues(result) THEN denied ELSE next]
    BY <1>8 DEF FinishScript
  <2>2. failed.pc = "failed" /\ denied.pc = "done"
    BY <1>1 DEF RunParts
  <2>3. next.pc = "running" /\ next.todo = run.todo /\ next.at = <<run.at[1] + 1, 1>>
    BY <1>1, Zenon DEF RunParts, NextScript
  <2> HIDE DEF failed, denied, next
  <2>4. runs'[r] \in {failed, denied, next} /\ \A s \in Runs : s # r => runs'[s] = runs[s]
    BY <1>1, <2>1
  <2>5. runs'[r] = next => Later(run.at, runs'[r].at)
    BY <1>2, <2>3 DEF Later
  <2> QED
    BY <2>2, <2>3, <2>4, <2>5
<1>9. CASE FinishChain(r)
  <2>1. [run EXCEPT !.pc = "done"].pc = "done"
    BY <1>1 DEF RunParts
  <2> QED
    BY <1>1, <1>9, <2>1 DEF FinishChain
<1> QED
  BY <1>6, <1>7, <1>8, <1>9 DEF Execute

\* A chain makes each call of each of its scripts at most once, in their order,
\* and there are only so many: it ends after finitely many steps of its own,
\* unless a script of it hangs, whatever administrators change meanwhile
\* (action_executor.go:75-118).  That it takes these steps is what the fairness
\* of the run adds.
THEOREM ForwardCorrect == Spec => []PlacesAreBounded /\ MovesForward
<1>1. ExecutorInv => PlacesAreBounded
  <2> SUFFICES ASSUME ExecutorInv, NEW r \in Runs, runs[r].pc = "running"
               PROVE  LET run == runs[r] IN
                      /\ run.at[1] \in 1..(Len(run.todo) + 1) /\ run.at[2] \in Nat \ {0}
                      /\ IF run.at[1] <= Len(run.todo) THEN run.at[2] <= Len(Script(run)) + 1
                                                       ELSE run.at[2] = 1
    BY DEF PlacesAreBounded
  <2> DEFINE run == runs[r]
  <2>1. RunShape(run) /\ PlaceOK(run)
    BY DEF ExecutorInv, RunOK, Running
  <2>2. Len(run.todo) \in Nat /\ DOMAIN run.todo = 1..Len(run.todo)
    BY <2>1, Places
  <2> HIDE DEF run
  <2>3. run.at[1] \in 1..(Len(run.todo) + 1) /\ run.at[2] \in Nat \ {0}
    BY <2>1 DEF PlaceOK
  <2>4. run.at[1] <= Len(run.todo) <=> run.at[1] \in DOMAIN run.todo
    BY <2>2, <2>3
  <2> QED
    BY <2>1, <2>3, <2>4 DEF PlaceOK, run
<1>2. ASSUME ExecutorInv, [Next]_vars
      PROVE  \A r \in Runs :
               \/ runs'[r] = runs[r]
               \/ runs[r].pc # "running"
               \/ runs'[r].pc \in {"done", "failed"}
               \/ /\ runs'[r].pc = "running" /\ runs'[r].todo = runs[r].todo
                  /\ Later(runs[r].at, runs'[r].at)
  <2>1. CASE UNCHANGED vars \/ Administer
    BY <2>1 DEF vars, Administer, CreateAction, UpdateAction, DeleteAction
  <2>2. ASSUME NEW r \in Runs, GetActionsByType(r) \/ QueryFails(r) \/ Return(r)
        PROVE  runs[r].pc # "running" /\ \A s \in Runs : s # r => runs'[s] = runs[s]
    <3>1. runs = [s \in Runs |-> runs[s]]
      BY <1>2 DEF ExecutorInv
    <3>2. PICK q : runs' = [runs EXCEPT ![r] = q]
      BY <2>2 DEF GetActionsByType, QueryFails, Return
    <3>3. \A s \in Runs : s # r => runs'[s] = runs[s]
      BY <3>1, <3>2
    <3>4. runs[r].pc # "running"
      BY <2>2 DEF GetActionsByType, QueryFails, Return
    <3> QED
      BY <3>3, <3>4
  <2> QED
    BY <1>2, <2>1, <2>2, ExecuteForward DEF Next
<1>3. ExecutorInv /\ [Next]_vars =>
        [\A r \in Runs :
           \/ runs'[r] = runs[r]
           \/ runs[r].pc # "running"
           \/ runs'[r].pc \in {"done", "failed"}
           \/ /\ runs'[r].pc = "running" /\ runs'[r].todo = runs[r].todo
              /\ Later(runs[r].at, runs'[r].at)]_vars
  BY <1>2
<1> QED
  BY <1>1, <1>3, ExecutorInvariance, PTL DEF Spec, MovesForward
=============================================================================
