---------------------------- MODULE ActionExecutor ----------------------------
(***************************************************************************)
(* User-written action scripts: the actions table that administrators      *)
(* change, and ExecuteActions, which reads the active actions of a type    *)
(* and runs their scripts in order of priority on one user map.            *)
(*                                                                         *)
(* A script is the sequence of calls it makes to its environment: allow,   *)
(* deny, setUser, a change of context.user in place, fetch, an exception,  *)
(* or a call that never returns (fetch has no timeout and the VM is never  *)
(* interrupted).  It may look at the answer to its last fetch and make a   *)
(* call only "when" that was, or was not, a success.  A user map is the    *)
(* set of keys somebody put into it; setUser(context.user) gives back the  *)
(* map that is there: it is left out.                                      *)
(* Runs and administrators interleave between any two of these calls.      *)
(***************************************************************************)
EXTENDS Naturals, Sequences, FiniteSets

CONSTANTS
  Types,       \* trigger names: pre-login, post-login, ...
  Drafts,      \* action bodies that administrators may store
  Keys,        \* keys of user maps
  Messages,    \* non-empty arguments of deny
  Shared,      \* the map the caller passed in, as opposed to one of a script
  MaxActions,  \* bound: actions ever created
  Runs         \* calls of ExecuteActions under way

ApiCall == [op : {"allow", "throw", "hang", "fetch"}] \cup [op : {"deny"}, message : Messages \cup {""}]
           \cup [op : {"setUser"}, user : SUBSET Keys] \cup [op : {"change"}, key : Keys]
           \cup [op : {"allow", "throw"}, when : {"ok", "not ok"}]
           \cup [op : {"deny"}, message : Messages \cup {""}, when : {"ok", "not ok"}]

Action == [type : Types, code : Seq(ApiCall), is_active : BOOLEAN, priority : Nat]

ASSUME ExecutorAssumption ==
  /\ Drafts \subseteq Action
  /\ \A user \in SUBSET Keys : user # Shared
  /\ "" \notin Messages
  /\ MaxActions \in Nat

VARIABLES
  actions,  \* the table: id -> action
  created,  \* ids the SERIAL column has handed out
  runs      \* the local state of every run

vars == <<actions, created, runs>>

\* actionAPI, as executeAction sets it up for a script.
FreshAPI == [allowCalled |-> FALSE, denyCalled |-> FALSE, allow |-> TRUE,
             user |-> Shared, message |-> ""]

FreshResult == [Allow |-> TRUE, User |-> Shared, Message |-> ""]

\* todo: the list that was read; at: the script being run and the call it
\* makes next; last: what became of its last fetch; user: the content of the map
\* that was passed in.  History: active and complete, the rows the query
\* selected, all read or not; heard, the answers to all fetches.
IdleRun == [pc |-> "idle", todo |-> <<>>, at |-> <<1, 1>>, api |-> FreshAPI,
            last |-> "none", user |-> {}, result |-> FreshResult, active |-> {},
            complete |-> TRUE, heard |-> {}]

Init ==
  /\ actions = [id \in {} |-> FALSE]
  /\ created = 0
  /\ runs = [r \in Runs |-> IdleRun]

-----------------------------------------------------------------------------
(* Administrators (actionRepository). *)

\* The table with a row for an id.
Stored(id, draft) ==
  [i \in DOMAIN actions \cup {id} |-> IF i = id THEN draft ELSE actions[i]]

CreateAction ==
  /\ created < MaxActions
  /\ created' = created + 1
  /\ \E draft \in Drafts : actions' = Stored(created + 1, draft)
  /\ UNCHANGED runs

\* (mutant) An id without a row is inserted.
UpsertAction ==
  /\ \E id \in 1..MaxActions, draft \in Drafts : actions' = Stored(id, draft)
  /\ UNCHANGED <<created, runs>>

\* Overwrites the whole row; an id without a row is no error and no change.
UpdateAction ==
  /\ \E id \in DOMAIN actions, draft \in Drafts : actions' = [actions EXCEPT ![id] = draft]
  /\ UNCHANGED <<created, runs>>

DeleteAction ==
  /\ \E id \in DOMAIN actions :
       actions' = [i \in DOMAIN actions \ {id} |-> actions[i]]
  /\ UNCHANGED <<created, runs>>

-----------------------------------------------------------------------------
(* Reading the actions of a type. *)

Selected(type) == {id \in DOMAIN actions : actions[id].type = type /\ actions[id].is_active}

\* (mutant) No ORDER BY.
AnyOrderings(ids) ==
  {s \in [1..Cardinality(ids) -> ids] :
     \A i, j \in 1..Cardinality(ids) : i < j => s[i] # s[j]}

\* ORDER BY priority leaves the order of equal priorities open.
Orderings(ids) ==
  {s \in [1..Cardinality(ids) -> ids] :
     \A i, j \in 1..Cardinality(ids) :
       i < j => s[i] # s[j] /\ actions[s[i]].priority <= actions[s[j]].priority}

\* rows.Next() also ends the loop when the connection breaks, and nobody asks
\* rows.Err(): a prefix of the list passes for the list.
GetActionsByType(r) ==
  /\ runs[r].pc = "idle"
  /\ \E type \in Types :
       LET ids == Selected(type) IN
       \E order \in Orderings(ids), n \in 0..Cardinality(ids) :
         runs' = [runs EXCEPT ![r] =
           [IdleRun EXCEPT !.pc = "running",
                           !.todo = [i \in 1..n |-> actions[order[i]]],
                           !.active = {actions[id] : id \in ids},
                           !.complete = (n = Cardinality(ids))]]
  /\ UNCHANGED <<actions, created>>

\* The query fails: ExecuteActions returns an error and no result.
QueryFails(r) ==
  /\ runs[r].pc = "idle"
  /\ runs' = [runs EXCEPT ![r].pc = "failed"]
  /\ UNCHANGED <<actions, created>>

-----------------------------------------------------------------------------
(* Running the scripts. *)

Script(run) == run.todo[run.at[1]].code
InChain(run) == run.pc = "running" /\ run.at[1] <= Len(run.todo)
InScript(run) == InChain(run) /\ run.at[2] <= Len(Script(run))
NextCall(run) == Script(run)[run.at[2]]

Allow(api) == [api EXCEPT !.allowCalled = TRUE, !.allow = TRUE]

Deny(api, message) == [api EXCEPT !.denyCalled = TRUE, !.allow = FALSE, !.message = message]

SetUser(api, user) == [api EXCEPT !.user = user]

\* The request was refused or made, no answer came or one could not be read, or
\* there is one, with a status.
FetchOutcomes == {"no request", "no answer", "2xx", "other status"}

\* fetchPolyfill throws nothing: every error is an object without "ok".
Fetch(run, outcome) == [run EXCEPT !.last = IF outcome = "2xx" THEN "ok" ELSE "not ok"]

Takes(call, last) == "when" \in DOMAIN call => call.when = last

FetchAPI(r) ==
  LET run == runs[r]
      on == [run EXCEPT !.at[2] = @ + 1] IN
  /\ InScript(run)
  /\ NextCall(run).op = "fetch"
  /\ \E outcome \in FetchOutcomes :
       runs' = [runs EXCEPT ![r] =
                  [Fetch(on, outcome) EXCEPT
                     !.heard = @ \cup {[at |-> run.at, ok |-> outcome = "2xx"]}]]
  /\ UNCHANGED <<actions, created>>

Called(api, call) ==
  CASE call.op = "allow" -> Allow(api)
    [] call.op = "deny" -> Deny(api, call.message)
    [] call.op = "setUser" -> SetUser(api, call.user)
    [] OTHER -> api

Changed(user, call) == IF call.op = "change" THEN user \cup {call.key} ELSE user

\* One call of a running script; a call that hangs is not one it gets past.
CallAPI(r) ==
  LET run == runs[r]
      call == NextCall(run)
      on == [run EXCEPT !.at[2] = @ + 1] IN
  /\ InScript(run)
  /\ call.op \notin {"hang", "fetch"}
  /\ runs' = [runs EXCEPT ![r] =
       CASE ~Takes(call, run.last) -> on
         [] Takes(call, run.last) /\ call.op = "throw" -> [run EXCEPT !.pc = "failed"]
         [] OTHER -> [on EXCEPT !.api = Called(run.api, call), !.user = Changed(run.user, call)]]
  /\ UNCHANGED <<actions, created>>

\* (mutant) The user map of the first script stays.
CombineKeepingUser(result, api) ==
  [Allow |-> result.Allow /\ api.allow,
   User |-> IF result.User = Shared THEN api.user ELSE result.User,
   Message |-> IF api.message # "" THEN api.message ELSE result.Message]

\* How ExecuteActions adds the result of a script to that of the chain.
Combine(result, api) ==
  [Allow |-> result.Allow /\ api.allow,
   User |-> api.user,
   Message |-> IF api.message # "" THEN api.message ELSE result.Message]

\* (mutant) A script without a verdict passes.
VerdictUnchecked(api) == TRUE

\* (mutant) The loop starts over.
FirstScript(at) == <<1, 1>>

NextScript(at) == <<at[1] + 1, 1>>
GaveVerdict(api) == api.allowCalled \/ api.denyCalled
Continues(result) == result.Allow

\* A script has ended: it must have given a verdict; a denial ends the chain.
FinishScript(r) ==
  LET run == runs[r]
      result == Combine(run.result, run.api) IN
  /\ InChain(run) /\ ~InScript(run)
  /\ runs' = [runs EXCEPT ![r] =
       IF ~GaveVerdict(run.api) THEN [run EXCEPT !.pc = "failed"]
       ELSE IF ~Continues(result) THEN [run EXCEPT !.pc = "done", !.result = result]
       ELSE [run EXCEPT !.at = NextScript(@), !.api = FreshAPI, !.last = "none",
                            !.result = result]]
  /\ UNCHANGED <<actions, created>>

FinishChain(r) ==
  /\ runs[r].pc = "running" /\ ~InChain(runs[r])
  /\ runs' = [runs EXCEPT ![r].pc = "done"]
  /\ UNCHANGED <<actions, created>>

\* The caller has taken the result.
Return(r) ==
  /\ runs[r].pc \in {"done", "failed"}
  /\ runs' = [runs EXCEPT ![r] = IdleRun]
  /\ UNCHANGED <<actions, created>>

Execute(r) == CallAPI(r) \/ FetchAPI(r) \/ FinishScript(r) \/ FinishChain(r)

Administer == CreateAction \/ UpdateAction \/ DeleteAction

Next ==
  \/ Administer
  \/ \E r \in Runs : GetActionsByType(r) \/ QueryFails(r) \/ Execute(r) \/ Return(r)

Spec == Init /\ [][Next]_vars

\* The VM keeps running a script until it returns.
FairSpec == Spec /\ \A r \in Runs : WF_vars(Execute(r))

-----------------------------------------------------------------------------
(* What a chain of scripts means, without running it. *)

Positions(code, op) == {k \in DOMAIN code : code[k].op = op}

Verdicts(code) == Positions(code, "allow") \cup Positions(code, "deny")

\* The script's last word.
LastOf(ks) == CHOOSE k \in ks : \A l \in ks : l <= k
Denies(code) == Verdicts(code) # {} /\ code[LastOf(Verdicts(code))].op = "deny"

\* The script ends the chain with an error.
Fails(code) == Positions(code, "throw") # {} \/ Verdicts(code) = {}

Stops(code) == Fails(code) \/ Denies(code)

\* What a script does given the answers it hears: a call it does not make is a
\* fetch to nowhere.
Heard(run, i, k) ==
  LET before == {h \in run.heard : h.at[1] = i /\ h.at[2] < k} IN
  IF before = {} THEN "none"
  ELSE IF (CHOOSE h \in before : \A g \in before : g.at[2] <= h.at[2]).ok THEN "ok" ELSE "not ok"

Resolved(run, i) ==
  LET code == run.todo[i].code IN
  [k \in DOMAIN code |-> IF Takes(code[k], Heard(run, i, k)) THEN code[k] ELSE [op |-> "fetch"]]

Codes(run) == [i \in DOMAIN run.todo |-> Resolved(run, i)]

\* The scripts of a chain that run: up to the first that fails or denies.
Ran(codes) == {i \in DOMAIN codes : \A j \in 1..(i - 1) : ~Stops(codes[j])}

\* The map after a chain: the one the last script to run chose with setUser,
\* else the map passed in with everything changed in place by then.
UserAfter(codes) ==
  LET last == codes[LastOf(Ran(codes))]
      sets == Positions(last, "setUser") IN
  IF sets # {} THEN last[LastOf(sets)].user
  ELSE UNION {{codes[i][k].key : k \in Positions(codes[i], "change")} : i \in Ran(codes)}

UserOf(run) == IF run.result.User = Shared THEN run.user ELSE run.result.User

-----------------------------------------------------------------------------
(* Properties. *)

\* Every variable has its type; a run works on rows it has read.
TypeOK ==
  /\ DOMAIN actions \subseteq 1..created /\ created \in 0..MaxActions
  /\ \A id \in DOMAIN actions : actions[id] \in Drafts
  /\ \A r \in Runs :
       LET run == runs[r] IN
       /\ run.pc \in {"idle", "running", "done", "failed"}
       /\ \A i \in DOMAIN run.todo : run.todo[i] \in run.active
       /\ run.api.user = Shared \/ run.api.user \subseteq Keys
       /\ run.user \subseteq Keys
       /\ run.last \in {"none", "ok", "not ok"}

\* A chain that ends without an error says what the scripts it ran mean: it
\* allows if and only if none of those it read denies, its user map is the one
\* they leave behind; and it ends with an error only if one of them fails.
ResultIsMeaning ==
  \A r \in Runs :
    LET run == runs[r]
        codes == Codes(run) IN
    /\ run.pc = "done" =>
         /\ \A i \in Ran(codes) : ~Fails(codes[i])
         /\ run.result.Allow <=> \A i \in DOMAIN codes : ~Stops(codes[i])
         /\ codes # <<>> => UserOf(run) = UserAfter(codes)
    /\ run.pc = "failed" /\ codes # <<>> => \E i \in Ran(codes) : Fails(codes[i])

\* Whatever administrators change meanwhile, a chain that read its whole list
\* allows only if every action that was active when it was read allows.
AllowedByAll ==
  \A r \in Runs :
    LET run == runs[r] IN
    run.pc = "done" /\ run.result.Allow /\ run.complete =>
      \A a \in run.active :
        \E i \in DOMAIN run.todo : run.todo[i] = a /\ ~Stops(Resolved(run, i))

\* The message of a script: that of its last deny.
Said(code) ==
  LET denials == Positions(code, "deny") IN
  IF denials = {} THEN "" ELSE code[LastOf(denials)].message

\* A refusal is that of an action that denies, and every action that was active
\* before it in priority ran and let the user pass, also where the connection
\* broke while the actions were read (action_repository_postgres.go:42-64).  It
\* comes with the last message said by then: where the action denies without
\* one, that of a script before it, which allowed in the end.
FirstRefusalDecides ==
  \A r \in Runs :
    LET run == runs[r]
        last == run.at[1]
        speakers == {i \in 1..last : Said(Resolved(run, i)) # ""} IN
    run.pc = "done" /\ ~run.result.Allow =>
      /\ Denies(Resolved(run, last))
      /\ run.result.Message =
           IF speakers = {} THEN "" ELSE Said(Resolved(run, LastOf(speakers)))
      /\ \A a \in run.active : a.priority < run.todo[last].priority =>
           \E i \in 1..(last - 1) : run.todo[i] = a /\ ~Stops(Resolved(run, i))

\* A chain ends, unless a script of it hangs.
EveryChainEnds ==
  \A r \in Runs :
    runs[r].pc = "running" ~>
      \/ runs[r].pc # "running"
      \/ InScript(runs[r]) /\ NextCall(runs[r]).op = "hang"

\* "Apply any changes from pre-login actions" (auth_service.go:426, likewise
\* 109 for pre-register, 140 for post-register): the changes a script asks for
\* with setUser are in the map that the service applies, unless a later
\* setUser replaced them.
ChangesSurvive ==
  \A r \in Runs :
    LET run == runs[r]
        codes == Codes(run) IN
    run.pc = "done" /\ run.result.Allow =>
      \A i \in Ran(codes) : \A k \in Positions(codes[i], "setUser") :
        \/ \E l \in Positions(codes[i], "setUser") : k < l
        \/ \E j \in Ran(codes) : i < j /\ Positions(codes[j], "setUser") # {}
        \/ codes[i][k].user \subseteq UserOf(run)
=============================================================================
