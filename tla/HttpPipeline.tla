----------------------------- MODULE HttpPipeline -----------------------------
(***************************************************************************)
(* What surrounds the services: a request passes the middleware for        *)
(* security headers, the one that writes the audit log, the router, the    *)
(* rate limiter and a handler, which decodes its input, calls a service    *)
(* and maps the outcome to a status.  The audit middleware hands down a    *)
(* responseWriter of its own to learn the status.                          *)
(*                                                                         *)
(* Whether the limiter allows a request and what a service comes to is left *)
(* open here (RateLimiter, RefreshTokens, Accounts, ActionExecutor and     *)
(* OAuthFlow say more).  net/http is external: it keeps an answer in a     *)
(* buffer until the outermost handler has returned or the buffer is full,  *)
(* takes the headers when the status is written, and closes the connection *)
(* of a handler that panics.                                               *)
(***************************************************************************)
EXTENDS Naturals, FiniteSets

CONSTANT Requests  \* requests ever made

Endpoints == {"POST /register", "POST /login", "POST /logout", "POST /refresh_token",
              "GET /auth/login", "GET /auth/callback", "GET /actions", "POST /actions",
              "PUT /actions/{id}", "DELETE /actions/{id}"}

\* The router knows no such path, no such method of it, or the path only in
\* another spelling ("//login").
Unrouted == {"no path", "no method", "unclean path"}

VARIABLES
  req,      \* the local state of every request
  audit,    \* the audit log: what it says of the requests in it
  answers   \* what clients were sent

vars == <<req, audit, answers>>

Steps == {"new", "headers", "route", "limit", "decode", "service", "respond", "audit",
          "flush", "done", "panicked", "hung", "lost"}

\* status, wroteHeader: the responseWriter's; headers: those set so far; wire:
\* what net/http has been told to send; outcome: the service's.
NothingWritten == [status |-> 0, headers |-> {}]

NewRequest == [pc |-> "new", target |-> "no path", outcome |-> "none", status |-> 0,
               wroteHeader |-> FALSE, headers |-> {}, wire |-> NothingWritten]

Init ==
  /\ req = [r \in Requests |-> NewRequest]
  /\ audit = {}
  /\ answers = {}

At(r, pc) == req[r].pc = pc
Become(r, q) == req' = [req EXCEPT ![r] = q]
Goto(r, pc) == Become(r, [req[r] EXCEPT !.pc = pc])

-----------------------------------------------------------------------------
(* responseWriter. *)

\* net/http (external): the first status counts and takes the headers along.
NetWriteHeader(q, status) ==
  IF q.wire = NothingWritten
    THEN [q EXCEPT !.wire = [status |-> status, headers |-> q.headers]] ELSE q

\* (mutant) The status is passed on and not noted.
WriteHeaderUnnoted(q, status) == NetWriteHeader([q EXCEPT !.wroteHeader = TRUE], status)

\* The first status counts, for the log as for the client.
WriteHeader(q, status) ==
  IF q.wroteHeader THEN q
  ELSE NetWriteHeader([q EXCEPT !.status = status, !.wroteHeader = TRUE], status)

Write(q) == IF q.wroteHeader THEN q ELSE WriteHeader(q, 200)

\* JSONResponse, http.Error and http.Redirect: the status, then the body.
Respond(q, status) == Write(WriteHeader(q, status))

-----------------------------------------------------------------------------
(* Middleware and router. *)

\* A request arrives.
Receive(r) ==
  /\ At(r, "new")
  /\ \E target \in Endpoints \cup Unrouted :
       Become(r, [req[r] EXCEPT !.pc = "headers", !.target = target])
  /\ UNCHANGED <<audit, answers>>

\* (mutant) The headers are set on the way back.
SecurityHeadersLate(q) == q.headers

\* SecurityHeadersMiddleware sets them before it calls the next handler.
SecurityHeaders(q) == q.headers \cup {"Security"}

SecurityHeadersMiddleware(r) ==
  /\ At(r, "headers")
  /\ Become(r, [req[r] EXCEPT !.pc = "route", !.headers = SecurityHeaders(req[r])])
  /\ UNCHANGED <<audit, answers>>

\* (mutant) The middleware wraps the handlers, not the router.
AuditedHandlersOnly(q) == IF q.target \in Unrouted THEN "flush" ELSE "audit"

\* AuditLogMiddleware wraps the router and all behind it.
Audited(q) == "audit"

Answer(r, q) == Become(r, [q EXCEPT !.pc = Audited(q)])

\* The router answers itself where it finds no handler.
Route(r) ==
  /\ At(r, "route")
  /\ CASE req[r].target = "no path" -> Answer(r, Respond(req[r], 404))
       [] req[r].target = "no method" -> Answer(r, Respond(req[r], 405))
       [] req[r].target = "unclean path" -> Answer(r, Respond(req[r], 301))
       [] OTHER -> Goto(r, "limit")
  /\ UNCHANGED <<audit, answers>>

RateLimit(r) ==
  /\ At(r, "limit")
  /\ \/ Goto(r, "decode")
     \/ Answer(r, Respond([req[r] EXCEPT !.headers = @ \cup {"Retry-After"}], 429))
  /\ UNCHANGED <<audit, answers>>

-----------------------------------------------------------------------------
(* Handlers. *)

Created == {"POST /register", "POST /actions"}

SuccessStatus(target) ==
  CASE target \in Created -> 201
    [] target = "GET /auth/login" -> 307
    [] target = "GET /auth/callback" -> 302
    [] OTHER -> 200

\* (mutant) Errors of a service are answered like successes.
FailureStatusLost(target) == SuccessStatus(target)

FailureStatus(target) ==
  CASE target = "POST /register" -> 400
    [] target \in {"POST /login", "POST /refresh_token"} -> 401
    [] OTHER -> 500

HasInput(target) == target # "GET /actions"

\* A body that does not decode, an id that is no number, a missing parameter, a
\* state token that is not valid.
Decode(r) ==
  LET q == req[r] IN
  /\ At(r, "decode")
  /\ \/ Goto(r, "service")
     \/ HasInput(q.target) /\ Become(r, [Respond(q, 400) EXCEPT !.pc = "audit"])
  /\ UNCHANGED <<audit, answers>>

\* The service returns, with or without an error, panics, or does not return.
CallService(r) ==
  /\ At(r, "service")
  /\ \/ \E outcome \in {"ok", "error"} :
          Become(r, [req[r] EXCEPT !.pc = "respond", !.outcome = outcome])
     \/ Goto(r, "panicked") \/ Goto(r, "hung")
  /\ UNCHANGED <<audit, answers>>

\* The answer, a list of actions or the message of a script, may be longer than
\* net/http's buffer: then it is sent before the handler returns.
RespondAfterService(r) ==
  LET q == req[r]
      status == IF q.outcome = "ok" THEN SuccessStatus(q.target) ELSE FailureStatus(q.target)
      to == Respond(q, status) IN
  /\ At(r, "respond")
  /\ Become(r, [to EXCEPT !.pc = "audit"])
  /\ \/ UNCHANGED answers
     \/ answers' = answers \cup {[req |-> r, wire |-> to.wire, early |-> TRUE]}
  /\ UNCHANGED audit

\* AuditLogMiddleware, once the next handler has returned.
AuditLog(r) ==
  /\ At(r, "audit")
  /\ audit' = audit \cup {[req |-> r, status |-> req[r].status]}
  /\ Goto(r, "flush")
  /\ UNCHANGED answers

\* The outermost handler has returned: net/http sends the answer, 200 where no
\* status was written.  The client may be gone.
Flush(r) ==
  LET q == req[r] IN
  /\ At(r, "flush")
  /\ \/ /\ ~\E x \in answers : x.req = r
        /\ answers' = answers \cup {[req |-> r, wire |-> NetWriteHeader(q, 200).wire,
                                      early |-> FALSE]}
     \/ UNCHANGED answers
  /\ Goto(r, "done")
  /\ UNCHANGED audit

\* The process dies.
Restart ==
  /\ \E r \in Requests : req[r].pc \notin {"new", "done", "panicked", "lost"}
  /\ req' = [r \in Requests |->
               IF req[r].pc \in {"new", "done", "panicked", "lost"} THEN req[r]
               ELSE [req[r] EXCEPT !.pc = "lost"]]
  /\ UNCHANGED <<audit, answers>>

Handle(r) ==
  \/ SecurityHeadersMiddleware(r)
  \/ Route(r)
  \/ RateLimit(r)
  \/ Decode(r)
  \/ CallService(r)
  \/ RespondAfterService(r)
  \/ AuditLog(r)
  \/ Flush(r)

Next ==
  \/ \E r \in Requests : Receive(r) \/ Handle(r)
  \/ Restart

Spec == Init /\ [][Next]_vars

-----------------------------------------------------------------------------
(* Properties. *)

\* The audit log says of a request the status its client got, whoever wrote the
\* answer (router, limiter, handler) and whether or not the client got it
\* before the record was written (audit_log.go:25-41, 54-66).
AuditTellsTheTruth ==
  \A a \in audit, x \in answers : a.req = x.req => a.status = x.wire.status

\* A client has an answer only if it is in the audit log, whenever the process
\* dies (audit_log.go:54-66: the record is written before the outermost handler
\* returns); an answer too long for the buffer has its record as soon as the
\* handler returns, unless the process dies before.
AnswersAreRecorded ==
  \A x \in answers :
    \/ \E a \in audit : a.req = x.req
    \/ x.early /\ req[x.req].pc \in {"audit", "lost"}

\* A client is told that what it asked for was done if and only if the service
\* said so: no refusal (no route, limit, input) goes on to a service or passes
\* for a success, and no error of a service is swallowed.  (The router's own 301
\* only names the path to ask for.)
\* (auth_handler.go, token_handler.go, action_handler.go, oauth_handler.go)
SuccessMeansDone ==
  \A x \in answers :
    x.wire.status \in 200..399 \ {301} <=> req[x.req].outcome = "ok"

\* Every answer carries the security headers, also those of the router and the
\* limiter (headers.go:7-14, server.go:47-48).
EveryAnswerSecured == \A x \in answers : "Security" \in x.wire.headers
=============================================================================
