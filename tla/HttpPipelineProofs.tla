-------------------------- MODULE HttpPipelineProofs --------------------------
(* Proofs about HttpPipeline, for any number of requests: log, client and  *)
(* service agree on what became of a request.                              *)
EXTENDS HttpPipeline, TLAPS

Parts == {"pc", "target", "outcome", "status", "wroteHeader", "headers", "wire"}

\* Steps before anybody has written a status.
Unanswered == {"new", "headers", "route", "limit", "decode", "service", "respond"}

Means(status, outcome) == status \in 200..399 \ {301} <=> outcome = "ok"

\* The wrapper has noted the status that net/http was told, with the headers, and
\* the status says what the service said.
Written(q) ==
  /\ q.wroteHeader
  /\ q.wire # NothingWritten /\ q.wire.status = q.status
  /\ "Security" \in q.wire.headers
  /\ Means(q.status, q.outcome)

RequestOK(q) ==
  /\ DOMAIN q = Parts
  /\ q.pc \in Unanswered => ~q.wroteHeader /\ q.wire = NothingWritten
  /\ q.pc \in Unanswered \ {"respond"} => q.outcome = "none"
  /\ q.pc = "respond" => q.outcome \in {"ok", "error"}
  /\ q.pc \in Unanswered \ {"new", "headers"} => "Security" \in q.headers
  /\ q.pc \in {"audit", "flush", "done"} => Written(q)

Recorded(r, log) == \E a \in log : a.req = r

RecordOK(a, q) ==
  a.status = q.status /\ Written(q) /\ q.pc \in {"flush", "done", "lost"}

AnswerOK(x, q, log) ==
  /\ x.wire = q.wire /\ Written(q)
  /\ q.pc \in {"audit", "flush", "done", "lost"}
  /\ Recorded(x.req, log) \/ (x.early /\ q.pc \in {"audit", "lost"})

PipelineInv ==
  /\ req = [r \in Requests |-> req[r]]
  /\ \A r \in Requests : RequestOK(req[r])
  /\ \A r \in Requests : req[r].pc \in {"flush", "done"} => Recorded(r, audit)
  /\ \A a \in audit : a.req \in Requests /\ RecordOK(a, req[a.req])
  /\ \A x \in answers : x.req \in Requests /\ AnswerOK(x, req[x.req], audit)

-----------------------------------------------------------------------------
(* Lemmas about the operators. *)

LEMMA PCOnly ==
  ASSUME NEW q, DOMAIN q = Parts, NEW pc
  PROVE  LET new == [q EXCEPT !.pc = pc] IN
         /\ DOMAIN new = Parts /\ new.pc = pc
         /\ new.target = q.target /\ new.outcome = q.outcome /\ new.status = q.status
         /\ new.wroteHeader = q.wroteHeader /\ new.headers = q.headers /\ new.wire = q.wire
BY DEF Parts

\* What the first answer to a request makes of it.
LEMMA Responded ==
  ASSUME NEW q, DOMAIN q = Parts, ~q.wroteHeader, q.wire = NothingWritten,
         NEW status \in Nat \ {0}
  PROVE  LET to == Respond(q, status) IN
         /\ DOMAIN to = Parts /\ to.wroteHeader /\ to.status = status
         /\ to.outcome = q.outcome /\ to.target = q.target
         /\ to.wire = [status |-> status, headers |-> q.headers] /\ to.wire # NothingWritten
<1> DEFINE noted == [q EXCEPT !.status = status, !.wroteHeader = TRUE]
           to == [noted EXCEPT !.wire = [status |-> status, headers |-> noted.headers]]
<1>1. /\ DOMAIN noted = Parts /\ noted.status = status /\ noted.wroteHeader
      /\ noted.outcome = q.outcome /\ noted.target = q.target /\ noted.headers = q.headers
      /\ noted.wire = NothingWritten
  BY DEF Parts
<1>2. WriteHeader(q, status) = to
  BY <1>1 DEF WriteHeader, NetWriteHeader
<1> HIDE DEF noted
<1>3. /\ DOMAIN to = Parts /\ to.status = status /\ to.wroteHeader
      /\ to.outcome = q.outcome /\ to.target = q.target
      /\ to.wire = [status |-> status, headers |-> q.headers]
  BY <1>1 DEF Parts
<1>4. Respond(q, status) = to
  BY <1>2, <1>3 DEF Respond, Write
<1>5. [status |-> status, headers |-> q.headers] # NothingWritten
  BY DEF NothingWritten
<1> QED
  BY <1>3, <1>4, <1>5

\* An answer that means what the service said is in order on its way to the log.
LEMMA RespondedOK ==
  ASSUME NEW q, DOMAIN q = Parts, ~q.wroteHeader, q.wire = NothingWritten,
         "Security" \in q.headers, NEW status \in Nat \ {0}, Means(status, q.outcome)
  PROVE  LET to == [Respond(q, status) EXCEPT !.pc = "audit"] IN
         /\ RequestOK(to) /\ to.pc = "audit" /\ Written(to)
         /\ to.wire = Respond(q, status).wire
<1> DEFINE a == Respond(q, status)
           to == [a EXCEPT !.pc = "audit"]
<1>1. /\ DOMAIN a = Parts /\ a.wroteHeader /\ a.status = status /\ a.outcome = q.outcome
      /\ a.wire = [status |-> status, headers |-> q.headers] /\ a.wire # NothingWritten
  BY Responded
<1> HIDE DEF a
<1>2. Written(a)
  BY <1>1 DEF Written
<1>3. /\ DOMAIN to = Parts /\ to.pc = "audit" /\ to.outcome = a.outcome /\ to.status = a.status
      /\ to.wroteHeader = a.wroteHeader /\ to.wire = a.wire
  BY <1>1, PCOnly
<1>4. Written(to)
  BY <1>2, <1>3 DEF Written
<1> QED
  BY <1>3, <1>4 DEF RequestOK, Unanswered, a

LEMMA Statuses ==
  /\ \A target : SuccessStatus(target) \in {200, 201, 302, 307}
  /\ \A target : FailureStatus(target) \in {400, 401, 500}
BY DEF SuccessStatus, FailureStatus

-----------------------------------------------------------------------------
(* The steps. *)

LEMMA InitPipeline == Init => PipelineInv
<1> SUFFICES ASSUME Init PROVE PipelineInv
  OBVIOUS
<1>1. \A r \in Requests : req[r] = NewRequest
  BY DEF Init
<1>2. RequestOK(NewRequest) /\ NewRequest.pc = "new"
  BY DEF NewRequest, RequestOK, Parts, Unanswered
<1> QED
  BY <1>1, <1>2 DEF Init, PipelineInv

\* A step of request r to q; records and answers may be added for r.
LEMMA StepKeeps ==
  ASSUME PipelineInv, NEW r \in Requests, NEW q, Become(r, q), RequestOK(q),
         q.pc \in {"flush", "done"} => Recorded(r, audit'),
         audit \subseteq audit',
         \A a \in audit' : (a \in audit /\ a.req # r) \/ (a.req = r /\ RecordOK(a, q)),
         \A x \in answers' : (x \in answers /\ x.req # r) \/ (x.req = r /\ AnswerOK(x, q, audit'))
  PROVE  PipelineInv'
<1>1. /\ req' = [s \in Requests |-> req'[s]] /\ req'[r] = q
      /\ \A s \in Requests : s # r => req'[s] = req[s]
  BY DEF PipelineInv, Become
<1>2. ASSUME NEW s \in Requests
      PROVE  RequestOK(req'[s]) /\ (req'[s].pc \in {"flush", "done"} => Recorded(s, audit'))
  BY <1>1 DEF PipelineInv, Recorded
<1>3. ASSUME NEW a \in audit' PROVE a.req \in Requests /\ RecordOK(a, req'[a.req])
  BY <1>1 DEF PipelineInv
<1>4. ASSUME NEW x \in answers' PROVE x.req \in Requests /\ AnswerOK(x, req'[x.req], audit')
  BY <1>1 DEF PipelineInv, AnswerOK, Recorded
<1> QED
  BY <1>1, <1>2, <1>3, <1>4 DEF PipelineInv, RequestOK, Written, Recorded, RecordOK, AnswerOK

\* A step of a request that nobody has answered.
LEMMA UnansweredStep ==
  ASSUME PipelineInv, NEW r \in Requests, req[r].pc \in Unanswered, NEW q, Become(r, q),
         RequestOK(q), q.pc \notin {"flush", "done"}, UNCHANGED <<audit, answers>>
  PROVE  PipelineInv'
<1>1. (\A a \in audit : a.req # r) /\ (\A x \in answers : x.req # r)
  BY DEF PipelineInv, RecordOK, AnswerOK, Unanswered
<1> QED
  BY <1>1, StepKeeps

LEMMA ReceiveStep == ASSUME PipelineInv, NEW r \in Requests, Receive(r) PROVE PipelineInv'
<1>1. PICK target : Become(r, [req[r] EXCEPT !.pc = "headers", !.target = target])
  BY DEF Receive
<1> DEFINE q == [req[r] EXCEPT !.pc = "headers", !.target = target]
<1>2. RequestOK(req[r]) /\ req[r].pc = "new"
  BY DEF PipelineInv, Receive, At
<1>3. /\ DOMAIN q = Parts /\ q.pc = "headers" /\ q.outcome = req[r].outcome
      /\ q.wroteHeader = req[r].wroteHeader /\ q.wire = req[r].wire
  BY <1>2 DEF RequestOK, Parts
<1>4. RequestOK(q)
  BY <1>2, <1>3 DEF RequestOK, Unanswered
<1> QED
  BY <1>1, <1>2, <1>3, <1>4, UnansweredStep DEF Receive, Unanswered

LEMMA SecurityHeadersStep ==
  ASSUME PipelineInv, NEW r \in Requests, SecurityHeadersMiddleware(r) PROVE PipelineInv'
<1> DEFINE q == [req[r] EXCEPT !.pc = "route", !.headers = SecurityHeaders(req[r])]
<1>1. RequestOK(req[r]) /\ req[r].pc = "headers" /\ Become(r, q)
  BY DEF PipelineInv, SecurityHeadersMiddleware, At
<1>2. /\ DOMAIN q = Parts /\ q.pc = "route" /\ q.outcome = req[r].outcome
      /\ q.wroteHeader = req[r].wroteHeader /\ q.wire = req[r].wire
      /\ q.headers = SecurityHeaders(req[r])
  BY <1>1 DEF RequestOK, Parts
<1>3. RequestOK(q)
  BY <1>1, <1>2 DEF RequestOK, Unanswered, SecurityHeaders
<1> QED
  BY <1>1, <1>2, <1>3, UnansweredStep DEF SecurityHeadersMiddleware, Unanswered

\* Going on without an answer.
LEMMA GotoOK ==
  ASSUME NEW q, RequestOK(q),
         NEW pc \in {"limit", "decode", "service", "panicked", "hung"},
         q.pc \in Unanswered \ {"new", "headers", "respond"}
  PROVE  LET new == [q EXCEPT !.pc = pc] IN RequestOK(new) /\ new.pc = pc
BY PCOnly DEF RequestOK, Unanswered

\* Answering in the place of the service.
LEMMA AnswerInstead ==
  ASSUME PipelineInv, NEW r \in Requests, req[r].pc \in {"route", "limit", "decode"},
         NEW q, DOMAIN q = Parts, ~q.wroteHeader, q.wire = NothingWritten,
         "Security" \in q.headers, q.outcome = "none",
         NEW status \in {301, 400, 404, 405, 429},
         NEW to, to = [Respond(q, status) EXCEPT !.pc = "audit"], Become(r, to),
         UNCHANGED <<audit, answers>>
  PROVE  PipelineInv'
<1>1. Means(status, q.outcome) /\ status \in Nat \ {0}
  BY DEF Means
<1>2. RequestOK(to) /\ to.pc = "audit"
  BY <1>1, RespondedOK
<1> QED
  BY <1>2, UnansweredStep DEF Unanswered

LEMMA RouteStep == ASSUME PipelineInv, NEW r \in Requests, Route(r) PROVE PipelineInv'
<1>1. /\ RequestOK(req[r]) /\ req[r].pc = "route" /\ UNCHANGED <<audit, answers>>
  BY DEF PipelineInv, Route, At
<1>2. \/ \E status \in {301, 404, 405} : Answer(r, Respond(req[r], status))
      \/ Goto(r, "limit")
  BY ZenonT(40) DEF Route
<1>3. CASE Goto(r, "limit")
  <2>1. RequestOK([req[r] EXCEPT !.pc = "limit"]) /\ [req[r] EXCEPT !.pc = "limit"].pc = "limit"
    BY <1>1, GotoOK DEF Unanswered
  <2> QED
    BY <1>1, <1>3, <2>1, UnansweredStep DEF Goto, Unanswered
<1>4. ASSUME NEW status \in {301, 404, 405}, Answer(r, Respond(req[r], status)) PROVE PipelineInv'
  <2> DEFINE to == [Respond(req[r], status) EXCEPT !.pc = "audit"]
  <2>1. Become(r, to)
    BY <1>4 DEF Answer, Audited
  <2>2. /\ DOMAIN req[r] = Parts /\ ~req[r].wroteHeader /\ req[r].wire = NothingWritten
        /\ req[r].outcome = "none" /\ "Security" \in req[r].headers
    BY <1>1 DEF RequestOK, Unanswered
  <2>3. to = [Respond(req[r], status) EXCEPT !.pc = "audit"]
    OBVIOUS
  <2> HIDE DEF to
  <2> QED
    BY <1>1, <2>1, <2>2, <2>3, AnswerInstead
<1> QED
  BY <1>2, <1>3, <1>4

LEMMA RateLimitStep == ASSUME PipelineInv, NEW r \in Requests, RateLimit(r) PROVE PipelineInv'
<1> DEFINE late == [req[r] EXCEPT !.headers = @ \cup {"Retry-After"}]
<1>1. /\ RequestOK(req[r]) /\ req[r].pc = "limit" /\ UNCHANGED <<audit, answers>>
      /\ Goto(r, "decode") \/ Answer(r, Respond(late, 429))
  BY DEF PipelineInv, RateLimit, At
<1>2. CASE Goto(r, "decode")
  <2>1. RequestOK([req[r] EXCEPT !.pc = "decode"]) /\ [req[r] EXCEPT !.pc = "decode"].pc = "decode"
    BY <1>1, GotoOK DEF Unanswered
  <2> QED
    BY <1>1, <1>2, <2>1, UnansweredStep DEF Goto, Unanswered
<1>3. CASE Answer(r, Respond(late, 429))
  <2>1. /\ DOMAIN late = Parts /\ late.wroteHeader = req[r].wroteHeader /\ late.wire = req[r].wire
        /\ late.outcome = req[r].outcome /\ late.headers = req[r].headers \cup {"Retry-After"}
    BY <1>1 DEF RequestOK, Parts
  <2>2. /\ DOMAIN late = Parts /\ ~late.wroteHeader /\ late.wire = NothingWritten
        /\ late.outcome = "none" /\ "Security" \in late.headers
    BY <1>1, <2>1 DEF RequestOK, Unanswered
  <2> DEFINE to == [Respond(late, 429) EXCEPT !.pc = "audit"]
  <2>3. Become(r, to)
    BY <1>3 DEF Answer, Audited
  <2>4. to = [Respond(late, 429) EXCEPT !.pc = "audit"]
    OBVIOUS
  <2> HIDE DEF late, to
  <2> QED
    BY <1>1, <2>2, <2>3, <2>4, AnswerInstead
<1> QED
  BY <1>1, <1>2, <1>3

LEMMA DecodeStep == ASSUME PipelineInv, NEW r \in Requests, Decode(r) PROVE PipelineInv'
<1>1. /\ RequestOK(req[r]) /\ req[r].pc = "decode" /\ UNCHANGED <<audit, answers>>
      /\ Goto(r, "service") \/ Become(r, [Respond(req[r], 400) EXCEPT !.pc = "audit"])
  BY DEF PipelineInv, Decode, At
<1>2. CASE Goto(r, "service")
  <2>1. RequestOK([req[r] EXCEPT !.pc = "service"]) /\ [req[r] EXCEPT !.pc = "service"].pc = "service"
    BY <1>1, GotoOK DEF Unanswered
  <2> QED
    BY <1>1, <1>2, <2>1, UnansweredStep DEF Goto, Unanswered
<1>3. CASE Become(r, [Respond(req[r], 400) EXCEPT !.pc = "audit"])
  <2> DEFINE to == [Respond(req[r], 400) EXCEPT !.pc = "audit"]
  <2>1. Become(r, to) /\ to = [Respond(req[r], 400) EXCEPT !.pc = "audit"]
    BY <1>3
  <2>2. /\ DOMAIN req[r] = Parts /\ ~req[r].wroteHeader /\ req[r].wire = NothingWritten
        /\ req[r].outcome = "none" /\ "Security" \in req[r].headers
    BY <1>1 DEF RequestOK, Unanswered
  <2> HIDE DEF to
  <2> QED
    BY <1>1, <2>1, <2>2, AnswerInstead
<1> QED
  BY <1>1, <1>2, <1>3

LEMMA CallServiceStep == ASSUME PipelineInv, NEW r \in Requests, CallService(r) PROVE PipelineInv'
<1>1. /\ RequestOK(req[r]) /\ req[r].pc = "service" /\ UNCHANGED <<audit, answers>>
  BY DEF PipelineInv, CallService, At
<1>2. ASSUME NEW pc \in {"panicked", "hung"}, Goto(r, pc) PROVE PipelineInv'
  <2>1. RequestOK([req[r] EXCEPT !.pc = pc]) /\ [req[r] EXCEPT !.pc = pc].pc = pc
    BY <1>1, GotoOK DEF Unanswered
  <2> QED
    BY <1>1, <1>2, <2>1, UnansweredStep DEF Goto, Unanswered
<1>3. ASSUME NEW outcome \in {"ok", "error"},
             Become(r, [req[r] EXCEPT !.pc = "respond", !.outcome = outcome])
      PROVE  PipelineInv'
  <2> DEFINE q == [req[r] EXCEPT !.pc = "respond", !.outcome = outcome]
  <2>1. /\ DOMAIN q = Parts /\ q.pc = "respond" /\ q.outcome = outcome
        /\ q.wroteHeader = req[r].wroteHeader /\ q.wire = req[r].wire
        /\ q.headers = req[r].headers
    BY <1>1 DEF RequestOK, Parts
  <2>2. RequestOK(q)
    BY <1>1, <2>1 DEF RequestOK, Unanswered
  <2> QED
    BY <1>1, <1>3, <2>1, <2>2, UnansweredStep DEF Unanswered
<1> QED
  BY <1>2, <1>3 DEF CallService

LEMMA RespondStep ==
  ASSUME PipelineInv, NEW r \in Requests, RespondAfterService(r) PROVE PipelineInv'
<1> DEFINE q == req[r]
           status == IF q.outcome = "ok" THEN SuccessStatus(q.target) ELSE FailureStatus(q.target)
           to == [Respond(q, status) EXCEPT !.pc = "audit"]
           early == [req |-> r, wire |-> Respond(q, status).wire, early |-> TRUE]
<1>1. /\ RequestOK(q) /\ q.pc = "respond" /\ UNCHANGED audit /\ Become(r, to)
      /\ answers' \subseteq answers \cup {early}
  BY DEF PipelineInv, RespondAfterService, At
<1>2. status \in Nat \ {0} /\ Means(status, q.outcome)
  BY Statuses DEF Means
<1>3. RequestOK(to) /\ to.pc = "audit" /\ Written(to) /\ to.wire = Respond(q, status).wire
  BY <1>1, <1>2, RespondedOK DEF RequestOK, Unanswered
<1>4. (\A a \in audit : a.req # r) /\ (\A x \in answers : x.req # r)
  BY <1>1 DEF PipelineInv, RecordOK, AnswerOK
<1> HIDE DEF to
<1>5. AnswerOK(early, to, audit') /\ early.req = r
  BY <1>3 DEF AnswerOK
<1>6. \A a \in audit' : a \in audit /\ a.req # r
  BY <1>1, <1>4
<1>7. \A x \in answers' : (x \in answers /\ x.req # r) \/ (x.req = r /\ AnswerOK(x, to, audit'))
  BY <1>1, <1>4, <1>5
<1> HIDE DEF early
<1> QED
  BY <1>1, <1>3, <1>6, <1>7, StepKeeps

LEMMA AuditLogStep == ASSUME PipelineInv, NEW r \in Requests, AuditLog(r) PROVE PipelineInv'
<1> DEFINE q == [req[r] EXCEPT !.pc = "flush"]
           record == [req |-> r, status |-> req[r].status]
<1>1. /\ RequestOK(req[r]) /\ req[r].pc = "audit" /\ Become(r, q)
      /\ audit' = audit \cup {record} /\ UNCHANGED answers
  BY DEF PipelineInv, AuditLog, At, Goto
<1>2. /\ DOMAIN q = Parts /\ q.pc = "flush" /\ q.outcome = req[r].outcome
      /\ q.status = req[r].status /\ q.wroteHeader = req[r].wroteHeader /\ q.wire = req[r].wire
  BY <1>1, PCOnly DEF RequestOK
<1>3. Written(q) /\ RequestOK(q)
  BY <1>1, <1>2 DEF RequestOK, Written, Unanswered
<1>4. record.req = r /\ record.status = req[r].status /\ record \in audit'
  BY <1>1
<1> HIDE DEF q, record
<1>5. RecordOK(record, q) /\ Recorded(r, audit')
  BY <1>1, <1>2, <1>3, <1>4 DEF RecordOK, Recorded
<1>6. \A a \in audit : a.req # r
  BY <1>1 DEF PipelineInv, RecordOK
<1>7. ASSUME NEW x \in answers, x.req = r PROVE AnswerOK(x, q, audit')
  BY <1>2, <1>3, <1>7, <1>5 DEF PipelineInv, AnswerOK
<1>8. \A a \in audit' : (a \in audit /\ a.req # r) \/ (a.req = r /\ RecordOK(a, q))
  BY <1>1, <1>4, <1>6, <1>5
<1>9. \A x \in answers' : (x \in answers /\ x.req # r) \/ (x.req = r /\ AnswerOK(x, q, audit'))
  BY <1>1, <1>7
<1> QED
  BY <1>1, <1>3, <1>5, <1>8, <1>9, StepKeeps

LEMMA FlushStep == ASSUME PipelineInv, NEW r \in Requests, Flush(r) PROVE PipelineInv'
<1> DEFINE q == [req[r] EXCEPT !.pc = "done"]
           answer == [req |-> r, wire |-> NetWriteHeader(req[r], 200).wire, early |-> FALSE]
<1>1. /\ RequestOK(req[r]) /\ req[r].pc = "flush" /\ Become(r, q) /\ UNCHANGED audit
      /\ answers' \subseteq answers \cup {answer}
  BY DEF PipelineInv, Flush, At, Goto
<1>2. /\ DOMAIN q = Parts /\ q.pc = "done" /\ q.outcome = req[r].outcome
      /\ q.status = req[r].status /\ q.wroteHeader = req[r].wroteHeader /\ q.wire = req[r].wire
  BY <1>1, PCOnly DEF RequestOK
<1>3. Written(req[r])
  BY <1>1 DEF RequestOK
<1>4. Written(q) /\ RequestOK(q)
  BY <1>2, <1>3 DEF RequestOK, Written, Unanswered
<1>5. Recorded(r, audit')
  BY <1>1 DEF PipelineInv, Recorded
<1>6. \A a \in audit : a.req = r => RecordOK(a, q)
  BY <1>2, <1>4 DEF PipelineInv, RecordOK
<1>7. \A x \in answers : x.req = r => AnswerOK(x, q, audit')
  BY <1>2, <1>4, <1>5 DEF PipelineInv, AnswerOK
<1>8. AnswerOK(answer, q, audit')
  <2>1. answer.wire = q.wire
    BY <1>2, <1>3 DEF NetWriteHeader, Written
  <2> QED
    BY <1>2, <1>4, <1>5, <2>1 DEF AnswerOK
<1> HIDE DEF q, answer
<1>9. answer.req = r
  BY DEF answer
<1> QED
  BY <1>1, <1>4, <1>5, <1>6, <1>7, <1>8, <1>9, StepKeeps

\* What was written and recorded stays so when the process dies.
LEMMA RestartStep == PipelineInv /\ Restart => PipelineInv'
<1> SUFFICES ASSUME PipelineInv, Restart PROVE PipelineInv'
  OBVIOUS
<1>1. /\ UNCHANGED <<audit, answers>>
      /\ req' = [r \in Requests |-> req'[r]]
      /\ \A r \in Requests : \/ req'[r] = req[r] /\ req[r].pc \in {"new", "done", "panicked", "lost"}
                             \/ req'[r] = [req[r] EXCEPT !.pc = "lost"]
  BY DEF Restart
<1>2. ASSUME NEW r \in Requests
      PROVE  /\ RequestOK(req'[r])
             /\ req'[r].pc \in {"flush", "done"} => Recorded(r, audit')
             /\ \A a \in audit : a.req = r => RecordOK(a, req'[r])
             /\ \A x \in answers : x.req = r => AnswerOK(x, req'[r], audit')
  <2>1. CASE req'[r] = req[r]
    BY <1>1, <2>1 DEF PipelineInv
  <2>2. CASE req'[r] = [req[r] EXCEPT !.pc = "lost"]
    <3>1. /\ DOMAIN req'[r] = Parts /\ req'[r].pc = "lost" /\ req'[r].outcome = req[r].outcome
          /\ req'[r].status = req[r].status /\ req'[r].wroteHeader = req[r].wroteHeader
          /\ req'[r].wire = req[r].wire
      BY <2>2, PCOnly DEF PipelineInv, RequestOK
    <3>2. RequestOK(req'[r])
      BY <3>1 DEF RequestOK, Unanswered
    <3>3. Written(req[r]) => Written(req'[r])
      BY <3>1 DEF Written
    <3>4. ASSUME NEW a \in audit, a.req = r PROVE RecordOK(a, req'[r])
      BY <3>1, <3>3, <3>4 DEF PipelineInv, RecordOK
    <3>5. ASSUME NEW x \in answers, x.req = r PROVE AnswerOK(x, req'[r], audit')
      BY <1>1, <3>1, <3>3, <3>5 DEF PipelineInv, AnswerOK
    <3> QED
      BY <3>1, <3>2, <3>4, <3>5
  <2> QED
    BY <1>1, <2>1, <2>2
<1>3. (\A a \in audit : a.req \in Requests) /\ (\A x \in answers : x.req \in Requests)
  BY DEF PipelineInv
<1> QED
  BY <1>1, <1>2, <1>3 DEF PipelineInv, RequestOK, Written, Recorded, RecordOK, AnswerOK

LEMMA NextPipeline == PipelineInv /\ [Next]_vars => PipelineInv'
<1> SUFFICES ASSUME PipelineInv, [Next]_vars PROVE PipelineInv'
  OBVIOUS
<1>1. CASE UNCHANGED vars
  BY <1>1 DEF vars, PipelineInv, RequestOK, Written, Recorded, RecordOK, AnswerOK
<1>2. ASSUME NEW r \in Requests, Receive(r) \/ Handle(r) PROVE PipelineInv'
  BY <1>2, ReceiveStep, SecurityHeadersStep, RouteStep, RateLimitStep, DecodeStep, CallServiceStep,
     RespondStep, AuditLogStep, FlushStep DEF Handle
<1> QED
  BY <1>1, <1>2, RestartStep DEF Next

-----------------------------------------------------------------------------
(* Theorems. *)

\* Whoever answers a request does so through the wrapper, after the headers were
\* set, and once (audit_log.go:25-41, server.go:47-48, internal/handlers/).
THEOREM PipelineInvariance == Spec => []PipelineInv
BY InitPipeline, NextPipeline, PTL DEF Spec

\* Log and client agree on the status of every request
\* (audit_log.go:25-41, 54-66).
THEOREM AuditCorrect == Spec => []AuditTellsTheTruth
<1>1. PipelineInv => AuditTellsTheTruth
  BY DEF PipelineInv, RecordOK, AnswerOK, Written, AuditTellsTheTruth
<1> QED
  BY <1>1, PipelineInvariance, PTL

\* What was answered is in the log, but for an answer too long for the buffer
\* whose record is still to be written or was lost (audit_log.go:54-66).
THEOREM RecordedCorrect == Spec => []AnswersAreRecorded
<1>1. PipelineInv => AnswersAreRecorded
  BY DEF PipelineInv, AnswerOK, Recorded, AnswersAreRecorded
<1> QED
  BY <1>1, PipelineInvariance, PTL

\* A client is told of success if and only if the service said so
\* (internal/handlers/).
THEOREM SuccessCorrect == Spec => []SuccessMeansDone
<1>1. PipelineInv => SuccessMeansDone
  BY DEF PipelineInv, AnswerOK, Written, Means, SuccessMeansDone
<1> QED
  BY <1>1, PipelineInvariance, PTL

\* Every answer carries the security headers (headers.go:7-14, server.go:47-48).
THEOREM SecuredCorrect == Spec => []EveryAnswerSecured
<1>1. PipelineInv => EveryAnswerSecured
  BY DEF PipelineInv, AnswerOK, Written, EveryAnswerSecured
<1> QED
  BY <1>1, PipelineInvariance, PTL
=============================================================================
