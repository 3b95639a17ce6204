--------------------------- MODULE RequestPipeline ---------------------------
(***************************************************************************)
(* One request through the API's handler: cross-origin rules and routes,   *)
(* then, for a call of a service, the interceptors (identity and safe      *)
(* errors outermost, then readiness, then the deadline, recovery of panics *)
(* innermost) and the handlers of the system and probe services.           *)
(*                                                                         *)
(* Time is counted for each request from the end of its headers, where     *)
(* net/http starts the write timeout.  A unary call's message is read      *)
(* before the interceptors see the call, a stream's inside of them.        *)
(* Clients read what they are sent; they may go away.                      *)
(***************************************************************************)
EXTENDS Naturals

CONSTANTS
  Requests, Nobody,  \* requests, which also stand for the identities they get
  Calls,           \* what is asked: records [method, kind, n]
  ArchitectureProbe,             \* the capability of that name
  UnaryDeadline, StreamDeadline, \* server.*_rpc_timeout, as WithTimeout uses them
  ReadTimeout, WriteTimeout,     \* of the http.Server
  MaxDelay, MaxCount             \* the limits of Wait and Stream

Unary == {"GetRuntime", "Correlate", "CookieRoundTrip", "Fail", "Wait"}
Probe == {"Correlate", "CookieRoundTrip", "Fail", "Wait", "Stream"}
RPCs  == Unary \cup Probe
Methods == RPCs \cup {"OPTIONS", "live", "ready", "unknown"}
\* What a call asks its handler to do; "unsafe" is an error of no known form.
Kinds == {"", "ok", "canceled", "unsafe", "panic", "stall", "unavailable", "internal_failure"}

ASSUME NoneAssumption == Nobody \notin Requests
ASSUME CallsAssumption == Calls # {} /\ Calls \subseteq [method : Methods, kind : Kinds, n : Nat]
ASSUME TimeoutAssumption ==
  /\ {UnaryDeadline, StreamDeadline, ReadTimeout, WriteTimeout} \subseteq Nat \ {0}
  /\ ArchitectureProbe \in BOOLEAN
  /\ StreamDeadline < WriteTimeout /\ ReadTimeout < WriteTimeout
\* Stronger than what parseAPI accepts, true of the configurations of the
\* repository: a message may take the whole of ReadTimeout before the deadline
\* of its call starts.
ASSUME UnaryAssumption == ReadTimeout + UnaryDeadline < WriteTimeout

VARIABLES
  ready, \* the server's readiness, published by the monitor
  flow   \* each request

pipelineVars == <<ready, flow>>

NoAnswer == [code |-> "none", detail |-> {}]
Idle ==
  [call |-> CHOOSE c \in Calls : TRUE, at |-> "idle", age |-> 0, due |-> 0, until |-> 0,
   identity |-> Nobody, left |-> 0, sent |-> 0, gone |-> FALSE, answer |-> NoAnswer, written |-> FALSE]

PipelineInit == ready \in BOOLEAN /\ flow = [r \in Requests |-> Idle]

-----------------------------------------------------------------------------
\* Errors.  An error's detail is the set of identities its problem details name.

ConnectCode(category) ==
  CASE category = "invalid_input" -> "invalid_argument"
    [] category = "forbidden" -> "permission_denied"
    [] category \in {"stale_version", "conflict"} -> "aborted"
    [] category \in {"quota_exceeded", "rate_limited"} -> "resource_exhausted"
    [] category = "not_implemented" -> "unimplemented"
    [] category = "internal_failure" -> "internal"
    [] OTHER -> category

New(identity, category) == [code |-> ConnectCode(category), detail |-> {identity}]
Plain(code) == [code |-> code, detail |-> {}]
Success == Plain("ok")

\* context.DeadlineExceeded is replaced, context.Canceled is not.
EnsureSafe(identity, result) ==
  CASE result \in {Success, Plain("canceled")} -> result
    [] result = Plain("context deadline exceeded") -> New(identity, "deadline_exceeded")
    [] OTHER -> IF result.detail # {} THEN result ELSE New(identity, "internal_failure")

\* net/http writes an answer until WriteTimeout.  A request that is over keeps
\* its answer and forgets its clock.
Reply(f, answer) ==
  [Idle EXCEPT !.call = f.call, !.at = "over", !.sent = f.sent, !.gone = f.gone,
               !.answer = answer, !.written = ~f.gone /\ f.age < WriteTimeout]

\* What a call's handler returns passes the boundary.
Return(f, result) == Reply(f, EnsureSafe(f.identity, result))

\* Seeded defect: the interceptor hands on the context it was given.
ContextOfRequest(f) == f.gone

ContextDone(f) == f.gone \/ f.age >= f.due
ContextErr(f)  == Plain(IF f.gone THEN "canceled" ELSE "context deadline exceeded")

\* requestIdentity: what trace the client asks for does not matter here.
Boundary(r, f) == [f EXCEPT !.identity = r]

-----------------------------------------------------------------------------
\* Seeded defects: forms of the definitions below that a bug would give them.

\* Readiness is looked at before the call has its identity.
AdmitUnidentified(r, f) ==
  IF ~ready THEN Return(f, New(f.identity, "unavailable"))
  ELSE LET g == Boundary(r, f) IN
       IF f.call.method = "Stream" THEN [g EXCEPT !.at = "message", !.due = f.age + StreamDeadline]
       ELSE [g EXCEPT !.at = "handler", !.due = f.age + UnaryDeadline]

\* Unary calls get the deadline of streams.
DeadlineOfStreams(f) == f.age + StreamDeadline

\* A stream that runs into its deadline ends as if it were complete.
StreamStopsQuietly(r) ==
  LET f == flow[r] IN
  /\ f.call.method = "Stream" /\ f.at = "sending"
  /\ flow' = [flow EXCEPT ![r] =
       IF f.left = 0 \/ ContextDone(f) THEN Return(f, Success)
       ELSE [f EXCEPT !.sent = @ + 1, !.left = @ - 1]]
  /\ UNCHANGED ready

-----------------------------------------------------------------------------
\* The interceptors.

Deadline(f) == f.age + IF f.call.method = "Stream" THEN StreamDeadline ELSE UnaryDeadline

\* Boundary, availability and deadline: readiness is looked at once.
Admit(r, f) ==
  LET g == Boundary(r, f) IN
  IF ~ready THEN Return(g, New(r, "unavailable"))
  ELSE [g EXCEPT !.at = IF f.call.method = "Stream" THEN "message" ELSE "handler", !.due = Deadline(g)]

\* The mux: the probe service is there only with its capability.
Routed(f) == IF f.call.method \in Probe THEN ArchitectureProbe ELSE f.call.method \in RPCs

Health(healthy) == Plain(IF healthy THEN "200" ELSE "503")

\* A request's headers have arrived.
Arrive(r, c) ==
  LET f == [flow[r] EXCEPT !.call = c] IN
  /\ flow[r].at = "idle"
  /\ flow' = [flow EXCEPT ![r] =
       CASE c.method = "OPTIONS" -> Reply(f, Plain("204"))  \* from an allowed origin
         [] c.method = "live" -> Reply(f, Health(TRUE))
         [] c.method = "ready" -> Reply(f, Health(ready))
         [] Routed(f) -> IF c.method = "Stream" THEN Admit(r, f) ELSE [f EXCEPT !.at = "body"]
         [] OTHER -> Reply(f, Plain("404"))]
  /\ UNCHANGED ready

\* connect reads a unary call's message.  One that is malformed, too large or
\* too late is answered without any of the interceptors.
Body(r) ==
  LET f == flow[r] IN
  /\ f.at = "body"
  /\ flow' \in {[flow EXCEPT ![r] = g] : g \in
       {Reply(f, Plain("malformed"))} \cup
       (IF f.gone \/ f.age = ReadTimeout THEN {} ELSE {Admit(r, f)})}
  /\ UNCHANGED ready

\* The message of a stream is read within the interceptors.
Message(r) ==
  LET f == flow[r] IN
  /\ f.at = "message"
  /\ flow' \in {[flow EXCEPT ![r] = g] : g \in
       {Return(f, Plain("malformed"))} \cup
       (IF f.gone \/ f.age >= ReadTimeout THEN {} ELSE {[f EXCEPT !.at = "handler"]})}
  /\ UNCHANGED ready

-----------------------------------------------------------------------------
\* The handlers.

\* connect.WithRecover.
RecoverPanic(f) == New(f.identity, "internal_failure")

\* What the handlers that do not wait return.  The system service is an
\* interface: kind says what an implementation of it does.
Result(f) ==
  IF f.call.kind = "panic" THEN RecoverPanic(f)
  ELSE CASE f.call.method = "GetRuntime" -> Plain(f.call.kind)
         [] f.call.method \in {"Correlate", "CookieRoundTrip"} -> Success
         [] f.call.method = "Fail" ->
              New(f.identity, IF f.call.kind \in {"unavailable", "internal_failure"}
                              THEN f.call.kind ELSE "invalid_input")

Stalls(f) == f.call.method = "GetRuntime" /\ f.call.kind = "stall"

Handle(r) ==
  LET f == flow[r] IN
  /\ f.at = "handler"
  /\ f.call.method \notin {"Wait", "Stream"} /\ ~Stalls(f)
  /\ flow' = [flow EXCEPT ![r] = Return(f, Result(f))]
  /\ UNCHANGED ready

\* Wait checks its delay n and sets its timer.
CheckWait(r) ==
  LET f == flow[r] IN
  /\ f.at = "handler" /\ f.call.method = "Wait"
  /\ flow' = [flow EXCEPT ![r] =
       IF f.call.n \in 1..MaxDelay THEN [f EXCEPT !.at = "waiting", !.until = f.age + f.call.n]
       ELSE Return(f, New(f.identity, "invalid_input"))]
  /\ UNCHANGED ready

TimerFires(r) ==
  LET f == flow[r] IN
  /\ f.at = "waiting" /\ f.age >= f.until
  /\ flow' = [flow EXCEPT ![r] = Return(f, Success)]
  /\ UNCHANGED ready

\* Stream checks its count n.
CheckStream(r) ==
  LET f == flow[r] IN
  /\ f.at = "handler" /\ f.call.method = "Stream"
  /\ flow' = [flow EXCEPT ![r] =
       IF f.call.n \in 1..MaxCount THEN [f EXCEPT !.at = "sending", !.left = f.call.n]
       ELSE Return(f, New(f.identity, "invalid_input"))]
  /\ UNCHANGED ready

\* The next message of a stream, or its end.  Sending fails once the client is
\* gone.
Stream(r) ==
  LET f == flow[r] IN
  /\ f.call.method = "Stream" /\ f.at = "sending"
  /\ flow' = [flow EXCEPT ![r] =
       IF f.left = 0 THEN Return(f, Success)
       ELSE IF f.gone THEN Return(f, Plain("unavailable"))
       ELSE [f EXCEPT !.sent = @ + 1, !.left = @ - 1]]
  /\ UNCHANGED ready

\* A handler that waits for its context: Wait, Stream between two messages, and
\* a stalled implementation of the system service.
ContextEnds(r) ==
  LET f == flow[r] IN
  /\ \/ f.at = "waiting"
     \/ f.at = "sending" /\ f.sent > 0 /\ f.left > 0
     \/ f.at = "handler" /\ Stalls(f)
  /\ ContextDone(f)
  /\ flow' = [flow EXCEPT ![r] = Return(f, ContextErr(f))]
  /\ UNCHANGED ready

-----------------------------------------------------------------------------
\* The environment.

Toggle == ready' = ~ready /\ UNCHANGED flow

Cancel(r) ==
  /\ flow[r].at \notin {"idle", "over"} /\ ~flow[r].gone
  /\ flow' = [flow EXCEPT ![r].gone = TRUE]
  /\ UNCHANGED ready

\* Time passes where the code waits: for a message until ReadTimeout, in a
\* handler until the context is done or its timer fires.
Tick(r) ==
  LET f == flow[r] IN
  /\ \/ f.at \in {"body", "message"} /\ f.age < ReadTimeout
     \/ f.at = "handler" /\ Stalls(f) /\ f.age < f.due
     \/ f.at = "waiting" /\ f.age < f.due /\ f.age < f.until
     \/ f.at = "sending" /\ f.age < f.due
  /\ ~f.gone
  /\ flow' = [flow EXCEPT ![r].age = @ + 1]
  /\ UNCHANGED ready

Work(r) ==
  \/ Handle(r) \/ CheckWait(r) \/ TimerFires(r) \/ CheckStream(r) \/ Stream(r) \/ ContextEnds(r)

Proceed(r) == Body(r) \/ Message(r) \/ Work(r) \/ Cancel(r) \/ Tick(r)

PipelineNext ==
  \/ Toggle
  \/ \E r \in Requests : Proceed(r) \/ \E c \in Calls : Arrive(r, c)

PipelineSpec == PipelineInit /\ [][PipelineNext]_pipelineVars

\* Handlers run, timers fire; a message need not arrive before ReadTimeout.
PipelineFairness ==
  \A r \in Requests :
    /\ WF_pipelineVars(Work(r)) /\ WF_pipelineVars(Tick(r))
    /\ WF_pipelineVars((flow[r].gone \/ flow[r].age >= ReadTimeout) /\ (Body(r) \/ Message(r)))

-----------------------------------------------------------------------------
Codes == Kinds \cup
  {"none", "200", "204", "404", "503", "malformed", "context deadline exceeded",
   "invalid_argument", "deadline_exceeded", "internal"}
Answers == [code : Codes, detail : SUBSET (Requests \cup {Nobody})]
Flows ==
  [call : Calls, at : {"idle", "body", "message", "handler", "waiting", "sending", "over"},
   age : Nat, due : Nat, until : Nat, identity : Requests \cup {Nobody}, left : Nat, sent : Nat,
   gone : BOOLEAN, answer : Answers, written : BOOLEAN]

FlowOK == ready \in BOOLEAN /\ flow \in [Requests -> Flows]

\* Whatever a handler returns, panics or runs into, and whatever readiness does
\* meanwhile, the error of a call carries one problem detail, which names the
\* identity of the call's own request.  The exceptions are a cancelled call and
\* a unary message that could not be read.
ErrorsAreSafe ==
  \A r \in Requests :
    LET f == flow[r] IN
    f.at = "over" /\ Routed(f) /\ f.answer.code \notin {"ok", "canceled", "malformed"} =>
      f.answer.detail = {r}

\* A client that stays gets its answer: no wait for a message and no handler
\* lasts beyond the point where the server can still write.
AnswerWritten ==
  \A r \in Requests : flow[r].at = "over" /\ ~flow[r].gone => flow[r].written

\* Every request ends, whatever its client does or its handler waits for.
RequestsEnd ==
  \A r \in Requests : flow[r].at # "idle" ~> flow[r].at = "over"
=============================================================================
