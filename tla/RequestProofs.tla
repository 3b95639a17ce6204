---------------------------- MODULE RequestProofs ----------------------------
(***************************************************************************)
(* Every request of the API, for any number of requests, any calls and any *)
(* deadlines that fit: safe errors and answers in time.  Both follow from  *)
(* one invariant about a single request: who it is known as, how old it    *)
(* may be where it is, and what it was answered.                           *)
(***************************************************************************)
EXTENDS RequestPipeline, TLAPS

\* The categories that the handlers and the interceptors use.
Categories == {"invalid_input", "unavailable", "internal_failure", "deadline_exceeded"}

Within == {"message", "handler", "waiting", "sending"}

\* What holds of request r, in the state f.
Good(r, f) ==
  /\ f.at \in Within => f.identity = r /\ f.due < WriteTimeout
  /\ f.at \in Within \cup {"body"} => f.call.method \in RPCs
  /\ f.at = "idle" => f.age = 0
  /\ f.at = "body" => f.call.method # "Stream"
  /\ f.at \in {"body", "message"} => f.age <= ReadTimeout
  /\ f.at # "over" => f.age < WriteTimeout
  /\ f.at = "over" /\ ~f.gone => f.written
  /\ f.at = "over" /\ Routed(f) =>
       f.answer.code \in {"ok", "canceled", "malformed"} \/ f.answer.detail = {r}

IInv == FlowOK /\ \A r \in Requests : Good(r, flow[r])

\* Results that a handler or an interceptor may have for a request.
Results(r) == {x \in Answers : x.detail \in {{}, {r}}}

-----------------------------------------------------------------------------
\* The codes of errors are codes.
LEMMA CodeIsCode ==
  ASSUME NEW category \in Categories
  PROVE  ConnectCode(category) \in Codes
BY DEF ConnectCode, Categories, Codes, Kinds

\* A problem that is made for a request names it.
LEMMA NewNames ==
  ASSUME NEW r \in Requests, NEW category \in Categories
  PROVE  New(r, category) \in Results(r) /\ New(r, category).detail = {r}
BY CodeIsCode DEF New, Results, Answers

\* An error without a problem detail is one of the results, too.
LEMMA PlainIsResult ==
  ASSUME NEW r \in Requests, NEW code \in Codes
  PROVE  Plain(code) \in Results(r)
BY DEF Plain, Results, Answers

\* EnsureSafe lets pass success and cancellation, and names the request in
\* everything else.
LEMMA SafeNames ==
  ASSUME NEW r \in Requests, NEW x \in Results(r)
  PROVE  /\ EnsureSafe(r, x) \in Answers
         /\ EnsureSafe(r, x).code \in {"ok", "canceled"} \/ EnsureSafe(r, x).detail = {r}
<1>1. x \in Answers /\ x.detail \in {{}, {r}}
  BY DEF Results
<1>2. CASE x \in {Success, Plain("canceled")}
  <2>0. x.code \in {"ok", "canceled"} /\ Plain("context deadline exceeded").code \notin {"ok", "canceled"}
    BY <1>2 DEF Success, Plain
  <2>1. EnsureSafe(r, x) = x
    BY <1>2, <2>0 DEF EnsureSafe
  <2> QED BY <1>1, <2>0, <2>1
<1>3. CASE x \notin {Success, Plain("canceled")} /\ x = Plain("context deadline exceeded")
  <2>1. EnsureSafe(r, x) = New(r, "deadline_exceeded")
    BY <1>3 DEF EnsureSafe
  <2> QED BY <2>1, NewNames DEF Categories, Results
<1>4. CASE x \notin {Success, Plain("canceled"), Plain("context deadline exceeded")}
  <2>1. EnsureSafe(r, x) = IF x.detail # {} THEN x ELSE New(r, "internal_failure")
    BY <1>4 DEF EnsureSafe
  <2> QED BY <1>1, <2>1, NewNames DEF Categories, Results
<1> QED BY <1>2, <1>3, <1>4

\* The state before a request arrives is a state of a request.
LEMMA IdleIsFlow == Idle \in Flows
<1>1. (CHOOSE c \in Calls : TRUE) \in Calls
  BY CallsAssumption
<1> QED BY <1>1 DEF Idle, Flows, NoAnswer, Answers, Codes, Kinds

\* What Reply changes and what it keeps.
LEMMA ReplyIs ==
  ASSUME NEW f \in Flows, NEW a \in Answers
  PROVE  /\ Reply(f, a) \in Flows
         /\ Reply(f, a).at = "over" /\ Reply(f, a).answer = a
         /\ Reply(f, a).call = f.call /\ Reply(f, a).gone = f.gone
         /\ f.age < WriteTimeout /\ ~f.gone => Reply(f, a).written
<1>1. (~f.gone /\ f.age < WriteTimeout) \in BOOLEAN
  OBVIOUS
<1>2. /\ f.call \in Calls /\ f.sent \in Nat /\ f.gone \in BOOLEAN
  BY DEF Flows
<1> QED BY <1>1, <1>2, IdleIsFlow DEF Reply, Flows

\* An answer before the write timeout is a good end, if its error is safe.
LEMMA ReplyGood ==
  ASSUME NEW r \in Requests, NEW f \in Flows, f.age < WriteTimeout, NEW a \in Answers,
         Routed(f) => a.code \in {"ok", "canceled", "malformed"} \/ a.detail = {r}
  PROVE  Reply(f, a) \in Flows /\ Good(r, Reply(f, a))
<1>1. Routed(Reply(f, a)) = Routed(f)
  BY ReplyIs DEF Routed
<1> QED BY <1>1, ReplyIs DEF Good, Within

\* The boundary makes every result of a handler a good end.
LEMMA ReturnGood ==
  ASSUME NEW r \in Requests, NEW f \in Flows, f.age < WriteTimeout, f.identity = r,
         NEW x \in Results(r)
  PROVE  Return(f, x) \in Flows /\ Good(r, Return(f, x))
BY SafeNames, ReplyGood DEF Return

\* The interceptors admit or refuse a good request.
LEMMA AdmitGood ==
  ASSUME NEW r \in Requests, NEW f \in Flows, ready \in BOOLEAN, f.age <= ReadTimeout,
         f.call.method \in RPCs, f.call.method = "Stream" => f.age = 0
  PROVE  Admit(r, f) \in Flows /\ Good(r, Admit(r, f))
<1> DEFINE g == Boundary(r, f)
<1>1. /\ g \in Flows /\ g.identity = r /\ g.age = f.age /\ g.call = f.call
  BY DEF Boundary, Flows
<1>2. f.age \in Nat /\ f.age < WriteTimeout
  BY TimeoutAssumption DEF Flows
<1>3. CASE ~ready
  <2>1. New(r, "unavailable") \in Results(r)
    BY NewNames DEF Categories
  <2>2. Return(g, New(r, "unavailable")) \in Flows /\ Good(r, Return(g, New(r, "unavailable")))
    BY <1>1, <1>2, <2>1, ReturnGood
  <2> QED BY <1>3, <2>2 DEF Admit
<1>4. CASE ready
  <2>1. Deadline(g) \in Nat /\ Deadline(g) < WriteTimeout
    BY <1>1, <1>2, TimeoutAssumption, UnaryAssumption DEF Deadline
  <2>2. Admit(r, f) = [g EXCEPT !.at = IF f.call.method = "Stream" THEN "message" ELSE "handler",
                               !.due = Deadline(g)]
    BY <1>4 DEF Admit
  <2>3. CASE f.call.method = "Stream"
    <3>1. Admit(r, f) = [g EXCEPT !.at = "message", !.due = Deadline(g)]
      BY <2>2, <2>3
    <3> HIDE DEF g
    <3> QED BY <3>1, <1>1, <1>2, <2>1 DEF Good, Within, Flows
  <2>4. CASE f.call.method # "Stream"
    <3>1. Admit(r, f) = [g EXCEPT !.at = "handler", !.due = Deadline(g)]
      BY <2>2, <2>4
    <3> HIDE DEF g
    <3> QED BY <3>1, <1>1, <1>2, <2>1 DEF Good, Within, Flows
  <2> QED BY <2>3, <2>4
<1> QED BY <1>3, <1>4

-----------------------------------------------------------------------------
\* A step that leaves request r in a good state and the others alone keeps the
\* invariant.
LEMMA OneRequest ==
  ASSUME IInv, NEW r \in Requests, NEW g \in Flows, Good(r, g),
         flow' = [flow EXCEPT ![r] = g], UNCHANGED ready
  PROVE  IInv'
<1>1. flow' \in [Requests -> Flows] /\ flow'[r] = g /\ \A o \in Requests \ {r} : flow'[o] = flow[o]
  BY DEF IInv, FlowOK
<1>2. \A o \in Requests : Good(o, flow'[o])
  BY <1>1 DEF IInv
<1>3. \A o \in Requests : Good(o, flow[o])'
  BY <1>2 DEF Good, Routed
<1> QED BY <1>1, <1>3 DEF IInv, FlowOK

\* The initial states satisfy the invariant.
LEMMA InitGood == PipelineInit => IInv
<1> SUFFICES ASSUME PipelineInit PROVE IInv
  OBVIOUS
<1>1. \A r \in Requests : flow[r] = Idle
  BY DEF PipelineInit
<1>2. Idle.at = "idle" /\ Idle.age = 0
  BY DEF Idle
<1>3. 0 < WriteTimeout /\ 0 <= ReadTimeout
  BY TimeoutAssumption
<1>4. \A r \in Requests : Good(r, Idle)
  BY <1>2, <1>3 DEF Good, Within
<1>5. \A r \in Requests : Good(r, flow[r])
  BY <1>1, <1>4
<1> QED BY <1>1, <1>5, IdleIsFlow DEF IInv, FlowOK, PipelineInit

-----------------------------------------------------------------------------
\* What is known of request r before a step.
LEMMA Known ==
  ASSUME IInv, NEW r \in Requests
  PROVE  /\ flow[r] \in Flows /\ Good(r, flow[r]) /\ ready \in BOOLEAN
         /\ flow[r].call \in Calls /\ flow[r].call.kind \in Kinds /\ flow[r].call.n \in Nat
         /\ {flow[r].age, flow[r].due, flow[r].until, flow[r].left, flow[r].sent} \subseteq Nat
<1>1. flow[r] \in Flows /\ Good(r, flow[r]) /\ ready \in BOOLEAN
  BY DEF IInv, FlowOK
<1>2. flow[r].call \in Calls
  BY <1>1 DEF Flows
<1> QED BY <1>1, <1>2, CallsAssumption DEF Flows

LEMMA ArriveKeeps ==
  ASSUME IInv, NEW r \in Requests, NEW c \in Calls, Arrive(r, c)
  PROVE  IInv'
<1> DEFINE f == [flow[r] EXCEPT !.call = c]
<1>1. flow[r] \in Flows /\ flow[r].at = "idle" /\ flow[r].age = 0
  BY Known DEF Arrive, Good
<1>2. f \in Flows /\ f.at = "idle" /\ f.age = 0 /\ f.call = c
  BY <1>1 DEF Flows
<1>3. 0 < WriteTimeout /\ 0 <= ReadTimeout /\ ready \in BOOLEAN
  BY TimeoutAssumption, Known
<1>4. Routed(f) => c.method \in RPCs
  BY <1>2 DEF Routed, RPCs
<1>5. \A a \in Answers : ~Routed(f) => Reply(f, a) \in Flows /\ Good(r, Reply(f, a))
  BY <1>2, <1>3, ReplyGood
<1>6. Plain("204") \in Answers /\ Plain("404") \in Answers /\ Health(TRUE) \in Answers /\ Health(ready) \in Answers
  BY DEF Plain, Health, Answers, Codes
<1>7. CASE Routed(f) /\ c.method = "Stream"
  <2>1. flow' = [flow EXCEPT ![r] = Admit(r, f)]
    BY <1>7 DEF Arrive
  <2>2. Admit(r, f) \in Flows /\ Good(r, Admit(r, f))
    BY <1>2, <1>3, <1>7, AdmitGood DEF RPCs, Probe
  <2> QED BY <2>1, <2>2, OneRequest DEF Arrive
<1>8. CASE Routed(f) /\ c.method # "Stream"
  <2> DEFINE g == [f EXCEPT !.at = "body"]
  <2>1. flow' = [flow EXCEPT ![r] = g]
    BY <1>8, <1>2 DEF Arrive, Routed, Probe, RPCs, Unary
  <2>2. g \in Flows /\ g.at = "body" /\ g.age = 0 /\ g.call = c
    BY <1>2 DEF Flows
  <2>3. Good(r, g)
    BY <2>2, <1>3, <1>8, <1>4 DEF Good, Within
  <2> QED BY <2>1, <2>2, <2>3, OneRequest DEF Arrive
<1>9. CASE ~Routed(f)
  <2>1. \E a \in Answers : flow' = [flow EXCEPT ![r] = Reply(f, a)]
    BY <1>9, <1>6 DEF Arrive
  <2> QED BY <2>1, <1>5, <1>9, OneRequest DEF Arrive
<1> QED BY <1>7, <1>8, <1>9

LEMMA BodyKeeps ==
  ASSUME IInv, NEW r \in Requests, Body(r)
  PROVE  IInv'
<1> DEFINE f == flow[r]
<1>1. f \in Flows /\ f.at = "body" /\ f.call.method # "Stream" /\ f.call.method \in RPCs
  BY Known DEF Body, Good
<1>2. f.age <= ReadTimeout /\ f.age < WriteTimeout /\ ready \in BOOLEAN
  BY Known DEF Body, Good
<1>3. Plain("malformed") \in Answers /\ Plain("malformed").code = "malformed"
  BY DEF Plain, Answers, Codes
<1>4. Reply(f, Plain("malformed")) \in Flows /\ Good(r, Reply(f, Plain("malformed")))
  BY <1>1, <1>2, <1>3, ReplyGood
<1>5. Admit(r, f) \in Flows /\ Good(r, Admit(r, f))
  BY <1>1, <1>2, AdmitGood
<1>6. \/ flow' = [flow EXCEPT ![r] = Reply(f, Plain("malformed"))]
      \/ flow' = [flow EXCEPT ![r] = Admit(r, f)]
  BY DEF Body
<1>7. UNCHANGED ready
  BY DEF Body
<1> QED BY <1>4, <1>5, <1>6, <1>7, OneRequest

\* Within the interceptors a request has its identity and time left.
LEMMA KnownWithin ==
  ASSUME IInv, NEW r \in Requests, flow[r].at \in Within
  PROVE  /\ flow[r].identity = r /\ flow[r].age < WriteTimeout /\ flow[r].due < WriteTimeout
         /\ \A x \in Results(r) : Return(flow[r], x) \in Flows /\ Good(r, Return(flow[r], x))
<1>1. flow[r] \in Flows /\ Good(r, flow[r])
  BY Known
<1>2. flow[r].identity = r /\ flow[r].age < WriteTimeout /\ flow[r].due < WriteTimeout
  BY <1>1 DEF Good, Within
<1> QED BY <1>1, <1>2, ReturnGood

LEMMA MessageKeeps ==
  ASSUME IInv, NEW r \in Requests, Message(r)
  PROVE  IInv'
<1> DEFINE f == flow[r]
           g == [f EXCEPT !.at = "handler"]
<1>1. f.at = "message" /\ f.at \in Within /\ UNCHANGED ready
  BY DEF Message, Within
<1>2. Return(f, Plain("malformed")) \in Flows /\ Good(r, Return(f, Plain("malformed")))
  BY <1>1, KnownWithin, PlainIsResult DEF Codes
<1>3. g \in Flows /\ g.at = "handler" /\ g.call = f.call /\ g.identity = f.identity /\ g.due = f.due /\ g.age = f.age
  BY Known DEF Flows
<1>4. Good(r, g)
  BY <1>1, <1>3, Known, KnownWithin DEF Good, Within
<1>5. flow' = [flow EXCEPT ![r] = Return(f, Plain("malformed"))] \/ flow' = [flow EXCEPT ![r] = g]
  BY DEF Message
<1> QED BY <1>1, <1>2, <1>3, <1>4, <1>5, OneRequest

\* A handler that returns, or goes on as g, keeps the invariant.
LEMMA HandlerKeeps ==
  ASSUME IInv, NEW r \in Requests, flow[r].at \in Within, UNCHANGED ready,
         \/ \E x \in Results(r) : flow' = [flow EXCEPT ![r] = Return(flow[r], x)]
         \/ \E g \in Flows :
              /\ flow' = [flow EXCEPT ![r] = g]
              /\ g.at \in {"handler", "waiting", "sending"} /\ g.age < WriteTimeout
              /\ g.identity = r /\ g.due = flow[r].due /\ g.call = flow[r].call
  PROVE  IInv'
<1>1. CASE \E x \in Results(r) : flow' = [flow EXCEPT ![r] = Return(flow[r], x)]
  BY <1>1, KnownWithin, OneRequest
<1>2. ASSUME NEW g \in Flows, flow' = [flow EXCEPT ![r] = g],
             g.at \in {"handler", "waiting", "sending"}, g.age < WriteTimeout,
             g.identity = r, g.due = flow[r].due, g.call = flow[r].call
      PROVE  IInv'
  <2>1. Good(r, g)
    BY <1>2, Known, KnownWithin DEF Good, Within
  <2> QED BY <1>2, <2>1, OneRequest
<1> QED BY <1>1, <1>2

LEMMA HandleKeeps ==
  ASSUME IInv, NEW r \in Requests, Handle(r)
  PROVE  IInv'
<1> DEFINE f == flow[r]
<1>1. f.at \in Within /\ UNCHANGED ready /\ flow' = [flow EXCEPT ![r] = Return(f, Result(f))]
  BY DEF Handle, Within
<1>2. f.call \in [method : Methods, kind : Kinds, n : Nat] /\ f.identity = r /\ f.call.method \in RPCs \ {"Wait", "Stream"}
  BY <1>1, Known, KnownWithin, CallsAssumption DEF Handle, Good
<1>3. Result(f) \in Results(r)
  <2>1. CASE f.call.kind = "panic"
    BY <1>2, <2>1, NewNames DEF Result, RecoverPanic, Categories
  <2>2. CASE f.call.kind # "panic" /\ f.call.method = "GetRuntime"
    <3>1. Result(f) = Plain(f.call.kind)
      BY <2>2 DEF Result
    <3> QED BY <1>2, <3>1, PlainIsResult DEF Codes
  <2>3. CASE f.call.kind # "panic" /\ f.call.method \in {"Correlate", "CookieRoundTrip"}
    <3>1. Result(f) = Success
      BY <2>3 DEF Result
    <3> QED BY <3>1, PlainIsResult DEF Codes, Kinds, Success
  <2>4. CASE f.call.kind # "panic" /\ f.call.method = "Fail"
    <3>1. Result(f) = New(r, IF f.call.kind \in {"unavailable", "internal_failure"}
                             THEN f.call.kind ELSE "invalid_input")
      BY <1>2, <2>4 DEF Result
    <3>2. (IF f.call.kind \in {"unavailable", "internal_failure"}
           THEN f.call.kind ELSE "invalid_input") \in Categories
      BY DEF Categories
    <3> QED BY <3>1, <3>2, NewNames
  <2> QED BY <1>2, <2>1, <2>2, <2>3, <2>4 DEF RPCs, Unary, Probe
<1> QED BY <1>1, <1>3, HandlerKeeps

\* The problem that Wait and Stream answer to a bad question.
LEMMA InvalidIsResult ==
  ASSUME NEW r \in Requests
  PROVE  New(r, "invalid_input") \in Results(r)
BY NewNames DEF Categories

LEMMA CheckWaitKeeps ==
  ASSUME IInv, NEW r \in Requests, CheckWait(r)
  PROVE  IInv'
<1> DEFINE f == flow[r]
           g == [f EXCEPT !.at = "waiting", !.until = f.age + f.call.n]
<1>1. f.at \in Within /\ UNCHANGED ready
  BY DEF CheckWait, Within
<1>2. f \in Flows /\ f.age \in Nat /\ f.call.n \in Nat /\ f.identity = r /\ f.age < WriteTimeout
  BY <1>1, Known, KnownWithin
<1>3. f.age + f.call.n \in Nat
  BY <1>2
<1>4. /\ g \in Flows /\ g.at = "waiting" /\ g.identity = r /\ g.due = f.due /\ g.age = f.age
      /\ g.call = f.call
  <2> DEFINE u == f.age + f.call.n
  <2> HIDE DEF u
  <2>1. [f EXCEPT !.at = "waiting", !.until = u] \in Flows
    BY <1>2, <1>3 DEF Flows, u
  <2>2. g = [f EXCEPT !.at = "waiting", !.until = u]
    BY DEF u
  <2> QED BY <1>2, <2>1, <2>2 DEF Flows
<1>5. flow' = [flow EXCEPT ![r] = g] \/ flow' = [flow EXCEPT ![r] = Return(f, New(r, "invalid_input"))]
  BY <1>2 DEF CheckWait
<1> HIDE DEF g
<1> QED BY <1>1, <1>2, <1>4, <1>5, InvalidIsResult, HandlerKeeps

LEMMA CheckStreamKeeps ==
  ASSUME IInv, NEW r \in Requests, CheckStream(r)
  PROVE  IInv'
<1> DEFINE f == flow[r]
           g == [f EXCEPT !.at = "sending", !.left = f.call.n]
<1>1. f.at \in Within /\ UNCHANGED ready
  BY DEF CheckStream, Within
<1>2. f \in Flows /\ f.call.n \in Nat /\ f.identity = r /\ f.age < WriteTimeout
  BY <1>1, Known, KnownWithin
<1>3. /\ g \in Flows /\ g.at = "sending" /\ g.identity = r /\ g.due = f.due /\ g.age = f.age
      /\ g.call = f.call
  BY <1>2 DEF Flows
<1>4. flow' = [flow EXCEPT ![r] = g] \/ flow' = [flow EXCEPT ![r] = Return(f, New(r, "invalid_input"))]
  BY <1>2 DEF CheckStream
<1> HIDE DEF g
<1> QED BY <1>1, <1>2, <1>3, <1>4, InvalidIsResult, HandlerKeeps

LEMMA StreamKeeps ==
  ASSUME IInv, NEW r \in Requests, Stream(r)
  PROVE  IInv'
<1> DEFINE f == flow[r]
           g == [f EXCEPT !.sent = @ + 1, !.left = @ - 1]
<1>1. f.at \in Within /\ f.at = "sending" /\ UNCHANGED ready
  BY DEF Stream, Within
<1>2. f \in Flows /\ f.left \in Nat /\ f.sent \in Nat /\ f.identity = r /\ f.age < WriteTimeout
  BY <1>1, Known, KnownWithin
<1>3. Success \in Results(r) /\ Plain("unavailable") \in Results(r)
  BY PlainIsResult DEF Success, Codes, Kinds
<1>4. CASE f.left = 0 \/ f.gone
  <2>1. flow' = [flow EXCEPT ![r] = Return(f, Success)] \/ flow' = [flow EXCEPT ![r] = Return(f, Plain("unavailable"))]
    BY <1>4 DEF Stream
  <2> QED BY <1>1, <1>3, <2>1, HandlerKeeps
<1>5. CASE f.left # 0 /\ ~f.gone
  <2>1. f.left - 1 \in Nat /\ f.sent + 1 \in Nat
    BY <1>2, <1>5
  <2>2. /\ g \in Flows /\ g.at = "sending" /\ g.identity = r /\ g.due = f.due /\ g.age = f.age
        /\ g.call = f.call
    BY <1>1, <1>2, <2>1 DEF Flows
  <2>3. flow' = [flow EXCEPT ![r] = g]
    BY <1>5 DEF Stream
  <2> HIDE DEF g
  <2> QED BY <1>1, <1>2, <2>2, <2>3, HandlerKeeps
<1> QED BY <1>4, <1>5

LEMMA TimerKeeps ==
  ASSUME IInv, NEW r \in Requests, TimerFires(r)
  PROVE  IInv'
<1>1. flow[r].at \in Within /\ UNCHANGED ready /\ flow' = [flow EXCEPT ![r] = Return(flow[r], Success)]
  BY DEF TimerFires, Within
<1>2. Success \in Results(r)
  BY PlainIsResult DEF Success, Codes, Kinds
<1> QED BY <1>1, <1>2, HandlerKeeps

LEMMA ContextKeeps ==
  ASSUME IInv, NEW r \in Requests, ContextEnds(r)
  PROVE  IInv'
<1>1. /\ flow[r].at \in Within /\ UNCHANGED ready
      /\ flow' = [flow EXCEPT ![r] = Return(flow[r], ContextErr(flow[r]))]
  BY DEF ContextEnds, Within
<1>2. ContextErr(flow[r]) = Plain("canceled") \/ ContextErr(flow[r]) = Plain("context deadline exceeded")
  BY DEF ContextErr
<1>3. ContextErr(flow[r]) \in Results(r)
  BY <1>2, PlainIsResult DEF Codes, Kinds
<1> QED BY <1>1, <1>3, HandlerKeeps

LEMMA CancelKeeps ==
  ASSUME IInv, NEW r \in Requests, Cancel(r)
  PROVE  IInv'
<1> DEFINE f == flow[r]
           g == [f EXCEPT !.gone = TRUE]
<1>1. f \in Flows /\ Good(r, f) /\ f.at \notin {"idle", "over"} /\ UNCHANGED ready
  BY Known DEF Cancel
<1>2. /\ g \in Flows /\ g.at = f.at /\ g.identity = f.identity /\ g.due = f.due /\ g.age = f.age
      /\ g.call = f.call
  BY <1>1 DEF Flows
<1>3. flow' = [flow EXCEPT ![r] = g]
  BY DEF Cancel
<1> HIDE DEF g
<1>4. Good(r, g)
  BY <1>1, <1>2 DEF Good, Within
<1> QED BY <1>1, <1>2, <1>3, <1>4, OneRequest

LEMMA TickKeeps ==
  ASSUME IInv, NEW r \in Requests, Tick(r)
  PROVE  IInv'
<1> DEFINE f == flow[r]
           g == [f EXCEPT !.age = @ + 1]
<1>1. f \in Flows /\ Good(r, f) /\ {f.age, f.due} \subseteq Nat /\ UNCHANGED ready
  BY Known DEF Tick
<1>2. /\ g \in Flows /\ g.at = f.at /\ g.identity = f.identity /\ g.due = f.due /\ g.age = f.age + 1
      /\ g.call = f.call
  BY <1>1 DEF Flows
<1>3. flow' = [flow EXCEPT ![r] = g]
  BY DEF Tick
<1>4. {ReadTimeout, WriteTimeout} \subseteq Nat /\ ReadTimeout < WriteTimeout
  BY TimeoutAssumption
<1> HIDE DEF g
<1>5. CASE f.at \in {"body", "message"} /\ f.age < ReadTimeout
  <2>1. Good(r, g)
    BY <1>1, <1>2, <1>4, <1>5 DEF Good, Within
  <2> QED BY <1>1, <1>2, <1>3, <2>1, OneRequest
<1>6. CASE f.at \in {"handler", "waiting", "sending"} /\ f.age < f.due
  <2>1. Good(r, g)
    BY <1>1, <1>2, <1>4, <1>6 DEF Good, Within
  <2> QED BY <1>1, <1>2, <1>3, <2>1, OneRequest
<1> QED BY <1>5, <1>6 DEF Tick

LEMMA ToggleKeeps ==
  ASSUME IInv, Toggle
  PROVE  IInv'
<1>1. ready' \in BOOLEAN /\ UNCHANGED flow
  BY DEF Toggle, IInv, FlowOK
<1> QED BY <1>1 DEF IInv, FlowOK, Good, Routed

LEMMA NextKeeps == IInv /\ [PipelineNext]_pipelineVars => IInv'
<1> SUFFICES ASSUME IInv, [PipelineNext]_pipelineVars PROVE IInv'
  OBVIOUS
<1>1. CASE UNCHANGED pipelineVars
  BY <1>1 DEF pipelineVars, IInv, FlowOK, Good, Routed
<1>2. CASE Toggle
  BY <1>2, ToggleKeeps
<1>3. ASSUME NEW r \in Requests, Proceed(r)
      PROVE  IInv'
  BY <1>3, BodyKeeps, MessageKeeps, HandleKeeps, CheckWaitKeeps, TimerKeeps, CheckStreamKeeps,
     StreamKeeps, ContextKeeps, CancelKeeps, TickKeeps DEF Proceed, Work
<1>4. ASSUME NEW r \in Requests, NEW c \in Calls, Arrive(r, c)
      PROVE  IInv'
  BY <1>4, ArriveKeeps
<1> QED BY <1>1, <1>2, <1>3, <1>4 DEF PipelineNext

\* Every state of the pipeline satisfies the invariant.
LEMMA Invariance == PipelineSpec => []IInv
<1>1. PipelineInit => IInv
  BY InitGood
<1>2. IInv /\ [PipelineNext]_pipelineVars => IInv'
  BY NextKeeps
<1> QED BY <1>1, <1>2, PTL DEF PipelineSpec

-----------------------------------------------------------------------------
\* The pipeline's state keeps its types.
THEOREM TypeCorrect == PipelineSpec => []FlowOK
<1>1. IInv => FlowOK
  BY DEF IInv
<1> QED BY <1>1, Invariance, PTL

\* For any number of requests, calls and configurations that fit, the error of
\* a call names the identity of its own request.
THEOREM ErrorsNameTheirRequest == PipelineSpec => []ErrorsAreSafe
<1>1. IInv => ErrorsAreSafe
  BY DEF IInv, ErrorsAreSafe, Good
<1> QED BY <1>1, Invariance, PTL

\* Every answer of a request whose client stays is written before the write
\* timeout.
THEOREM AnswersAreInTime == PipelineSpec => []AnswerWritten
<1>1. IInv => AnswerWritten
  BY DEF IInv, AnswerWritten, Good
<1> QED BY <1>1, Invariance, PTL
=============================================================================
