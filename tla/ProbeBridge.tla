----------------------------- MODULE ProbeBridge -----------------------------
(***************************************************************************)
(* The bridge that the architecture probe's page offers to its tests, over *)
(* the API it calls.  Most of its functions are one call and its answer;   *)
(* startStream reads a stream of three messages in the background and      *)
(* keeps what it has seen in one variable that streamState shows.  Nothing *)
(* keeps a second stream from being started while the first is read: both  *)
(* loops then write that variable.                                         *)
(***************************************************************************)
EXTENDS RequestPipeline, Sequences

CONSTANT Callers \* bound: the requests that other functions than startStream make

\* What startStream asks for.
ThreeMessages == [method |-> "Stream", kind |-> "", n |-> 3]

ASSUME CallersAssumption == Callers \subseteq Requests
ASSUME StreamAssumption  == ThreeMessages \in Calls

VARIABLES
  streamState, \* streamState of the bridge
  reading,     \* the requests whose stream a loop reads
  received,    \* how many messages each loop has seen
  overlapped   \* the last stream was started while another was read

bridgeVars == <<streamState, reading, received, overlapped>>
probeVars  == <<pipelineVars, bridgeVars>>

Fresh == [done |-> FALSE, failed |-> FALSE, sequences |-> <<>>]

ProbeInit ==
  /\ PipelineInit
  /\ streamState = Fresh /\ reading = {} /\ received = [r \in Requests |-> 0] /\ overlapped = FALSE

\* The calls of getRuntime, fail, cancel and correlate, and of other clients.
Call(r, c) == r \in Callers /\ Arrive(r, c) /\ UNCHANGED bridgeVars

\* startStream: the state is reset, the loop goes on in the background.
StartStream(r) ==
  /\ Arrive(r, ThreeMessages)
  /\ streamState' = Fresh
  /\ reading' = reading \cup {r} /\ overlapped' = (reading # {})
  /\ UNCHANGED received

\* A message arrives: messages of one stream arrive in their order.
Deliver(r) ==
  /\ r \in reading /\ received[r] < flow[r].sent
  /\ received' = [received EXCEPT ![r] = @ + 1]
  /\ streamState' = [streamState EXCEPT !.sequences = Append(@, received'[r])]
  /\ UNCHANGED <<pipelineVars, reading, overlapped>>

\* The loop ends behind the last message with the result of the stream, or
\* throws when the connection breaks.
LoopEnds(r) ==
  /\ r \in reading
  /\ \/ flow[r].at = "over" /\ flow[r].written /\ received[r] = flow[r].sent
        /\ streamState' = [streamState EXCEPT !.done = TRUE, !.failed = @ \/ flow[r].answer # Success]
     \/ flow[r].gone
        /\ streamState' = [streamState EXCEPT !.done = TRUE, !.failed = TRUE]
  /\ reading' = reading \ {r}
  /\ UNCHANGED <<pipelineVars, received, overlapped>>

ProbeNext ==
  \/ Toggle /\ UNCHANGED bridgeVars
  \/ \E r \in Requests :
       \/ \E c \in Calls : Call(r, c)
       \/ Proceed(r) /\ UNCHANGED bridgeVars
       \/ StartStream(r) \/ Deliver(r) \/ LoopEnds(r)

ProbeSpec == ProbeInit /\ [][ProbeNext]_probeVars

-----------------------------------------------------------------------------
\* A stream that the page shows as done without an error has shown every message
\* once and in order, unless a second one was started meanwhile: a deadline, a
\* cancellation or an unready server is never taken for the end of the stream.
StreamIsWhole ==
  streamState.done /\ ~streamState.failed /\ ~overlapped => streamState.sequences = <<1, 2, 3>>
=============================================================================
