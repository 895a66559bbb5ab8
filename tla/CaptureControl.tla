--------------------------- MODULE CaptureControl ---------------------------
(***************************************************************************)
(* The threads of a live kernwatch and the captures they control:          *)
(* src/src/main_linux.rs.                                                  *)
(*                                                                         *)
(* The tracer thread owns the capture.  It takes requests from a bounded   *)
(* queue, polls the capture, publishes what it measured and ends it on     *)
(* request, after its duration or when a poll fails.  The sampler thread   *)
(* puts a sample into a slot.  The main thread takes the sample, joins it  *)
(* with the published measurements, keeps their history, sends the user's  *)
(* requests, and ends the other threads when the user quits.               *)
(*                                                                         *)
(* A step is what a thread does under one lock.  The end of a capture      *)
(* takes the lock twice: finish_trace, then mark_trace_stopped.            *)
(***************************************************************************)
EXTENDS Integers, Sequences

CONSTANTS
  QueueCap,     \* probe requests that wait, 8
  MaxRequests   \* bound: requests of the user

ASSUME ControlAssumption == QueueCap \in Nat \ {0} /\ MaxRequests \in Nat

Requests == {"start", "stop"}
NoRequest == "none"
Stamps == 0..(MaxRequests + 1)   \* capture ids; --trace requests one, too
NoCapture == 0

\* Published telemetry: current unless its metrics are marked as stopped.
Data == [id : Stamps, current : BOOLEAN, stacks : BOOLEAN]
Nothing == [id |-> NoCapture, current |-> FALSE, stacks |-> FALSE]

VARIABLES
  tpc,      \* next step of the tracer
  asked,    \* the request it works on
  session,  \* its capture
  elapsed,  \* the capture's duration is over, or its sampler has stopped
  stamps,   \* capture ids handed out
  data,     \* trace_data.0
  status,   \* trace_data.1: the active capture, or none
  queue,    \* the probe channel
  enabled,  \* live_enabled: the sampler is to sample
  spc,      \* next step of the sampler
  slot,     \* latest: a sample the main thread has not taken
  mpc,      \* next step of the main thread
  replay,   \* App.replay is set
  wanted,   \* App.probe_request
  displayed, \* measurements in the last sample given to App::update
  capture,  \* capture_id
  history,  \* trace_history: the captures whose values it has
  profile,  \* trace_profile: the capture whose stacks it has
  stop,     \* the flag that ends the other threads
  requests  \* requests made

tracerVars == <<tpc, asked, session, stamps>>
kept == <<capture, history, profile, displayed>>
controlVars ==
  <<tracerVars, elapsed, data, status, queue, enabled, spc, slot, mpc, replay, wanted,
    kept, stop, requests>>

ControlInit ==
  /\ tpc = "loop" /\ asked = NoRequest /\ session = NoCapture
  /\ elapsed = FALSE /\ stamps = 0
  /\ data = Nothing /\ status = NoCapture
  /\ queue \in {<<>>, <<"start">>}    \* --trace
  /\ replay \in BOOLEAN /\ (replay => queue = <<>>)
  /\ enabled = ~replay /\ spc = "loop" /\ slot = FALSE
  /\ mpc = "top" /\ wanted = NoRequest
  /\ displayed = Nothing /\ capture = NoCapture /\ history = {} /\ profile = NoCapture
  /\ stop = FALSE /\ requests = 0

-----------------------------------------------------------------------------
(* The tracer *)

others == <<enabled, spc, slot, mpc, replay, wanted, kept, stop, requests>>

\* What apply makes of a session; stacks that were folded stay.
Measuring(stacks) ==
  /\ (data.id = session /\ data.stacks) => stacks
  /\ data' = [id |-> session, current |-> TRUE, stacks |-> stacks]

\* finish_trace: the capture's last measurements are published as they are.
FinishTrace ==
  IF session = NoCapture THEN UNCHANGED <<session, data>>
  ELSE session' = NoCapture /\ \E stacks \in BOOLEAN : Measuring(stacks)

\* Mutant: a capture without stacks is not marked.
MarkTraceStoppedStacks == data' = IF data.stacks THEN [data EXCEPT !.current = FALSE] ELSE data

MarkTraceStopped == data' = [data EXCEPT !.current = FALSE]

Loop ==
  /\ tpc = "loop"
  /\ IF stop THEN tpc' = "ended" /\ session' = NoCapture
             ELSE tpc' = "requests" /\ UNCHANGED session
  /\ UNCHANGED <<asked, elapsed, stamps, data, status, queue, others>>

\* Every request ends the capture first.
TakeRequest ==
  /\ tpc = "requests" /\ queue # <<>>
  /\ asked' = Head(queue) /\ queue' = Tail(queue)
  /\ FinishTrace
  /\ tpc' = "mark"
  /\ UNCHANGED <<elapsed, stamps, status, others>>

NoRequests ==
  /\ tpc = "requests" /\ queue = <<>>
  /\ tpc' = "poll"
  /\ UNCHANGED <<asked, session, elapsed, stamps, data, status, queue, others>>

Mark ==
  /\ tpc = "mark"
  /\ MarkTraceStopped
  /\ tpc' = IF asked = "stop" THEN "stopped" ELSE "clear"
  /\ UNCHANGED <<asked, session, elapsed, stamps, status, queue, others>>

Stopped ==
  /\ tpc = "stopped"
  /\ status' = NoCapture
  /\ tpc' = "requests"
  /\ UNCHANGED <<asked, session, elapsed, stamps, data, queue, others>>

Clear ==
  /\ tpc = "clear"
  /\ data' = Nothing
  /\ tpc' = "start"
  /\ UNCHANGED <<asked, session, elapsed, stamps, status, queue, others>>

Start ==
  /\ tpc = "start"
  /\ stamps' = stamps + 1
  /\ session' = stamps' /\ elapsed' = FALSE /\ status' = stamps'
  /\ tpc' = "requests"
  /\ UNCHANGED <<asked, data, queue, others>>

\* The programs cannot be loaded: the failure is published under an id of its own.
StartFails ==
  /\ tpc = "start"
  /\ stamps' = stamps + 1
  /\ data' = [id |-> stamps', current |-> FALSE, stacks |-> FALSE]
  /\ status' = NoCapture
  /\ tpc' = "requests"
  /\ UNCHANGED <<asked, session, elapsed, queue, others>>

\* A poll, published every 250 ms.
Poll ==
  /\ tpc = "poll" /\ session # NoCapture
  /\ UNCHANGED data \/ \E stacks \in BOOLEAN : Measuring(stacks)
  /\ tpc' = "check"
  /\ UNCHANGED <<asked, session, elapsed, stamps, status, queue, others>>

\* Mutants: the status is left; the capture is polled again.
PollFailsQuietly ==
  /\ tpc = "poll" /\ session # NoCapture
  /\ tpc' = "finish"
  /\ UNCHANGED <<asked, session, elapsed, stamps, data, status, queue, others>>

PollFailsRetried ==
  /\ tpc = "poll" /\ session # NoCapture
  /\ tpc' = "loop"
  /\ UNCHANGED <<asked, session, elapsed, stamps, data, status, queue, others>>

\* A poll that fails ends the capture.
PollFails ==
  /\ tpc = "poll" /\ session # NoCapture
  /\ status' = NoCapture
  /\ tpc' = "finish"
  /\ UNCHANGED <<asked, session, elapsed, stamps, data, queue, others>>

Finish ==
  /\ tpc = "finish"
  /\ FinishTrace
  /\ tpc' = "failed"
  /\ UNCHANGED <<asked, elapsed, stamps, status, queue, others>>

Failed ==
  /\ tpc = "failed"
  /\ MarkTraceStopped
  /\ tpc' = "loop"
  /\ UNCHANGED <<asked, session, elapsed, stamps, status, queue, others>>

NoPoll ==
  /\ tpc = "poll" /\ session = NoCapture
  /\ tpc' = "loop"
  /\ UNCHANGED <<asked, session, elapsed, stamps, data, status, queue, others>>

\* The duration is over, or the capture's own sampler has stopped.
Check ==
  /\ tpc = "check"
  /\ IF elapsed
       THEN FinishTrace /\ tpc' = "complete"
       ELSE tpc' = "loop" /\ UNCHANGED <<session, data>>
  /\ UNCHANGED <<asked, elapsed, stamps, status, queue, others>>

Complete ==
  /\ tpc = "complete"
  /\ MarkTraceStopped
  /\ status' = NoCapture
  /\ tpc' = "loop"
  /\ UNCHANGED <<asked, session, elapsed, stamps, queue, others>>

TracerThread ==
  \/ Loop \/ TakeRequest \/ NoRequests \/ Mark \/ Stopped \/ Clear
  \/ Start \/ StartFails \/ Poll \/ PollFails \/ Finish \/ Failed \/ NoPoll
  \/ Check \/ Complete

\* Time passes.
Elapse ==
  /\ session # NoCapture /\ ~elapsed
  /\ elapsed' = TRUE
  /\ UNCHANGED <<tracerVars, data, status, queue, others>>

-----------------------------------------------------------------------------
(* The sampler *)

Collect ==
  /\ spc = "loop"
  /\ spc' = IF stop THEN "ended" ELSE IF enabled THEN "sampled" ELSE "loop"
  /\ UNCHANGED slot

\* The main thread holds the slot's lock from taking a sample until it has
\* displayed it.
PutSample ==
  /\ spc = "sampled" /\ mpc \notin {"merge", "status"}
  /\ slot' = TRUE
  /\ spc' = "loop"

Sampler ==
  /\ Collect \/ PutSample
  /\ UNCHANGED <<tracerVars, elapsed, data, status, queue, enabled, mpc, replay, wanted, kept, stop, requests>>

-----------------------------------------------------------------------------
(* The main thread *)

TakeSample ==
  /\ mpc = "top"
  /\ enabled' = ~replay
  /\ slot' = FALSE
  /\ mpc' = IF slot THEN "merge" ELSE "request"
  /\ UNCHANGED <<tracerVars, elapsed, data, status, queue, spc, replay, wanted, kept, stop, requests>>

\* Mutant: the history goes on in another capture.
ContinuedOnly(past) == past

\* Another capture's id starts the history anew.
Continued(past) == IF capture # data.id THEN {} ELSE past

\* The sample gets the published measurements; stopped metrics have no value.
\* merge_profile keeps the last stacks of the same capture.
Merge ==
  /\ mpc = "merge"
  /\ displayed' = data
  /\ IF data.id = NoCapture THEN UNCHANGED <<capture, history, profile>>
     ELSE /\ capture' = data.id
          /\ history' = Continued(history) \cup {id \in {data.id} : data.current}
          /\ profile' = IF data.stacks THEN data.id
                        ELSE IF capture # data.id THEN NoCapture ELSE profile
  /\ mpc' = "status"
  /\ UNCHANGED <<tracerVars, elapsed, data, status, queue, enabled, spc, slot, replay, wanted, stop, requests>>

\* App::update, and the status line.
ReadStatus ==
  /\ mpc = "status"
  /\ mpc' = "request"
  /\ UNCHANGED <<tracerVars, elapsed, data, status, queue, enabled, spc, slot, replay, wanted, kept, stop, requests>>

\* Mutant: a channel without a capacity.
SendUnbounded ==
  /\ mpc = "request"
  /\ queue' = IF wanted # NoRequest /\ ~replay THEN Append(queue, wanted) ELSE queue
  /\ wanted' = NoRequest
  /\ mpc' = "key"
  /\ UNCHANGED <<tracerVars, elapsed, data, status, enabled, spc, slot, replay, kept, stop, requests>>

\* try_send: in a replay, and when the queue is full, the request is refused.
Send ==
  /\ mpc = "request"
  /\ queue' = IF wanted # NoRequest /\ ~replay /\ Len(queue) < QueueCap
                THEN Append(queue, wanted) ELSE queue
  /\ wanted' = NoRequest
  /\ mpc' = "key"
  /\ UNCHANGED <<tracerVars, elapsed, data, status, enabled, spc, slot, replay, kept, stop, requests>>

\* A key that asks for a capture or its end.
Request(r) ==
  /\ mpc = "key" /\ requests < MaxRequests
  /\ wanted' = r /\ requests' = requests + 1
  /\ mpc' = "top"
  /\ UNCHANGED <<tracerVars, elapsed, data, status, queue, enabled, spc, slot, replay, kept, stop>>

\* Another key, also one that starts or leaves a replay.
OtherKey ==
  /\ mpc = "key"
  /\ replay' \in BOOLEAN
  /\ mpc' = "top"
  /\ UNCHANGED <<tracerVars, elapsed, data, status, queue, enabled, spc, slot, wanted, kept, stop, requests>>

\* Mutant: the threads are joined before they are told to stop.
QuitJoining ==
  /\ mpc = "key"
  /\ mpc' = "join"
  /\ UNCHANGED <<tracerVars, elapsed, data, status, queue, enabled, spc, slot, replay, wanted, kept, stop, requests>>

\* "q" or a signal.
Quit ==
  /\ mpc = "key"
  /\ stop' = TRUE
  /\ mpc' = "join"
  /\ UNCHANGED <<tracerVars, elapsed, data, status, queue, enabled, spc, slot, replay, wanted, kept, requests>>

Join ==
  /\ mpc = "join" /\ spc = "ended" /\ tpc = "ended"
  /\ mpc' = "ended"
  /\ UNCHANGED <<tracerVars, elapsed, data, status, queue, enabled, spc, slot, replay, wanted, kept, stop, requests>>

Main ==
  \/ TakeSample \/ Merge \/ ReadStatus \/ Send
  \/ \E r \in Requests : Request(r)
  \/ OtherKey \/ Quit \/ Join

Ended == mpc = "ended" /\ UNCHANGED controlVars

ControlNext == TracerThread \/ Elapse \/ Sampler \/ Main \/ Ended

\* Every thread is scheduled, sleeps a bounded time and holds each lock for a
\* bounded time, and time passes.  No key is ever due.
ControlFairness ==
  /\ WF_controlVars(TracerThread) /\ WF_controlVars(Sampler)
  /\ WF_controlVars(Main) /\ WF_controlVars(Elapse)

ControlSpec == ControlInit /\ [][ControlNext]_controlVars /\ ControlFairness

-----------------------------------------------------------------------------
(* Properties *)

\* Every variable has its type, and the queue never outgrows its capacity.
ControlTypeOK ==
  /\ tpc \in {"loop", "requests", "mark", "stopped", "clear", "start", "poll",
              "finish", "failed", "check", "complete", "ended"}
  /\ asked \in Requests \cup {NoRequest} /\ session \in Stamps /\ stamps \in Stamps
  /\ elapsed \in BOOLEAN
  /\ data \in Data /\ status \in Stamps
  /\ queue \in Seq(Requests) /\ Len(queue) <= QueueCap
  /\ enabled \in BOOLEAN /\ spc \in {"loop", "sampled", "ended"} /\ slot \in BOOLEAN
  /\ mpc \in {"top", "merge", "status", "request", "key", "join", "ended"}
  /\ replay \in BOOLEAN /\ wanted \in Requests \cup {NoRequest}
  /\ displayed \in Data /\ capture \in Stamps /\ history \subseteq Stamps /\ profile \in Stamps
  /\ stop \in BOOLEAN /\ requests \in 0..MaxRequests

\* The history and the profile are of one capture, however requests, failures
\* and samples interleave: values of two captures are never one series (the
\* comment of merge_profile).
HistoryOfOneCapture == history \subseteq {capture} /\ profile \in {NoCapture, capture}

\* A sample shows measurements as current only of the capture that runs, or of
\* one the tracer is just ending ("current measurements stopped" in its status).
Ending == tpc \in {"mark", "failed", "complete"}

CurrentIsRunning ==
  [][mpc = "merge" /\ mpc' = "status" /\ displayed'.current
     => Ending \/ displayed'.id = session]_controlVars

\* Whenever the tracer looks for its next round, the status tells of the
\* capture that runs, and of none when none does.
StatusTells == tpc = "loop" => status = session

\* A capture is bounded: it ends after its duration, whatever polls fail and
\* whatever the user requests, or does not; the next one starts from none.
CaptureEnds == []<>(session = NoCapture)

\* Quitting ends every thread, in the middle of a capture, of its start or of
\* its end, with requests in the queue: the main thread, which leaves the join for its own
\* end only, does not wait there for good.
QuitEnds == []<>(mpc # "join")

=============================================================================
