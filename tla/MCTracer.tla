------------------------------ MODULE MCTracer ------------------------------
(* Instances for TLC of what must end: the threads and the capture they      *)
(* control, and the availability of what a capture measured with losses.     *)
(* They share no state, so a behaviour is of one of them, with the other at  *)
(* its start.                                                                *)
EXTENDS CaptureControl, TraceCapture

VARIABLE part

bothVars == <<part, controlVars, vars>>

BothInit ==
  /\ part \in {"threads", "losses"}
  /\ ControlInit /\ Init
  /\ part = "threads" => \A p \in Pids : state[p] = "none"
  /\ part = "losses" => ~replay /\ queue = <<>>

Threads(action) == part = "threads" /\ action /\ UNCHANGED <<part, vars>>
Losses(action)  == part = "losses" /\ action /\ UNCHANGED <<part, controlVars>>

BothNext == Threads(ControlNext) \/ Losses(Next)

\* The fairness of each specification: ControlFairness and Polls.
BothFairness ==
  /\ WF_bothVars(Threads(TracerThread)) /\ WF_bothVars(Threads(Sampler))
  /\ WF_bothVars(Threads(Main)) /\ WF_bothVars(Threads(Elapse))
  /\ WF_bothVars(Losses(Tracer))

BothSpec == BothInit /\ [][BothNext]_bothVars /\ BothFairness

=============================================================================
