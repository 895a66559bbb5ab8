----------------------------- MODULE Correlator -----------------------------
(***************************************************************************)
(* The scheduler half of Correlator (src/src/tracing.rs): how one trace    *)
(* event changes the pairing state.                                        *)
(*                                                                         *)
(* A correlator is a record.  Pending starts are times (NoTime: no entry). *)
(* A latency sample, which the code stores as the difference of two event  *)
(* times, is kept here as the interval between them, so that properties    *)
(* can say what the difference was measured over.                          *)
(***************************************************************************)
EXTENDS Integers, Sequences, FiniteSets

CONSTANTS
  Pids,        \* PIDs the events name
  CPUs,
  WindowCap,   \* LatencyWindow::CAP, 4096
  PendingCap,  \* entries in wake or off before they count as lost, 16384
  StartsCap,   \* entries in task_starts, 16384
  HistoryCap   \* tasks with samples in wake_ms or off_ms, 4096

ASSUME CorrelatorAssumption ==
  /\ 0 \notin Pids /\ IsFiniteSet(Pids)
  /\ WindowCap \in Nat \ {0} /\ PendingCap \in Nat
  /\ StartsCap \in Nat /\ HistoryCap \in Nat

NoTime  == -1
Swapper == 0     \* next_pid and prev_pid of an idle CPU

NoStarts == [p \in Pids |-> NoTime]

Empty ==
  [wake       |-> NoStarts,                  \* runnable since
   off        |-> NoStarts,                  \* off its CPU since
   taskStarts |-> [p \in Pids |-> 0],        \* start_ns, the task's identity
   wakeMs     |-> [p \in Pids |-> <<>>],
   offMs      |-> [p \in Pids |-> <<>>],
   wakeCpu    |-> [cpu \in CPUs |-> <<>>],
   lost       |-> 0]

\* Mutant: room is made one sample too late.
PushedOver(window, sample) ==
  Append(IF Len(window) > WindowCap THEN Tail(window) ELSE window, sample)

\* LatencyWindow::push: the oldest sample makes room.
Pushed(window, sample) ==
  Append(IF Len(window) >= WindowCap THEN Tail(window) ELSE window, sample)

\* The tasks that have an entry.
Started(starts) == {p \in Pids : starts[p] # NoTime}
Sampled(windows) == {p \in Pids : windows[p] # <<>>}

\* A window takes the interval from start to at, unless time ran backwards.
Measured(window, start, at) ==
  IF at >= start THEN Pushed(window, <<start, at>>) ELSE window

-----------------------------------------------------------------------------
(* Steps of Correlator::consume *)

\* sched_wakeup, and sched_switch of a task that stays runnable: the first
\* start wins.
Woken(c, p, at) == [c EXCEPT !.wake[p] = IF @ = NoTime THEN at ELSE @]

\* What is known of p goes: another incarnation or a dead one.
Forgotten(c, p) ==
  [c EXCEPT !.wake[p] = NoTime, !.wakeMs[p] = <<>>,
            !.off[p]  = NoTime, !.offMs[p]  = <<>>]

\* sched_switch to p: a start time other than the one known is a reused PID.
Identified(c, p, start) ==
  IF start = 0 THEN c
  ELSE [(IF c.taskStarts[p] \notin {0, start} THEN Forgotten(c, p) ELSE c)
          EXCEPT !.taskStarts[p] = start]

OffCpuEnded(c, p, at) ==
  IF c.off[p] = NoTime THEN c
  ELSE [c EXCEPT !.off[p] = NoTime, !.offMs[p] = Measured(@, c.off[p], at)]

WaitEnded(c, p, cpu, at) ==
  IF c.wake[p] = NoTime THEN c
  ELSE [c EXCEPT !.wake[p] = NoTime,
                 !.wakeMs[p] = Measured(@, c.wake[p], at),
                 !.wakeCpu[cpu] = Measured(@, c.wake[p], at)]

SwitchedIn(c, e) ==
  IF e.next = Swapper THEN c
  ELSE OffCpuEnded(Identified(c, e.next, e.start), e.next, e.at)

SwitchedOut(c, e) ==
  IF e.prev = Swapper THEN c ELSE [c EXCEPT !.off[e.prev] = e.at]

Dispatched(c, e) ==
  IF e.next = Swapper THEN c ELSE WaitEnded(c, e.next, e.cpu, e.at)

\* Mutant: a preempted task is not taken to wait.
PreemptedLater(c, e) == c

Preempted(c, e) ==
  IF e.prev = Swapper \/ ~e.runnable THEN c ELSE Woken(c, e.prev, e.at)

\* Mutant: an exit forgets the samples and not the pending start.
ExitedPending(c, p) == [c EXCEPT !.wakeMs[p] = <<>>, !.taskStarts[p] = 0]

\* sched_process_exit
Exited(c, p) == [Forgotten(c, p) EXCEPT !.taskStarts[p] = 0]

\* Correlator::loss: nothing pending may be paired any more.
Loss(c, n) == [c EXCEPT !.lost = @ + n, !.wake = NoStarts, !.off = NoStarts]

\* The limits at the end of consume, in their order; each counts as a loss.
Limited(c) ==
  LET starts == IF Cardinality({p \in Pids : c.taskStarts[p] # 0}) > StartsCap
                  THEN Loss([c EXCEPT !.taskStarts = Empty.taskStarts], 1) ELSE c
      offs   == IF Cardinality(Sampled(c.offMs)) > HistoryCap
                  THEN Loss([starts EXCEPT !.offMs = Empty.offMs], 1) ELSE starts
      wakes  == IF Cardinality(Sampled(c.wakeMs)) > HistoryCap
                  THEN Loss([offs EXCEPT !.wakeMs = Empty.wakeMs], 1) ELSE offs
  IN  IF \/ Cardinality(Started(wakes.wake)) > PendingCap
         \/ Cardinality(Started(wakes.off)) > PendingCap
        THEN Loss(wakes, 1) ELSE wakes

Consumed(c, e) ==
  Limited(CASE e.type = "wakeup" -> Woken(c, e.pid, e.at)
            [] e.type = "exit"   -> Exited(c, e.pid)
            [] e.type = "switch" ->
                 Preempted(Dispatched(SwitchedOut(SwitchedIn(c, e), e), e), e))

=============================================================================
