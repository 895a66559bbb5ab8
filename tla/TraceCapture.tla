---------------------------- MODULE TraceCapture ----------------------------
(***************************************************************************)
(* A scheduler capture: the kernel's tasks, the BPF programs that report   *)
(* them (src/probes/kernwatch.bpf.c), the ring buffer with its loss        *)
(* counter, and the tracer thread that polls both, pairs the events        *)
(* (Correlator) and publishes latencies (src/src/probes.rs, tracing.rs).   *)
(* The main thread joins what was published with the tasks the sampler     *)
(* thread read from procfs, by PID and start time.                         *)
(*                                                                         *)
(* The kernel runs while the tracer polls: events are dropped when the     *)
(* ring is full, tasks are preempted, exit, and their PIDs are reused; and *)
(* the sample is of another time than the publication.                     *)
(***************************************************************************)
EXTENDS Correlator

CONSTANTS
  RingCap,     \* events the ring holds; 16 MiB in the code
  PollBudget,  \* events one poll takes, 100_000
  MaxNow       \* bound: scheduler events in a behaviour

ASSUME CaptureAssumption ==
  RingCap \in Nat \ {0} /\ PollBudget \in Nat \ {0} /\ MaxNow \in Nat \ {0}

VARIABLES
  now,      \* ktime: one more at each scheduler event
  life,     \* start time of the task that has the PID, 0 when none has
  state,    \* what that task does
  running,  \* the task each CPU runs, or Swapper
  ring,     \* BPF ring buffer
  losses,   \* BPF counter of events the ring had no room for
  pc,       \* "wait" between polls, "drain" inside one
  taken,    \* events taken in this poll
  seen,     \* Probes.last_loss
  c,        \* Probes.correlator
  shown,    \* what the tracer published last
  sampled,  \* the sampler's last sample: start times of the tasks
  births,   \* history: every start time a PID has had
  waits,    \* history: the waits tasks really had, <<pid, since, until>>
  since,    \* history: when a runnable task became so
  drops     \* history: when events were dropped

kernel == <<now, life, state, running, ring, losses>>
tracer == <<pc, taken, seen, c, shown>>
past   == <<births, waits, since, drops>>
vars   == <<kernel, tracer, sampled, past>>

\* "dying" is an exiting task that was preempted.
States == {"none", "sleeping", "runnable", "running", "exiting", "dying"}

NothingShown == [available |-> FALSE, lost |-> 0, p99 |-> {},
                 starts |-> [p \in Pids |-> 0], wakes |-> [p \in Pids |-> {}]]

\* A capture starts at any point of the tasks' lives.
Init ==
  /\ now = 1
  /\ running \in [CPUs -> Pids \cup {Swapper}]
  /\ \A x, y \in CPUs : running[x] = running[y] /\ x # y => running[x] = Swapper
  /\ state \in [Pids -> {"none", "sleeping", "runnable", "running"}]
  /\ \A p \in Pids : state[p] = "running" <=> \E x \in CPUs : running[x] = p
  /\ life = [p \in Pids |-> IF state[p] = "none" THEN 0 ELSE 1]
  /\ ring = <<>> /\ losses = 0
  /\ pc = "wait" /\ taken = 0 /\ seen = 0 /\ c = Empty /\ shown = NothingShown
  /\ sampled = life
  /\ births = [p \in Pids |-> {1}] /\ waits = {} /\ drops = {}
  /\ since = [p \in Pids |-> 0]

-----------------------------------------------------------------------------
(* The kernel.  Each action emits one event: begin reserves a slot of the    *)
(* ring, or counts a loss.                                                   *)

Emit(event) ==
  /\ now < MaxNow
  /\ now' = now + 1
  /\ IF Len(ring) < RingCap
       THEN ring' = Append(ring, event) /\ UNCHANGED <<losses, drops>>
       ELSE losses' = losses + 1 /\ drops' = drops \cup {now'} /\ UNCHANGED ring
  /\ UNCHANGED <<tracer, sampled>>

\* sched_wakeup_new of a task that takes a free PID.
Fork(p) ==
  /\ state[p] = "none"
  /\ Emit([type |-> "wakeup", pid |-> p, at |-> now + 1])
  /\ life' = [life EXCEPT ![p] = now']
  /\ births' = [births EXCEPT ![p] = @ \cup {now'}]
  /\ state' = [state EXCEPT ![p] = "runnable"]
  /\ since' = [since EXCEPT ![p] = now']
  /\ UNCHANGED <<running, waits>>

\* sched_wakeup of a sleeping task.
Wake(p) ==
  /\ state[p] = "sleeping"
  /\ Emit([type |-> "wakeup", pid |-> p, at |-> now + 1])
  /\ state' = [state EXCEPT ![p] = "runnable"]
  /\ since' = [since EXCEPT ![p] = now']
  /\ UNCHANGED <<life, running, births, waits>>

\* sched_wakeup of a task that was about to sleep and still has its CPU.
WakeRunning(p) ==
  /\ state[p] = "running"
  /\ Emit([type |-> "wakeup", pid |-> p, at |-> now + 1])
  /\ UNCHANGED <<life, state, running, births, waits, since>>

\* What becomes of the task that leaves its CPU: preempted it stays runnable,
\* otherwise it sleeps, or is gone when it was exiting.
Left(p, runnable) ==
  IF state[p] = "exiting" THEN IF runnable THEN "dying" ELSE "none"
                          ELSE IF runnable THEN "runnable" ELSE "sleeping"

\* sched_switch on cpu.  The PID of a task that is gone is free at once.
Switch(cpu, next, runnable) ==
  LET prev == running[cpu]
  IN  /\ next # prev
      /\ next # Swapper => state[next] \in {"runnable", "dying"}
      /\ prev = Swapper => ~runnable
      /\ Emit([type |-> "switch", cpu |-> cpu, at |-> now + 1, next |-> next,
               start |-> IF next = Swapper THEN 0 ELSE life[next],
               prev |-> prev, runnable |-> runnable])
      /\ running' = [running EXCEPT ![cpu] = next]
      /\ state' = [p \in Pids |->
                     CASE p = next -> IF state[p] = "dying" THEN "exiting" ELSE "running"
                       [] p = prev -> Left(p, runnable)
                       [] OTHER    -> state[p]]
      /\ life' = [p \in Pids |-> IF state'[p] = "none" THEN 0 ELSE life[p]]
      /\ since' = [p \in Pids |-> IF p = prev /\ runnable THEN now' ELSE since[p]]
      /\ waits' = IF next = Swapper THEN waits
                  ELSE waits \cup {<<next, since[next], now'>>}
      /\ UNCHANGED births

\* sched_process_exit: the task still has its CPU.
Exit(p) ==
  /\ state[p] = "running"
  /\ Emit([type |-> "exit", pid |-> p, at |-> now + 1])
  /\ state' = [state EXCEPT ![p] = "exiting"]
  /\ UNCHANGED <<life, running, births, waits, since>>

-----------------------------------------------------------------------------
(* The tracer thread: Probes::poll, then Probes::apply. *)

\* Mutant: the counter is remembered and nothing else is done about it.
ReadLossesIgnored ==
  /\ pc = "wait"
  /\ seen' = losses
  /\ pc' = "drain" /\ taken' = 0
  /\ UNCHANGED <<kernel, c, shown, sampled, past>>

\* The loss counter is read first: a loss since the last poll forgets what is
\* pending.
ReadLosses ==
  /\ pc = "wait"
  /\ c' = IF losses > seen THEN Loss(c, losses - seen) ELSE c
  /\ seen' = losses
  /\ pc' = "drain" /\ taken' = 0
  /\ UNCHANGED <<kernel, shown, sampled, past>>

\* Then the ring is drained; its room is free as soon as an event is taken.
\* The code consumes the batch after the last event; nobody sees the
\* correlator in between.
Take ==
  /\ pc = "drain" /\ ring # <<>> /\ taken < PollBudget
  /\ c' = Consumed(c, Head(ring))
  /\ ring' = Tail(ring)
  /\ taken' = taken + 1
  /\ UNCHANGED <<now, life, state, running, losses, pc, seen, shown, sampled,
                 past>>

Samples(windows) == UNION {{windows[x][i] : i \in DOMAIN windows[x]} : x \in DOMAIN windows}

\* apply: the percentiles of all samples, stale once anything was lost, and
\* each task's with the start time the events named.
Publish ==
  /\ pc = "drain" /\ (ring = <<>> \/ taken = PollBudget)
  /\ shown' = [available |-> c.lost = 0,
               lost      |-> c.lost,
               p99       |-> Samples(c.wakeCpu),
               starts    |-> c.taskStarts,
               wakes     |-> [p \in Pids |-> Samples([q \in {p} |-> c.wakeMs[q]])]]
  /\ pc' = "wait" /\ taken' = 0
  /\ UNCHANGED <<kernel, seen, c, sampled, past>>

\* The sampler thread reads the tasks from procfs.
Sample ==
  /\ sampled' = life
  /\ UNCHANGED <<kernel, tracer, past>>

\* Mutant: tasks are joined with their samples by PID alone.
HydratedByPid(p) ==
  IF shown.lost = 0 /\ sampled[p] # 0 THEN shown.wakes[p] ELSE {}

\* hydrate: the row of a task shows its latencies if the publication is of the
\* same incarnation, and none after a loss.
Hydrated(p) ==
  IF shown.lost = 0 /\ sampled[p] # 0 /\ shown.starts[p] = sampled[p]
    THEN shown.wakes[p] ELSE {}

-----------------------------------------------------------------------------
Kernel ==
  \/ \E p \in Pids : Fork(p) \/ Wake(p) \/ WakeRunning(p) \/ Exit(p)
  \/ \E cpu \in CPUs, next \in Pids \cup {Swapper}, runnable \in BOOLEAN :
       Switch(cpu, next, runnable)

Tracer == ReadLosses \/ Take \/ Publish

Next == Kernel \/ Tracer \/ Sample

\* The tracer thread polls for as long as the capture lasts.
Polls == WF_vars(Tracer)

Spec == Init /\ [][Next]_vars /\ Polls

-----------------------------------------------------------------------------
(* Properties *)

Times == 1..MaxNow

\* Every variable has its type, and no window or map outgrows its limit.
TraceTypeOK ==
  /\ now \in Times /\ life \in [Pids -> 0..MaxNow] /\ state \in [Pids -> States]
  /\ running \in [CPUs -> Pids \cup {Swapper}]
  /\ Len(ring) <= RingCap /\ losses \in Nat
  /\ pc \in {"wait", "drain"} /\ taken \in 0..PollBudget /\ seen \in 0..losses
  /\ c.wake \in [Pids -> Times \cup {NoTime}] /\ c.off \in [Pids -> Times \cup {NoTime}]
  /\ c.taskStarts \in [Pids -> 0..MaxNow] /\ c.lost \in Nat
  /\ Cardinality(Started(c.wake)) <= PendingCap
  /\ Cardinality(Sampled(c.wakeMs)) <= HistoryCap
  /\ Cardinality(Sampled(c.offMs)) <= HistoryCap
  /\ \A p \in Pids : Len(c.wakeMs[p]) <= WindowCap /\ Len(c.offMs[p]) <= WindowCap
  /\ \A cpu \in CPUs : Len(c.wakeCpu[cpu]) <= WindowCap

\* An interval lies in one life of the PID: nobody was born inside it.
InOneLife(p, s) == \A b \in births[p] : ~(s[1] < b /\ b <= s[2])

Lossless == drops = {} /\ c.lost = 0

\* Without a loss, a wake latency never mixes two tasks that had the same PID,
\* though wake, exit and switch events of both arrive interleaved, and a dying
\* task is still preempted and dispatched after its exit event.
WakeInOneLife ==
  Lossless => \A p \in Pids : \A i \in DOMAIN c.wakeMs[p] : InOneLife(p, c.wakeMs[p][i])

\* Without a loss, the latency in a task's row is of that task: none of it was
\* measured before the task the sample names was born, however the sample and
\* the publication that are joined are apart in time.
RowLatencyIsOwn ==
  drops = {} => \A p \in Pids : \A s \in Hydrated(p) : s[1] >= sampled[p]

\* Without a loss no wait is missed: when the ring is drained, the last task
\* that was dispatched after a wait the capture saw from its beginning has its
\* sample, and the sample is not shorter than the wait.  (The first wait of a
\* task may be: a dying task dispatched after its exit event leaves its start
\* time behind, and the next owner of the PID is taken for a reuse that
\* discards its own pending wakeup.)
NoWaitMissed ==
  Lossless /\ ring = <<>> =>
    \A w \in waits :
      /\ w[2] > 1 /\ w[2] \notin births[w[1]]
      /\ \A x \in waits : x[3] <= w[3]
      =>
        \E s \in Samples(c.wakeCpu) : s[1] <= w[2] /\ s[2] = w[3]

\* Wake latencies are of one wait of one task each, from the kernel's events to
\* the row that shows them, and none is missed.
LatenciesAreTrue == WakeInOneLife /\ RowLatencyIsOwn /\ NoWaitMissed

\* A dropped event, or a map cleared at its limit, ends the availability of the
\* published percentiles some polls later and for good, also when it happened
\* while a poll was running.  (Neither count ever falls.)
LossDegrades == []<>(losses > 0 \/ c.lost > 0) => <>[](~shown.available)

\* An off-CPU interval never spans two tasks of one PID (SPEC.md COL-02: handle
\* task exit and PID reuse).
OffCpuInOneLife ==
  Lossless => \A p \in Pids : \A i \in DOMAIN c.offMs[p] : InOneLife(p, c.offMs[p][i])

====
