------------------------------- MODULE Pairing -------------------------------
(***************************************************************************)
(* Block requests, system calls and interrupt handlers: the half of        *)
(* Correlator::consume (src/src/tracing.rs) and of the tracer's poll       *)
(* (src/src/probes.rs) that pairs a start event with an end event, and the *)
(* BPF programs (src/probes/kernwatch.bpf.c) that write them to the ring.  *)
(*                                                                         *)
(* The clock ticks once for an event, so a time names its event; truth     *)
(* keeps the intervals that really happened.                               *)
(***************************************************************************)
EXTENDS Integers, Sequences, FiniteSets

CONSTANTS
  Threads,     \* TIDs that make system calls
  Handlers,    \* (CPU, softirq or hardirq) slots
  Requests,    \* addresses of struct request
  RingCap,     \* events the ring holds, 16 MiB
  PollBatch,       \* events a poll takes at most, 100 000
  SpanCap,     \* entries in sys before they count as lost, 16384
  RequestCap,  \* entries in pending before they count as lost, 16384
  MaxEvents     \* bound: events of the host

\* TIDs, (CPU, vector) pairs and addresses are keys of different kinds.
ASSUME PairingAssumption ==
  /\ Threads \cap Handlers = {} /\ Requests \cap (Threads \cup Handlers) = {}
  /\ IsFiniteSet(Threads) /\ IsFiniteSet(Requests)
  /\ RingCap \in Nat /\ PollBatch \in Nat /\ MaxEvents \in Nat
  /\ SpanCap \in Nat /\ RequestCap \in Nat

Slots == Threads \cup Handlers
Sizes == 1..2                    \* bytes of a request

NoTime == -1
None(S) == [s \in S |-> NoTime]
NoRequest == [start |-> NoTime, left |-> 0]

\* The order Tracer::start attaches the programs in; each sees nothing before.
Programs == <<"enter", "leave", "exit", "issue", "done", "requeue">>

VARIABLES
  ticks, attached,
  alive,     \* the host: the TIDs that a thread has
  inside,    \* the host: when each slot was entered
  issued,   \* the host: what is issued to the device
  ring, losses,
  batch,     \* events left to this poll; 0: not polling
  spans,     \* sys and irq
  outstanding, lastLoss, lost,
  samples,   \* syscall_ms and vector_ms, block_ms, device_ms
  truth,     \* what happened: <<key, start, end>>
  unseen     \* what ended, or went on, before the program that sees it was there

pairingVars == <<ticks, attached, alive, inside, issued, ring, losses, batch, spans,
                 outstanding, lastLoss, lost, samples, truth, unseen>>
kernelVars   == <<alive, inside, issued, truth, unseen>>
tracerVars == <<batch, spans, outstanding, lastLoss, lost, samples>>

PairingTypeOK ==
  /\ ticks \in 0..MaxEvents /\ attached \in 0..Len(Programs)
  /\ inside \in [Slots -> NoTime..MaxEvents] /\ alive \subseteq Threads
  /\ \A r \in Requests : issued[r].start \in NoTime..MaxEvents
  /\ Len(ring) <= RingCap /\ batch \in 0..PollBatch
  /\ losses \in 0..MaxEvents /\ lastLoss \in 0..losses /\ lost \in Nat
  /\ Cardinality({t \in Threads : spans[t] # NoTime}) <= SpanCap
  /\ Cardinality({r \in Requests : outstanding[r] # NoRequest}) <= RequestCap

PairingInit ==
  /\ ticks = 0 /\ attached = 0 /\ alive = Threads
  /\ inside \in [Slots -> {NoTime, 0}]     \* in a call when the capture starts
  /\ issued = [r \in Requests |-> NoRequest]
  /\ ring = <<>> /\ losses = 0 /\ batch = 0
  /\ spans = None(Slots) /\ outstanding = [r \in Requests |-> NoRequest]
  /\ lastLoss = 0 /\ lost = 0
  /\ samples = {} /\ truth = {} /\ unseen = {}

-----------------------------------------------------------------------------
(* The host, and the programs that watch it *)

Attached(type) == \E i \in 1..attached : Programs[i] = type

\* begin and submit: a full ring drops the event and counts it.
Emit(type, key, bytes) ==
  /\ ticks < MaxEvents /\ ticks' = ticks + 1
  /\ IF ~Attached(type) THEN UNCHANGED <<ring, losses>>
     ELSE IF Len(ring) < RingCap
       THEN /\ ring' = Append(ring, [type |-> type, key |-> key,
                                     at |-> ticks', bytes |-> bytes])
            /\ UNCHANGED losses
       ELSE losses' = losses + 1 /\ UNCHANGED ring

Attach ==
  /\ attached < Len(Programs)
  /\ attached' = attached + 1
  /\ UNCHANGED <<ticks, ring, losses>> /\ UNCHANGED kernelVars
  /\ UNCHANGED tracerVars

\* kw_sys_enter, kw_soft_enter, kw_irq_enter
Enter(s) ==
  /\ inside[s] = NoTime /\ s \in alive \cup Handlers
  /\ Emit("enter", s, 0)
  /\ inside' = [inside EXCEPT ![s] = ticks']
  /\ UNCHANGED <<attached, alive, issued, truth, unseen>> /\ UNCHANGED tracerVars

\* kw_sys_exit, kw_soft_exit, kw_irq_exit
Leave(s) ==
  /\ inside[s] # NoTime
  /\ Emit("leave", s, 0)
  /\ inside' = [inside EXCEPT ![s] = NoTime]
  /\ truth' = truth \cup {<<s, inside[s], ticks'>>}
  /\ UNCHANGED <<attached, alive, issued, unseen>> /\ UNCHANGED tracerVars

\* A thread ends inside its exit call, which never returns, or by a signal.
\* kw_exit
ThreadEnds(t) ==
  /\ t \in alive /\ alive' = alive \ {t}
  /\ Emit("exit", t, 0)
  /\ inside' = [inside EXCEPT ![t] = NoTime]
  /\ unseen' = IF Attached("exit") THEN unseen ELSE unseen \cup {t}
  /\ UNCHANGED <<attached, issued, truth>> /\ UNCHANGED tracerVars

\* The first thing seen of a new thread is the return from its parent's clone.
ThreadBegins(t) ==
  /\ t \notin alive /\ alive' = alive \cup {t}
  /\ Emit("leave", t, 0)
  /\ UNCHANGED <<attached, inside, issued, truth, unseen>> /\ UNCHANGED tracerVars

\* kw_block_issue
Issue(r) ==
  /\ issued[r] = NoRequest
  /\ \E bytes \in Sizes :
       /\ Emit("issue", r, bytes)
       /\ issued' = [issued EXCEPT ![r] = [start |-> ticks', left |-> bytes]]
  /\ unseen' = unseen \ {r}
  /\ UNCHANGED <<attached, alive, inside, truth>> /\ UNCHANGED tracerVars

\* A request leaves the device by an event of this type.
Ends(r, type) ==
  /\ issued' = [issued EXCEPT ![r] = NoRequest]
  /\ unseen' = IF Attached(type) THEN unseen ELSE unseen \cup {r}

\* kw_block_done: a completion may be of a part.
Complete(r) ==
  \E bytes \in 1..issued[r].left :
    /\ Emit("done", r, bytes)
    /\ IF bytes = issued[r].left
         THEN /\ Ends(r, "done")
              /\ truth' = truth \cup {<<r, issued[r].start, ticks'>>}
         ELSE /\ issued' = [issued EXCEPT ![r].left = @ - bytes]
              /\ unseen' = IF Attached("done") THEN unseen ELSE unseen \cup {r}
              /\ UNCHANGED truth
    /\ UNCHANGED <<attached, alive, inside>> /\ UNCHANGED tracerVars

\* kw_block_requeue: the driver gives the request back.
Requeue(r) ==
  /\ issued[r] # NoRequest
  /\ Emit("requeue", r, 0)
  /\ Ends(r, "requeue")
  /\ UNCHANGED <<attached, alive, inside, truth>> /\ UNCHANGED tracerVars

-----------------------------------------------------------------------------
(* The tracer *)

\* Tracer::poll up to its loop: the loss counter is read before the ring.
PollStarts ==
  /\ batch = 0 /\ attached = Len(Programs)
  /\ batch' = PollBatch
  /\ lastLoss' = losses /\ lost' = lost + (losses - lastLoss)
  /\ IF losses > lastLoss
       THEN spans' = None(Slots) /\ outstanding' = [r \in Requests |-> NoRequest]
       ELSE UNCHANGED <<spans, outstanding>>
  /\ UNCHANGED <<ticks, attached, ring, losses, samples>> /\ UNCHANGED kernelVars

\* sys_enter, softirq_entry, irq_handler_entry: the last start wins; too many
\* of them lose all.
Entered(e) ==
  LET now == [spans EXCEPT ![e.key] = e.at]
      full == Cardinality({t \in Threads : now[t] # NoTime}) > SpanCap
  IN  /\ spans' = IF full THEN None(Slots) ELSE now
      /\ lost' = IF full THEN lost + 1 ELSE lost
      /\ UNCHANGED <<outstanding, samples>>

\* sys_exit, softirq_exit, irq_handler_exit
Left(e) ==
  /\ spans' = [spans EXCEPT ![e.key] = NoTime]
  /\ samples' = IF spans[e.key] = NoTime THEN samples
                ELSE samples \cup {<<e.key, spans[e.key], e.at>>}
  /\ UNCHANGED <<outstanding, lost>>

\* Mutant: the call a thread ended in stays.
ExitedLate(e) == UNCHANGED <<spans, outstanding, lost, samples>>

\* sched_process_exit
Gone(e) ==
  /\ spans' = [spans EXCEPT ![e.key] = NoTime]
  /\ UNCHANGED <<outstanding, lost, samples>>

\* Mutant: outstanding requests are not capped.
IssuedUncapped(e) ==
  /\ outstanding' = [outstanding EXCEPT ![e.key] = [start |-> e.at, left |-> e.bytes]]
  /\ UNCHANGED <<lost, spans, samples>>

\* Event type 8. The block half clears its own entries and counts a loss.
Issued(e) ==
  LET now == [outstanding EXCEPT ![e.key] = [start |-> e.at, left |-> e.bytes]]
      full == Cardinality({r \in Requests : now[r] # NoRequest}) > RequestCap
  IN  /\ outstanding' = IF full THEN [r \in Requests |-> NoRequest] ELSE now
      /\ lost' = IF full THEN lost + 1 ELSE lost
      /\ spans' = IF full THEN None(Slots) ELSE spans
      /\ UNCHANGED samples

\* Mutant: the first completion ends the request.
DoneEarly(e) ==
  /\ outstanding' = [outstanding EXCEPT ![e.key] = NoRequest]
  /\ samples' = IF outstanding[e.key] = NoRequest THEN samples
                ELSE samples \cup {<<e.key, outstanding[e.key].start, e.at>>}
  /\ UNCHANGED <<spans, lost>>

\* Event type 9
Done(e) ==
  LET p == outstanding[e.key]
  IN  /\ IF p = NoRequest THEN UNCHANGED <<outstanding, samples>>
         ELSE IF e.bytes >= p.left
           THEN /\ outstanding' = [outstanding EXCEPT ![e.key] = NoRequest]
                /\ samples' = samples \cup {<<e.key, p.start, e.at>>}
           ELSE /\ outstanding' = [outstanding EXCEPT ![e.key].left = @ - e.bytes]
                /\ UNCHANGED samples
      /\ UNCHANGED <<spans, lost>>

\* Mutant: the device giving a request back changes nothing.
RequeuedLate(e) == UNCHANGED <<spans, outstanding, lost, samples>>

\* Event type 10
Requeued(e) ==
  /\ outstanding' = [outstanding EXCEPT ![e.key] = NoRequest]
  /\ UNCHANGED <<spans, lost, samples>>

Consume ==
  /\ batch > 0 /\ ring # <<>>
  /\ LET e == Head(ring)
     IN  \/ e.type = "enter"   /\ Entered(e)
         \/ e.type = "leave"   /\ Left(e)
         \/ e.type = "exit"    /\ Gone(e)
         \/ e.type = "issue"   /\ Issued(e)
         \/ e.type = "done"    /\ Done(e)
         \/ e.type = "requeue" /\ Requeued(e)
  /\ ring' = Tail(ring)
  /\ batch' = batch - 1
  /\ UNCHANGED <<ticks, attached, losses, lastLoss>> /\ UNCHANGED kernelVars

PollEnds ==
  /\ batch > 0 /\ ring = <<>>
  /\ batch' = 0
  /\ UNCHANGED <<ticks, attached, ring, losses, spans, outstanding, lastLoss, lost,
                 samples>> /\ UNCHANGED kernelVars

PairingNext ==
  \/ Attach \/ PollStarts \/ Consume \/ PollEnds
  \/ \E s \in Slots : Enter(s) \/ Leave(s)
  \/ \E t \in Threads : ThreadEnds(t) \/ ThreadBegins(t)
  \/ \E r \in Requests : Issue(r) \/ Complete(r) \/ Requeue(r)

-----------------------------------------------------------------------------

\* Tracer::apply leaves every metric a value while nothing is known lost.
Trusted == lost = 0

\* A latency is measured between the start and the end of one call, handler or
\* request, or the kernel has counted the event that was lost between them and
\* the next poll takes the value away. The exception is a thread that ended
\* while the programs were being attached.
SamplesAreOwn ==
  Trusted /\ losses = lastLoss => \A s \in samples \ truth : s[1] \in unseen

\* What the tracer takes to be at the device, which the oldest request's age is
\* computed from, is at the device with as many bytes to go, once it has caught
\* up and lost nothing; only a request that moved on before its program was
\* attached may stay.
PendingIsAtTheDevice ==
  Trusted /\ losses = lastLoss /\ ring = <<>> =>
    \A r \in Requests :
      outstanding[r] # NoRequest => outstanding[r] = issued[r] \/ r \in unseen

\* What was paired did happen and what awaits its end is under way, within the
\* limits of the maps.
PairsAreTrue == PairingTypeOK /\ SamplesAreOwn /\ PendingIsAtTheDevice

=============================================================================
