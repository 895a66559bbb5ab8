------------------------ MODULE TraceCaptureProofs ------------------------
(***************************************************************************)
(* Theorems about a scheduler capture, for any tasks, CPUs, limits and     *)
(* number of events: what the correlator and the ring hold has its type,   *)
(* and without a loss the latencies shown are true.                        *)
(*                                                                         *)
(* The argument follows an event on its path.  What a step of the kernel   *)
(* does is told by its event (KernelTold); the event is appended to the    *)
(* ring (the Emitted lemmas); the tracer takes it and the correlator       *)
(* handles it (ConsumedIs, the Taken lemmas).  The invariant speaks of the *)
(* ring and the correlator together, so that what the one gives up the     *)
(* other has.                                                              *)
(***************************************************************************)
EXTENDS TraceCapture, FiniteSetTheorems, TLAPS

-----------------------------------------------------------------------------
(* The steps of the correlator *)

Interval == Times \X Times
Window == {w \in Seq(Interval) : Len(w) <= WindowCap}
Correlators ==
  [wake : [Pids -> Times \cup {NoTime}], off : [Pids -> Times \cup {NoTime}],
   taskStarts : [Pids -> 0..MaxNow], wakeMs : [Pids -> Window], offMs : [Pids -> Window],
   wakeCpu : [CPUs -> Window], lost : Nat]
Of(w) == {w[i] : i \in DOMAIN w}

LEMMA PushedIs ==
  ASSUME NEW w \in Window, NEW s \in Interval
  PROVE  /\ Pushed(w, s) \in Window
         /\ Of(Pushed(w, s)) \subseteq Of(w) \cup {s} /\ s \in Of(Pushed(w, s))
  <1>0. w \in Seq(Interval) /\ Len(w) \in Nat /\ Len(w) <= WindowCap /\ WindowCap \in Nat \ {0}
    BY CorrelatorAssumption DEF Window
  <1>1. PICK v \in Seq(Interval) : /\ Pushed(w, s) = Append(v, s) /\ Len(v) < WindowCap
                                   /\ Of(v) \subseteq Of(w)
    <2>1. CASE Len(w) >= WindowCap
      <3>1. w # <<>> /\ Tail(w) \in Seq(Interval) /\ Len(Tail(w)) = Len(w) - 1
        BY <1>0, <2>1
      <3>2. \A i \in DOMAIN Tail(w) : i + 1 \in DOMAIN w /\ Tail(w)[i] = w[i + 1]
        BY <1>0, <3>1
      <3>3. Of(Tail(w)) \subseteq Of(w)
        BY <3>2 DEF Of
      <3>4. Pushed(w, s) = Append(Tail(w), s)
        BY <2>1 DEF Pushed
      <3>5. Len(w) - 1 < WindowCap
        BY <1>0, <2>1
      <3> DEFINE v == Tail(w)
      <3>6. v \in Seq(Interval) /\ Len(v) < WindowCap
        BY <3>1, <3>5
      <3> HIDE DEF v
      <3>7. Pushed(w, s) = Append(v, s) /\ Of(v) \subseteq Of(w)
        BY <3>3, <3>4 DEF v
      <3> QED BY <3>6, <3>7
    <2>2. CASE ~(Len(w) >= WindowCap)
      BY <1>0, <2>2 DEF Pushed
    <2> QED BY <2>1, <2>2
  <1>2. /\ Append(v, s) \in Seq(Interval) /\ Len(Append(v, s)) = Len(v) + 1
        /\ \A i \in DOMAIN Append(v, s) : IF i = Len(v) + 1 THEN Append(v, s)[i] = s
                                         ELSE i \in DOMAIN v /\ Append(v, s)[i] = v[i]
        /\ Len(v) + 1 \in DOMAIN Append(v, s)
    OBVIOUS
  <1>3. Append(v, s) \in Window
    BY <1>0, <1>1, <1>2 DEF Window
  <1>4. Of(Append(v, s)) \subseteq Of(v) \cup {s} /\ s \in Of(Append(v, s))
    BY <1>2 DEF Of
  <1> QED BY <1>1, <1>3, <1>4

LEMMA MeasuredIs ==
  ASSUME NEW w \in Window, NEW start \in Times, NEW at \in Times
  PROVE  /\ Measured(w, start, at) \in Window
         /\ Of(Measured(w, start, at)) \subseteq Of(w) \cup {<<start, at>>}
         /\ at >= start => <<start, at>> \in Of(Measured(w, start, at))
         /\ ~(at >= start) => Measured(w, start, at) = w
  <1>1. <<start, at>> \in Interval
    BY DEF Interval
  <1> QED BY <1>1, PushedIs DEF Measured

LEMMA WokenIs ==
  ASSUME NEW d \in Correlators, NEW p \in Pids, NEW at \in Times
  PROVE  /\ Woken(d, p, at) \in Correlators
         /\ Woken(d, p, at) =
              [wake |-> [d.wake EXCEPT ![p] = IF d.wake[p] = NoTime THEN at ELSE d.wake[p]],
               off |-> d.off, taskStarts |-> d.taskStarts, wakeMs |-> d.wakeMs,
               offMs |-> d.offMs, wakeCpu |-> d.wakeCpu, lost |-> d.lost]
  <1>1. Woken(d, p, at) =
              [wake |-> [d.wake EXCEPT ![p] = IF d.wake[p] = NoTime THEN at ELSE d.wake[p]],
               off |-> d.off, taskStarts |-> d.taskStarts, wakeMs |-> d.wakeMs,
               offMs |-> d.offMs, wakeCpu |-> d.wakeCpu, lost |-> d.lost]
    BY DEF Woken, Correlators
  <1>2. [d.wake EXCEPT ![p] = IF d.wake[p] = NoTime THEN at ELSE d.wake[p]] \in [Pids -> Times \cup {NoTime}]
    BY DEF Correlators
  <1> QED BY <1>1, <1>2 DEF Correlators

LEMMA ForgottenIs ==
  ASSUME NEW d \in Correlators, NEW p \in Pids
  PROVE  /\ Forgotten(d, p) \in Correlators
         /\ Forgotten(d, p) =
              [wake |-> [d.wake EXCEPT ![p] = NoTime], off |-> [d.off EXCEPT ![p] = NoTime],
               taskStarts |-> d.taskStarts, wakeMs |-> [d.wakeMs EXCEPT ![p] = <<>>],
               offMs |-> [d.offMs EXCEPT ![p] = <<>>], wakeCpu |-> d.wakeCpu, lost |-> d.lost]
  <1>1. Forgotten(d, p) =
              [wake |-> [d.wake EXCEPT ![p] = NoTime], off |-> [d.off EXCEPT ![p] = NoTime],
               taskStarts |-> d.taskStarts, wakeMs |-> [d.wakeMs EXCEPT ![p] = <<>>],
               offMs |-> [d.offMs EXCEPT ![p] = <<>>], wakeCpu |-> d.wakeCpu, lost |-> d.lost]
    <2>1. d = [wake |-> d.wake, off |-> d.off, taskStarts |-> d.taskStarts, wakeMs |-> d.wakeMs,
               offMs |-> d.offMs, wakeCpu |-> d.wakeCpu, lost |-> d.lost]
      BY DEF Correlators
    <2> DEFINE e == [d EXCEPT !.wake[p] = NoTime]
               f == [e EXCEPT !.wakeMs[p] = <<>>]
               g == [f EXCEPT !.off[p] = NoTime]
               h == [g EXCEPT !.offMs[p] = <<>>]
    <2>2. Forgotten(d, p) = h
      BY DEF Forgotten
    <2> QED BY <2>1, <2>2
  <1>2. <<>> \in Window
    BY CorrelatorAssumption DEF Window
  <1> QED BY <1>1, <1>2 DEF Correlators

LEMMA IdentifiedIs ==
  ASSUME NEW d \in Correlators, NEW p \in Pids, NEW start \in 1..MaxNow
  PROVE  LET other == d.taskStarts[p] \notin {0, start} IN
         /\ Identified(d, p, start) \in Correlators
         /\ Identified(d, p, start) =
              [wake |-> IF other THEN [d.wake EXCEPT ![p] = NoTime] ELSE d.wake,
               off |-> IF other THEN [d.off EXCEPT ![p] = NoTime] ELSE d.off,
               taskStarts |-> [d.taskStarts EXCEPT ![p] = start],
               wakeMs |-> IF other THEN [d.wakeMs EXCEPT ![p] = <<>>] ELSE d.wakeMs,
               offMs |-> IF other THEN [d.offMs EXCEPT ![p] = <<>>] ELSE d.offMs,
               wakeCpu |-> d.wakeCpu, lost |-> d.lost]
  <1> DEFINE other == d.taskStarts[p] \notin {0, start}
             f == IF other THEN Forgotten(d, p) ELSE d
  <1>1. f \in Correlators
    BY ForgottenIs
  <1>2. f = [wake |-> IF other THEN [d.wake EXCEPT ![p] = NoTime] ELSE d.wake,
             off |-> IF other THEN [d.off EXCEPT ![p] = NoTime] ELSE d.off,
             taskStarts |-> d.taskStarts,
             wakeMs |-> IF other THEN [d.wakeMs EXCEPT ![p] = <<>>] ELSE d.wakeMs,
             offMs |-> IF other THEN [d.offMs EXCEPT ![p] = <<>>] ELSE d.offMs,
             wakeCpu |-> d.wakeCpu, lost |-> d.lost]
    <2>1. CASE other
      BY <2>1, ForgottenIs
    <2>2. CASE ~other
      BY <2>2 DEF Correlators
    <2> QED BY <2>1, <2>2
  <1>3. Identified(d, p, start) = [f EXCEPT !.taskStarts[p] = start]
    BY DEF Identified
  <1> HIDE DEF f, other
  <1>4. [f EXCEPT !.taskStarts[p] = start] =
          [wake |-> f.wake, off |-> f.off, taskStarts |-> [f.taskStarts EXCEPT ![p] = start],
           wakeMs |-> f.wakeMs, offMs |-> f.offMs, wakeCpu |-> f.wakeCpu, lost |-> f.lost]
    BY <1>1 DEF Correlators
  <1>5. [f EXCEPT !.taskStarts[p] = start] \in Correlators
    BY <1>1, <1>4 DEF Correlators
  <1>6. [f EXCEPT !.taskStarts[p] = start] =
              [wake |-> IF other THEN [d.wake EXCEPT ![p] = NoTime] ELSE d.wake,
               off |-> IF other THEN [d.off EXCEPT ![p] = NoTime] ELSE d.off,
               taskStarts |-> [d.taskStarts EXCEPT ![p] = start],
               wakeMs |-> IF other THEN [d.wakeMs EXCEPT ![p] = <<>>] ELSE d.wakeMs,
               offMs |-> IF other THEN [d.offMs EXCEPT ![p] = <<>>] ELSE d.offMs,
               wakeCpu |-> d.wakeCpu, lost |-> d.lost]
    BY <1>2, <1>4
  <1> QED BY <1>3, <1>5, <1>6 DEF other

LEMMA OffCpuEndedIs ==
  ASSUME NEW d \in Correlators, NEW p \in Pids, NEW at \in Times
  PROVE  LET e == OffCpuEnded(d, p, at) IN
         /\ e \in Correlators
         /\ e.wake = d.wake /\ e.taskStarts = d.taskStarts /\ e.wakeMs = d.wakeMs
         /\ e.wakeCpu = d.wakeCpu /\ e.lost = d.lost
  <1>1. CASE d.off[p] = NoTime
    BY <1>1 DEF OffCpuEnded
  <1>2. CASE d.off[p] # NoTime
    <2> DEFINE w == Measured(d.offMs[p], d.off[p], at)
               e == [wake |-> d.wake, off |-> [d.off EXCEPT ![p] = NoTime],
                     taskStarts |-> d.taskStarts, wakeMs |-> d.wakeMs,
                     offMs |-> [d.offMs EXCEPT ![p] = w], wakeCpu |-> d.wakeCpu, lost |-> d.lost]
    <2>1. d.off[p] \in Times /\ d.offMs[p] \in Window
      BY <1>2 DEF Correlators
    <2>2. w \in Window
      BY <2>1, MeasuredIs
    <2> HIDE DEF w
    <2>3. OffCpuEnded(d, p, at) = e
      BY <1>2 DEF OffCpuEnded, Correlators, w
    <2>4. e \in Correlators
      BY <2>2 DEF Correlators
    <2> QED BY <2>3, <2>4
  <1> QED BY <1>1, <1>2

LEMMA WaitEndedIs ==
  ASSUME NEW d \in Correlators, NEW p \in Pids, NEW cpu \in CPUs, NEW at \in Times
  PROVE  LET e == WaitEnded(d, p, cpu, at)
             start == d.wake[p]
         IN
         /\ e \in Correlators
         /\ e.wake = [d.wake EXCEPT ![p] = NoTime] /\ e.taskStarts = d.taskStarts
         /\ e.off = d.off /\ e.offMs = d.offMs /\ e.lost = d.lost
         /\ IF start = NoTime THEN e.wakeMs = d.wakeMs /\ e.wakeCpu = d.wakeCpu
            ELSE /\ e.wakeMs = [d.wakeMs EXCEPT ![p] = Measured(d.wakeMs[p], start, at)]
                 /\ e.wakeCpu = [d.wakeCpu EXCEPT ![cpu] = Measured(d.wakeCpu[cpu], start, at)]
  <1>1. CASE d.wake[p] = NoTime
    <2>1. d.wake = [d.wake EXCEPT ![p] = NoTime]
      BY <1>1 DEF Correlators
    <2> QED BY <1>1, <2>1 DEF WaitEnded
  <1>2. CASE d.wake[p] # NoTime
    <2> DEFINE v == Measured(d.wakeMs[p], d.wake[p], at)
               w == Measured(d.wakeCpu[cpu], d.wake[p], at)
               e == [wake |-> [d.wake EXCEPT ![p] = NoTime], off |-> d.off,
                     taskStarts |-> d.taskStarts, wakeMs |-> [d.wakeMs EXCEPT ![p] = v],
                     offMs |-> d.offMs, wakeCpu |-> [d.wakeCpu EXCEPT ![cpu] = w],
                     lost |-> d.lost]
    <2>1. d.wake[p] \in Times /\ d.wakeMs[p] \in Window /\ d.wakeCpu[cpu] \in Window
      BY <1>2 DEF Correlators
    <2>2. v \in Window /\ w \in Window
      BY <2>1, MeasuredIs
    <2>3. WaitEnded(d, p, cpu, at) = e
      <3> HIDE DEF v, w
      <3> QED BY <1>2 DEF WaitEnded, Correlators, v, w
    <2>4. e \in Correlators
      <3> HIDE DEF v, w
      <3> QED BY <2>2 DEF Correlators
    <2> QED BY <1>2, <2>3, <2>4
  <1> QED BY <1>1, <1>2

LEMMA SwitchedOutIs ==
  ASSUME NEW d \in Correlators, NEW e, e.prev \in Pids \cup {Swapper}, e.at \in Times
  PROVE  LET r == SwitchedOut(d, e) IN
         /\ r \in Correlators
         /\ r.wake = d.wake /\ r.taskStarts = d.taskStarts /\ r.wakeMs = d.wakeMs
         /\ r.wakeCpu = d.wakeCpu /\ r.lost = d.lost
  <1>1. CASE e.prev = Swapper
    BY <1>1 DEF SwitchedOut
  <1>2. CASE e.prev # Swapper
    <2> DEFINE r == [wake |-> d.wake, off |-> [d.off EXCEPT ![e.prev] = e.at],
                     taskStarts |-> d.taskStarts, wakeMs |-> d.wakeMs,
                     offMs |-> d.offMs, wakeCpu |-> d.wakeCpu, lost |-> d.lost]
    <2>1. SwitchedOut(d, e) = r
      BY <1>2 DEF SwitchedOut, Correlators
    <2>2. r \in Correlators
      BY DEF Correlators
    <2> QED BY <2>1, <2>2
  <1> QED BY <1>1, <1>2

LEMMA ExitedIs ==
  ASSUME NEW d \in Correlators, NEW p \in Pids
  PROVE  LET r == Exited(d, p) IN
         /\ r \in Correlators
         /\ r.wake = [d.wake EXCEPT ![p] = NoTime] /\ r.wakeMs = [d.wakeMs EXCEPT ![p] = <<>>]
         /\ r.taskStarts = [d.taskStarts EXCEPT ![p] = 0]
         /\ r.wakeCpu = d.wakeCpu /\ r.lost = d.lost
  <1> DEFINE f == Forgotten(d, p)
             r == [wake |-> f.wake, off |-> f.off, taskStarts |-> [f.taskStarts EXCEPT ![p] = 0],
                   wakeMs |-> f.wakeMs, offMs |-> f.offMs, wakeCpu |-> f.wakeCpu, lost |-> f.lost]
  <1>1. /\ f \in Correlators
        /\ f.wake = [d.wake EXCEPT ![p] = NoTime] /\ f.wakeMs = [d.wakeMs EXCEPT ![p] = <<>>]
        /\ f.taskStarts = d.taskStarts /\ f.wakeCpu = d.wakeCpu /\ f.lost = d.lost
    <2>1. f \in Correlators
      BY ForgottenIs
    <2>2. f = [wake |-> [d.wake EXCEPT ![p] = NoTime], off |-> [d.off EXCEPT ![p] = NoTime],
               taskStarts |-> d.taskStarts, wakeMs |-> [d.wakeMs EXCEPT ![p] = <<>>],
               offMs |-> [d.offMs EXCEPT ![p] = <<>>], wakeCpu |-> d.wakeCpu, lost |-> d.lost]
      BY ForgottenIs
    <2> HIDE DEF f
    <2> QED BY <2>1, <2>2
  <1>2. Exited(d, p) = [f EXCEPT !.taskStarts[p] = 0]
    BY DEF Exited
  <1> HIDE DEF f
  <1>3. [f EXCEPT !.taskStarts[p] = 0] = r
    <2>1. f = [wake |-> f.wake, off |-> f.off, taskStarts |-> f.taskStarts, wakeMs |-> f.wakeMs,
               offMs |-> f.offMs, wakeCpu |-> f.wakeCpu, lost |-> f.lost]
      BY <1>1 DEF Correlators
    <2> QED BY <2>1
  <1>4. 0 \in 0..MaxNow
    BY CaptureAssumption
  <1>5. r \in Correlators
    BY <1>1, <1>4 DEF Correlators
  <1> QED BY <1>1, <1>2, <1>3, <1>5

LEMMA NothingPending == NoStarts \in [Pids -> Times \cup {NoTime}] /\ Started(NoStarts) = {}
  BY DEF NoStarts, Started

LEMMA LossIs ==
  ASSUME NEW d \in Correlators, NEW n \in Nat
  PROVE  /\ Loss(d, n) \in Correlators
         /\ Loss(d, n) =
              [wake |-> NoStarts, off |-> NoStarts, taskStarts |-> d.taskStarts,
               wakeMs |-> d.wakeMs, offMs |-> d.offMs, wakeCpu |-> d.wakeCpu,
               lost |-> d.lost + n]
  <1>1. Loss(d, n) =
              [wake |-> NoStarts, off |-> NoStarts, taskStarts |-> d.taskStarts,
               wakeMs |-> d.wakeMs, offMs |-> d.offMs, wakeCpu |-> d.wakeCpu,
               lost |-> d.lost + n]
    <2>1. d = [wake |-> d.wake, off |-> d.off, taskStarts |-> d.taskStarts, wakeMs |-> d.wakeMs,
               offMs |-> d.offMs, wakeCpu |-> d.wakeCpu, lost |-> d.lost]
      BY DEF Correlators
    <2> DEFINE e == [d EXCEPT !.lost = d.lost + n]
               f == [e EXCEPT !.wake = NoStarts]
               g == [f EXCEPT !.off = NoStarts]
    <2>2. Loss(d, n) = g
      BY DEF Loss
    <2> QED BY <2>1, <2>2
  <1>2. d.lost + n \in Nat
    BY DEF Correlators
  <1> QED BY <1>1, <1>2, NothingPending DEF Correlators

\* The maps are within their limits.
WithinCaps(d) ==
  /\ Cardinality(Started(d.wake)) <= PendingCap
  /\ Cardinality(Sampled(d.wakeMs)) <= HistoryCap
  /\ Cardinality(Sampled(d.offMs)) <= HistoryCap

\* A map that is cleared at its limit.
Cleared(d, r) ==
  /\ r \in Correlators
  /\ r = d \/ r.lost > d.lost

LEMMA CardinalityOfPids ==
  ASSUME NEW S \in SUBSET Pids
  PROVE  Cardinality(S) \in Nat
  BY FS_Subset, FS_CardinalityType, CorrelatorAssumption

LEMMA NoSamples ==
  /\ Empty.offMs \in [Pids -> Window] /\ Empty.wakeMs \in [Pids -> Window]
  /\ Empty.taskStarts \in [Pids -> 0..MaxNow]
  /\ Sampled(Empty.offMs) = {} /\ Sampled(Empty.wakeMs) = {}
  <1>1. <<>> \in Window /\ 0 \in 0..MaxNow
    BY CorrelatorAssumption, CaptureAssumption DEF Window
  <1> QED BY <1>1 DEF Empty, Sampled

LEMMA LimitedIs ==
  ASSUME NEW d \in Correlators
  PROVE  Cleared(d, Limited(d)) /\ WithinCaps(Limited(d))
  <1>0. PendingCap \in Nat /\ HistoryCap \in Nat /\ Cardinality({}) = 0
    BY CorrelatorAssumption, FS_EmptySet
  <1> DEFINE starts == IF Cardinality({p \in Pids : d.taskStarts[p] # 0}) > StartsCap
                         THEN Loss([d EXCEPT !.taskStarts = Empty.taskStarts], 1) ELSE d
             offs   == IF Cardinality(Sampled(d.offMs)) > HistoryCap
                         THEN Loss([starts EXCEPT !.offMs = Empty.offMs], 1) ELSE starts
             wakes  == IF Cardinality(Sampled(d.wakeMs)) > HistoryCap
                         THEN Loss([offs EXCEPT !.wakeMs = Empty.wakeMs], 1) ELSE offs
             full   == \/ Cardinality(Started(wakes.wake)) > PendingCap
                       \/ Cardinality(Started(wakes.off)) > PendingCap
             r      == IF full THEN Loss(wakes, 1) ELSE wakes
  <1>1. Cleared(d, starts) /\ starts.wakeMs = d.wakeMs /\ starts.offMs = d.offMs
    <2> DEFINE f == [d EXCEPT !.taskStarts = Empty.taskStarts]
    <2>1. f \in Correlators /\ f.lost = d.lost /\ f.wakeMs = d.wakeMs /\ f.offMs = d.offMs
      BY NoSamples DEF Correlators
    <2> HIDE DEF f
    <2>2. /\ Loss(f, 1) \in Correlators /\ Loss(f, 1).lost = f.lost + 1
          /\ Loss(f, 1).wakeMs = f.wakeMs /\ Loss(f, 1).offMs = f.offMs
      BY <2>1, LossIs
    <2>3. d.lost \in Nat
      BY DEF Correlators
    <2>4. starts = Loss(f, 1) \/ starts = d
      BY DEF f
    <2> HIDE DEF starts
    <2> QED BY <2>1, <2>2, <2>3, <2>4 DEF Cleared
  <1> HIDE DEF starts
  <1>2. /\ Cleared(d, offs) /\ offs.wakeMs = d.wakeMs
        /\ Cardinality(Sampled(offs.offMs)) <= HistoryCap
    <2> DEFINE f == [starts EXCEPT !.offMs = Empty.offMs]
    <2>1. starts \in Correlators /\ starts.lost \in Nat /\ d.lost \in Nat
      BY <1>1 DEF Cleared, Correlators
    <2>2. f \in Correlators /\ f.lost = starts.lost /\ f.wakeMs = starts.wakeMs /\ f.offMs = Empty.offMs
      BY <2>1, NoSamples DEF Correlators
    <2> HIDE DEF f
    <2>3. /\ Loss(f, 1) \in Correlators /\ Loss(f, 1).lost = f.lost + 1
          /\ Loss(f, 1).wakeMs = f.wakeMs /\ Loss(f, 1).offMs = f.offMs
      BY <2>2, LossIs
    <2>4. CASE Cardinality(Sampled(d.offMs)) > HistoryCap
      <3>1. offs = Loss(f, 1)
        BY <2>4 DEF f
      <3> HIDE DEF offs
      <3>2. Cardinality(Sampled(offs.offMs)) = 0
        BY <1>0, <2>2, <2>3, <3>1, NoSamples
      <3> QED BY <1>0, <1>1, <2>1, <2>2, <2>3, <3>1, <3>2 DEF Cleared
    <2>5. CASE ~(Cardinality(Sampled(d.offMs)) > HistoryCap)
      <3>1. offs = starts
        BY <2>5
      <3>2. Cardinality(Sampled(d.offMs)) \in Nat
        BY CardinalityOfPids DEF Sampled
      <3> HIDE DEF offs
      <3> QED BY <1>0, <1>1, <2>5, <3>1, <3>2
    <2> QED BY <2>4, <2>5
  <1> HIDE DEF offs
  <1>3. /\ Cleared(d, wakes) /\ Cardinality(Sampled(wakes.wakeMs)) <= HistoryCap
        /\ Cardinality(Sampled(wakes.offMs)) <= HistoryCap
    <2> DEFINE f == [offs EXCEPT !.wakeMs = Empty.wakeMs]
    <2>1. offs \in Correlators /\ offs.lost \in Nat /\ d.lost \in Nat
      BY <1>2 DEF Cleared, Correlators
    <2>2. f \in Correlators /\ f.lost = offs.lost /\ f.wakeMs = Empty.wakeMs /\ f.offMs = offs.offMs
      BY <2>1, NoSamples DEF Correlators
    <2> HIDE DEF f
    <2>3. /\ Loss(f, 1) \in Correlators /\ Loss(f, 1).lost = f.lost + 1
          /\ Loss(f, 1).wakeMs = f.wakeMs /\ Loss(f, 1).offMs = f.offMs
      BY <2>2, LossIs
    <2>4. CASE Cardinality(Sampled(d.wakeMs)) > HistoryCap
      <3>1. wakes = Loss(f, 1)
        BY <2>4 DEF f
      <3> HIDE DEF wakes
      <3>2. Cardinality(Sampled(wakes.wakeMs)) = 0
        BY <1>0, <2>2, <2>3, <3>1, NoSamples
      <3> QED BY <1>0, <1>2, <2>1, <2>2, <2>3, <3>1, <3>2 DEF Cleared
    <2>5. CASE ~(Cardinality(Sampled(d.wakeMs)) > HistoryCap)
      <3>1. wakes = offs
        BY <2>5
      <3>2. Cardinality(Sampled(d.wakeMs)) \in Nat
        BY CardinalityOfPids DEF Sampled
      <3> HIDE DEF wakes
      <3> QED BY <1>0, <1>2, <2>5, <3>1, <3>2
    <2> QED BY <2>4, <2>5
  <1> HIDE DEF wakes
  <1>4. Cleared(d, r) /\ WithinCaps(r)
    <2>1. wakes \in Correlators /\ wakes.lost \in Nat /\ d.lost \in Nat
      BY <1>3 DEF Cleared, Correlators
    <2>2. /\ Loss(wakes, 1) \in Correlators /\ Loss(wakes, 1).lost = wakes.lost + 1
          /\ Loss(wakes, 1).wakeMs = wakes.wakeMs /\ Loss(wakes, 1).offMs = wakes.offMs
          /\ Loss(wakes, 1).wake = NoStarts
      <3> HIDE DEF r, full
      <3> DEFINE l == Loss(wakes, 1)
      <3>1. /\ l \in Correlators
            /\ l = [wake |-> NoStarts, off |-> NoStarts, taskStarts |-> wakes.taskStarts,
                    wakeMs |-> wakes.wakeMs, offMs |-> wakes.offMs, wakeCpu |-> wakes.wakeCpu,
                    lost |-> wakes.lost + 1]
        BY <2>1, LossIs
      <3> HIDE DEF l
      <3>2. /\ l.lost = wakes.lost + 1 /\ l.wakeMs = wakes.wakeMs /\ l.offMs = wakes.offMs
            /\ l.wake = NoStarts
        BY <3>1
      <3> QED BY <3>1, <3>2 DEF l
    <2>3. CASE full
      <3>1. r = Loss(wakes, 1)
        BY <2>3
      <3> HIDE DEF r
      <3>2. Cardinality(Started(r.wake)) = 0
        BY <1>0, <2>2, <3>1, NothingPending
      <3> QED BY <1>0, <1>3, <2>1, <2>2, <3>1, <3>2 DEF Cleared, WithinCaps
    <2>4. CASE ~full
      <3>1. r = wakes
        BY <2>4
      <3>2. Cardinality(Started(wakes.wake)) \in Nat
        BY CardinalityOfPids DEF Started
      <3>3. Cardinality(Started(wakes.wake)) <= PendingCap
        BY <1>0, <2>4, <3>2
      <3> HIDE DEF r
      <3> QED BY <1>3, <3>1, <3>3 DEF WithinCaps
    <2> QED BY <2>3, <2>4
  <1>5. Limited(d) = r
    BY DEF Limited, r, wakes, offs, starts
  <1> HIDE DEF r
  <1> QED BY <1>4, <1>5

-----------------------------------------------------------------------------
(* What an event leaves in the correlator *)

PidEvent == [type : {"wakeup", "exit"}, pid : Pids, at : Times]
SwitchEvent ==
  {e \in [type : {"switch"}, cpu : CPUs, at : Times, next : Pids \cup {Swapper},
          start : 0..MaxNow, prev : Pids \cup {Swapper}, runnable : BOOLEAN] :
     /\ e.next # e.prev
     /\ e.next # Swapper => e.start # 0}
Event == PidEvent \cup SwitchEvent

\* A task begins to wait, and ends waiting: dispatched, or exiting.
Sets(e, p) ==
  \/ e.type = "wakeup" /\ e.pid = p
  \/ e.type = "switch" /\ e.prev = p /\ e.runnable
Dispatches(e, p) == e.type = "switch" /\ e.next = p
Exits(e, p) == e.type = "exit" /\ e.pid = p
Clears(e, p) == Dispatches(e, p) \/ Exits(e, p)

\* The pending start of p is of the task that is dispatched.
SameTask(d, e, p) == d.taskStarts[p] \in {0, e.start}

\* What an event leaves of p in the correlator.
WakeAfter(d, e, p) ==
  IF Clears(e, p) THEN NoTime
  ELSE IF Sets(e, p) /\ d.wake[p] = NoTime THEN e.at ELSE d.wake[p]
StartAfter(d, e, p) ==
  IF Exits(e, p) THEN 0 ELSE IF Dispatches(e, p) THEN e.start ELSE d.taskStarts[p]
SamplesAfter(d, e, p) ==
  IF Exits(e, p) THEN {}
  ELSE IF ~Dispatches(e, p) THEN Of(d.wakeMs[p])
  ELSE IF ~SameTask(d, e, p) THEN {}
  ELSE Of(d.wakeMs[p]) \cup IF d.wake[p] = NoTime THEN {} ELSE {<<d.wake[p], e.at>>}

Handles(d, e, r) ==
  /\ r \in Correlators /\ r.lost = d.lost
  /\ \A p \in Pids : /\ r.wake[p] = WakeAfter(d, e, p)
                     /\ r.taskStarts[p] = StartAfter(d, e, p)
                     /\ Of(r.wakeMs[p]) \subseteq SamplesAfter(d, e, p)
  /\ (\A p \in Pids : ~Dispatches(e, p)) => r.wakeCpu = d.wakeCpu
  /\ \A p \in Pids :
       Dispatches(e, p) /\ SameTask(d, e, p) /\ d.wake[p] # NoTime /\ d.wake[p] <= e.at
       => <<d.wake[p], e.at>> \in Of(r.wakeCpu[e.cpu])

LEMMA WakeupHandled ==
  ASSUME NEW d \in Correlators, NEW e \in PidEvent, e.type = "wakeup"
  PROVE  Handles(d, e, Woken(d, e.pid, e.at))
  <1> DEFINE r == Woken(d, e.pid, e.at)
  <1>1. e.pid \in Pids /\ e.at \in Times
    BY DEF PidEvent
  <1>2. /\ r \in Correlators
        /\ r = [wake |-> [d.wake EXCEPT ![e.pid] = IF d.wake[e.pid] = NoTime THEN e.at ELSE d.wake[e.pid]],
               off |-> d.off, taskStarts |-> d.taskStarts, wakeMs |-> d.wakeMs,
               offMs |-> d.offMs, wakeCpu |-> d.wakeCpu, lost |-> d.lost]
    BY <1>1, WokenIs
  <1> HIDE DEF r
  <1>3. /\ r.wake = [d.wake EXCEPT ![e.pid] = IF d.wake[e.pid] = NoTime THEN e.at ELSE d.wake[e.pid]]
        /\ r.taskStarts = d.taskStarts /\ r.wakeMs = d.wakeMs /\ r.wakeCpu = d.wakeCpu
        /\ r.lost = d.lost
    BY <1>2
  <1>4. \A p \in Pids : r.wake[p] = WakeAfter(d, e, p)
    BY <1>1, <1>3 DEF WakeAfter, Clears, Dispatches, Exits, Sets, Correlators
  <1>5. \A p \in Pids : /\ r.taskStarts[p] = StartAfter(d, e, p)
                        /\ Of(r.wakeMs[p]) \subseteq SamplesAfter(d, e, p)
                        /\ ~Dispatches(e, p)
    BY <1>3 DEF StartAfter, SamplesAfter, Dispatches, Exits
  <1> QED BY <1>2, <1>3, <1>4, <1>5 DEF Handles, r

LEMMA ExitHandled ==
  ASSUME NEW d \in Correlators, NEW e \in PidEvent, e.type = "exit"
  PROVE  Handles(d, e, Exited(d, e.pid))
  <1> DEFINE r == Exited(d, e.pid)
  <1>1. e.pid \in Pids
    BY DEF PidEvent
  <1>2. /\ r \in Correlators
        /\ r.wake = [d.wake EXCEPT ![e.pid] = NoTime]
        /\ r.wakeMs = [d.wakeMs EXCEPT ![e.pid] = <<>>]
        /\ r.taskStarts = [d.taskStarts EXCEPT ![e.pid] = 0]
        /\ r.wakeCpu = d.wakeCpu /\ r.lost = d.lost
    BY <1>1, ExitedIs
  <1> HIDE DEF r
  <1>3. \A p \in Pids : r.wake[p] = WakeAfter(d, e, p) /\ r.taskStarts[p] = StartAfter(d, e, p)
    BY <1>1, <1>2 DEF WakeAfter, StartAfter, Clears, Dispatches, Exits, Sets, Correlators
  <1>4. \A p \in Pids : Of(r.wakeMs[p]) \subseteq SamplesAfter(d, e, p)
    <2> TAKE p \in Pids
    <2>1. CASE p = e.pid
      <3>1. r.wakeMs[p] = <<>>
        BY <1>1, <1>2, <2>1 DEF Correlators
      <3> QED BY <3>1 DEF Of
    <2>2. CASE p # e.pid
      <3>1. r.wakeMs[p] = d.wakeMs[p]
        BY <1>1, <1>2, <2>2 DEF Correlators
      <3> QED BY <2>2, <3>1 DEF SamplesAfter, Exits, Dispatches
    <2> QED BY <2>1, <2>2
  <1>5. \A p \in Pids : ~Dispatches(e, p)
    BY DEF Dispatches
  <1> QED BY <1>2, <1>3, <1>4, <1>5 DEF Handles, r

\* The two halves of a switch: the task that comes, and the task that goes.
LEMMA ComesHandled ==
  ASSUME NEW d \in Correlators, NEW e \in SwitchEvent, NEW q \in Pids, e.next = q
  PROVE  LET r == Dispatched(SwitchedOut(SwitchedIn(d, e), e), e) IN
         /\ r \in Correlators /\ r.lost = d.lost
         /\ r.wake = [d.wake EXCEPT ![q] = NoTime]
         /\ r.taskStarts = [d.taskStarts EXCEPT ![q] = e.start]
         /\ \A p \in Pids \ {q} : r.wakeMs[p] = d.wakeMs[p]
         /\ Of(r.wakeMs[q]) \subseteq SamplesAfter(d, e, q)
         /\ SameTask(d, e, q) /\ d.wake[q] # NoTime /\ d.wake[q] <= e.at
            => <<d.wake[q], e.at>> \in Of(r.wakeCpu[e.cpu])
  <1>0. /\ q # Swapper /\ e.start \in 1..MaxNow /\ e.at \in Times /\ e.cpu \in CPUs
        /\ e.prev \in Pids \cup {Swapper} /\ e.type = "switch"
    BY CorrelatorAssumption DEF SwitchEvent, Swapper
  <1> DEFINE other == d.taskStarts[q] \notin {0, e.start}
             i == Identified(d, q, e.start)
             s == OffCpuEnded(i, q, e.at)
             o == SwitchedOut(s, e)
             r == WaitEnded(o, q, e.cpu, e.at)
  <1>1. SwitchedIn(d, e) = s
    BY <1>0 DEF SwitchedIn
  <1>2. Dispatched(o, e) = r
    BY <1>0 DEF Dispatched
  <1>3. /\ i \in Correlators /\ i.lost = d.lost /\ i.wakeCpu = d.wakeCpu
        /\ i.wake = IF other THEN [d.wake EXCEPT ![q] = NoTime] ELSE d.wake
        /\ i.taskStarts = [d.taskStarts EXCEPT ![q] = e.start]
        /\ i.wakeMs = IF other THEN [d.wakeMs EXCEPT ![q] = <<>>] ELSE d.wakeMs
    <2>1. /\ i \in Correlators
          /\ i = [wake |-> IF other THEN [d.wake EXCEPT ![q] = NoTime] ELSE d.wake,
               off |-> IF other THEN [d.off EXCEPT ![q] = NoTime] ELSE d.off,
               taskStarts |-> [d.taskStarts EXCEPT ![q] = e.start],
               wakeMs |-> IF other THEN [d.wakeMs EXCEPT ![q] = <<>>] ELSE d.wakeMs,
               offMs |-> IF other THEN [d.offMs EXCEPT ![q] = <<>>] ELSE d.offMs,
               wakeCpu |-> d.wakeCpu, lost |-> d.lost]
      BY <1>0, IdentifiedIs
    <2> HIDE DEF i, other
    <2> QED BY <2>1
  <1> HIDE DEF i
  <1>4. /\ s \in Correlators /\ s.wake = i.wake /\ s.taskStarts = i.taskStarts
        /\ s.wakeMs = i.wakeMs /\ s.wakeCpu = i.wakeCpu /\ s.lost = i.lost
    BY <1>0, <1>3, OffCpuEndedIs
  <1> HIDE DEF s
  <1>5. /\ o \in Correlators /\ o.wake = s.wake /\ o.taskStarts = s.taskStarts
        /\ o.wakeMs = s.wakeMs /\ o.wakeCpu = s.wakeCpu /\ o.lost = s.lost
    BY <1>0, <1>4, SwitchedOutIs
  <1> HIDE DEF o
  <1>6. /\ r \in Correlators /\ r.lost = o.lost
        /\ r.wake = [o.wake EXCEPT ![q] = NoTime] /\ r.taskStarts = o.taskStarts
        /\ IF o.wake[q] = NoTime THEN r.wakeMs = o.wakeMs /\ r.wakeCpu = o.wakeCpu
           ELSE /\ r.wakeMs = [o.wakeMs EXCEPT ![q] = Measured(o.wakeMs[q], o.wake[q], e.at)]
                /\ r.wakeCpu = [o.wakeCpu EXCEPT ![e.cpu] = Measured(o.wakeCpu[e.cpu], o.wake[q], e.at)]
    BY <1>0, <1>5, WaitEndedIs
  <1> HIDE DEF r
  <1>7. r.wake = [d.wake EXCEPT ![q] = NoTime] /\ r.taskStarts = [d.taskStarts EXCEPT ![q] = e.start]
    <2>1. r.wake = [i.wake EXCEPT ![q] = NoTime]
      BY <1>4, <1>5, <1>6
    <2>2. [i.wake EXCEPT ![q] = NoTime] = [d.wake EXCEPT ![q] = NoTime]
      BY <1>3 DEF Correlators
    <2> QED BY <1>3, <1>4, <1>5, <1>6, <2>1, <2>2
  <1>8. \A p \in Pids \ {q} : r.wakeMs[p] = d.wakeMs[p]
    BY <1>3, <1>4, <1>5, <1>6 DEF Correlators
  <1>9. o.wake[q] = NoTime \/ (o.wake[q] = d.wake[q] /\ ~other)
    <2>1. o.wake = IF other THEN [d.wake EXCEPT ![q] = NoTime] ELSE d.wake
      BY <1>3, <1>4, <1>5
    <2>2. [d.wake EXCEPT ![q] = NoTime][q] = NoTime
      BY DEF Correlators
    <2> HIDE DEF other
    <2> QED BY <2>1, <2>2
  <1>10. Of(o.wakeMs[q]) \subseteq IF other THEN {} ELSE Of(d.wakeMs[q])
    BY <1>3, <1>4, <1>5 DEF Correlators, Of
  <1>11. SamplesAfter(d, e, q) =
           IF other THEN {}
           ELSE Of(d.wakeMs[q]) \cup IF d.wake[q] = NoTime THEN {} ELSE {<<d.wake[q], e.at>>}
    BY <1>0 DEF SamplesAfter, Exits, Dispatches, SameTask
  <1>12. Of(r.wakeMs[q]) \subseteq SamplesAfter(d, e, q)
    <2>1. CASE o.wake[q] = NoTime
      BY <1>6, <1>10, <1>11, <2>1
    <2>2. CASE o.wake[q] # NoTime
      <3>1. o.wake[q] \in Times /\ o.wakeMs[q] \in Window
        BY <1>5, <2>2 DEF Correlators
      <3>2. Of(Measured(o.wakeMs[q], o.wake[q], e.at)) \subseteq Of(o.wakeMs[q]) \cup {<<o.wake[q], e.at>>}
        BY <1>0, <3>1, MeasuredIs
      <3>3. r.wakeMs[q] = Measured(o.wakeMs[q], o.wake[q], e.at)
        BY <1>5, <1>6, <2>2 DEF Correlators
      <3> QED BY <1>9, <1>10, <1>11, <2>2, <3>2, <3>3
    <2> QED BY <2>1, <2>2
  <1>13. ASSUME SameTask(d, e, q), d.wake[q] # NoTime, d.wake[q] <= e.at
         PROVE  <<d.wake[q], e.at>> \in Of(r.wakeCpu[e.cpu])
    <2>1. o.wake[q] = d.wake[q] /\ d.wake[q] \in Times /\ o.wakeCpu[e.cpu] \in Window
      BY <1>0, <1>3, <1>4, <1>5, <1>13 DEF SameTask, Correlators
    <2>2. r.wakeCpu[e.cpu] = Measured(o.wakeCpu[e.cpu], o.wake[q], e.at)
      BY <1>0, <1>5, <1>6, <1>13, <2>1 DEF Correlators
    <2> QED BY <1>0, <1>13, <2>1, <2>2, MeasuredIs DEF Times
  <1>14. r.lost = d.lost /\ r \in Correlators
    BY <1>3, <1>4, <1>5, <1>6
  <1>15. Dispatched(SwitchedOut(SwitchedIn(d, e), e), e) = r
    BY <1>1, <1>2 DEF o
  <1> QED BY <1>7, <1>8, <1>12, <1>13, <1>14, <1>15

\* What a switch leaves before the task that goes is taken to wait.
Halfway(d, e, r) ==
  /\ r \in Correlators /\ r.lost = d.lost
  /\ \A p \in Pids : /\ r.wake[p] = IF Dispatches(e, p) THEN NoTime ELSE d.wake[p]
                     /\ r.taskStarts[p] = StartAfter(d, e, p)
                     /\ Of(r.wakeMs[p]) \subseteq SamplesAfter(d, e, p)
  /\ (\A p \in Pids : ~Dispatches(e, p)) => r.wakeCpu = d.wakeCpu
  /\ \A p \in Pids :
       Dispatches(e, p) /\ SameTask(d, e, p) /\ d.wake[p] # NoTime /\ d.wake[p] <= e.at
       => <<d.wake[p], e.at>> \in Of(r.wakeCpu[e.cpu])

LEMMA SwitchHalfway ==
  ASSUME NEW d \in Correlators, NEW e \in SwitchEvent
  PROVE  Halfway(d, e, Dispatched(SwitchedOut(SwitchedIn(d, e), e), e))
  <1> DEFINE r == Dispatched(SwitchedOut(SwitchedIn(d, e), e), e)
  <1>0. /\ e.type = "switch" /\ e.at \in Times /\ e.prev \in Pids \cup {Swapper}
        /\ e.next \in Pids \cup {Swapper} /\ Swapper \notin Pids
    BY CorrelatorAssumption DEF SwitchEvent, Swapper
  <1>1. CASE e.next = Swapper
    <2>1. r = SwitchedOut(d, e)
      BY <1>1 DEF SwitchedIn, Dispatched
    <2>2. /\ r \in Correlators /\ r.wake = d.wake /\ r.taskStarts = d.taskStarts
          /\ r.wakeMs = d.wakeMs /\ r.wakeCpu = d.wakeCpu /\ r.lost = d.lost
      BY <1>0, <2>1, SwitchedOutIs
    <2> HIDE DEF r
    <2>3. \A p \in Pids : ~Dispatches(e, p) /\ ~Exits(e, p)
      BY <1>0, <1>1 DEF Dispatches, Exits
    <2>4. Halfway(d, e, r)
      BY <2>2, <2>3 DEF Halfway, StartAfter, SamplesAfter
    <2> QED BY <2>4 DEF r
  <1>2. CASE e.next # Swapper
    <2> DEFINE q == e.next
    <2>1. q \in Pids
      BY <1>0, <1>2
    <2>2. /\ r \in Correlators /\ r.lost = d.lost
          /\ r.wake = [d.wake EXCEPT ![q] = NoTime]
          /\ r.taskStarts = [d.taskStarts EXCEPT ![q] = e.start]
          /\ \A p \in Pids \ {q} : r.wakeMs[p] = d.wakeMs[p]
          /\ Of(r.wakeMs[q]) \subseteq SamplesAfter(d, e, q)
          /\ SameTask(d, e, q) /\ d.wake[q] # NoTime /\ d.wake[q] <= e.at
             => <<d.wake[q], e.at>> \in Of(r.wakeCpu[e.cpu])
      BY <2>1, ComesHandled
    <2>3. \A p \in Pids : (Dispatches(e, p) <=> p = q) /\ ~Exits(e, p)
      BY <1>0 DEF Dispatches, Exits
    <2> HIDE DEF r, q
    <2>4. \A p \in Pids : r.wake[p] = IF Dispatches(e, p) THEN NoTime ELSE d.wake[p]
      BY <2>2, <2>3 DEF Correlators
    <2>5. \A p \in Pids : r.taskStarts[p] = StartAfter(d, e, p)
      BY <2>2, <2>3 DEF Correlators, StartAfter
    <2>6. \A p \in Pids : Of(r.wakeMs[p]) \subseteq SamplesAfter(d, e, p)
      <3> TAKE p \in Pids
      <3>1. CASE p = q
        BY <2>2, <3>1
      <3>2. CASE p # q
        BY <2>2, <2>3, <3>2 DEF SamplesAfter
      <3> QED BY <3>1, <3>2
    <2>7. Halfway(d, e, r)
      BY <2>1, <2>2, <2>3, <2>4, <2>5, <2>6 DEF Halfway
    <2> QED BY <2>7 DEF r
  <1> QED BY <1>1, <1>2

LEMMA SwitchHandled ==
  ASSUME NEW d \in Correlators, NEW e \in SwitchEvent
  PROVE  Handles(d, e, Preempted(Dispatched(SwitchedOut(SwitchedIn(d, e), e), e), e))
  <1> DEFINE h == Dispatched(SwitchedOut(SwitchedIn(d, e), e), e)
             r == Preempted(h, e)
  <1>0. /\ e.type = "switch" /\ e.at \in Times /\ e.prev \in Pids \cup {Swapper}
        /\ e.next # e.prev /\ Swapper \notin Pids /\ e.runnable \in BOOLEAN
    BY CorrelatorAssumption DEF SwitchEvent, Swapper
  <1>1. Halfway(d, e, h)
    BY SwitchHalfway
  <1> HIDE DEF h
  <1>2. CASE e.prev = Swapper \/ ~e.runnable
    <2>1. r = h
      BY <1>2 DEF Preempted
    <2>2. \A p \in Pids : ~Sets(e, p) /\ (Clears(e, p) <=> Dispatches(e, p))
      BY <1>0, <1>2 DEF Sets, Clears, Exits
    <2> HIDE DEF r
    <2>3. \A p \in Pids : r.wake[p] = WakeAfter(d, e, p)
      BY <1>1, <2>1, <2>2 DEF Halfway, WakeAfter
    <2>4. Handles(d, e, r)
      BY <1>1, <2>1, <2>3 DEF Halfway, Handles
    <2> QED BY <2>4 DEF r, h
  <1>3. CASE e.prev # Swapper /\ e.runnable
    <2> DEFINE q == e.prev
    <2>0. q \in Pids
      BY <1>0, <1>3
    <2>1. r = Woken(h, q, e.at)
      BY <1>3 DEF Preempted
    <2>2. h \in Correlators
      BY <1>1 DEF Halfway
    <2> HIDE DEF r, q
    <2>3. /\ r \in Correlators
          /\ r = [wake |-> [h.wake EXCEPT ![q] = IF h.wake[q] = NoTime THEN e.at ELSE h.wake[q]],
               off |-> h.off, taskStarts |-> h.taskStarts, wakeMs |-> h.wakeMs,
               offMs |-> h.offMs, wakeCpu |-> h.wakeCpu, lost |-> h.lost]
      BY <1>0, <2>0, <2>1, <2>2, WokenIs
    <2>4. /\ r.wake = [h.wake EXCEPT ![q] = IF h.wake[q] = NoTime THEN e.at ELSE h.wake[q]]
          /\ r.taskStarts = h.taskStarts /\ r.wakeMs = h.wakeMs /\ r.wakeCpu = h.wakeCpu
          /\ r.lost = h.lost
      BY <2>3
    <2>5. \A p \in Pids : /\ Sets(e, p) <=> p = q
                          /\ Clears(e, p) <=> Dispatches(e, p)
                          /\ p = q => ~Dispatches(e, p)
      BY <1>0, <1>3 DEF Sets, Clears, Exits, Dispatches, q
    <2>6. \A p \in Pids : r.wake[p] = WakeAfter(d, e, p)
      <3> TAKE p \in Pids
      <3>1. h.wake[p] = IF Dispatches(e, p) THEN NoTime ELSE d.wake[p]
        BY <1>1 DEF Halfway
      <3>2. h.wake \in [Pids -> Times \cup {NoTime}]
        BY <2>2 DEF Correlators
      <3>3. CASE p = q
        <4>1. r.wake[p] = IF h.wake[p] = NoTime THEN e.at ELSE h.wake[p]
          BY <2>4, <3>2, <3>3
        <4> QED BY <2>5, <3>1, <3>3, <4>1 DEF WakeAfter
      <3>4. CASE p # q
        <4>1. r.wake[p] = h.wake[p]
          BY <2>0, <2>4, <3>2, <3>4
        <4> QED BY <2>5, <3>1, <3>4, <4>1 DEF WakeAfter
      <3> QED BY <3>3, <3>4
    <2>7. Handles(d, e, r)
      BY <1>1, <2>3, <2>4, <2>6 DEF Halfway, Handles
    <2> QED BY <2>7 DEF r, h
  <1> QED BY <1>0, <1>2, <1>3

\* What an event leaves, once the limits were looked at.
LEMMA ConsumedIs ==
  ASSUME NEW d \in Correlators, NEW e \in Event
  PROVE  /\ Consumed(d, e) \in Correlators /\ WithinCaps(Consumed(d, e))
         /\ Consumed(d, e).lost = 0 => d.lost = 0 /\ Handles(d, e, Consumed(d, e))
         /\ d.lost > 0 => Consumed(d, e).lost > 0
  <1>1. PICK r : Handles(d, e, r) /\ Consumed(d, e) = Limited(r)
    <2>1. CASE e \in PidEvent /\ e.type = "wakeup"
      BY <2>1, WakeupHandled DEF Consumed
    <2>2. CASE e \in PidEvent /\ e.type = "exit"
      BY <2>2, ExitHandled DEF Consumed
    <2>3. CASE e \in SwitchEvent
      <3>1. e.type = "switch"
        BY <2>3 DEF SwitchEvent
      <3> QED BY <2>3, <3>1, SwitchHandled DEF Consumed
    <2> QED BY <2>1, <2>2, <2>3 DEF Event, PidEvent
  <1>2. r \in Correlators /\ r.lost = d.lost /\ d.lost \in Nat
    BY <1>1 DEF Handles, Correlators
  <1>3. Cleared(r, Limited(r)) /\ WithinCaps(Limited(r))
    BY <1>2, LimitedIs
  <1> DEFINE l == Limited(r)
  <1> HIDE DEF l
  <1>4. l \in Correlators /\ (l = r \/ l.lost > d.lost) /\ Consumed(d, e) = l /\ WithinCaps(l)
    BY <1>1, <1>2, <1>3 DEF Cleared, l
  <1>5. l.lost \in Nat
    BY <1>4 DEF Correlators
  <1>6. CASE l = r
    BY <1>1, <1>2, <1>4, <1>6
  <1>7. CASE l.lost > d.lost
    BY <1>2, <1>4, <1>5, <1>7
  <1> QED BY <1>4, <1>6, <1>7

-----------------------------------------------------------------------------
(* The kernel, and how its steps are told *)

KernelTypes ==
  /\ now \in Times /\ life \in [Pids -> 0..MaxNow] /\ state \in [Pids -> States]
  /\ running \in [CPUs -> Pids \cup {Swapper}]
  /\ births \in [Pids -> SUBSET Times] /\ since \in [Pids -> 0..MaxNow]
  /\ waits \subseteq Pids \X (0..MaxNow) \X Times

\* A task runs on one CPU; what is known of it is not of the future.
KernelOrder ==
  /\ \A x, y \in CPUs : running[x] = running[y] /\ x # y => running[x] = Swapper
  /\ \A p \in Pids : state[p] \in {"running", "exiting"} <=> \E x \in CPUs : running[x] = p
  /\ \A p \in Pids : /\ life[p] = 0 <=> state[p] = "none"
                     /\ life[p] # 0 => life[p] \in births[p]
                     /\ since[p] <= now
                     /\ \A b \in births[p] : b <= now
  /\ \A w \in waits : w[2] < w[3] /\ w[3] <= now

\* A task that waits for a CPU, for the first time in its life, or that has
\* given up its life.
Waiting(p) == state[p] \in {"runnable", "dying"}
FirstWait(p) == state[p] = "runnable" /\ since[p] = life[p]
Gone(p) == state[p] \in {"none", "exiting"}

\* How the kernel's step is told by its event.
BirthsTold(e) ==
  \A p \in Pids : births'[p] = births[p] \/ (births'[p] = births[p] \cup {e.at} /\ Gone(p))
GoneTold(e) ==
  \A p \in Pids : Gone(p)' => (Gone(p) /\ ~Sets(e, p)) \/ Clears(e, p)
WaitingTold(e) ==
  \A p \in Pids : Waiting(p)' =>
    \/ since'[p] = e.at /\ Sets(e, p)
    \/ Waiting(p) /\ since'[p] = since[p] /\ ~Clears(e, p)
LifeTold(e) ==
  \A p \in Pids : state'[p] # "none" /\ ~FirstWait(p)' =>
    \/ Exits(e, p)
    \/ Dispatches(e, p) /\ e.start = life'[p]
    \/ ~Clears(e, p) /\ state[p] # "none" /\ ~FirstWait(p) /\ life'[p] = life[p]
WaitsTold(e) ==
  \/ waits' = waits /\ \A p \in Pids : ~Dispatches(e, p)
  \/ \E p \in Pids : /\ waits' = waits \cup {<<p, since[p], e.at>>}
                     /\ Dispatches(e, p) /\ Waiting(p) /\ e.start = life[p]
                     /\ life[p] \in births[p]
Told(e) ==
  /\ e \in Event /\ e.at = now + 1
  /\ BirthsTold(e) /\ GoneTold(e) /\ WaitingTold(e) /\ LifeTold(e) /\ WaitsTold(e)

LEMMA ForkTold ==
  ASSUME KernelTypes, KernelOrder, NEW p \in Pids, Fork(p)
  PROVE  KernelTypes' /\ KernelOrder' /\ \E e \in Event : Emit(e) /\ Told(e)
  <1> DEFINE n == now + 1
             e == [type |-> "wakeup", pid |-> p, at |-> n]
             life1 == life'
             state1 == state'
             births1 == births'
             since1 == since'
             now1 == now'
  <1>1. /\ now \in Times /\ n \in Times /\ n > now /\ now1 = n
    <2>1. now < MaxNow /\ now1 = n
      BY DEF Fork, Emit
    <2>2. now \in Times /\ MaxNow \in Nat
      BY CaptureAssumption DEF KernelTypes
    <2> QED BY <2>1, <2>2 DEF Times
  <1>2. /\ life1 = [life EXCEPT ![p] = n] /\ births1 = [births EXCEPT ![p] = births[p] \cup {n}]
        /\ state1 = [state EXCEPT ![p] = "runnable"] /\ since1 = [since EXCEPT ![p] = n]
        /\ running' = running /\ waits' = waits /\ state[p] = "none" /\ Emit(e)
    BY <1>1 DEF Fork
  <1>3. /\ life \in [Pids -> 0..MaxNow] /\ state \in [Pids -> States]
        /\ births \in [Pids -> SUBSET Times] /\ since \in [Pids -> 0..MaxNow]
    BY DEF KernelTypes
  <1> HIDE DEF n
  <1>4. KernelTypes'
    <2>1. n \in 0..MaxNow
      BY <1>1 DEF Times
    <2>2. life1 \in [Pids -> 0..MaxNow] /\ since1 \in [Pids -> 0..MaxNow]
      BY <1>2, <1>3, <2>1
    <2>3. births1 \in [Pids -> SUBSET Times] /\ state1 \in [Pids -> States]
      BY <1>1, <1>2, <1>3 DEF States
    <2> QED BY <1>1, <1>2, <2>2, <2>3 DEF KernelTypes
  <1>5. KernelOrder'
    <2>1. \A q \in Pids : state1[q] \in {"running", "exiting"} <=> \E x \in CPUs : running[x] = q
      BY <1>2, <1>3 DEF KernelOrder
    <2>2. \A q \in Pids : /\ life1[q] = 0 <=> state1[q] = "none"
                          /\ life1[q] # 0 => life1[q] \in births1[q]
      <3>1. n # 0
        BY <1>1 DEF Times
      <3> HIDE DEF life1, state1, births1, since1, now1
      <3> QED BY <1>2, <1>3, <3>1 DEF KernelOrder
    <2>3. \A q \in Pids : since1[q] <= n /\ \A b \in births1[q] : b <= n
      <3> TAKE q \in Pids
      <3>1. since[q] <= now /\ since[q] \in 0..MaxNow /\ births[q] \subseteq Times
            /\ \A b \in births[q] : b <= now
        BY <1>3 DEF KernelOrder
      <3>2. since[q] <= n /\ \A b \in births[q] : b <= n
        BY <1>1, <3>1 DEF Times
      <3>3. (since1[q] = n \/ since1[q] = since[q]) /\ births1[q] \subseteq births[q] \cup {n}
        BY <1>2, <1>3
      <3>4. n <= n
        BY <1>1 DEF Times
      <3> HIDE DEF since1, births1
      <3> QED BY <3>2, <3>3, <3>4
    <2>4. \A w \in waits : w[2] < w[3] /\ w[3] <= n
      BY <1>1 DEF KernelOrder, KernelTypes, Times
    <2> HIDE DEF life1, state1, births1, since1, now1
    <2>5. /\ \A q \in Pids : since1[q] <= now1 /\ \A b \in births1[q] : b <= now1
          /\ \A w \in waits : w[2] < w[3] /\ w[3] <= now1
      BY <1>1, <2>3, <2>4
    <2> QED BY <1>2, <2>1, <2>2, <2>5 DEF KernelOrder, life1, state1, births1, since1, now1
  <1>6. e \in Event /\ e.at = n /\ e.type = "wakeup" /\ e.pid = p
    BY <1>1 DEF Event, PidEvent
  <1> HIDE DEF e
  <1>7. \A q \in Pids : ~Clears(e, q) /\ ~Dispatches(e, q) /\ ~Exits(e, q) /\ (Sets(e, q) <=> q = p)
    BY <1>6 DEF Clears, Dispatches, Exits, Sets
  <1>8. Told(e)
    <2>1. BirthsTold(e)
      BY <1>2, <1>3, <1>6 DEF BirthsTold, Gone
    <2>2. GoneTold(e)
      BY <1>2, <1>3, <1>7 DEF GoneTold, Gone
    <2>3. WaitingTold(e)
      BY <1>2, <1>3, <1>6, <1>7 DEF WaitingTold, Waiting
    <2>4. LifeTold(e)
      BY <1>2, <1>3, <1>6, <1>7 DEF LifeTold, FirstWait
    <2>5. WaitsTold(e)
      BY <1>2, <1>7 DEF WaitsTold
    <2> QED BY <1>6, <2>1, <2>2, <2>3, <2>4, <2>5 DEF Told, n
  <1> QED BY <1>2, <1>4, <1>5, <1>6, <1>8

\* Steps that move a task and neither start a life nor end a wait.
LEMMA OrderKept ==
  ASSUME KernelTypes, KernelOrder, now < MaxNow, now' = now + 1,
         UNCHANGED <<life, running, births, waits>>,
         state' \in [Pids -> States], since' \in [Pids -> 0..MaxNow],
         \A p \in Pids : /\ since'[p] = since[p] \/ since'[p] = now'
                         /\ state'[p] = "none" <=> state[p] = "none"
                         /\ state'[p] \in {"running", "exiting"} <=> state[p] \in {"running", "exiting"}
  PROVE  KernelTypes' /\ KernelOrder'
  <1> DEFINE n == now + 1
             since1 == since'
             now1 == now'
  <1>1. now \in Times /\ n \in Times /\ n > now /\ now1 = n
    <2>1. now \in Times /\ MaxNow \in Nat
      BY CaptureAssumption DEF KernelTypes
    <2> QED BY <2>1 DEF Times
  <1> HIDE DEF n
  <1>2. KernelTypes'
    BY <1>1 DEF KernelTypes
  <1>3. \A q \in Pids : since1[q] <= n /\ \A b \in births[q] : b <= n
    <2> TAKE q \in Pids
    <2>1. since[q] <= now /\ since[q] \in 0..MaxNow /\ births[q] \subseteq Times
          /\ \A b \in births[q] : b <= now
      BY DEF KernelOrder, KernelTypes
    <2>2. since[q] <= n /\ n <= n /\ \A b \in births[q] : b <= n
      BY <1>1, <2>1 DEF Times
    <2>3. since1[q] = n \/ since1[q] = since[q]
      BY <1>1
    <2> HIDE DEF since1
    <2> QED BY <2>2, <2>3
  <1>4. \A w \in waits : w[2] < w[3] /\ w[3] <= n
    BY <1>1 DEF KernelOrder, KernelTypes, Times
  <1> HIDE DEF since1, now1
  <1>5. /\ \A q \in Pids : since1[q] <= now1 /\ \A b \in births[q] : b <= now1
        /\ \A w \in waits : w[2] < w[3] /\ w[3] <= now1
    BY <1>1, <1>3, <1>4
  <1> QED BY <1>2, <1>5 DEF KernelOrder, since1, now1

LEMMA NextTime ==
  ASSUME KernelTypes, now < MaxNow
  PROVE  now + 1 \in Times /\ now + 1 \in 0..MaxNow /\ \A t \in 0..MaxNow : t <= now => t # now + 1
  <1>1. now \in Times /\ MaxNow \in Nat
    BY CaptureAssumption DEF KernelTypes
  <1> QED BY <1>1 DEF Times

LEMMA WakeTold ==
  ASSUME KernelTypes, KernelOrder, NEW p \in Pids, Wake(p)
  PROVE  KernelTypes' /\ KernelOrder' /\ \E e \in Event : Emit(e) /\ Told(e)
  <1> DEFINE n == now + 1
             e == [type |-> "wakeup", pid |-> p, at |-> n]
  <1>1. now < MaxNow /\ now' = n /\ Emit(e) /\ n \in Times /\ n \in 0..MaxNow /\ n # life[p]
    <2>1. now < MaxNow /\ now' = n /\ Emit(e)
      BY DEF Wake, Emit
    <2>2. life[p] \in 0..MaxNow /\ life[p] <= now
      <3>1. life[p] = 0 \/ life[p] <= now
        BY DEF KernelOrder
      <3>2. life[p] \in 0..MaxNow /\ now \in Times
        BY DEF KernelTypes
      <3> QED BY <3>1, <3>2 DEF Times
    <2> QED BY <2>1, <2>2, NextTime
  <1>2. /\ state' = [state EXCEPT ![p] = "runnable"] /\ since' = [since EXCEPT ![p] = n]
        /\ state[p] = "sleeping" /\ UNCHANGED <<life, running, births, waits>>
    BY <1>1 DEF Wake
  <1>3. state \in [Pids -> States] /\ since \in [Pids -> 0..MaxNow]
    BY DEF KernelTypes
  <1> HIDE DEF n
  <1>4. KernelTypes' /\ KernelOrder'
    <2>1. state' \in [Pids -> States] /\ since' \in [Pids -> 0..MaxNow]
      BY <1>1, <1>2, <1>3 DEF States
    <2>2. \A q \in Pids : /\ since'[q] = since[q] \/ since'[q] = now'
                          /\ state'[q] = "none" <=> state[q] = "none"
                          /\ state'[q] \in {"running", "exiting"} <=> state[q] \in {"running", "exiting"}
      BY <1>1, <1>2, <1>3
    <2> QED BY <1>1, <1>2, <2>1, <2>2, OrderKept DEF n
  <1>5. e \in Event /\ e.at = n /\ e.type = "wakeup" /\ e.pid = p
    BY <1>1 DEF Event, PidEvent
  <1> HIDE DEF e
  <1>6. \A q \in Pids : ~Clears(e, q) /\ ~Dispatches(e, q) /\ ~Exits(e, q) /\ (Sets(e, q) <=> q = p)
    BY <1>5 DEF Clears, Dispatches, Exits, Sets
  <1>7. Told(e)
    <2>1. BirthsTold(e)
      BY <1>2 DEF BirthsTold
    <2>2. GoneTold(e)
      BY <1>2, <1>3, <1>6 DEF GoneTold, Gone
    <2>3. WaitingTold(e)
      BY <1>2, <1>3, <1>5, <1>6 DEF WaitingTold, Waiting
    <2>4. LifeTold(e)
      BY <1>1, <1>2, <1>3, <1>5, <1>6 DEF LifeTold, FirstWait
    <2>5. WaitsTold(e)
      BY <1>2, <1>6 DEF WaitsTold
    <2> QED BY <1>5, <2>1, <2>2, <2>3, <2>4, <2>5 DEF Told, n
  <1> QED BY <1>1, <1>4, <1>5, <1>7

LEMMA WakeRunningTold ==
  ASSUME KernelTypes, KernelOrder, NEW p \in Pids, WakeRunning(p)
  PROVE  KernelTypes' /\ KernelOrder' /\ \E e \in Event : Emit(e) /\ Told(e)
  <1> DEFINE n == now + 1
             e == [type |-> "wakeup", pid |-> p, at |-> n]
  <1>1. now < MaxNow /\ now' = n /\ Emit(e) /\ n \in Times
    <2>1. now < MaxNow /\ now' = n /\ Emit(e)
      BY DEF WakeRunning, Emit
    <2> QED BY <2>1, NextTime
  <1>2. UNCHANGED <<life, state, running, births, waits, since>> /\ state[p] = "running"
    BY DEF WakeRunning
  <1> HIDE DEF n
  <1>4. KernelTypes' /\ KernelOrder'
    BY <1>1, <1>2, OrderKept DEF n, KernelTypes
  <1>5. e \in Event /\ e.at = n /\ e.type = "wakeup" /\ e.pid = p
    BY <1>1 DEF Event, PidEvent
  <1> HIDE DEF e
  <1>6. \A q \in Pids : ~Clears(e, q) /\ ~Dispatches(e, q) /\ ~Exits(e, q) /\ (Sets(e, q) <=> q = p)
    BY <1>5 DEF Clears, Dispatches, Exits, Sets
  <1>7. Told(e)
    <2>1. BirthsTold(e)
      BY <1>2 DEF BirthsTold
    <2>2. GoneTold(e)
      BY <1>2, <1>6 DEF GoneTold, Gone
    <2>3. WaitingTold(e)
      BY <1>2, <1>6 DEF WaitingTold, Waiting
    <2>4. LifeTold(e)
      BY <1>2, <1>6 DEF LifeTold, FirstWait
    <2>5. WaitsTold(e)
      BY <1>2, <1>6 DEF WaitsTold
    <2> QED BY <1>5, <2>1, <2>2, <2>3, <2>4, <2>5 DEF Told, n
  <1> QED BY <1>1, <1>4, <1>5, <1>7

LEMMA ExitTold ==
  ASSUME KernelTypes, KernelOrder, NEW p \in Pids, Exit(p)
  PROVE  KernelTypes' /\ KernelOrder' /\ \E e \in Event : Emit(e) /\ Told(e)
  <1> DEFINE n == now + 1
             e == [type |-> "exit", pid |-> p, at |-> n]
  <1>1. now < MaxNow /\ now' = n /\ Emit(e) /\ n \in Times
    <2>1. now < MaxNow /\ now' = n /\ Emit(e)
      BY DEF Exit, Emit
    <2> QED BY <2>1, NextTime
  <1>2. /\ state' = [state EXCEPT ![p] = "exiting"] /\ state[p] = "running"
        /\ UNCHANGED <<life, running, births, waits, since>>
    BY DEF Exit
  <1>3. state \in [Pids -> States] /\ since \in [Pids -> 0..MaxNow]
    BY DEF KernelTypes
  <1> HIDE DEF n
  <1>4. KernelTypes' /\ KernelOrder'
    <2>1. state' \in [Pids -> States]
      BY <1>2, <1>3 DEF States
    <2>2. \A q \in Pids : /\ state'[q] = "none" <=> state[q] = "none"
                          /\ state'[q] \in {"running", "exiting"} <=> state[q] \in {"running", "exiting"}
      BY <1>2, <1>3
    <2> QED BY <1>1, <1>2, <1>3, <2>1, <2>2, OrderKept DEF n
  <1>5. e \in Event /\ e.at = n /\ e.type = "exit" /\ e.pid = p
    BY <1>1 DEF Event, PidEvent
  <1> HIDE DEF e
  <1>6. \A q \in Pids : /\ ~Dispatches(e, q) /\ ~Sets(e, q)
                        /\ Exits(e, q) <=> q = p
                        /\ Clears(e, q) <=> q = p
    BY <1>5 DEF Clears, Dispatches, Exits, Sets
  <1>7. Told(e)
    <2>1. BirthsTold(e)
      BY <1>2 DEF BirthsTold
    <2>2. GoneTold(e)
      BY <1>2, <1>3, <1>6 DEF GoneTold, Gone
    <2>3. WaitingTold(e)
      BY <1>2, <1>3, <1>6 DEF WaitingTold, Waiting
    <2>4. LifeTold(e)
      BY <1>2, <1>3, <1>6 DEF LifeTold, FirstWait
    <2>5. WaitsTold(e)
      BY <1>2, <1>6 DEF WaitsTold
    <2> QED BY <1>5, <2>1, <2>2, <2>3, <2>4, <2>5 DEF Told, n
  <1> QED BY <1>1, <1>4, <1>5, <1>7

\* What a switch does, task by task.
LEMMA SwitchIs ==
  ASSUME KernelTypes, KernelOrder, NEW cpu \in CPUs, NEW next \in Pids \cup {Swapper},
         NEW runnable \in BOOLEAN, Switch(cpu, next, runnable)
  PROVE  LET prev == running[cpu]
             n == now + 1 IN
         /\ now < MaxNow /\ now' = n /\ prev \in Pids \cup {Swapper} /\ prev # next
         /\ prev \in Pids => state[prev] \in {"running", "exiting"}
         /\ next \in Pids => state[next] \in {"runnable", "dying"}
         /\ prev = Swapper => ~runnable
         /\ running' = [running EXCEPT ![cpu] = next] /\ births' = births
         /\ state' \in [Pids -> States] /\ life' \in [Pids -> 0..MaxNow]
         /\ since' \in [Pids -> 0..MaxNow]
         /\ \A p \in Pids :
              /\ p = next => state'[p] = IF state[p] = "dying" THEN "exiting" ELSE "running"
              /\ p = prev => state'[p] = Left(p, runnable)
              /\ p \notin {next, prev} => state'[p] = state[p]
              /\ life'[p] = IF state'[p] = "none" THEN 0 ELSE life[p]
              /\ since'[p] = IF p = prev /\ runnable THEN n ELSE since[p]
         /\ waits' = IF next = Swapper THEN waits
                     ELSE waits \cup {<<next, since[next], n>>}
  <1> DEFINE prev == running[cpu]
             n == now + 1
  <1>1. now < MaxNow /\ now' = n
    BY DEF Switch, Emit
  <1>2. n \in 0..MaxNow /\ 0 \in 0..MaxNow
    BY <1>1, NextTime, CaptureAssumption
  <1>3. /\ state \in [Pids -> States] /\ life \in [Pids -> 0..MaxNow] /\ since \in [Pids -> 0..MaxNow]
        /\ running \in [CPUs -> Pids \cup {Swapper}]
    BY DEF KernelTypes
  <1>4. prev \in Pids => state[prev] \in {"running", "exiting"}
    BY DEF KernelOrder
  <1>5. next \in Pids => next # Swapper
    BY CorrelatorAssumption DEF Swapper
  <1>6. \A p \in Pids :
              /\ p = next => state'[p] = IF state[p] = "dying" THEN "exiting" ELSE "running"
              /\ p = prev => state'[p] = Left(p, runnable)
              /\ p \notin {next, prev} => state'[p] = state[p]
    BY DEF Switch
  <1>7. state' \in [Pids -> States]
    <2>1. state' = [p \in Pids |->
                     CASE p = next -> IF state[p] = "dying" THEN "exiting" ELSE "running"
                       [] p = prev -> Left(p, runnable)
                       [] OTHER    -> state[p]]
      BY DEF Switch
    <2>2. \A p \in Pids : state'[p] \in States
      BY <1>3, <1>6 DEF States, Left
    <2> QED BY <2>1, <2>2
  <1>8. /\ life' = [p \in Pids |-> IF state'[p] = "none" THEN 0 ELSE life[p]]
        /\ since' = [p \in Pids |-> IF p = prev /\ runnable THEN n ELSE since[p]]
    BY <1>1 DEF Switch
  <1>9. life' \in [Pids -> 0..MaxNow] /\ since' \in [Pids -> 0..MaxNow]
    <2> HIDE DEF n, prev
    <2> QED BY <1>2, <1>3, <1>8
  <1>10. /\ prev # next /\ (prev = Swapper => ~runnable) /\ births' = births
         /\ running' = [running EXCEPT ![cpu] = next]
         /\ next # Swapper => state[next] \in {"runnable", "dying"}
    BY DEF Switch
  <1>11. waits' = IF next = Swapper THEN waits ELSE waits \cup {<<next, since[next], n>>}
    BY <1>1 DEF Switch
  <1>12. prev \in Pids \cup {Swapper}
    BY <1>3
  <1>13. \A p \in Pids : /\ life'[p] = IF state'[p] = "none" THEN 0 ELSE life[p]
                         /\ since'[p] = IF p = prev /\ runnable THEN n ELSE since[p]
    BY <1>8
  <1> HIDE DEF n, prev
  <1>14. /\ \A p \in Pids :
              /\ p = next => state'[p] = IF state[p] = "dying" THEN "exiting" ELSE "running"
              /\ p = prev => state'[p] = Left(p, runnable)
              /\ p \notin {next, prev} => state'[p] = state[p]
              /\ life'[p] = IF state'[p] = "none" THEN 0 ELSE life[p]
              /\ since'[p] = IF p = prev /\ runnable THEN n ELSE since[p]
    BY <1>6, <1>13
  <1>15. next \in Pids => state[next] \in {"runnable", "dying"}
    BY <1>5, <1>10
  <1> QED BY <1>1, <1>4, <1>7, <1>9, <1>10, <1>11, <1>12, <1>14, <1>15 DEF n, prev

LEMMA SwitchTypes ==
  ASSUME KernelTypes, KernelOrder, NEW cpu \in CPUs, NEW next \in Pids \cup {Swapper},
         NEW runnable \in BOOLEAN, Switch(cpu, next, runnable)
  PROVE  KernelTypes'
  <1>1. now' = now + 1 /\ now < MaxNow /\ births' = births
        /\ state' \in [Pids -> States] /\ life' \in [Pids -> 0..MaxNow] /\ since' \in [Pids -> 0..MaxNow]
        /\ running' = [running EXCEPT ![cpu] = next]
        /\ waits' = IF next = Swapper THEN waits
                    ELSE waits \cup {<<next, since[next], now + 1>>}
    BY SwitchIs
  <1>2. now' \in Times /\ now + 1 \in Times
    BY <1>1, NextTime
  <1>3. running' \in [CPUs -> Pids \cup {Swapper}]
    BY <1>1 DEF KernelTypes
  <1>4. waits' \subseteq Pids \X (0..MaxNow) \X Times
    <2>1. waits \subseteq Pids \X (0..MaxNow) \X Times /\ since \in [Pids -> 0..MaxNow]
      BY DEF KernelTypes
    <2>2. next # Swapper => <<next, since[next], now + 1>> \in Pids \X (0..MaxNow) \X Times
      BY <1>2, <2>1
    <2> QED BY <1>1, <2>1, <2>2
  <1>5. births' \in [Pids -> SUBSET Times]
    BY <1>1 DEF KernelTypes
  <1> QED BY <1>1, <1>2, <1>3, <1>4, <1>5 DEF KernelTypes

LEMMA SwitchOrder ==
  ASSUME KernelTypes, KernelOrder, NEW cpu \in CPUs, NEW next \in Pids \cup {Swapper},
         NEW runnable \in BOOLEAN, Switch(cpu, next, runnable)
  PROVE  KernelOrder'
  <1> DEFINE prev == running[cpu]
             n == now + 1
             running1 == running'
             state1 == state'
             life1 == life'
             since1 == since'
             waits1 == waits'
             now1 == now'
  <1>1. /\ now < MaxNow /\ now1 = n /\ prev \in Pids \cup {Swapper} /\ prev # next
        /\ prev \in Pids => state[prev] \in {"running", "exiting"}
        /\ next \in Pids => state[next] \in {"runnable", "dying"}
        /\ births' = births
    BY SwitchIs
  <1>2. running1 = [running EXCEPT ![cpu] = next]
    BY SwitchIs
  <1>3. \A p \in Pids :
              /\ p = next => state1[p] = IF state[p] = "dying" THEN "exiting" ELSE "running"
              /\ p = prev => state1[p] = Left(p, runnable)
              /\ p \notin {next, prev} => state1[p] = state[p]
              /\ life1[p] = IF state1[p] = "none" THEN 0 ELSE life[p]
              /\ since1[p] = IF p = prev /\ runnable THEN n ELSE since[p]
    BY SwitchIs
  <1>4. waits1 = IF next = Swapper THEN waits ELSE waits \cup {<<next, since[next], n>>}
    BY SwitchIs
  <1>5. Swapper \notin Pids
    BY CorrelatorAssumption DEF Swapper
  <1>6. /\ running \in [CPUs -> Pids \cup {Swapper}] /\ since \in [Pids -> 0..MaxNow]
        /\ births \in [Pids -> SUBSET Times] /\ waits \subseteq Pids \X (0..MaxNow) \X Times
        /\ now \in Times /\ n \in Times
    BY <1>1, NextTime DEF KernelTypes
  <1>7. now < n
    BY <1>6 DEF Times
  <1> HIDE DEF running1, state1, life1, since1, waits1, now1, n
  <1>8. \A x \in CPUs : running1[x] = IF x = cpu THEN next ELSE running[x]
    BY <1>2, <1>6
  <1>9. \A x \in CPUs : running[x] = next => next = Swapper
    BY <1>1, <1>5, <1>6 DEF KernelOrder
  <1>10. \A x \in CPUs : x # cpu /\ running[x] = prev => prev = Swapper
    BY DEF KernelOrder
  <1> HIDE DEF prev
  <1>11. \A x, y \in CPUs : running1[x] = running1[y] /\ x # y => running1[x] = Swapper
    BY <1>8, <1>9 DEF KernelOrder
  <1>12. \A p \in Pids : state1[p] \in {"running", "exiting"} <=> \E x \in CPUs : running1[x] = p
    <2> TAKE p \in Pids
    <2>1. CASE p = next
      BY <1>3, <1>8, <2>1
    <2>2. CASE p = prev
      <3>1. ~ \E x \in CPUs : running1[x] = p
        BY <1>1, <1>5, <1>8, <1>10, <2>2
      <3>2. state1[p] \notin {"running", "exiting"}
        BY <1>3, <2>2 DEF Left
      <3> QED BY <3>1, <3>2
    <2>3. CASE p \notin {next, prev}
      <3>1. \A x \in CPUs : running1[x] = p <=> running[x] = p
        BY <1>8, <2>3 DEF prev
      <3>2. state1[p] = state[p]
        BY <1>3, <2>3
      <3>3. state[p] \in {"running", "exiting"} <=> \E x \in CPUs : running[x] = p
        BY DEF KernelOrder
      <3> QED BY <3>1, <3>2, <3>3
    <2> QED BY <2>1, <2>2, <2>3
  <1>13. \A p \in Pids : /\ life1[p] = 0 <=> state1[p] = "none"
                         /\ life1[p] # 0 => life1[p] \in births[p]
    <2> TAKE p \in Pids
    <2>1. (life[p] = 0 <=> state[p] = "none") /\ (life[p] # 0 => life[p] \in births[p])
      BY DEF KernelOrder
    <2>2. state1[p] # "none" => state[p] # "none"
      BY <1>1, <1>3
    <2> QED BY <1>3, <2>1, <2>2
  <1>14. \A p \in Pids : since1[p] <= now1 /\ \A b \in births[p] : b <= now1
    <2> TAKE p \in Pids
    <2>1. since[p] <= now /\ \A b \in births[p] : b <= now
      BY DEF KernelOrder
    <2>2. since[p] <= n /\ \A b \in births[p] : b <= n
      BY <1>6, <1>7, <2>1 DEF Times
    <2>3. n <= n
      BY <1>6 DEF Times
    <2>4. since1[p] = n \/ since1[p] = since[p]
      BY <1>3
    <2> QED BY <1>1, <2>2, <2>3, <2>4
  <1>15. \A w \in waits1 : w[2] < w[3] /\ w[3] <= now1
    <2>1. \A w \in waits : w[2] < w[3] /\ w[3] <= n
      BY <1>6, <1>7 DEF KernelOrder, Times
    <2>2. next # Swapper => since[next] < n /\ n <= n
      BY <1>6, <1>7 DEF KernelOrder, Times
    <2> QED BY <1>1, <1>4, <2>1, <2>2
  <1> QED BY <1>1, <1>11, <1>12, <1>13, <1>14, <1>15
       DEF KernelOrder, running1, state1, life1, since1, waits1, now1

LEMMA SwitchTold ==
  ASSUME KernelTypes, KernelOrder, NEW cpu \in CPUs, NEW next \in Pids \cup {Swapper},
         NEW runnable \in BOOLEAN, Switch(cpu, next, runnable)
  PROVE  KernelTypes' /\ KernelOrder' /\ \E e \in Event : Emit(e) /\ Told(e)
  <1> DEFINE prev == running[cpu]
             n == now + 1
             e == [type |-> "switch", cpu |-> cpu, at |-> n, next |-> next,
                   start |-> IF next = Swapper THEN 0 ELSE life[next],
                   prev |-> prev, runnable |-> runnable]
  <1>1. /\ now < MaxNow /\ prev \in Pids \cup {Swapper} /\ prev # next
        /\ prev \in Pids => state[prev] \in {"running", "exiting"}
        /\ next \in Pids => state[next] \in {"runnable", "dying"}
        /\ births' = births
    BY SwitchIs
  <1>3. \A p \in Pids :
              /\ p = next => state'[p] = IF state[p] = "dying" THEN "exiting" ELSE "running"
              /\ p = prev => state'[p] = Left(p, runnable)
              /\ p \notin {next, prev} => state'[p] = state[p]
              /\ life'[p] = IF state'[p] = "none" THEN 0 ELSE life[p]
              /\ since'[p] = IF p = prev /\ runnable THEN n ELSE since[p]
    BY SwitchIs
  <1>4. waits' = IF next = Swapper THEN waits ELSE waits \cup {<<next, since[next], n>>}
    BY SwitchIs
  <1>5. Swapper \notin Pids /\ n \in Times
    BY <1>1, NextTime, CorrelatorAssumption DEF Swapper
  <1>6. Emit(e)
    BY DEF Switch
  <1>7. next \in Pids => life[next] \in 0..MaxNow /\ life[next] # 0 /\ life[next] \in births[next]
    BY <1>1 DEF KernelTypes, KernelOrder
  <1>8. e \in Event
    <2>1. (IF next = Swapper THEN 0 ELSE life[next]) \in 0..MaxNow
      BY <1>7, CaptureAssumption
    <2> HIDE DEF n, prev
    <2>2. e \in SwitchEvent
      BY <1>1, <1>5, <1>7, <2>1 DEF SwitchEvent
    <2> QED BY <2>2 DEF Event
  <1>9. /\ e.type = "switch" /\ e.next = next /\ e.prev = prev /\ e.runnable = runnable /\ e.at = n
        /\ next \in Pids => e.start = life[next]
    BY <1>5
  <1> HIDE DEF e, n, prev
  <1>10. \A p \in Pids : /\ Dispatches(e, p) <=> p = next
                         /\ Clears(e, p) <=> p = next
                         /\ ~Exits(e, p)
                         /\ Sets(e, p) <=> p = prev /\ runnable
    BY <1>9 DEF Dispatches, Clears, Exits, Sets
  <1>11. Told(e)
    <2>1. BirthsTold(e)
      BY <1>1 DEF BirthsTold
    <2>2. GoneTold(e)
      BY <1>1, <1>3, <1>10 DEF GoneTold, Gone, Left
    <2>3. WaitingTold(e)
      BY <1>1, <1>3, <1>9, <1>10 DEF WaitingTold, Waiting, Left
    <2>4. LifeTold(e)
      <3> SUFFICES ASSUME NEW p \in Pids, state'[p] # "none", ~FirstWait(p)'
                   PROVE  \/ Exits(e, p)
                          \/ Dispatches(e, p) /\ e.start = life'[p]
                          \/ ~Clears(e, p) /\ state[p] # "none" /\ ~FirstWait(p) /\ life'[p] = life[p]
        BY DEF LifeTold
      <3>1. CASE p = next
        BY <1>3, <1>9, <1>10, <3>1
      <3>2. CASE p # next /\ p = prev
        BY <1>1, <1>3, <1>10, <3>2 DEF FirstWait
      <3>3. CASE p # next /\ p # prev
        BY <1>3, <1>10, <3>3 DEF FirstWait
      <3> QED BY <3>1, <3>2, <3>3
    <2>5. WaitsTold(e)
      <3>1. CASE next = Swapper
        BY <1>4, <1>5, <1>10, <3>1 DEF WaitsTold
      <3>2. CASE next \in Pids
        <4>1. waits' = waits \cup {<<next, since[next], e.at>>} /\ Dispatches(e, next)
          BY <1>4, <1>5, <1>9, <1>10, <3>2
        <4>2. Waiting(next) /\ e.start = life[next] /\ life[next] \in births[next]
          BY <1>1, <1>7, <1>9, <3>2 DEF Waiting
        <4> QED BY <3>2, <4>1, <4>2 DEF WaitsTold
      <3> QED BY <3>1, <3>2
    <2> QED BY <1>8, <1>9, <2>1, <2>2, <2>3, <2>4, <2>5 DEF Told, n
  <1> QED BY <1>6, <1>8, <1>11, SwitchTypes, SwitchOrder

LEMMA KernelTold ==
  ASSUME KernelTypes, KernelOrder, Kernel
  PROVE  KernelTypes' /\ KernelOrder' /\ \E e \in Event : Emit(e) /\ Told(e)
  BY ForkTold, WakeTold, WakeRunningTold, ExitTold, SwitchTold DEF Kernel

-----------------------------------------------------------------------------
(* The types of a capture *)

RingTypes == ring \in Seq(Event) /\ Len(ring) <= RingCap /\ losses \in Nat
PollTypes ==
  /\ pc \in {"wait", "drain"} /\ taken \in 0..PollBudget /\ seen \in 0..losses
  /\ c \in Correlators /\ WithinCaps(c)
TraceTypes == KernelTypes /\ KernelOrder /\ RingTypes /\ PollTypes

LEMMA EmptyIs == Empty \in Correlators /\ WithinCaps(Empty)
  <1>1. NoStarts \in [Pids -> Times \cup {NoTime}] /\ Started(NoStarts) = {}
    BY NothingPending
  <1>2. /\ [p \in Pids |-> <<>>] \in [Pids -> Window] /\ [x \in CPUs |-> <<>>] \in [CPUs -> Window]
        /\ [p \in Pids |-> 0] \in [Pids -> 0..MaxNow]
    <2>1. <<>> \in Window /\ 0 \in 0..MaxNow
      BY CorrelatorAssumption, CaptureAssumption DEF Window
    <2> QED BY <2>1
  <1>3. Empty \in Correlators
    BY <1>1, <1>2 DEF Empty, Correlators
  <1>4. Sampled([p \in Pids |-> <<>>]) = {}
    BY DEF Sampled
  <1>5. Cardinality({}) = 0 /\ PendingCap \in Nat /\ HistoryCap \in Nat
    BY FS_EmptySet, CorrelatorAssumption
  <1>6. Empty.wake = NoStarts /\ Empty.wakeMs = [p \in Pids |-> <<>>] /\ Empty.offMs = [p \in Pids |-> <<>>]
    BY DEF Empty
  <1> HIDE DEF Empty
  <1> QED BY <1>1, <1>3, <1>4, <1>5, <1>6 DEF WithinCaps

\* An event that is emitted is in the ring, or counted as lost.
LEMMA EmitIs ==
  ASSUME RingTypes, NEW e \in Event, Emit(e)
  PROVE  /\ RingTypes' /\ UNCHANGED <<tracer, sampled>>
         /\ now' = now + 1 /\ now < MaxNow
         /\ \/ ring' = Append(ring, e) /\ losses' = losses /\ drops' = drops
            \/ losses' > losses /\ drops' # {}
  <1> DEFINE l == Len(ring)
             ring1 == ring'
             losses1 == losses'
  <1>1. l \in Nat /\ losses \in Nat /\ RingCap \in Nat /\ l <= RingCap
    BY CaptureAssumption DEF RingTypes
  <1>2. CASE Len(ring) < RingCap
    <2>1. ring1 = Append(ring, e) /\ losses' = losses /\ drops' = drops
      BY <1>2 DEF Emit
    <2>2. ring1 \in Seq(Event) /\ Len(ring1) = l + 1
      BY <2>1 DEF RingTypes
    <2>3. l + 1 <= RingCap
      BY <1>1, <1>2
    <2> HIDE DEF ring1, l
    <2>4. ring1 \in Seq(Event) /\ Len(ring1) <= RingCap
      BY <2>2, <2>3
    <2> QED BY <1>1, <2>1, <2>4 DEF Emit, RingTypes, ring1
  <1>3. CASE ~(Len(ring) < RingCap)
    <2>1. losses1 = losses + 1 /\ drops' # {} /\ ring' = ring
      BY <1>3 DEF Emit
    <2>2. losses1 \in Nat /\ losses1 > losses
      BY <1>1, <2>1
    <2> QED BY <2>1, <2>2 DEF Emit, RingTypes
  <1> QED BY <1>2, <1>3

LEMMA KernelKeepsTypes ==
  ASSUME TraceTypes, Kernel
  PROVE  TraceTypes'
  <1>1. PICK e \in Event : Emit(e)
    BY KernelTold DEF TraceTypes
  <1>2. KernelTypes' /\ KernelOrder'
    BY KernelTold DEF TraceTypes
  <1> DEFINE losses1 == losses'
             seen1 == seen'
  <1>3. RingTypes' /\ UNCHANGED tracer /\ (losses1 = losses \/ losses1 > losses)
    BY <1>1, EmitIs DEF TraceTypes
  <1>4. losses1 \in Nat /\ seen1 = seen /\ seen \in 0..losses /\ losses \in Nat
    BY <1>3 DEF TraceTypes, RingTypes, PollTypes, tracer
  <1> HIDE DEF losses1, seen1
  <1>5. seen1 \in 0..losses1
    BY <1>3, <1>4
  <1>6. PollTypes'
    BY <1>3, <1>5 DEF TraceTypes, PollTypes, tracer, losses1, seen1
  <1> QED BY <1>2, <1>3, <1>6 DEF TraceTypes

LEMMA LossesRead ==
  ASSUME TraceTypes, ReadLosses
  PROVE  /\ c' \in Correlators /\ WithinCaps(c')
         /\ losses > seen => c'.lost > 0
         /\ c' = c \/ (c'.lost > c.lost /\ c'.wakeMs = c.wakeMs /\ c'.taskStarts = c.taskStarts)
  <1>0. c \in Correlators /\ WithinCaps(c) /\ losses \in Nat /\ seen \in 0..losses /\ c.lost \in Nat
    BY DEF TraceTypes, PollTypes, RingTypes, Correlators
  <1>1. CASE ~(losses > seen)
    BY <1>0, <1>1 DEF ReadLosses
  <1>2. CASE losses > seen
    <2> DEFINE n == losses - seen
               l == Loss(c, n)
    <2>1. n \in Nat /\ n > 0
      BY <1>0, <1>2
    <2> HIDE DEF n
    <2>2. /\ l \in Correlators
          /\ l = [wake |-> NoStarts, off |-> NoStarts, taskStarts |-> c.taskStarts,
                  wakeMs |-> c.wakeMs, offMs |-> c.offMs, wakeCpu |-> c.wakeCpu,
                  lost |-> c.lost + n]
      BY <1>0, <2>1, LossIs
    <2>3. c' = l
      BY <1>2 DEF ReadLosses, n
    <2> HIDE DEF l
    <2>4. /\ l.wake = NoStarts /\ l.wakeMs = c.wakeMs /\ l.offMs = c.offMs
          /\ l.taskStarts = c.taskStarts /\ l.lost = c.lost + n
      BY <2>2
    <2>5. l.lost > c.lost /\ l.lost > 0
      BY <1>0, <2>1, <2>4
    <2>6. Cardinality(Started(l.wake)) <= PendingCap
      BY <2>4, NothingPending, FS_EmptySet, CorrelatorAssumption
    <2>7. WithinCaps(l)
      BY <1>0, <2>4, <2>6 DEF WithinCaps
    <2> QED BY <2>2, <2>3, <2>4, <2>5, <2>7
  <1> QED BY <1>1, <1>2

LEMMA ReadLossesKeepsTypes ==
  ASSUME TraceTypes, ReadLosses
  PROVE  TraceTypes'
  <1>1. KernelTypes' /\ KernelOrder' /\ RingTypes'
    BY DEF TraceTypes, ReadLosses, kernel, past, KernelTypes, KernelOrder, RingTypes
  <1>2. pc' = "drain" /\ taken' = 0 /\ 0 \in 0..PollBudget
    BY CaptureAssumption DEF ReadLosses
  <1>3. seen' \in 0..losses' /\ losses' = losses
    <2>1. seen' = losses /\ losses' = losses /\ losses \in 0..losses
      BY DEF ReadLosses, kernel, TraceTypes, RingTypes
    <2> QED BY <2>1
  <1> QED BY <1>1, <1>2, <1>3, LossesRead DEF TraceTypes, PollTypes

LEMMA TakeKeepsTypes ==
  ASSUME TraceTypes, Take
  PROVE  TraceTypes' /\ Head(ring) \in Event
  <1>1. KernelTypes' /\ KernelOrder'
    BY DEF TraceTypes, Take, past, KernelTypes, KernelOrder
  <1>2. ring \in Seq(Event) /\ ring # <<>> /\ Len(ring) <= RingCap /\ Len(ring) \in Nat
    BY DEF TraceTypes, RingTypes, Take
  <1>3. Head(ring) \in Event /\ Tail(ring) \in Seq(Event) /\ Len(Tail(ring)) = Len(ring) - 1
    BY <1>2
  <1> DEFINE r == Tail(ring)
             l == Len(ring)
  <1>4. RingTypes'
    <2>1. l - 1 <= RingCap
      BY <1>2, CaptureAssumption
    <2>2. r \in Seq(Event) /\ Len(r) = l - 1
      BY <1>3
    <2> HIDE DEF r, l
    <2>3. r \in Seq(Event) /\ Len(r) <= RingCap
      BY <2>1, <2>2
    <2>4. ring' = r /\ losses' = losses
      BY DEF Take, r
    <2> QED BY <2>3, <2>4 DEF RingTypes, TraceTypes
  <1>5. Consumed(c, Head(ring)) \in Correlators /\ WithinCaps(Consumed(c, Head(ring)))
    BY <1>3, ConsumedIs DEF TraceTypes, PollTypes
  <1>6. taken + 1 \in 0..PollBudget
    BY CaptureAssumption DEF Take, TraceTypes, PollTypes
  <1>7. PollTypes'
    BY <1>5, <1>6 DEF Take, TraceTypes, PollTypes
  <1> QED BY <1>1, <1>3, <1>4, <1>7 DEF TraceTypes

LEMMA TracerKeepsTypes ==
  ASSUME TraceTypes, [Tracer \/ Sample]_vars
  PROVE  TraceTypes'
  <1>1. CASE ReadLosses
    BY <1>1, ReadLossesKeepsTypes
  <1>2. CASE Take
    BY <1>2, TakeKeepsTypes
  <1>3. CASE Publish
    <2>1. 0 \in 0..PollBudget
      BY CaptureAssumption
    <2> QED BY <1>3, <2>1 DEF Publish, kernel, past, TraceTypes, KernelTypes, KernelOrder,
                              RingTypes, PollTypes
  <1>4. CASE Sample
    BY <1>4 DEF Sample, kernel, past, tracer, TraceTypes, KernelTypes, KernelOrder,
                RingTypes, PollTypes
  <1>5. CASE UNCHANGED vars
    BY <1>5 DEF vars, kernel, past, tracer, TraceTypes, KernelTypes, KernelOrder,
                RingTypes, PollTypes
  <1> QED BY <1>1, <1>2, <1>3, <1>4, <1>5 DEF Tracer

LEMMA InitTypes ==
  ASSUME Init
  PROVE  TraceTypes
  <1>1. 1 \in Times /\ 0 \in 0..MaxNow /\ 1 \in 0..MaxNow
    BY CaptureAssumption DEF Times
  <1>2. KernelTypes
    BY <1>1 DEF Init, KernelTypes, States
  <1>3. KernelOrder
    <2>1. \A p \in Pids : state[p] \in {"none", "sleeping", "runnable", "running"}
      BY DEF Init
    <2>2. \A p \in Pids : /\ life[p] = 0 <=> state[p] = "none"
                          /\ life[p] # 0 => life[p] \in births[p]
                          /\ since[p] <= now
                          /\ \A b \in births[p] : b <= now
      BY DEF Init
    <2>3. \A p \in Pids : state[p] \in {"running", "exiting"} <=> \E x \in CPUs : running[x] = p
      BY <2>1 DEF Init
    <2>4. waits = {} /\ \A x, y \in CPUs : running[x] = running[y] /\ x # y => running[x] = Swapper
      BY DEF Init
    <2> QED BY <2>2, <2>3, <2>4 DEF KernelOrder
  <1>4. RingTypes
    BY CaptureAssumption DEF Init, RingTypes
  <1>5. PollTypes
    BY EmptyIs, CaptureAssumption DEF Init, PollTypes
  <1> QED BY <1>2, <1>3, <1>4, <1>5 DEF TraceTypes

LEMMA TypesKept == TraceTypes /\ [Next]_vars => TraceTypes'
  BY KernelKeepsTypes, TracerKeepsTypes DEF Next

LEMMA TypesTell == TraceTypes => TraceTypeOK
  <1> SUFFICES ASSUME TraceTypes PROVE TraceTypeOK
    OBVIOUS
  <1>1. /\ c \in Correlators /\ WithinCaps(c)
        /\ \A p \in Pids : Len(c.wakeMs[p]) <= WindowCap /\ Len(c.offMs[p]) <= WindowCap
        /\ \A cpu \in CPUs : Len(c.wakeCpu[cpu]) <= WindowCap
    BY DEF TraceTypes, PollTypes, Correlators, Window
  <1> QED BY <1>1 DEF TraceTypes, KernelTypes, RingTypes, PollTypes, WithinCaps, Correlators, TraceTypeOK

\* Every variable of a capture has its type, and no map, window or ring holds
\* more than its limit, for any number of tasks, CPUs and events.
THEOREM TraceTypeCorrect == Spec => []TraceTypeOK
  <1>1. Init => TraceTypes
    BY InitTypes
  <1> QED BY <1>1, TypesKept, TypesTell, PTL DEF Spec

-----------------------------------------------------------------------------
(* What is in the ring and what the correlator knows, told together.  A task *)
(* begins to wait at position i of the ring, or, at 0, before it.            *)

StartIn(q, d, i, p) ==
  IF i = 0 THEN d.wake[p] ELSE IF Sets(q[i], p) THEN q[i].at ELSE NoTime
IdentityIn(q, d, i, p) ==
  IF i = 0 THEN d.taskStarts[p] ELSE IF Exits(q[i], p) THEN 0 ELSE q[i].start
Uncleared(q, p, i, n) == \A j \in (i + 1)..n : ~Clears(q[j], p)

\* Nothing that began before b is taken to last until b.
OverIn(q, d, p, b) ==
  \A i \in 0..Len(q) :
    StartIn(q, d, i, p) # NoTime /\ StartIn(q, d, i, p) < b =>
      \E j \in (i + 1)..Len(q) : Clears(q[j], p) /\ q[j].at < b

\* After n events p is pending since t or earlier; its identity is v or unknown.
PendingIn(q, d, p, n, t) ==
  \E k \in 0..n : /\ StartIn(q, d, k, p) # NoTime /\ StartIn(q, d, k, p) <= t
                  /\ Uncleared(q, p, k, n)
KnownIn(q, d, p, n, v) ==
  \E i \in 0..n : /\ i = 0 \/ Clears(q[i], p)
                  /\ IdentityIn(q, d, i, p) \in {0, v} /\ Uncleared(q, p, i, n)

\* Events are in the order of their times, after what was consumed.
OrderIn(q, d, m) ==
  /\ \A i, j \in DOMAIN q : i < j => q[i].at < q[j].at
  /\ \A i \in DOMAIN q : q[i].at <= m
  /\ \A p \in Pids : d.wake[p] <= m /\ \A i \in DOMAIN q : d.wake[p] < q[i].at

LEMMA EventIs ==
  ASSUME NEW e \in Event
  PROVE  /\ e.at \in Nat /\ e.at > 0
         /\ \A p \in Pids : /\ Clears(e, p) => ~Sets(e, p)
                            /\ Dispatches(e, p) => ~Exits(e, p)
                            /\ Dispatches(e, p) => e.start \in 1..MaxNow /\ e.cpu \in CPUs
  <1>1. e.at \in Times
    BY DEF Event, PidEvent, SwitchEvent
  <1>2. Swapper \notin Pids
    BY CorrelatorAssumption DEF Swapper
  <1>3. CASE e \in PidEvent
    BY <1>1, <1>3 DEF PidEvent, Clears, Sets, Dispatches, Exits, Times
  <1>4. CASE e \in SwitchEvent
    BY <1>1, <1>2, <1>4 DEF SwitchEvent, Clears, Sets, Dispatches, Exits, Times
  <1> QED BY <1>3, <1>4 DEF Event

LEMMA AppendIs ==
  ASSUME NEW q \in Seq(Event), NEW e \in Event
  PROVE  /\ Append(q, e) \in Seq(Event) /\ Len(q) \in Nat /\ Len(Append(q, e)) = Len(q) + 1
         /\ DOMAIN q = 1..Len(q) /\ DOMAIN Append(q, e) = 1..(Len(q) + 1)
         /\ \A i \in 1..Len(q) : Append(q, e)[i] = q[i]
         /\ Append(q, e)[Len(q) + 1] = e
  OBVIOUS

LEMMA TailIs ==
  ASSUME NEW q \in Seq(Event), q # <<>>
  PROVE  /\ Tail(q) \in Seq(Event) /\ Len(q) \in Nat /\ Len(q) > 0 /\ Len(Tail(q)) = Len(q) - 1
         /\ DOMAIN q = 1..Len(q) /\ DOMAIN Tail(q) = 1..(Len(q) - 1)
         /\ \A i \in 1..(Len(q) - 1) : Tail(q)[i] = q[i + 1]
         /\ Head(q) = q[1] /\ q[1] \in Event
  OBVIOUS

LEMMA StartAppended ==
  ASSUME NEW q \in Seq(Event), NEW e \in Event, NEW d \in Correlators, NEW p \in Pids
  PROVE  LET a == Append(q, e) IN
         /\ \A i \in 0..Len(q) : /\ StartIn(a, d, i, p) = StartIn(q, d, i, p)
                                 /\ IdentityIn(a, d, i, p) = IdentityIn(q, d, i, p)
         /\ StartIn(a, d, Len(q) + 1, p) = IF Sets(e, p) THEN e.at ELSE NoTime
         /\ IdentityIn(a, d, Len(q) + 1, p) = IF Exits(e, p) THEN 0 ELSE e.start
         /\ \A i \in 0..Len(q) : StartIn(q, d, i, p) \in Int
  <1> DEFINE a == Append(q, e)
             l == Len(q)
  <1>1. l \in Nat /\ (\A i \in 1..l : a[i] = q[i] /\ q[i] \in Event) /\ a[l + 1] = e
    BY AppendIs
  <1>2. \A i \in 1..l : q[i].at \in Nat
    BY <1>1, EventIs
  <1>3. d.wake[p] \in Int
    BY DEF Correlators, Times, NoTime
  <1> HIDE DEF a, l
  <1>4. \A i \in 0..l : /\ StartIn(a, d, i, p) = StartIn(q, d, i, p)
                        /\ IdentityIn(a, d, i, p) = IdentityIn(q, d, i, p)
    BY <1>1 DEF StartIn, IdentityIn
  <1>5. /\ StartIn(a, d, l + 1, p) = IF Sets(e, p) THEN e.at ELSE NoTime
        /\ IdentityIn(a, d, l + 1, p) = IF Exits(e, p) THEN 0 ELSE e.start
    <2>1. l + 1 # 0
      BY <1>1
    <2> QED BY <1>1, <2>1 DEF StartIn, IdentityIn
  <1>6. \A i \in 0..l : StartIn(q, d, i, p) \in Int
    BY <1>1, <1>2, <1>3 DEF StartIn, NoTime
  <1> QED BY <1>4, <1>5, <1>6 DEF a, l

\* An event that is emitted is later than a birth it does not tell.
LEMMA OverAppended ==
  ASSUME NEW q \in Seq(Event), NEW e \in Event, NEW d \in Correlators, NEW p \in Pids,
         NEW b \in Nat, b <= e.at, OverIn(q, d, p, b)
  PROVE  OverIn(Append(q, e), d, p, b)
  <1> DEFINE a == Append(q, e)
             l == Len(q)
  <1>1. l \in Nat /\ Len(a) = l + 1 /\ \A i \in 1..l : a[i] = q[i]
    BY AppendIs
  <1>2. /\ \A i \in 0..l : StartIn(a, d, i, p) = StartIn(q, d, i, p)
        /\ StartIn(a, d, l + 1, p) = IF Sets(e, p) THEN e.at ELSE NoTime
    BY StartAppended
  <1>3. \A i \in 0..l : StartIn(q, d, i, p) # NoTime /\ StartIn(q, d, i, p) < b =>
          \E j \in (i + 1)..l : Clears(q[j], p) /\ q[j].at < b
    BY DEF OverIn
  <1>4. e.at \in Nat
    BY EventIs
  <1> HIDE DEF a, l
  <1>5. ASSUME NEW i \in 0..(l + 1), StartIn(a, d, i, p) # NoTime, StartIn(a, d, i, p) < b
        PROVE  \E j \in (i + 1)..(l + 1) : Clears(a[j], p) /\ a[j].at < b
    <2>1. CASE i = l + 1
      BY <1>1, <1>2, <1>4, <1>5, <2>1
    <2>2. CASE i # l + 1
      <3>1. i \in 0..l
        BY <1>1, <2>2
      <3>2. PICK j \in (i + 1)..l : Clears(q[j], p) /\ q[j].at < b
        BY <1>2, <1>3, <1>5, <3>1
      <3>3. j \in 1..l /\ j \in (i + 1)..(l + 1)
        BY <1>1, <3>1, <3>2
      <3> QED BY <1>1, <3>2, <3>3
    <2> QED BY <2>1, <2>2
  <1> QED BY <1>1, <1>5 DEF OverIn, a

LEMMA StartsOrdered ==
  ASSUME NEW q \in Seq(Event), NEW d \in Correlators, NEW p \in Pids, NEW m \in Nat,
         OrderIn(q, d, m)
  PROVE  \A i \in 0..Len(q) : StartIn(q, d, i, p) <= m
  <1>1. DOMAIN q = 1..Len(q) /\ Len(q) \in Nat
    OBVIOUS
  <1>2. NoTime <= m
    BY DEF NoTime
  <1> QED BY <1>1, <1>2 DEF OrderIn, StartIn

\* The next event comes when p is gone, or it ends the life of p.
LEMMA OverAtEnd ==
  ASSUME NEW q \in Seq(Event), NEW e \in Event, NEW d \in Correlators, NEW p \in Pids,
         NEW m \in Nat, e.at = m + 1, OrderIn(q, d, m),
         (OverIn(q, d, p, m + 1) /\ ~Sets(e, p)) \/ Clears(e, p)
  PROVE  OverIn(Append(q, e), d, p, m + 2)
  <1> DEFINE a == Append(q, e)
             l == Len(q)
  <1>1. l \in Nat /\ Len(a) = l + 1 /\ (\A i \in 1..l : a[i] = q[i] /\ q[i] \in Event) /\ a[l + 1] = e
    BY AppendIs
  <1>2. /\ \A i \in 0..l : StartIn(a, d, i, p) = StartIn(q, d, i, p)
        /\ StartIn(a, d, l + 1, p) = IF Sets(e, p) THEN e.at ELSE NoTime
        /\ \A i \in 0..l : StartIn(q, d, i, p) \in Int
    BY StartAppended
  <1>3. \A i \in 0..l : StartIn(q, d, i, p) <= m
    BY StartsOrdered
  <1>4. ~Sets(e, p)
    BY EventIs
  <1>5. \A i \in 1..l : q[i].at \in Nat
    BY <1>1, EventIs
  <1>6. CASE Clears(e, p)
    <2> HIDE DEF a, l
    <2>1. ASSUME NEW i \in 0..(l + 1), StartIn(a, d, i, p) # NoTime
          PROVE  \E j \in (i + 1)..(l + 1) : Clears(a[j], p) /\ a[j].at < m + 2
      <3>1. i # l + 1
        BY <1>2, <1>4, <2>1
      <3>2. l + 1 \in (i + 1)..(l + 1) /\ m + 1 < m + 2
        BY <1>1, <3>1
      <3> QED BY <1>1, <1>6, <3>2
    <2> QED BY <1>1, <2>1 DEF OverIn, a
  <1>7. CASE OverIn(q, d, p, m + 1)
    <2>1. \A i \in 0..l : StartIn(q, d, i, p) # NoTime /\ StartIn(q, d, i, p) < m + 1 =>
            \E j \in (i + 1)..l : Clears(q[j], p) /\ q[j].at < m + 1
      BY <1>7 DEF OverIn
    <2> HIDE DEF a, l
    <2>2. ASSUME NEW i \in 0..(l + 1), StartIn(a, d, i, p) # NoTime
          PROVE  \E j \in (i + 1)..(l + 1) : Clears(a[j], p) /\ a[j].at < m + 2
      <3>1. i \in 0..l
        BY <1>1, <1>2, <1>4, <2>2
      <3>2. StartIn(q, d, i, p) < m + 1
        BY <1>2, <1>3, <3>1
      <3>3. PICK j \in (i + 1)..l : Clears(q[j], p) /\ q[j].at < m + 1
        BY <1>2, <2>1, <2>2, <3>1, <3>2
      <3>4. j \in 1..l /\ j \in (i + 1)..(l + 1)
        BY <1>1, <3>1, <3>3
      <3>5. a[j] = q[j] /\ q[j].at < m + 2
        BY <1>1, <1>5, <3>3, <3>4
      <3> QED BY <3>3, <3>4, <3>5
    <2> QED BY <1>1, <2>2 DEF OverIn, a
  <1> QED BY <1>6, <1>7

LEMMA OverTaken ==
  ASSUME NEW q \in Seq(Event), q # <<>>, NEW d \in Correlators, NEW r \in Correlators,
         Handles(d, q[1], r), NEW p \in Pids, NEW b \in Nat, OverIn(q, d, p, b)
  PROVE  OverIn(Tail(q), r, p, b)
  <1> DEFINE s == Tail(q)
             l == Len(q)
  <1>1. l \in Nat /\ l > 0 /\ Len(s) = l - 1 /\ (\A i \in 1..(l - 1) : s[i] = q[i + 1]) /\ q[1] \in Event
    BY TailIs
  <1>2. r.wake[p] = WakeAfter(d, q[1], p)
    BY DEF Handles
  <1>3. \A i \in 0..l : StartIn(q, d, i, p) # NoTime /\ StartIn(q, d, i, p) < b =>
          \E j \in (i + 1)..l : Clears(q[j], p) /\ q[j].at < b
    BY DEF OverIn
  <1> HIDE DEF s, l
  <1>4. ASSUME NEW i \in 0..(l - 1), StartIn(s, r, i, p) # NoTime, StartIn(s, r, i, p) < b
        PROVE  \E j \in (i + 1)..(l - 1) : Clears(s[j], p) /\ s[j].at < b
    <2>1. PICK k \in 0..l : /\ StartIn(q, d, k, p) = StartIn(s, r, i, p)
                            /\ k = i + 1 \/ (k = 0 /\ i = 0 /\ ~Clears(q[1], p))
      <3>1. CASE i # 0
        <4>1. i \in 1..(l - 1) /\ i + 1 \in 0..l /\ i + 1 # 0
          BY <1>1, <3>1
        <4>2. StartIn(q, d, i + 1, p) = StartIn(s, r, i, p)
          BY <1>1, <3>1, <4>1 DEF StartIn
        <4> QED BY <4>1, <4>2
      <3>2. CASE i = 0
        <4>1. StartIn(s, r, i, p) = WakeAfter(d, q[1], p) /\ ~Clears(q[1], p)
          BY <1>2, <1>4, <3>2 DEF StartIn, WakeAfter
        <4>2. 0 \in 0..l /\ 1 \in 0..l /\ 1 # 0
          BY <1>1
        <4>3. CASE Sets(q[1], p) /\ d.wake[p] = NoTime
          BY <3>2, <4>1, <4>2, <4>3 DEF StartIn, WakeAfter
        <4>4. CASE ~(Sets(q[1], p) /\ d.wake[p] = NoTime)
          BY <3>2, <4>1, <4>2, <4>4 DEF StartIn, WakeAfter
        <4> QED BY <4>3, <4>4
      <3> QED BY <3>1, <3>2
    <2>2. PICK j \in (k + 1)..l : Clears(q[j], p) /\ q[j].at < b
      BY <1>3, <1>4, <2>1
    <2>3. j \in (i + 2)..l
      BY <1>1, <2>1, <2>2
    <2>4. j - 1 \in (i + 1)..(l - 1) /\ j - 1 \in 1..(l - 1) /\ (j - 1) + 1 = j
      BY <1>1, <2>3
    <2>5. s[j - 1] = q[j]
      BY <1>1, <2>4
    <2> QED BY <2>2, <2>4, <2>5
  <1> QED BY <1>1, <1>4 DEF OverIn, s

\* What is pending or known after n events stays so when more are emitted.
LEMMA PrefixKept ==
  ASSUME NEW q \in Seq(Event), NEW e \in Event, NEW d \in Correlators, NEW p \in Pids,
         NEW n \in 0..Len(q)
  PROVE  /\ \A t \in Nat : PendingIn(q, d, p, n, t) => PendingIn(Append(q, e), d, p, n, t)
         /\ \A v \in Nat : KnownIn(q, d, p, n, v) => KnownIn(Append(q, e), d, p, n, v)
  <1> DEFINE a == Append(q, e)
             l == Len(q)
  <1>1. l \in Nat /\ \A i \in 1..l : a[i] = q[i]
    BY AppendIs
  <1>2. \A i \in 0..l : /\ StartIn(a, d, i, p) = StartIn(q, d, i, p)
                        /\ IdentityIn(a, d, i, p) = IdentityIn(q, d, i, p)
    BY StartAppended
  <1>3. n \in Nat /\ n <= l
    BY <1>1
  <1> HIDE DEF a, l
  <1>4. \A k \in 0..n : k \in 0..l /\ (k # 0 => k \in 1..l) /\ \A j \in (k + 1)..n : j \in 1..l
    BY <1>1, <1>3
  <1>5. \A k \in 0..n : Uncleared(q, p, k, n) => Uncleared(a, p, k, n)
    BY <1>1, <1>4 DEF Uncleared
  <1>6. \A t \in Nat : PendingIn(q, d, p, n, t) => PendingIn(a, d, p, n, t)
    BY <1>2, <1>4, <1>5 DEF PendingIn
  <1>7. \A v \in Nat : KnownIn(q, d, p, n, v) => KnownIn(a, d, p, n, v)
    <2> SUFFICES ASSUME NEW v \in Nat, KnownIn(q, d, p, n, v)
                 PROVE  KnownIn(a, d, p, n, v)
      OBVIOUS
    <2>1. PICK i \in 0..n : /\ i = 0 \/ Clears(q[i], p)
                            /\ IdentityIn(q, d, i, p) \in {0, v} /\ Uncleared(q, p, i, n)
      BY DEF KnownIn
    <2>2. i = 0 \/ Clears(a[i], p)
      BY <1>1, <1>4, <2>1
    <2>3. IdentityIn(a, d, i, p) \in {0, v} /\ Uncleared(a, p, i, n)
      BY <1>2, <1>4, <1>5, <2>1
    <2> QED BY <2>2, <2>3 DEF KnownIn
  <1> QED BY <1>6, <1>7 DEF a

\* The event that is emitted begins a wait, or leaves it as it was.
LEMMA PendingAppended ==
  ASSUME NEW q \in Seq(Event), NEW e \in Event, NEW d \in Correlators, NEW p \in Pids,
         NEW t \in Nat,
         \/ Sets(e, p) /\ e.at <= t
         \/ PendingIn(q, d, p, Len(q), t) /\ ~Clears(e, p)
  PROVE  PendingIn(Append(q, e), d, p, Len(q) + 1, t)
  <1> DEFINE a == Append(q, e)
             l == Len(q)
  <1>1. l \in Nat /\ a[l + 1] = e /\ e.at \in Nat
    BY AppendIs, EventIs
  <1>2. StartIn(a, d, l + 1, p) = IF Sets(e, p) THEN e.at ELSE NoTime
    BY StartAppended
  <1>3. PendingIn(q, d, p, l, t) => PendingIn(a, d, p, l, t)
    <2>1. l \in 0..l
      BY <1>1
    <2> QED BY <2>1, PrefixKept
  <1> HIDE DEF a, l
  <1>4. CASE Sets(e, p) /\ e.at <= t
    <2>1. l + 1 \in 0..(l + 1) /\ (l + 1 + 1)..(l + 1) = {} /\ e.at # NoTime
      BY <1>1 DEF NoTime
    <2>2. Uncleared(a, p, l + 1, l + 1)
      BY <2>1 DEF Uncleared
    <2> QED BY <1>2, <1>4, <2>1, <2>2 DEF PendingIn, a, l
  <1>5. CASE PendingIn(q, d, p, l, t) /\ ~Clears(e, p)
    <2>1. PICK k \in 0..l : /\ StartIn(a, d, k, p) # NoTime /\ StartIn(a, d, k, p) <= t
                            /\ Uncleared(a, p, k, l)
      BY <1>3, <1>5 DEF PendingIn
    <2>2. k \in 0..(l + 1) /\ \A j \in (k + 1)..(l + 1) : j \in (k + 1)..l \/ j = l + 1
      BY <1>1
    <2>3. Uncleared(a, p, k, l + 1)
      BY <1>1, <1>5, <2>1, <2>2 DEF Uncleared
    <2> QED BY <2>1, <2>2, <2>3 DEF PendingIn, a, l
  <1> QED BY <1>4, <1>5 DEF l

LEMMA KnownAppended ==
  ASSUME NEW q \in Seq(Event), NEW e \in Event, NEW d \in Correlators, NEW p \in Pids,
         NEW v \in Nat,
         \/ Exits(e, p)
         \/ Dispatches(e, p) /\ e.start = v
         \/ KnownIn(q, d, p, Len(q), v) /\ ~Clears(e, p)
  PROVE  KnownIn(Append(q, e), d, p, Len(q) + 1, v)
  <1> DEFINE a == Append(q, e)
             l == Len(q)
  <1>1. l \in Nat /\ a[l + 1] = e
    BY AppendIs
  <1>2. IdentityIn(a, d, l + 1, p) = IF Exits(e, p) THEN 0 ELSE e.start
    BY StartAppended
  <1>3. KnownIn(q, d, p, l, v) => KnownIn(a, d, p, l, v)
    <2>1. l \in 0..l
      BY <1>1
    <2> QED BY <2>1, PrefixKept
  <1> HIDE DEF a, l
  <1>4. CASE Exits(e, p) \/ (Dispatches(e, p) /\ e.start = v)
    <2>1. l + 1 \in 0..(l + 1) /\ (l + 1 + 1)..(l + 1) = {}
      BY <1>1
    <2>2. Uncleared(a, p, l + 1, l + 1)
      BY <2>1 DEF Uncleared
    <2>3. Clears(a[l + 1], p) /\ IdentityIn(a, d, l + 1, p) \in {0, v}
      BY <1>1, <1>2, <1>4 DEF Clears
    <2> QED BY <2>1, <2>2, <2>3 DEF KnownIn, a, l
  <1>5. CASE KnownIn(q, d, p, l, v) /\ ~Clears(e, p)
    <2>1. PICK i \in 0..l : /\ i = 0 \/ Clears(a[i], p)
                            /\ IdentityIn(a, d, i, p) \in {0, v} /\ Uncleared(a, p, i, l)
      BY <1>3, <1>5 DEF KnownIn
    <2>2. i \in 0..(l + 1) /\ \A j \in (i + 1)..(l + 1) : j \in (i + 1)..l \/ j = l + 1
      BY <1>1
    <2>3. Uncleared(a, p, i, l + 1)
      BY <1>1, <1>5, <2>1, <2>2 DEF Uncleared
    <2> QED BY <2>1, <2>2, <2>3 DEF KnownIn, a, l
  <1> QED BY <1>4, <1>5 DEF l

\* Taking the first event moves what it told into the correlator.
LEMMA UnclearedTaken ==
  ASSUME NEW q \in Seq(Event), q # <<>>, NEW p \in Pids, NEW n \in 1..Len(q),
         NEW k \in 0..(n - 1), NEW i \in 0..n, Uncleared(q, p, i, n),
         i = k + 1 \/ (k = 0 /\ i = 0)
  PROVE  Uncleared(Tail(q), p, k, n - 1)
  <1>1. Len(q) \in Nat /\ \A j \in 1..(Len(q) - 1) : Tail(q)[j] = q[j + 1]
    BY TailIs
  <1>2. n \in Nat /\ n <= Len(q) /\ n >= 1 /\ k \in Nat /\ i \in Nat
    BY <1>1
  <1>3. CASE i = k + 1
    <2>1. \A j \in (k + 1)..(n - 1) : j \in 1..(Len(q) - 1) /\ j + 1 \in (i + 1)..n
      BY <1>1, <1>2, <1>3
    <2> QED BY <1>1, <2>1 DEF Uncleared
  <1>4. CASE k = 0 /\ i = 0
    <2>1. \A j \in 1..(n - 1) : j \in 1..(Len(q) - 1) /\ j + 1 \in 1..n
      BY <1>1, <1>2
    <2> QED BY <1>1, <1>4, <2>1 DEF Uncleared
  <1> QED BY <1>3, <1>4

LEMMA PendingTaken ==
  ASSUME NEW q \in Seq(Event), q # <<>>, NEW d \in Correlators, NEW r \in Correlators,
         NEW m \in Nat, OrderIn(q, d, m), Handles(d, q[1], r), NEW p \in Pids,
         NEW n \in 1..Len(q), NEW t \in Nat, PendingIn(q, d, p, n, t)
  PROVE  PendingIn(Tail(q), r, p, n - 1, t)
  <1> DEFINE s == Tail(q)
             l == Len(q)
  <1>1. /\ l \in Nat /\ l > 0 /\ (\A i \in 1..(l - 1) : s[i] = q[i + 1]) /\ q[1] \in Event
        /\ DOMAIN q = 1..l /\ q[1].at \in Nat /\ n \in Nat /\ n >= 1 /\ n <= l
    BY TailIs, EventIs
  <1>2. r.wake[p] = WakeAfter(d, q[1], p)
    BY DEF Handles
  <1>3. PICK k \in 0..n : /\ StartIn(q, d, k, p) # NoTime /\ StartIn(q, d, k, p) <= t
                          /\ Uncleared(q, p, k, n)
    BY DEF PendingIn
  <1>4. d.wake[p] < q[1].at /\ d.wake[p] \in Int
    BY <1>1 DEF OrderIn, Correlators, Times, NoTime
  <1> HIDE DEF s, l
  <1>5. CASE k > 1
    <2>1. k - 1 \in 0..(n - 1) /\ k - 1 # 0 /\ k # 0 /\ k - 1 \in 1..(l - 1) /\ k = (k - 1) + 1
      BY <1>1, <1>5
    <2>2. StartIn(s, r, k - 1, p) = StartIn(q, d, k, p)
      BY <1>1, <2>1 DEF StartIn
    <2>3. Uncleared(s, p, k - 1, n - 1)
      BY <1>1, <1>3, <2>1, UnclearedTaken DEF s, l
    <2> QED BY <1>3, <2>1, <2>2, <2>3 DEF PendingIn, s
  <1>6. CASE k = 0 \/ k = 1
    <2>1. ~Clears(q[1], p)
      <3>1. CASE k = 0
        <4>1. 1 \in (k + 1)..n
          BY <1>1, <3>1
        <4> QED BY <1>3, <4>1 DEF Uncleared
      <3>2. CASE k = 1
        BY <1>1, <1>3, <3>2, EventIs DEF StartIn
      <3> QED BY <1>6, <3>1, <3>2
    <2>2. r.wake[p] # NoTime /\ r.wake[p] <= t
      <3>1. CASE k = 0
        BY <1>2, <1>3, <2>1, <3>1 DEF StartIn, WakeAfter
      <3>2. CASE k = 1
        <4>1. Sets(q[1], p) /\ q[1].at <= t
          BY <1>3, <3>2 DEF StartIn
        <4>2. q[1].at # NoTime
          BY <1>1 DEF NoTime
        <4> QED BY <1>1, <1>2, <1>4, <2>1, <4>1, <4>2 DEF WakeAfter
      <3> QED BY <1>6, <3>1, <3>2
    <2>3. StartIn(s, r, 0, p) = r.wake[p] /\ 0 \in 0..(n - 1)
      BY <1>1 DEF StartIn
    <2>4. Uncleared(s, p, 0, n - 1)
      BY <1>1, <1>3, <1>6, <2>3, UnclearedTaken DEF s, l
    <2> QED BY <2>2, <2>3, <2>4 DEF PendingIn, s
  <1> QED BY <1>1, <1>5, <1>6

LEMMA KnownTaken ==
  ASSUME NEW q \in Seq(Event), q # <<>>, NEW d \in Correlators, NEW r \in Correlators,
         Handles(d, q[1], r), NEW p \in Pids,
         NEW n \in 1..Len(q), NEW v \in Nat, KnownIn(q, d, p, n, v)
  PROVE  KnownIn(Tail(q), r, p, n - 1, v)
  <1> DEFINE s == Tail(q)
             l == Len(q)
  <1>1. /\ l \in Nat /\ l > 0 /\ (\A i \in 1..(l - 1) : s[i] = q[i + 1]) /\ q[1] \in Event
        /\ n \in Nat /\ n >= 1 /\ n <= l
    BY TailIs
  <1>2. r.taskStarts[p] = StartAfter(d, q[1], p)
    BY DEF Handles
  <1>3. PICK k \in 0..n : /\ k = 0 \/ Clears(q[k], p)
                          /\ IdentityIn(q, d, k, p) \in {0, v} /\ Uncleared(q, p, k, n)
    BY DEF KnownIn
  <1> HIDE DEF s, l
  <1>5. CASE k > 1
    <2>1. k - 1 \in 0..(n - 1) /\ k - 1 # 0 /\ k # 0 /\ k - 1 \in 1..(l - 1) /\ k = (k - 1) + 1
      BY <1>1, <1>5
    <2>2. IdentityIn(s, r, k - 1, p) = IdentityIn(q, d, k, p) /\ Clears(s[k - 1], p)
      BY <1>1, <1>3, <2>1 DEF IdentityIn
    <2>3. Uncleared(s, p, k - 1, n - 1)
      BY <1>1, <1>3, <2>1, UnclearedTaken DEF s, l
    <2> QED BY <1>3, <2>1, <2>2, <2>3 DEF KnownIn, s
  <1>6. CASE k = 0 \/ k = 1
    <2>1. r.taskStarts[p] \in {0, v}
      <3>1. CASE k = 0
        <4>1. 1 \in (k + 1)..n
          BY <1>1, <3>1
        <4>2. ~Clears(q[1], p)
          BY <1>3, <4>1 DEF Uncleared
        <4> QED BY <1>2, <1>3, <3>1, <4>2 DEF IdentityIn, StartAfter, Clears
      <3>2. CASE k = 1
        BY <1>2, <1>3, <3>2 DEF IdentityIn, StartAfter, Clears
      <3> QED BY <1>6, <3>1, <3>2
    <2>3. IdentityIn(s, r, 0, p) = r.taskStarts[p] /\ 0 \in 0..(n - 1)
      BY <1>1 DEF IdentityIn
    <2>4. Uncleared(s, p, 0, n - 1)
      BY <1>1, <1>3, <1>6, <2>3, UnclearedTaken DEF s, l
    <2> QED BY <2>1, <2>3, <2>4 DEF KnownIn, s
  <1> QED BY <1>1, <1>5, <1>6

LEMMA OrderAppended ==
  ASSUME NEW q \in Seq(Event), NEW e \in Event, NEW d \in Correlators, NEW m \in Nat,
         OrderIn(q, d, m), e.at = m + 1
  PROVE  OrderIn(Append(q, e), d, m + 1)
  <1> DEFINE a == Append(q, e)
             l == Len(q)
  <1>1. /\ l \in Nat /\ (\A i \in 1..l : a[i] = q[i]) /\ a[l + 1] = e
        /\ DOMAIN q = 1..l /\ DOMAIN a = 1..(l + 1)
    BY AppendIs
  <1>2. \A i \in 1..l : q[i].at \in Nat /\ q[i].at <= m
    BY <1>1, EventIs DEF OrderIn
  <1>3. \A p \in Pids : d.wake[p] \in Int /\ d.wake[p] <= m
    BY DEF OrderIn, Correlators, Times, NoTime
  <1> HIDE DEF a, l
  <1>4. \A i \in 1..(l + 1) : IF i = l + 1 THEN a[i] = e ELSE i \in 1..l /\ a[i] = q[i]
    BY <1>1
  <1>5. \A i \in 1..(l + 1) : a[i].at \in Nat /\ a[i].at <= m + 1
    BY <1>1, <1>2, <1>4
  <1>6. ASSUME NEW i \in 1..(l + 1), NEW j \in 1..(l + 1), i < j
        PROVE  a[i].at < a[j].at
    <2>1. i \in 1..l
      BY <1>1, <1>6
    <2>2. CASE j = l + 1
      BY <1>1, <1>2, <2>1, <2>2
    <2>3. CASE j # l + 1
      BY <1>1, <1>4, <1>6, <2>1, <2>3 DEF OrderIn
    <2> QED BY <2>2, <2>3
  <1>7. \A p \in Pids : d.wake[p] <= m + 1 /\ \A i \in 1..(l + 1) : d.wake[p] < a[i].at
    <2> TAKE p \in Pids
    <2>1. d.wake[p] <= m + 1 /\ d.wake[p] < m + 1
      BY <1>3
    <2>2. \A i \in 1..l : d.wake[p] < q[i].at
      BY <1>1 DEF OrderIn
    <2> QED BY <1>4, <2>1, <2>2
  <1> QED BY <1>1, <1>5, <1>6, <1>7 DEF OrderIn, a

LEMMA OrderTaken ==
  ASSUME NEW q \in Seq(Event), q # <<>>, NEW d \in Correlators, NEW r \in Correlators,
         NEW m \in Nat, OrderIn(q, d, m), Handles(d, q[1], r)
  PROVE  OrderIn(Tail(q), r, m)
  <1> DEFINE s == Tail(q)
             l == Len(q)
  <1>1. /\ l \in Nat /\ l > 0 /\ (\A i \in 1..(l - 1) : s[i] = q[i + 1])
        /\ DOMAIN q = 1..l /\ DOMAIN s = 1..(l - 1) /\ q[1] \in Event
    BY TailIs
  <1>2. \A i \in 1..l : q[i].at \in Nat /\ q[i].at <= m
    BY <1>1, EventIs DEF OrderIn
  <1>3. \A p \in Pids : r.wake[p] = NoTime \/ r.wake[p] = q[1].at \/ r.wake[p] = d.wake[p]
    BY DEF Handles, WakeAfter
  <1>4. \A p \in Pids : d.wake[p] <= m /\ \A i \in 1..l : d.wake[p] < q[i].at
    BY <1>1 DEF OrderIn
  <1>5. \A i, j \in 1..l : i < j => q[i].at < q[j].at
    BY <1>1 DEF OrderIn
  <1> HIDE DEF s, l
  <1>6. \A i \in 1..(l - 1) : i + 1 \in 1..l /\ 1 \in 1..l /\ 1 < i + 1
    BY <1>1
  <1>7. \A i, j \in 1..(l - 1) : i < j => s[i].at < s[j].at
    BY <1>1, <1>5, <1>6
  <1>8. \A i \in 1..(l - 1) : s[i].at <= m /\ s[i].at \in Nat /\ q[1].at < s[i].at
    BY <1>1, <1>2, <1>5, <1>6
  <1>9. \A p \in Pids : r.wake[p] <= m /\ \A i \in 1..(l - 1) : r.wake[p] < s[i].at
    <2> TAKE p \in Pids
    <2>1. 1 \in 1..l
      BY <1>1
    <2>2. CASE r.wake[p] = NoTime
      BY <1>8, <2>2 DEF NoTime
    <2>3. CASE r.wake[p] = q[1].at
      BY <1>2, <1>8, <2>1, <2>3
    <2>4. CASE r.wake[p] = d.wake[p]
      BY <1>1, <1>4, <1>6, <2>4
    <2> QED BY <1>3, <2>2, <2>3, <2>4
  <1> QED BY <1>1, <1>7, <1>8, <1>9 DEF OrderIn, s

-----------------------------------------------------------------------------
(* The inductive invariant of a capture without a loss *)

\* A dispatch names the task it is of, and is the end of a wait.
RingTold ==
  \A i \in DOMAIN ring : \A p \in Pids : Dispatches(ring[i], p) =>
    /\ ring[i].start \in births[p] /\ ring[i].start <= ring[i].at
    /\ \E w \in waits : w[3] = ring[i].at
RingInv == OrderIn(ring, c, now) /\ RingTold

\* A wait that began in an earlier life of the PID is over when the next begins.
StartsInv ==
  \A p \in Pids : /\ \A b \in births[p] : OverIn(ring, c, p, b)
                  /\ Gone(p) => OverIn(ring, c, p, now + 1)

\* A task that waits is pending, and a task that is not new is known.
PendingInv ==
  \A p \in Pids :
    /\ Waiting(p) /\ since[p] > 1 => PendingIn(ring, c, p, Len(ring), since[p])
    /\ state[p] # "none" /\ ~FirstWait(p) => KnownIn(ring, c, p, Len(ring), life[p])

\* A wait that is over is told by an event of the ring that will be paired with
\* its start, or was taken and, unless a later wait was taken too, has its sample.
Good(w) == w[2] > 1 /\ w[2] \notin births[w[1]]
ComesAt(q, i, w) == Dispatches(q[i], w[1]) /\ q[i].at = w[3]
FoundAt(q, d, i, w) ==
  PendingIn(q, d, w[1], i - 1, w[2]) /\ KnownIn(q, d, w[1], i - 1, q[i].start)
InFlight(w) == \E i \in DOMAIN ring : ComesAt(ring, i, w) /\ (Good(w) => FoundAt(ring, c, i, w))
PastIn(q, w) == \A i \in DOMAIN q : w[3] < q[i].at
MeasuredIn(d, w) == \E s \in Samples(d.wakeCpu) : s[1] <= w[2] /\ s[2] = w[3]
Later(w) == \E x \in waits : x[3] > w[3]
Done(w) == PastIn(ring, w) /\ (Good(w) => MeasuredIn(c, w) \/ Later(w))
WaitsInv == \A w \in waits : InFlight(w) \/ Done(w)

\* A sample lies in the life of the task it is kept for.
SampleIsOf(p, s) ==
  InOneLife(p, s) /\ s[2] <= now /\ c.taskStarts[p] # 0 /\ s[1] >= c.taskStarts[p]
SamplesInv == \A p \in Pids : \A s \in Of(c.wakeMs[p]) : SampleIsOf(p, s)
ShownInv == shown.lost = 0 => \A p \in Pids : \A s \in shown.wakes[p] : s[1] >= shown.starts[p]

PathInv == RingInv /\ StartsInv /\ PendingInv /\ WaitsInv /\ SamplesInv
TraceInv ==
  /\ TraceTypes
  /\ drops = {} => losses = 0 /\ ShownInv
  /\ Lossless => PathInv

\* What a step of the kernel that drops nothing starts from and leaves.
Emitted(e) ==
  /\ TraceTypes /\ PathInv /\ e \in Event /\ Told(e)
  /\ ring' = Append(ring, e) /\ c' = c /\ now' = now + 1 /\ now \in Nat

LEMMA EmittedIs ==
  ASSUME NEW e, Emitted(e)
  PROVE  /\ e \in Event /\ e.at = now + 1 /\ ring \in Seq(Event) /\ c \in Correlators
         /\ births \in [Pids -> SUBSET Times] /\ \A p \in Pids : births[p] \subseteq births'[p]
         /\ waits \subseteq waits' /\ waits \subseteq Pids \X (0..MaxNow) \X Times
         /\ since \in [Pids -> 0..MaxNow] /\ life \in [Pids -> 0..MaxNow]
         /\ OrderIn(ring, c, now)
  <1>1. /\ e \in Event /\ e.at = now + 1 /\ BirthsTold(e) /\ WaitsTold(e)
    BY DEF Emitted, Told
  <1>2. ring \in Seq(Event) /\ c \in Correlators
    BY DEF Emitted, TraceTypes, RingTypes, PollTypes
  <1>3. /\ births \in [Pids -> SUBSET Times] /\ waits \subseteq Pids \X (0..MaxNow) \X Times
        /\ since \in [Pids -> 0..MaxNow] /\ life \in [Pids -> 0..MaxNow]
    BY DEF Emitted, TraceTypes, KernelTypes
  <1>4. \A p \in Pids : births[p] \subseteq births'[p]
    BY <1>1 DEF BirthsTold
  <1>5. waits \subseteq waits'
    BY <1>1 DEF WaitsTold
  <1> QED BY <1>1, <1>2, <1>3, <1>4, <1>5 DEF Emitted, PathInv, RingInv

LEMMA EmittedRing ==
  ASSUME NEW e, Emitted(e)
  PROVE  RingInv'
  <1> DEFINE a == Append(ring, e)
             l == Len(ring)
  <1>1. /\ ring \in Seq(Event) /\ e \in Event /\ e.at = now + 1 /\ c \in Correlators
        /\ now \in Nat /\ OrderIn(ring, c, now)
        /\ ring' = a /\ c' = c /\ now' = now + 1
        /\ waits \subseteq waits' /\ \A p \in Pids : births[p] \subseteq births'[p]
    BY EmittedIs DEF Emitted
  <1>2. OrderIn(ring, c, now)'
    BY <1>1, OrderAppended
  <1>3. /\ l \in Nat /\ (\A i \in 1..l : a[i] = ring[i]) /\ a[l + 1] = e
        /\ DOMAIN ring = 1..l /\ DOMAIN a = 1..(l + 1)
    BY <1>1, AppendIs
  <1> HIDE DEF a, l
  <1>4. ASSUME NEW i \in 1..(l + 1), NEW p \in Pids, Dispatches(a[i], p)
        PROVE  /\ a[i].start \in births'[p] /\ a[i].start <= a[i].at
               /\ \E w \in waits' : w[3] = a[i].at
    <2>1. CASE i = l + 1
      <3>1. Dispatches(e, p) /\ a[i] = e
        BY <1>3, <1>4, <2>1
      <3>2. WaitsTold(e) /\ KernelTypes /\ KernelOrder
        BY DEF Emitted, Told, TraceTypes
      <3>3. PICK x \in Pids : /\ waits' = waits \cup {<<x, since[x], e.at>>}
                              /\ Dispatches(e, x) /\ e.start = life[x] /\ life[x] \in births[x]
        BY <3>1, <3>2 DEF WaitsTold
      <3>4. x = p
        BY <3>1, <3>3 DEF Dispatches
      <3>5. <<p, since[p], e.at>> \in waits' /\ e.start \in births[p]
        BY <3>3, <3>4
      <3>6. e.start <= now /\ e.start \in Times
        BY <3>2, <3>5 DEF KernelOrder, KernelTypes
      <3>7. e.start <= e.at
        BY <1>1, <3>6 DEF Times
      <3> QED BY <1>1, <3>1, <3>5, <3>7
    <2>2. CASE i # l + 1
      <3>1. i \in 1..l /\ a[i] = ring[i]
        BY <1>3, <2>2
      <3>2. /\ ring[i].start \in births[p] /\ ring[i].start <= ring[i].at
            /\ \E w \in waits : w[3] = ring[i].at
        BY <1>3, <1>4, <3>1 DEF Emitted, PathInv, RingInv, RingTold
      <3> QED BY <1>1, <3>1, <3>2
    <2> QED BY <2>1, <2>2
  <1>5. RingTold'
    BY <1>1, <1>3, <1>4 DEF RingTold
  <1> QED BY <1>2, <1>5 DEF RingInv

LEMMA EmittedStarts ==
  ASSUME NEW e, Emitted(e)
  PROVE  StartsInv'
  <1>1. /\ ring \in Seq(Event) /\ e \in Event /\ e.at = now + 1 /\ c \in Correlators
        /\ now \in Nat /\ OrderIn(ring, c, now)
        /\ ring' = Append(ring, e) /\ c' = c /\ now' = now + 1
        /\ births \in [Pids -> SUBSET Times]
    BY EmittedIs DEF Emitted
  <1>2. StartsInv /\ KernelOrder /\ BirthsTold(e) /\ GoneTold(e)
    BY DEF Emitted, PathInv, TraceTypes, Told
  <1>3. ASSUME NEW p \in Pids, NEW b \in births'[p]
        PROVE  OverIn(Append(ring, e), c, p, b)
    <2>1. b \in births[p] \/ (b = now + 1 /\ Gone(p))
      BY <1>1, <1>2, <1>3 DEF BirthsTold
    <2>2. OverIn(ring, c, p, b)
      BY <1>2, <2>1 DEF StartsInv
    <2>3. b \in Nat /\ b <= e.at
      <3>1. CASE b \in births[p]
        <4>1. b \in Times /\ b <= now
          BY <1>1, <1>2, <3>1 DEF KernelOrder
        <4> QED BY <1>1, <4>1 DEF Times
      <3>2. CASE b = now + 1
        BY <1>1, <3>2
      <3> QED BY <2>1, <3>1, <3>2
    <2> QED BY <1>1, <2>2, <2>3, OverAppended
  <1>4. ASSUME NEW p \in Pids, Gone(p)'
        PROVE  OverIn(Append(ring, e), c, p, now + 2)
    <2>1. (Gone(p) /\ ~Sets(e, p)) \/ Clears(e, p)
      BY <1>2, <1>4 DEF GoneTold
    <2>2. (OverIn(ring, c, p, now + 1) /\ ~Sets(e, p)) \/ Clears(e, p)
      BY <1>2, <2>1 DEF StartsInv
    <2> QED BY <1>1, <2>2, OverAtEnd
  <1> DEFINE n == now'
  <1>5. n + 1 = now + 2
    BY <1>1
  <1> QED BY <1>1, <1>3, <1>4, <1>5 DEF StartsInv

LEMMA EmittedPending ==
  ASSUME NEW e, Emitted(e), KernelTypes'
  PROVE  PendingInv'
  <1> DEFINE l == Len(ring)
  <1>1. /\ ring \in Seq(Event) /\ e \in Event /\ e.at = now + 1 /\ c \in Correlators
        /\ now \in Nat /\ ring' = Append(ring, e) /\ c' = c /\ Len(Append(ring, e)) = l + 1
    BY EmittedIs, AppendIs DEF Emitted
  <1>2. PendingInv /\ WaitingTold(e) /\ LifeTold(e)
    BY DEF Emitted, PathInv, Told
  <1> HIDE DEF l
  <1>3. ASSUME NEW p \in Pids, Waiting(p)', since'[p] > 1
        PROVE  PendingIn(Append(ring, e), c, p, l + 1, since'[p])
    <2> DEFINE t == since'[p]
    <2>1. t \in 0..MaxNow
      BY DEF KernelTypes
    <2>2. \/ t = e.at /\ Sets(e, p)
          \/ Waiting(p) /\ t = since[p] /\ ~Clears(e, p)
      BY <1>2, <1>3 DEF WaitingTold
    <2>3. t > 1
      BY <1>3
    <2> HIDE DEF t
    <2>4. t \in Nat /\ (t = e.at => e.at <= t)
      BY <1>1, <2>1
    <2>5. \/ Sets(e, p) /\ e.at <= t
          \/ PendingIn(ring, c, p, Len(ring), t) /\ ~Clears(e, p)
      BY <1>2, <2>2, <2>3, <2>4 DEF PendingInv
    <2>6. PendingIn(Append(ring, e), c, p, l + 1, t)
      BY <1>1, <2>4, <2>5, PendingAppended DEF l
    <2> QED BY <2>6 DEF t
  <1>4. ASSUME NEW p \in Pids, state'[p] # "none", ~FirstWait(p)'
        PROVE  KnownIn(Append(ring, e), c, p, l + 1, life'[p])
    <2> DEFINE v == life'[p]
    <2>1. v \in Nat
      BY DEF KernelTypes
    <2>2. \/ Exits(e, p)
          \/ Dispatches(e, p) /\ e.start = v
          \/ ~Clears(e, p) /\ state[p] # "none" /\ ~FirstWait(p) /\ v = life[p]
      BY <1>2, <1>4 DEF LifeTold
    <2> HIDE DEF v
    <2>3. \/ Exits(e, p)
          \/ Dispatches(e, p) /\ e.start = v
          \/ KnownIn(ring, c, p, Len(ring), v) /\ ~Clears(e, p)
      BY <1>2, <2>2 DEF PendingInv
    <2>4. KnownIn(Append(ring, e), c, p, l + 1, v)
      BY <1>1, <2>1, <2>3, KnownAppended DEF l
    <2> QED BY <2>4 DEF v
  <1> QED BY <1>1, <1>3, <1>4 DEF PendingInv

LEMMA EmittedSamples ==
  ASSUME NEW e, Emitted(e)
  PROVE  SamplesInv'
  <1>1. /\ e.at = now + 1 /\ c \in Correlators /\ now \in Nat /\ c' = c /\ now' = now + 1
        /\ births \in [Pids -> SUBSET Times]
    BY EmittedIs DEF Emitted
  <1>2. SamplesInv /\ BirthsTold(e)
    BY DEF Emitted, PathInv, Told
  <1> SUFFICES ASSUME NEW p \in Pids, NEW s \in Of(c.wakeMs[p])
               PROVE  SampleIsOf(p, s)'
    BY <1>1 DEF SamplesInv
  <1>3. s \in Interval /\ s[2] \in Nat /\ s[2] <= now /\ InOneLife(p, s)
        /\ c.taskStarts[p] # 0 /\ s[1] >= c.taskStarts[p]
    <2>1. s \in Interval
      BY <1>1 DEF Correlators, Window, Of
    <2> QED BY <1>2, <2>1 DEF SamplesInv, SampleIsOf, Interval, Times
  <1>4. s[2] <= now + 1 /\ ~(now + 1 <= s[2])
    BY <1>1, <1>3
  <1>5. InOneLife(p, s)'
    <2>1. \A b \in births'[p] : b \in births[p] \/ b = now + 1
      BY <1>1, <1>2 DEF BirthsTold
    <2> QED BY <1>3, <1>4, <2>1 DEF InOneLife
  <1> DEFINE n == now'
  <1>6. s[2] <= n
    BY <1>1, <1>4
  <1> QED BY <1>1, <1>3, <1>5, <1>6 DEF SampleIsOf

LEMMA EmittedWaits ==
  ASSUME NEW e, Emitted(e)
  PROVE  WaitsInv'
  <1> DEFINE a == Append(ring, e)
             l == Len(ring)
  <1>1. /\ ring \in Seq(Event) /\ e \in Event /\ e.at = now + 1 /\ c \in Correlators
        /\ now \in Nat /\ ring' = a /\ c' = c
        /\ waits \subseteq waits' /\ waits \subseteq Pids \X (0..MaxNow) \X Times
        /\ \A p \in Pids : births[p] \subseteq births'[p]
        /\ since \in [Pids -> 0..MaxNow] /\ life \in [Pids -> 0..MaxNow]
    BY EmittedIs DEF Emitted
  <1>2. /\ l \in Nat /\ (\A i \in 1..l : a[i] = ring[i]) /\ a[l + 1] = e
        /\ DOMAIN ring = 1..l /\ DOMAIN a = 1..(l + 1)
    BY <1>1, AppendIs
  <1>3. WaitsInv /\ PendingInv /\ WaitsTold(e) /\ KernelOrder
    BY DEF Emitted, PathInv, Told, TraceTypes
  <1>4. \A i \in 1..l : ring[i] \in Event
    BY <1>1, <1>2
  <1> HIDE DEF a, l
  <1>5. ASSUME NEW w \in Pids \X (0..MaxNow) \X Times, NEW i \in 1..(l + 1),
               PendingIn(ring, c, w[1], i - 1, w[2]),
               KnownIn(ring, c, w[1], i - 1, a[i].start), a[i].start \in Nat
        PROVE  FoundAt(a, c, i, w)
    <2>1. i - 1 \in 0..Len(ring) /\ w[1] \in Pids /\ w[2] \in Nat
      BY <1>2 DEF l
    <2>2. /\ PendingIn(Append(ring, e), c, w[1], i - 1, w[2])
          /\ KnownIn(Append(ring, e), c, w[1], i - 1, a[i].start)
      BY <1>1, <1>5, <2>1, PrefixKept
    <2> QED BY <2>2 DEF FoundAt, a
  <1>6. ASSUME NEW w \in waits
        PROVE  InFlight(w)' \/ Done(w)'
    <2>1. Good(w)' => Good(w)
      BY <1>1 DEF Good
    <2>2. w \in Pids \X (0..MaxNow) \X Times /\ w[1] \in Pids /\ w[3] \in Nat /\ w[3] <= now
      BY <1>1, <1>3 DEF KernelOrder, Times
    <2>3. CASE InFlight(w)
      <3>1. PICK i \in 1..l : ComesAt(ring, i, w) /\ (Good(w) => FoundAt(ring, c, i, w))
        BY <1>2, <2>3 DEF InFlight
      <3>2. i \in 1..(l + 1) /\ a[i] = ring[i]
        BY <1>2
      <3>3. ComesAt(a, i, w) /\ a[i].start \in Nat
        BY <1>4, <2>2, <3>1, <3>2, EventIs DEF ComesAt
      <3>4. Good(w) => FoundAt(a, c, i, w)
        BY <1>5, <2>2, <3>1, <3>2, <3>3 DEF FoundAt
      <3>5. InFlight(w)'
        BY <1>1, <1>2, <2>1, <3>2, <3>3, <3>4 DEF InFlight
      <3> QED BY <3>5
    <2>4. CASE Done(w)
      <3>1. PastIn(a, w)
        <4>1. \A i \in 1..(l + 1) : IF i = l + 1 THEN a[i] = e ELSE i \in 1..l /\ a[i] = ring[i]
          BY <1>2
        <4>2. w[3] < e.at
          BY <1>1, <2>2
        <4> QED BY <1>2, <2>4, <4>1, <4>2 DEF Done, PastIn
      <3>2. Later(w) => Later(w)'
        BY <1>1 DEF Later
      <3>3. Good(w)' => MeasuredIn(c, w) \/ Later(w)'
        BY <2>1, <2>4, <3>2 DEF Done
      <3> QED BY <1>1, <3>1, <3>3 DEF Done
    <2> QED BY <1>3, <2>3, <2>4 DEF WaitsInv
  <1>7. ASSUME NEW w, NEW p \in Pids, w = <<p, since[p], e.at>>, Dispatches(e, p),
               Waiting(p), e.start = life[p], life[p] \in births[p]
        PROVE  InFlight(w)'
    <2>1. w \in Pids \X (0..MaxNow) \X Times /\ w[1] = p /\ w[2] = since[p] /\ w[3] = e.at
      BY <1>1, <1>7 DEF Event, PidEvent, SwitchEvent
    <2>2. ComesAt(a, l + 1, w) /\ l + 1 \in 1..(l + 1)
      BY <1>2, <1>7, <2>1 DEF ComesAt
    <2>3. ASSUME Good(w)'
          PROVE  FoundAt(a, c, l + 1, w)
      <3>1. since[p] > 1 /\ since[p] # life[p]
        <4>1. w[2] > 1 /\ w[2] \notin births'[w[1]]
          BY <2>3 DEF Good
        <4> QED BY <1>1, <1>7, <2>1, <4>1
      <3>2. state[p] # "none" /\ ~FirstWait(p)
        BY <1>7, <3>1 DEF Waiting, FirstWait
      <3>3. PendingIn(ring, c, p, l, since[p]) /\ KnownIn(ring, c, p, l, life[p])
        BY <1>3, <1>7, <3>1, <3>2 DEF PendingInv, l
      <3>4. (l + 1) - 1 = l /\ a[l + 1].start = life[p] /\ life[p] \in Nat
        BY <1>1, <1>2, <1>7
      <3>5. PendingIn(ring, c, w[1], (l + 1) - 1, w[2])
        BY <2>1, <3>3, <3>4
      <3>6. KnownIn(ring, c, w[1], (l + 1) - 1, a[l + 1].start) /\ a[l + 1].start \in Nat
        BY <2>1, <3>3, <3>4
      <3> QED BY <1>5, <2>1, <2>2, <3>5, <3>6
    <2> QED BY <1>1, <1>2, <2>2, <2>3 DEF InFlight
  <1>8. \A w \in waits' : \/ w \in waits
                          \/ \E p \in Pids : /\ w = <<p, since[p], e.at>> /\ Dispatches(e, p)
                                             /\ Waiting(p) /\ e.start = life[p]
                                             /\ life[p] \in births[p]
    BY <1>3 DEF WaitsTold
  <1> QED BY <1>6, <1>7, <1>8 DEF WaitsInv

LEMMA KernelKeepsTrace ==
  ASSUME TraceInv, Kernel
  PROVE  TraceInv'
  <1>1. TraceTypes /\ TraceTypes'
    BY KernelKeepsTypes DEF TraceInv
  <1>2. PICK e \in Event : Emit(e) /\ Told(e)
    BY <1>1, KernelTold DEF TraceTypes
  <1>3. /\ UNCHANGED <<pc, taken, seen, c, shown>> /\ now' = now + 1 /\ now \in Nat
        /\ \/ ring' = Append(ring, e) /\ losses' = losses /\ drops' = drops
           \/ drops' # {}
    BY <1>1, <1>2, EmitIs DEF TraceTypes, tracer, KernelTypes, Times
  <1>4. CASE drops' # {}
    BY <1>1, <1>4 DEF TraceInv, Lossless
  <1>5. CASE ring' = Append(ring, e) /\ losses' = losses /\ drops' = drops
    <2>1. drops' = {} => losses' = 0 /\ ShownInv'
      BY <1>3, <1>5 DEF TraceInv, ShownInv
    <2>2. ASSUME Lossless'
          PROVE  PathInv'
      <3>1. Lossless
        BY <1>3, <1>5, <2>2 DEF Lossless
      <3>2. Emitted(e)
        BY <1>1, <1>2, <1>3, <1>5, <3>1 DEF Emitted, TraceInv
      <3>3. RingInv' /\ StartsInv' /\ SamplesInv' /\ WaitsInv'
        BY <3>2, EmittedRing, EmittedStarts, EmittedSamples, EmittedWaits
      <3>4. PendingInv'
        BY <1>1, <3>2, EmittedPending DEF TraceTypes
      <3> QED BY <3>3, <3>4 DEF PathInv
    <2> QED BY <1>1, <2>1, <2>2 DEF TraceInv
  <1> QED BY <1>3, <1>4, <1>5

-----------------------------------------------------------------------------
(* The tracer takes an event *)

Taken(d) ==
  /\ TraceTypes /\ PathInv /\ ring # <<>> /\ ring' = Tail(ring) /\ d = c'
  /\ d \in Correlators /\ Handles(c, ring[1], d)
  /\ UNCHANGED <<now, life, state, births, waits, since>>

LEMMA TakenIs ==
  ASSUME NEW d, Taken(d)
  PROVE  /\ ring \in Seq(Event) /\ ring # <<>> /\ c \in Correlators /\ d \in Correlators
         /\ Handles(c, ring[1], d) /\ OrderIn(ring, c, now) /\ now \in Nat
         /\ ring[1] \in Event /\ Len(ring) \in Nat /\ Len(ring) > 0
         /\ Len(Tail(ring)) = Len(ring) - 1 /\ DOMAIN ring = 1..Len(ring)
         /\ DOMAIN Tail(ring) = 1..(Len(ring) - 1)
         /\ \A i \in 1..(Len(ring) - 1) : Tail(ring)[i] = ring[i + 1] /\ i + 1 \in 1..Len(ring)
         /\ \A i \in 1..(Len(ring) - 1) : ring[1].at < Tail(ring)[i].at
  <1>1. /\ ring \in Seq(Event) /\ ring # <<>> /\ c \in Correlators /\ d \in Correlators
        /\ Handles(c, ring[1], d) /\ OrderIn(ring, c, now) /\ now \in Nat
    BY DEF Taken, PathInv, RingInv, TraceTypes, RingTypes, PollTypes, KernelTypes, Times
  <1>2. /\ ring[1] \in Event /\ Len(ring) \in Nat /\ Len(ring) > 0
        /\ Len(Tail(ring)) = Len(ring) - 1 /\ DOMAIN ring = 1..Len(ring)
        /\ DOMAIN Tail(ring) = 1..(Len(ring) - 1)
        /\ \A i \in 1..(Len(ring) - 1) : Tail(ring)[i] = ring[i + 1]
    BY <1>1, TailIs
  <1>3. \A i \in 1..(Len(ring) - 1) : i + 1 \in 1..Len(ring) /\ 1 \in 1..Len(ring) /\ 1 < i + 1
    BY <1>2
  <1>4. \A i \in 1..(Len(ring) - 1) : ring[1].at < Tail(ring)[i].at
    BY <1>1, <1>2, <1>3 DEF OrderIn
  <1> QED BY <1>1, <1>2, <1>3, <1>4

LEMMA TakenRing ==
  ASSUME NEW d, Taken(d)
  PROVE  RingInv'
  <1>1. OrderIn(Tail(ring), d, now)
    BY TakenIs, OrderTaken
  <1>2. RingTold
    BY DEF Taken, PathInv, RingInv
  <1>3. RingTold'
    BY <1>2, TakenIs DEF RingTold, Taken
  <1> QED BY <1>1, <1>3 DEF RingInv, Taken

LEMMA TakenStarts ==
  ASSUME NEW d, Taken(d)
  PROVE  StartsInv'
  <1>1. StartsInv /\ births \in [Pids -> SUBSET Times] /\ UNCHANGED <<now, state, births>>
        /\ ring' = Tail(ring) /\ c' = d
    BY DEF Taken, PathInv, TraceTypes, KernelTypes
  <1>2. \A p \in Pids : \A b \in Nat : OverIn(ring, c, p, b) => OverIn(Tail(ring), d, p, b)
    BY TakenIs, OverTaken
  <1>3. now + 1 \in Nat /\ \A p \in Pids : births[p] \subseteq Nat
    BY <1>1, TakenIs DEF Times
  <1> QED BY <1>1, <1>2, <1>3 DEF StartsInv, Gone

LEMMA TakenPending ==
  ASSUME NEW d, Taken(d)
  PROVE  PendingInv'
  <1>1. /\ PendingInv /\ since \in [Pids -> 0..MaxNow] /\ life \in [Pids -> 0..MaxNow]
        /\ UNCHANGED <<state, since, life>> /\ ring' = Tail(ring) /\ c' = d
    BY DEF Taken, PathInv, TraceTypes, KernelTypes
  <1> DEFINE l == Len(ring)
  <1>2. l \in 1..Len(ring) /\ Len(Tail(ring)) = l - 1
    BY TakenIs
  <1> HIDE DEF l
  <1>3. \A p \in Pids : \A t \in Nat :
          PendingIn(ring, c, p, l, t) => PendingIn(Tail(ring), d, p, l - 1, t)
    BY <1>2, TakenIs, PendingTaken
  <1>4. \A p \in Pids : \A v \in Nat :
          KnownIn(ring, c, p, l, v) => KnownIn(Tail(ring), d, p, l - 1, v)
    BY <1>2, TakenIs, KnownTaken
  <1>5. \A p \in Pids : since[p] \in Nat /\ life[p] \in Nat
    BY <1>1
  <1>6. \A p \in Pids : (Waiting(p)' <=> Waiting(p)) /\ (FirstWait(p)' <=> FirstWait(p))
    BY <1>1 DEF Waiting, FirstWait
  <1> QED BY <1>1, <1>2, <1>3, <1>4, <1>5, <1>6 DEF PendingInv, l

LEMMA TakenSamples ==
  ASSUME NEW d, Taken(d)
  PROVE  SamplesInv'
  <1> DEFINE e == ring[1]
  <1>1. /\ SamplesInv /\ StartsInv /\ RingTold /\ births \in [Pids -> SUBSET Times]
        /\ UNCHANGED <<now, births>> /\ c' = d /\ KernelOrder
    BY DEF Taken, PathInv, RingInv, TraceTypes, KernelTypes
  <1>2. /\ e \in Event /\ e.at \in Nat /\ c \in Correlators /\ Handles(c, e, d) /\ now \in Nat
        /\ 1 \in DOMAIN ring /\ e.at <= now
    BY TakenIs, EventIs DEF OrderIn
  <1> HIDE DEF e
  <1> SUFFICES ASSUME NEW p \in Pids, NEW s \in Of(d.wakeMs[p])
               PROVE  InOneLife(p, s) /\ s[2] <= now /\ d.taskStarts[p] # 0 /\ s[1] >= d.taskStarts[p]
    BY <1>1 DEF SamplesInv, SampleIsOf, InOneLife
  <1>3. s \in SamplesAfter(c, e, p) /\ d.taskStarts[p] = StartAfter(c, e, p) /\ ~Exits(e, p)
    BY <1>2 DEF Handles, SamplesAfter
  <1>4. CASE ~Dispatches(e, p)
    <2>1. s \in Of(c.wakeMs[p]) /\ d.taskStarts[p] = c.taskStarts[p]
      BY <1>3, <1>4 DEF SamplesAfter, StartAfter
    <2> QED BY <1>1, <2>1 DEF SamplesInv, SampleIsOf
  <1>5. CASE Dispatches(e, p)
    <2>1. /\ SameTask(c, e, p) /\ d.taskStarts[p] = e.start /\ e.start \in 1..MaxNow
          /\ s \in Of(c.wakeMs[p]) \/ (c.wake[p] # NoTime /\ s = <<c.wake[p], e.at>>)
      BY <1>2, <1>3, <1>5, EventIs DEF SamplesAfter, StartAfter
    <2>2. CASE s \in Of(c.wakeMs[p])
      <3>1. SampleIsOf(p, s)
        BY <1>1, <2>2 DEF SamplesInv
      <3>2. c.taskStarts[p] = e.start
        BY <2>1, <3>1 DEF SampleIsOf, SameTask
      <3> QED BY <2>1, <3>1, <3>2 DEF SampleIsOf
    <2>3. CASE c.wake[p] # NoTime /\ s = <<c.wake[p], e.at>>
      <3>1. c.wake[p] \in Nat
        BY <1>2, <2>3 DEF Correlators, Times
      <3>2. ASSUME NEW b \in births[p], c.wake[p] < b, b <= e.at
            PROVE  FALSE
        <4>1. OverIn(ring, c, p, b) /\ b \in Nat
          BY <1>1 DEF StartsInv, Times
        <4>2. 0 \in 0..Len(ring) /\ StartIn(ring, c, 0, p) = c.wake[p]
          BY TakenIs DEF StartIn
        <4>3. PICK j \in (0 + 1)..Len(ring) : ring[j].at < b
          BY <2>3, <3>2, <4>1, <4>2 DEF OverIn
        <4>4. ring[j] \in Event /\ ring[j].at \in Nat
          <5>1. j \in 1..Len(ring)
            BY <4>3
          <5>2. ring[j] \in Event
            BY <5>1, TakenIs
          <5> QED BY <5>2, EventIs
        <4>5. j = 1 \/ (j - 1 \in 1..(Len(ring) - 1) /\ (j - 1) + 1 = j)
          BY <4>3, TakenIs
        <4>6. e.at <= ring[j].at
          <5>1. CASE j = 1
            BY <1>2, <5>1 DEF e
          <5>2. CASE j # 1
            <6> DEFINE i == j - 1
            <6>1. i \in 1..(Len(ring) - 1) /\ i + 1 = j
              BY <4>5, <5>2
            <6> HIDE DEF i
            <6>2. ring[1].at < Tail(ring)[i].at /\ Tail(ring)[i] = ring[j]
              BY <6>1, TakenIs
            <6>3. e.at < ring[j].at
              BY <6>2 DEF e
            <6> QED BY <1>2, <4>4, <6>3
          <5> QED BY <5>1, <5>2
        <4> QED BY <1>2, <3>2, <4>1, <4>3, <4>4, <4>6
      <3>3. s[1] = c.wake[p] /\ s[2] = e.at
        BY <2>3
      <3>4. InOneLife(p, s)
        BY <3>2, <3>3 DEF InOneLife
      <3>5. e.start \in births[p] /\ e.start <= e.at
        BY <1>1, <1>2, <1>5 DEF RingTold, e
      <3>6. ~(c.wake[p] < e.start)
        BY <3>2, <3>5
      <3>7. s[1] >= e.start
        BY <2>1, <3>1, <3>3, <3>6
      <3> QED BY <1>2, <2>1, <3>3, <3>4, <3>7
    <2> QED BY <2>1, <2>2, <2>3
  <1> QED BY <1>4, <1>5

LEMMA TakenWaits ==
  ASSUME NEW d, Taken(d)
  PROVE  WaitsInv'
  <1> DEFINE q == ring
             l == Len(q)
             s == Tail(q)
             e == q[1]
  <1>1. /\ WaitsInv /\ RingTold /\ UNCHANGED <<births, waits>> /\ ring' = s /\ c' = d /\ q = ring
        /\ waits \subseteq Pids \X (0..MaxNow) \X Times
    BY DEF Taken, PathInv, RingInv, TraceTypes, KernelTypes
  <1>2. /\ e \in Event /\ e.at \in Nat /\ c \in Correlators /\ d \in Correlators
        /\ Handles(c, e, d) /\ OrderIn(q, c, now) /\ now \in Nat
        /\ q \in Seq(Event) /\ q # <<>> /\ e = q[1]
        /\ l \in Nat /\ l > 0 /\ DOMAIN q = 1..l /\ DOMAIN s = 1..(l - 1)
        /\ \A i \in 1..(l - 1) : s[i] = q[i + 1] /\ e.at < s[i].at
    BY TakenIs, EventIs
  <1>3. \A i \in 1..l : q[i] \in Event
    BY <1>2
  <1> HIDE DEF q, l, e
  <1>4. ASSUME NEW w \in waits, InFlight(w)
        PROVE  InFlight(w)' \/ Done(w)'
    <2>1. w \in Pids \X (0..MaxNow) \X Times /\ w[1] \in Pids /\ w[2] \in Nat /\ w[3] \in Nat
      BY <1>1 DEF Times
    <2>2. PICK i \in 1..l : ComesAt(q, i, w) /\ (Good(w) => FoundAt(q, c, i, w))
      BY <1>1, <1>2, <1>4 DEF InFlight
    <2>3. Good(w)' <=> Good(w)
      BY <1>1 DEF Good
    <2>4. CASE i # 1
      <3> DEFINE k == i - 1
      <3>1. k \in 1..(l - 1) /\ k + 1 = i /\ k \in 1..l
        BY <1>2, <2>4
      <3> HIDE DEF k
      <3>2. s[k] = q[i]
        BY <1>2, <3>1
      <3>3. ComesAt(s, k, w) /\ q[i].start \in Nat
        <4>1. Dispatches(q[i], w[1]) /\ q[i].at = w[3] /\ q[i] \in Event
          BY <1>3, <2>2 DEF ComesAt
        <4>2. q[i].start \in 1..MaxNow
          BY <2>1, <4>1, EventIs
        <4>3. q[i].start \in Nat
          BY <4>2, CaptureAssumption
        <4>4. Dispatches(s[k], w[1]) /\ s[k].at = w[3]
          <5> HIDE DEF s
          <5> QED BY <3>2, <4>1
        <4> QED BY <4>3, <4>4 DEF ComesAt
      <3>4. ASSUME Good(w)
            PROVE  FoundAt(s, d, k, w)
        <4>1. PendingIn(q, c, w[1], k, w[2]) /\ KnownIn(q, c, w[1], k, q[i].start)
          BY <2>2, <3>4 DEF FoundAt, k
        <4>2. PendingIn(s, d, w[1], k - 1, w[2])
          BY <1>2, <2>1, <3>1, <4>1, PendingTaken DEF l
        <4>3. KnownIn(s, d, w[1], k - 1, s[k].start)
          BY <1>2, <2>1, <3>1, <3>2, <3>3, <4>1, KnownTaken DEF l
        <4> QED BY <4>2, <4>3 DEF FoundAt
      <3>5. InFlight(w)'
        BY <1>1, <1>2, <2>3, <3>1, <3>3, <3>4 DEF InFlight
      <3> QED BY <3>5
    <2>5. CASE i = 1
      <3>1. Dispatches(e, w[1]) /\ w[3] = e.at
        BY <1>2, <2>2, <2>5 DEF ComesAt
      <3>2. PastIn(s, w)
        BY <1>2, <3>1 DEF PastIn
      <3>3. ASSUME Good(w)
            PROVE  MeasuredIn(d, w)
        <4>1. PendingIn(q, c, w[1], 0, w[2]) /\ KnownIn(q, c, w[1], 0, e.start)
          <5>1. i - 1 = 0 /\ q[i] = e
            BY <1>2, <2>5
          <5> QED BY <2>2, <3>3, <5>1 DEF FoundAt
        <4>2. c.wake[w[1]] # NoTime /\ c.wake[w[1]] <= w[2]
          BY <4>1 DEF PendingIn, StartIn
        <4>3. SameTask(c, e, w[1])
          BY <4>1 DEF KnownIn, IdentityIn, SameTask
        <4>4. c.wake[w[1]] <= e.at
          <5>1. c.wake[w[1]] < e.at /\ c.wake[w[1]] \in Int
            <6>1. 1 \in DOMAIN q
              BY <1>2
            <6>2. c.wake[w[1]] < e.at
              BY <1>2, <2>1, <6>1 DEF OrderIn
            <6> QED BY <1>2, <2>1, <6>2 DEF Correlators, Times, NoTime
          <5> QED BY <1>2, <5>1
        <4>5. <<c.wake[w[1]], e.at>> \in Of(d.wakeCpu[e.cpu]) /\ e.cpu \in CPUs
          BY <1>2, <2>1, <3>1, <4>2, <4>3, <4>4, EventIs DEF Handles
        <4>6. <<c.wake[w[1]], e.at>> \in Samples(d.wakeCpu)
          <5>1. DOMAIN d.wakeCpu = CPUs
            BY <1>2 DEF Correlators
          <5> QED BY <4>5, <5>1 DEF Samples, Of
        <4> QED BY <3>1, <4>2, <4>6 DEF MeasuredIn
      <3> QED BY <1>1, <2>3, <3>2, <3>3 DEF Done
    <2> QED BY <2>4, <2>5
  <1>5. ASSUME NEW w \in waits, Done(w)
        PROVE  Done(w)'
    <2>1. PastIn(q, w) /\ (Good(w) => MeasuredIn(c, w) \/ Later(w))
      BY <1>1, <1>5 DEF Done
    <2>2. (Good(w)' <=> Good(w)) /\ (Later(w)' <=> Later(w))
      BY <1>1 DEF Good, Later
    <2>3. PastIn(s, w)
      <3>1. \A i \in 1..(l - 1) : i + 1 \in 1..l
        BY <1>2
      <3> QED BY <1>2, <2>1, <3>1 DEF PastIn
    <2>4. MeasuredIn(c, w) => MeasuredIn(d, w) \/ Later(w)
      <3>1. CASE \A p \in Pids : ~Dispatches(e, p)
        <4>1. d.wakeCpu = c.wakeCpu
          BY <1>2, <3>1 DEF Handles
        <4> QED BY <4>1 DEF MeasuredIn
      <3>2. CASE \E p \in Pids : Dispatches(e, p)
        <4>1. 1 \in DOMAIN q /\ w[3] < e.at
          BY <1>2, <2>1 DEF PastIn
        <4>2. \E x \in waits : x[3] = e.at
          BY <1>1, <1>2, <3>2, <4>1 DEF RingTold
        <4> QED BY <4>1, <4>2 DEF Later
      <3> QED BY <3>1, <3>2
    <2>5. PastIn(s, w) /\ (Good(w)' => MeasuredIn(d, w) \/ Later(w)')
      BY <2>1, <2>2, <2>3, <2>4
    <2> QED BY <1>1, <2>5 DEF Done
  <1> HIDE DEF s
  <1>6. \A w \in waits : InFlight(w)' \/ Done(w)'
    BY <1>1, <1>4, <1>5 DEF WaitsInv
  <1> QED BY <1>1, <1>6 DEF WaitsInv

LEMMA TakeKeepsTrace ==
  ASSUME TraceInv, Take
  PROVE  TraceInv'
  <1>1. TraceTypes /\ TraceTypes' /\ Head(ring) \in Event
    BY TakeKeepsTypes DEF TraceInv
  <1>2. /\ UNCHANGED <<losses, drops, shown>> /\ c' = Consumed(c, Head(ring))
        /\ ring # <<>> /\ ring' = Tail(ring)
        /\ UNCHANGED <<now, life, state, births, waits, since>>
    BY DEF Take, past
  <1>3. drops' = {} => losses' = 0 /\ ShownInv'
    BY <1>2 DEF TraceInv, ShownInv
  <1>4. ASSUME Lossless'
        PROVE  PathInv'
    <2>1. c \in Correlators /\ c' \in Correlators /\ ring \in Seq(Event)
      BY <1>1 DEF TraceTypes, PollTypes, RingTypes
    <2>2. c'.lost = 0 /\ drops = {}
      BY <1>2, <1>4 DEF Lossless
    <2>3. c.lost = 0 /\ Handles(c, Head(ring), c')
      BY <1>1, <1>2, <2>1, <2>2, ConsumedIs
    <2>4. Handles(c, ring[1], c') /\ Lossless
      BY <1>2, <2>1, <2>2, <2>3, TailIs DEF Lossless
    <2> DEFINE d == c'
    <2>5. Taken(d)
      BY <1>1, <1>2, <2>1, <2>4 DEF Taken, TraceInv
    <2> HIDE DEF d
    <2>6. RingInv' /\ StartsInv' /\ PendingInv' /\ WaitsInv' /\ SamplesInv'
      BY <2>5, TakenRing, TakenStarts, TakenPending, TakenWaits, TakenSamples
    <2> QED BY <2>6 DEF PathInv
  <1> QED BY <1>1, <1>3, <1>4 DEF TraceInv

-----------------------------------------------------------------------------
(* The steps that leave the path of an event alone *)

LEMMA PathStays ==
  ASSUME PathInv, UNCHANGED <<now, life, state, ring, c, births, waits, since>>
  PROVE  PathInv'
  <1>1. RingInv'
    BY DEF PathInv, RingInv, RingTold
  <1>2. StartsInv'
    BY DEF PathInv, StartsInv, Gone
  <1>3. PendingInv'
    BY DEF PathInv, PendingInv, Waiting, FirstWait
  <1>4. WaitsInv'
    BY DEF PathInv, WaitsInv, InFlight, Done, Good, Later
  <1>5. SamplesInv'
    BY DEF PathInv, SamplesInv, SampleIsOf, InOneLife
  <1> QED BY <1>1, <1>2, <1>3, <1>4, <1>5 DEF PathInv

LEMMA ReadLossesKeepsTrace ==
  ASSUME TraceInv, ReadLosses
  PROVE  TraceInv'
  <1>1. TraceTypes /\ TraceTypes'
    BY ReadLossesKeepsTypes DEF TraceInv
  <1>2. UNCHANGED <<now, life, state, ring, losses, shown, births, waits, since, drops>>
    BY DEF ReadLosses, kernel, past
  <1>3. ASSUME Lossless'
        PROVE  PathInv'
    <2>1. c.lost \in Nat /\ (c' = c \/ c'.lost > c.lost)
      BY <1>1, LossesRead DEF TraceTypes, PollTypes, Correlators
    <2>2. c'.lost = 0 /\ drops = {}
      BY <1>2, <1>3 DEF Lossless
    <2>3. c' = c
      BY <2>1, <2>2
    <2>4. Lossless
      BY <2>2, <2>3 DEF Lossless
    <2> QED BY <1>2, <2>3, <2>4, PathStays DEF TraceInv
  <1> QED BY <1>1, <1>2, <1>3 DEF TraceInv, ShownInv

\* What is published of a task without a loss is of the task it names.
LEMMA PublishKeepsTrace ==
  ASSUME TraceInv, Publish
  PROVE  TraceInv'
  <1>1. TraceTypes'
    BY TracerKeepsTypes DEF TraceInv, Tracer
  <1>2. UNCHANGED <<now, life, state, ring, losses, c, births, waits, since, drops>>
    BY DEF Publish, kernel, past
  <1>3. Lossless' => PathInv'
    BY <1>2, PathStays DEF TraceInv, Lossless
  <1>4. ASSUME drops = {}
        PROVE  ShownInv'
    <2>1. /\ shown'.lost = c.lost /\ shown'.starts = c.taskStarts
          /\ shown'.wakes = [p \in Pids |-> Samples([q \in {p} |-> c.wakeMs[q]])]
      BY DEF Publish
    <2>2. \A p \in Pids : Samples([q \in {p} |-> c.wakeMs[q]]) = Of(c.wakeMs[p])
      BY DEF Samples, Of
    <2>3. c.lost = 0 => SamplesInv
      BY <1>4 DEF TraceInv, Lossless, PathInv
    <2>4. c.lost = 0 => \A p \in Pids : \A s \in Of(c.wakeMs[p]) : s[1] >= c.taskStarts[p]
      BY <2>3 DEF SamplesInv, SampleIsOf
    <2> DEFINE shown1 == shown'
    <2>5. shown1.lost = 0 => \A p \in Pids : \A s \in shown1.wakes[p] : s[1] >= shown1.starts[p]
      BY <2>1, <2>2, <2>4
    <2> QED BY <2>5 DEF ShownInv
  <1> QED BY <1>1, <1>2, <1>3, <1>4 DEF TraceInv

LEMMA OthersKeepTrace ==
  ASSUME TraceInv, Sample \/ UNCHANGED vars
  PROVE  TraceInv'
  <1>1. TraceTypes'
    BY TracerKeepsTypes DEF TraceInv
  <1>2. UNCHANGED <<now, life, state, ring, losses, c, shown, births, waits, since, drops>>
    BY DEF Sample, vars, kernel, tracer, past
  <1>3. Lossless' => PathInv'
    BY <1>2, PathStays DEF TraceInv, Lossless
  <1> QED BY <1>1, <1>2, <1>3 DEF TraceInv, ShownInv

LEMMA TraceKept == TraceInv /\ [Next]_vars => TraceInv'
  BY KernelKeepsTrace, TakeKeepsTrace, ReadLossesKeepsTrace, PublishKeepsTrace, OthersKeepTrace
  DEF Next, Tracer

LEMMA InitTrace ==
  ASSUME Init
  PROVE  TraceInv
  <1>1. TraceTypes /\ c \in Correlators
    BY InitTypes DEF TraceTypes, PollTypes
  <1>2. /\ now = 1 /\ ring = <<>> /\ losses = 0 /\ c = Empty /\ shown = NothingShown
        /\ births = [p \in Pids |-> {1}] /\ waits = {} /\ since = [p \in Pids |-> 0]
        /\ \A p \in Pids : state[p] \in {"none", "sleeping", "runnable", "running"}
    BY DEF Init
  <1>3. \A p \in Pids : /\ c.wake[p] = NoTime /\ c.taskStarts[p] = 0 /\ c.wakeMs[p] = <<>>
                        /\ Of(c.wakeMs[p]) = {}
    BY <1>2 DEF Empty, NoStarts, Of
  <1>4. Len(ring) = 0 /\ DOMAIN ring = {}
    BY <1>2
  <1>5. RingInv
    BY <1>2, <1>3, <1>4 DEF RingInv, OrderIn, RingTold, NoTime
  <1>6. StartsInv
    <2>1. \A p \in Pids : \A i \in 0..Len(ring) : StartIn(ring, c, i, p) = NoTime
      BY <1>3, <1>4 DEF StartIn
    <2> QED BY <2>1 DEF StartsInv, OverIn
  <1>7. PendingInv
    <2>1. \A p \in Pids : KnownIn(ring, c, p, Len(ring), life[p])
      <3>1. 0 \in 0..0 /\ (0 + 1)..0 = {}
        OBVIOUS
      <3> QED BY <1>3, <1>4, <3>1 DEF KnownIn, IdentityIn, Uncleared
    <2> QED BY <1>2, <2>1 DEF PendingInv
  <1>8. WaitsInv /\ SamplesInv
    BY <1>2, <1>3 DEF WaitsInv, SamplesInv
  <1>9. ShownInv
    BY <1>2 DEF ShownInv, NothingShown
  <1> QED BY <1>1, <1>2, <1>5, <1>6, <1>7, <1>8, <1>9 DEF TraceInv, PathInv

LEMMA TraceTells == TraceInv => LatenciesAreTrue
  <1> SUFFICES ASSUME TraceInv PROVE LatenciesAreTrue
    OBVIOUS
  <1>1. WakeInOneLife
    <2>1. Lossless => \A p \in Pids : \A s \in Of(c.wakeMs[p]) : InOneLife(p, s)
      BY DEF TraceInv, PathInv, SamplesInv, SampleIsOf
    <2> QED BY <2>1 DEF WakeInOneLife, Of
  <1>2. RowLatencyIsOwn
    BY DEF TraceInv, RowLatencyIsOwn, ShownInv, Hydrated
  <1>3. NoWaitMissed
    <2> SUFFICES ASSUME Lossless, ring = <<>>, NEW w \in waits, w[2] > 1, w[2] \notin births[w[1]],
                        \A x \in waits : x[3] <= w[3]
                 PROVE  \E s \in Samples(c.wakeCpu) : s[1] <= w[2] /\ s[2] = w[3]
      BY DEF NoWaitMissed
    <2>1. WaitsInv /\ Good(w)
      BY DEF TraceInv, PathInv, Good
    <2>2. ~InFlight(w)
      BY DEF InFlight
    <2>3. ~Later(w)
      <3>1. waits \subseteq Pids \X (0..MaxNow) \X Times
        BY DEF TraceInv, TraceTypes, KernelTypes
      <3>2. \A x \in waits : x[3] \in Nat
        BY <3>1 DEF Times
      <3> QED BY <3>2 DEF Later
    <2>4. MeasuredIn(c, w)
      BY <2>1, <2>2, <2>3 DEF WaitsInv, Done
    <2> QED BY <2>4 DEF MeasuredIn
  <1> QED BY <1>1, <1>2, <1>3 DEF LatenciesAreTrue

\* Without a loss the latencies shown are true, for any number of tasks, CPUs and
\* events: none spans two tasks that had the same PID, the row of a task shows
\* none that was measured before it was born, and the last wait that was seen
\* from its beginning is not missed.
THEOREM LatenciesCorrect == Spec => []LatenciesAreTrue
  BY InitTrace, TraceKept, TraceTells, PTL DEF Spec

=============================================================================
