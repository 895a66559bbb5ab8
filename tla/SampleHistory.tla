---------------------------- MODULE SampleHistory ----------------------------
(***************************************************************************)
(* What a series of measurements promises whoever holds a version of it    *)
(* (Samples and Series, src/src/domain.rs): a version is a value.  What is *)
(* done with one leaves every other as it was, and a series keeps its      *)
(* newest samples.                                                         *)
(***************************************************************************)
EXTENDS Naturals, Sequences, Filters

CONSTANTS
  Holders,   \* who may hold a version: the collector, snapshots, the display
  Times,     \* when samples are taken
  Readings,  \* what they measure
  MaxKept    \* samples a series keeps, 600 in the code

VARIABLE history   \* per holder: the samples of its version

HistoryInit == history = [h \in Holders |-> <<>>]

Becomes(h, samples) == history' = [history EXCEPT ![h] = samples]

Trimmed(s) == IF Len(s) > MaxKept THEN SubSeq(s, Len(s) - MaxKept + 1, Len(s)) ELSE s

\* A second sample of the newest one's time is not taken.
Observe(h) ==
  \E sample \in [at : Times, value : Readings] :
    /\ history[h] # <<>> => history[h][Len(history[h])].at # sample.at
    /\ Becomes(h, Trimmed(Append(history[h], sample)))

Copy(h) == \E from \in Holders : Becomes(h, history[from])

Forget(h) == Becomes(h, <<>>)

UpTo(last) == {s \in [at : Times, value : Readings] : s.at <= last}

Select(h) == \E last \in Times : Becomes(h, Filtered(history[h], UpTo(last)))

Revalue(h) ==
  \E v \in Readings : Becomes(h, [i \in DOMAIN history[h] |-> [history[h][i] EXCEPT !.value = v]])

HistoryNext ==
  \E h \in Holders :
    /\ history'[h] # history[h]
    /\ Observe(h) \/ Copy(h) \/ Forget(h) \/ Select(h) \/ Revalue(h)

HistorySpec == HistoryInit /\ [][HistoryNext]_history

=============================================================================
