---------------------------- MODULE FrameHistory ----------------------------
(***************************************************************************)
(* What the timeline of src/src/app.rs promises the time cursor, whatever  *)
(* frames cost: the newest sample is always retained, an older one may     *)
(* only go, and a sample that went never comes back.                       *)
(***************************************************************************)
EXTENDS Integers

VARIABLE kept   \* the times of the retained samples

Newest(times) == CHOOSE t \in times : \A u \in times : u <= t

Init == \E t \in kept : t \in Nat /\ kept = {t}

\* A sample later than all before.
Retain == \E t \in kept' : t \in Nat /\ kept' = kept \cup {t} /\ \A u \in kept : u < t

\* Older samples make room.
Evict == kept' \subseteq kept /\ Newest(kept) \in kept'

Next == Retain \/ Evict

Spec == Init /\ [][Next]_kept

=============================================================================
