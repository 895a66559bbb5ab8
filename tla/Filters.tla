------------------------------ MODULE Filters ------------------------------
(***************************************************************************)
(* What the collectors select from a sequence with filter and retain.      *)
(***************************************************************************)
EXTENDS Naturals, Sequences

\* The elements of s that are in S, in their order: SelectSeq, of a set, as a
\* function of how much of s has been looked at.
Filtered(s, S) ==
  LET kept[i \in 0..Len(s)] ==
        IF i = 0 THEN <<>>
        ELSE IF s[i] \in S THEN Append(kept[i - 1], s[i]) ELSE kept[i - 1]
  IN  kept[Len(s)]

=============================================================================
