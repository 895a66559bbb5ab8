----------------------------- MODULE MCDisplay -----------------------------
(* Instances of Display for TLC. *)
EXTENDS Display

Recorded(t, d) == [at |-> t, demo |-> d, from |-> "file"]

\* A recording of a live session, and one of the demo.
LiveTape == <<Recorded(1, FALSE), Recorded(3, FALSE)>>
DemoTape == <<Recorded(2, TRUE)>>

OneTape  == {LiveTape}
TwoTapes == {LiveTape, DemoTape}
NoTapes  == {}

=============================================================================
