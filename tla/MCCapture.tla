------------------------------ MODULE MCCapture ------------------------------
(* Instances for TLC of what a capture measures and what is shown of it: the *)
(* scheduler's correlation, the names of stacks, the BPF programs and the    *)
(* display.  They share no state, so a behaviour is of one of them, with the *)
(* others at their start.                                                    *)
EXTENDS TraceCapture, MCDisplay, BpfPrograms, Symbols

CONSTANTS p1, p2

VARIABLE part

captureVars == <<part, vars, displayVars, bpfVars, symbolsVars>>

\* Tasks and processes are only compared.
CaptureSymmetry == Permutations(Pids)

CaptureInit ==
  /\ part \in {"trace", "display", "programs", "symbols"}
  /\ Init /\ DisplayInit /\ BpfInit /\ SymbolsInit
  /\ part # "display" => ~demo /\ replay = <<>>
  /\ part # "trace" => running = [x \in CPUs |-> Swapper]
                       /\ \A p \in Pids : state[p] = "none"
  /\ part # "symbols" => file["host"] = 1 /\ \A p \in ProfiledPids : processes[p].root = "host"

CaptureNext ==
  /\ UNCHANGED part
  /\ IF part = "trace" THEN Next ELSE UNCHANGED vars
  /\ IF part = "display" THEN DisplayNext ELSE UNCHANGED displayVars
  /\ IF part = "programs" THEN BpfNext ELSE UNCHANGED bpfVars
  /\ IF part = "symbols" THEN SymbolsNext ELSE UNCHANGED symbolsVars

CaptureSpec == CaptureInit /\ [][CaptureNext]_captureVars

=============================================================================
