---------------------------- MODULE MCTelemetry ----------------------------
(* Instances for TLC of what is collected and shown of the host: the        *)
(* timeline, the versions of a series, task rows, the inventory, kernel     *)
(* logs, the pairing of events, the rows of a view and the frames of a      *)
(* profile.  They share no state, so a behaviour is of one of them, with    *)
(* the others at their start.                                               *)
EXTENDS Timeline, SampleChunks, TaskRows, Inventory, KernelLogs, Pairing, Browse, FlameView

CONSTANTS none, cpu, t, u, r1, r2

VARIABLE part

telemetryVars == <<part, vars, chunksVars, taskRowsVars, inventoryVars, logsVars, pairingVars,
                   browseVars, flameVars>>

\* No capture yet, and a capture's profile.
ProfileSizes == (none :> 0) @@ (cpu :> 3)

\* Frames of one or two units; or of one that does not fit the budget at all.
QuietAndBusy == {{1, 2}, {1, 12}}

\* Threads are only compared.
PairingSymmetry == Permutations(Threads)

\* Of the inventory's subjects one changes in a behaviour.
Started == {s \in {"device", "group", "module", "irq"} :
  CASE s = "device" -> device # [id |-> 1, count |-> 0] \/ graph["device"] # {}
    [] s = "group"  -> \/ ceiling # <<>> \/ group["parent"].limit # 2
                       \/ \E g \in Group : group[g].id > 1
    [] s = "module" -> slow_at # -1 \/ module
    [] s = "irq"    -> affinity # <<>> \/ irq # [cpu |-> 0, count |-> 0]}

TelemetryInit ==
  /\ part \in {"timeline", "chunks", "tasks", "inventory", "logs", "spans", "requests",
               "browse", "flame"}
  /\ Init /\ ChunksInit /\ TaskRowsInit /\ InventoryInit /\ LogsInit /\ PairingInit
  /\ BrowseInit /\ FlameInit
  /\ part # "timeline" => frames[1].size = 1 /\ frames[1].profile = none /\ 2 \in sizes
  /\ part # "spans" => inside = None(Slots)
  /\ part # "browse" => tab = Tasks

\* Spans and requests meet only in the ring, and are checked one at a time. The
\* first three programs see spans, the others requests: nothing else happens
\* while those that do not matter are attached, and little before. One event
\* is dropped at most. Four things happen to the rows, samples and keys together.
TelemetryNext ==
  /\ UNCHANGED part
  /\ IF part = "timeline" THEN Next ELSE UNCHANGED vars
  /\ IF part = "chunks" THEN ChunksNext ELSE UNCHANGED chunksVars
  /\ IF part = "tasks" THEN TaskRowsNext ELSE UNCHANGED taskRowsVars
  /\ IF part = "inventory"
     THEN InventoryNext /\ (Cardinality(Started) <= 1)'
     ELSE UNCHANGED inventoryVars
  /\ IF part = "logs" THEN LogsNext ELSE UNCHANGED logsVars
  /\ CASE part = "spans"    -> /\ PairingNext /\ issued' = issued
                               /\ attached \in 3..5 => attached' = attached + 1
                               /\ attached < 3 => ticks' <= 1
                               /\ losses' <= 1
       [] part = "requests" -> /\ PairingNext /\ inside' = inside /\ alive' = alive
                               /\ losses' <= 1
                               /\ attached < 3 => attached' = attached + 1
       [] OTHER             -> UNCHANGED pairingVars
  /\ IF part = "browse"
     THEN refreshes + keys < 4 /\ BrowseNext
     ELSE UNCHANGED browseVars
  /\ IF part = "flame" THEN FlameNext ELSE UNCHANGED flameVars

TelemetrySpec == TelemetryInit /\ [][TelemetryNext]_telemetryVars

=============================================================================
