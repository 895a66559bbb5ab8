------------------------------ MODULE Helpers ------------------------------
(***************************************************************************)
(* Helper commands run by the metadata workers (command.rs): at most       *)
(* Permits at once, each read without blocking, limited in time and output *)
(* and reaped.  A helper may fork children of its own that keep its pipes. *)
(***************************************************************************)
EXTENDS Naturals, FiniteSets

CONSTANTS
  Workers,       \* the threads that run helpers
  Permits       \* helpers that may run at once (2)

ASSUME HelpersAssumption == IsFiniteSet(Workers) /\ Permits \in Nat \ {0}

VARIABLES
  active,       \* ACTIVE
  at,           \* what each worker is at
  woken,        \* waiting workers that READY has notified
  helper,       \* each worker's helper: "none", "runs", "ended", "reaped"
  children      \* whether a child of it is left that keeps the pipes

helpersVars == <<active, at, woken, helper, children>>
-----------------------------------------------------------------------------
HelpersInit ==
  /\ active = 0 /\ woken = {}
  /\ at = [w \in Workers |-> "away"]
  /\ helper = [w \in Workers |-> "none"] /\ children = [w \in Workers |-> FALSE]

(* Takes a permit, or waits on the condition variable.                      *)
Acquire(w) ==
  /\ at[w] = "away" \/ (at[w] = "waits" /\ w \in woken)
  /\ woken' = woken \ {w}
  /\ IF active >= Permits
     THEN at' = [at EXCEPT ![w] = "waits"] /\ UNCHANGED active
     ELSE at' = [at EXCEPT ![w] = "spawns"] /\ active' = active + 1
  /\ UNCHANGED <<helper, children>>

(* Mutant: an error of spawn returns without the permit's drop.             *)
SpawnLeaks(w) ==
  /\ at[w] = "spawns"
  /\ \/ /\ helper' = [helper EXCEPT ![w] = "runs"]
        /\ at' = [at EXCEPT ![w] = "reads"]
     \/ at' = [at EXCEPT ![w] = "away"] /\ UNCHANGED helper
  /\ UNCHANGED <<active, woken, children>>

(* spawn; an error leaves the function, which drops the permit.             *)
Spawn(w) ==
  /\ at[w] = "spawns"
  /\ \/ /\ helper' = [helper EXCEPT ![w] = "runs"]
        /\ at' = [at EXCEPT ![w] = "reads"]
     \/ at' = [at EXCEPT ![w] = "drops"] /\ UNCHANGED helper
  /\ UNCHANGED <<active, woken, children>>

(* The helper, on its own: forks, ends; a child of it ends.                 *)
HelperForks(w) ==
  /\ helper[w] = "runs" /\ ~children[w]
  /\ children' = [children EXCEPT ![w] = TRUE] /\ UNCHANGED <<active, at, woken, helper>>
HelperEnds(w) ==
  /\ helper[w] = "runs"
  /\ helper' = [helper EXCEPT ![w] = "ended"] /\ UNCHANGED <<active, at, woken, children>>
ChildEnds(w) ==
  /\ children[w]
  /\ children' = [children EXCEPT ![w] = FALSE] /\ UNCHANGED <<active, at, woken, helper>>

(* The loop ends when the helper has ended and nothing holds its pipes.     *)
ReadEnds(w) ==
  /\ at[w] = "reads" /\ helper[w] = "ended" /\ ~children[w]
  /\ at' = [at EXCEPT ![w] = "waits for exit"]
  /\ UNCHANGED <<active, woken, helper, children>>

(* Mutant: the helper alone is killed.                                      *)
KillOne(w) ==
  /\ at[w] = "reads"
  /\ at' = [at EXCEPT ![w] = "waits for exit"]
  /\ helper' = [helper EXCEPT ![w] = "ended"]
  /\ UNCHANGED <<active, woken, children>>

(* Out of time, too much output, or a read failed: the whole process group  *)
(* is killed.                                                               *)
Kill(w) ==
  /\ at[w] = "reads"
  /\ at' = [at EXCEPT ![w] = "waits for exit"]
  /\ helper' = [helper EXCEPT ![w] = "ended"] /\ children' = [children EXCEPT ![w] = FALSE]
  /\ UNCHANGED <<active, woken>>

Reap(w) ==
  /\ at[w] = "waits for exit" /\ helper[w] = "ended"
  /\ helper' = [helper EXCEPT ![w] = "reaped"]
  /\ at' = [at EXCEPT ![w] = "drops"]
  /\ UNCHANGED <<active, woken, children>>

(* Mutant: nobody is notified of the permit.                                *)
Drop1Silent(w) ==
  /\ at[w] = "drops"
  /\ active' = active - 1 /\ at' = [at EXCEPT ![w] = "away"]
  /\ helper' = [helper EXCEPT ![w] = "none"]
  /\ UNCHANGED <<woken, children>>

(* The permit is dropped: the count goes down, then one waiter is notified. *)
Drop1(w) ==
  /\ at[w] = "drops"
  /\ active' = active - 1 /\ at' = [at EXCEPT ![w] = "notifies"]
  /\ helper' = [helper EXCEPT ![w] = "none"]
  /\ UNCHANGED <<woken, children>>

Notify(w) ==
  /\ at[w] = "notifies"
  /\ LET waiting == {v \in Workers : at[v] = "waits"} \ woken IN
     \/ waiting = {} /\ UNCHANGED woken
     \/ \E v \in waiting : woken' = woken \cup {v}
  /\ at' = [at EXCEPT ![w] = "away"]
  /\ UNCHANGED <<active, helper, children>>

Runs(w) == Spawn(w) \/ ReadEnds(w) \/ Kill(w) \/ Reap(w) \/ Drop1(w) \/ Notify(w)

HelpersNext ==
  \E w \in Workers :
    Acquire(w) \/ Runs(w) \/ HelperForks(w) \/ HelperEnds(w) \/ ChildEnds(w)
-----------------------------------------------------------------------------
(* Never more helpers than permits, counting those of a worker that is      *)
(* killing or reaping one; and no permit is lost by an error or a kill.     *)
PermitsAreCounted ==
  /\ active = Cardinality({w \in Workers : at[w] \in {"spawns", "reads", "waits for exit", "drops"}})
  /\ Cardinality({w \in Workers : helper[w] # "none"}) <= Permits

(* A helper that is given up leaves neither a zombie nor a child behind.    *)
NothingIsLeftRunning ==
  \A w \in Workers : at[w] \in {"drops", "notifies", "away"} =>
    helper[w] \in {"none", "reaped"} /\ ~children[w]

(* No notification is lost between the count and the wait, also when a      *)
(* newcomer takes the permit first: while somebody waits who was not        *)
(* notified, every free permit has a waiter on its way to it or a worker    *)
(* that will notify one.                                                    *)
NoWakeupIsLost ==
  {w \in Workers : at[w] = "waits"} \subseteq woken
    \/ Permits - active <= Cardinality(woken) + Cardinality({w \in Workers : at[w] = "notifies"})

(* Helpers are bounded, leave nothing behind, and whoever waits for a       *)
(* permit gets one that is free.                                            *)
HelpersAreBounded == PermitsAreCounted /\ NothingIsLeftRunning /\ NoWakeupIsLost
=============================================================================
