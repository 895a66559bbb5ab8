-------------------------- MODULE MCActionJournal --------------------------
(* Instances of ActionJournal for TLC. *)
EXTENDS ActionJournal

CONSTANTS irq, task, v1, v2

\* One plan of one process, a file or a task, the demo's host or the system's.
OnePlan == issued <= 1 /\ runs <= 1

\* Two plans and two processes: a file of the system's host, live recordings,
\* one change by another program; the task is left alone.
TwoProcesses ==
  /\ ~demoRun /\ ~shownDemo /\ foreign <= 1
  /\ val[task] = v1 /\ gen[task] = 0 /\ writer[task] = Nobody
  /\ \A plan \in {pending, work} \cup Entries(journal) :
       plan # NoPlan => plan.target = irq

BoundedInit == Init /\ (OnePlan \/ TwoProcesses)

BoundedNext == Next /\ (OnePlan \/ TwoProcesses)'

JournalSpec == BoundedInit /\ [][BoundedNext]_vars

=============================================================================
