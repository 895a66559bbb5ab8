------------------------------ MODULE TaskRows ------------------------------
(***************************************************************************)
(* The task rows of a sample (the task part of Enricher::enrich): the      *)
(* counters of the sample before, how long a task has been blocked, and    *)
(* the caches of its status and cgroup, all kept per PID and start time.   *)
(*                                                                         *)
(* One PID.  A row is read in two steps, its stat and then its status and  *)
(* cgroup, between which the PID may be reused; a sample may also fail to  *)
(* read it.  Samples are a second apart, and so is the clock of the model. *)
(***************************************************************************)
EXTENDS Integers, Functions

CONSTANTS
  StatusPeriod,   \* age at which a status is read again (5 seconds)
  DemandPeriod,   \* the same for a task whose metadata is demanded (1 second)
  CgroupPeriod,   \* age at which a cgroup path is read again (5 seconds)
  MaxTime,        \* bound: samples
  MaxTasks,       \* bound: tasks that have the PID
  MaxMoves        \* bound: changes of a task's affinity or cgroup

ASSUME TaskRowsAssumption ==
  /\ StatusPeriod \in Nat \ {0} /\ DemandPeriod \in 1..StatusPeriod /\ CgroupPeriod \in Nat \ {0}
  /\ MaxTime \in Nat /\ MaxTasks \in Nat \ {0} /\ MaxMoves \in Nat

VARIABLES
  time,       \* of the sample, t.at_ms
  task,       \* the task that has the PID; its state; moves so far
  stat,       \* stat read of this sample: <<>>, or <<task, state>>
  row,        \* the row of the newest sample, <<>> when it has none
  taskPrevious,   \* task_previous: of the last sample, per task
  statuses,   \* per task: when its status was read, and what it said
  cgroups,    \* per task: when its cgroup was read, and what it said
  series,     \* tasks with a runtime history
  blocked     \* per task: samples of an unbroken run seen in D (history)

taskRowsVars == <<time, task, stat, row, taskPrevious, statuses, cgroups, series, blocked>>

Facts == [of |-> task.id, move |-> task.moves]

(* After a sample only its own task is kept, of all with this PID.          *)
Only(key, entry) == [k \in {key} |-> entry]
-----------------------------------------------------------------------------
TaskRowsInit ==
  /\ time = 1 /\ task = [id |-> 1, state |-> "S", moves |-> 0]
  /\ stat = <<>> /\ row = <<>>
  /\ taskPrevious = <<>> /\ statuses = <<>> /\ cgroups = <<>> /\ series = {} /\ blocked = <<>>

(* The task blocks or wakes; it is moved; it exits and its PID is reused.   *)
TaskChanges ==
  /\ \/ task' = [task EXCEPT !.state = IF @ = "D" THEN "S" ELSE "D"]
     \/ task.moves < MaxMoves /\ task' = [task EXCEPT !.moves = @ + 1]
     \/ task.id < MaxTasks /\ task' = [id |-> task.id + 1, state |-> "S", moves |-> 0]
  /\ UNCHANGED <<time, stat, row, taskPrevious, statuses, cgroups, series, blocked>>

(* /proc/PID/stat, which has the start time.                                *)
ReadStat ==
  /\ time < MaxTime /\ stat = <<>>
  /\ stat' = <<[id |-> task.id, state |-> task.state]>>
  /\ UNCHANGED <<time, task, row, taskPrevious, statuses, cgroups, series, blocked>>

(* The rest of the row: when the last one it is computed from is of the     *)
(* sample before, rates, faults and growth; the first sample of an unbroken *)
(* run in D; status and cgroup, read again when old.                        *)
Aged(cache, key, period) == key \notin DOMAIN cache \/ time - cache[key].at >= period

(* Mutant: what is cached is looked up by the PID alone.                    *)
CachedByPid(cache, key, period) ==
  IF cache = <<>> \/ \E k \in DOMAIN cache : Aged(cache, k, period)
  THEN [at |-> time, fact |-> Facts]
  ELSE CHOOSE entry \in Range(cache) : TRUE

Cached(cache, key, period) ==
  IF Aged(cache, key, period) THEN [at |-> time, fact |-> Facts] ELSE cache[key]

(* Mutant: waking up does not end the run.                                  *)
BlockedSinceOnce(key, state) ==
  IF key \in DOMAIN taskPrevious /\ taskPrevious[key].since > 0
  THEN taskPrevious[key].since
  ELSE IF state = "D" THEN time ELSE 0

BlockedSince(key, state) ==
  IF state # "D" THEN 0
  ELSE IF key \in DOMAIN taskPrevious /\ taskPrevious[key].since > 0
       THEN taskPrevious[key].since ELSE time

FinishRow(demanded) ==
  /\ stat # <<>>
  /\ LET key == stat[1].id
         since == BlockedSince(key, stat[1].state)
         read == Cached(statuses, key, IF demanded THEN DemandPeriod ELSE StatusPeriod)
         kept == Cached(cgroups, key, CgroupPeriod)
         fresh == Aged(statuses, key, IF demanded THEN DemandPeriod ELSE StatusPeriod)
     IN  /\ row' = <<[id |-> key, since |-> since,
                      rate |-> IF key \in DOMAIN taskPrevious THEN taskPrevious[key] ELSE <<>>,
                      switches |-> IF fresh /\ key \in DOMAIN statuses THEN statuses[key] ELSE <<>>,
                      status |-> read.fact, cgroup |-> kept.fact]>>
         /\ taskPrevious' = Only(key, [id |-> key, at |-> time, since |-> since])
         /\ statuses' = Only(key, read) /\ cgroups' = Only(key, kept)
         /\ series' = {key}
         /\ blocked' = Only(key, IF stat[1].state # "D" THEN {}
                                ELSE {time} \cup IF key \in DOMAIN blocked THEN blocked[key] ELSE {})
  /\ stat' = <<>> /\ time' = time + 1
  /\ UNCHANGED task

(* Mutant: the counters of the sample before are kept.                      *)
MissRowKept ==
  /\ time < MaxTime
  /\ row' = <<>> /\ statuses' = <<>> /\ cgroups' = <<>>
  /\ series' = {} /\ blocked' = <<>>
  /\ stat' = <<>> /\ time' = time + 1
  /\ UNCHANGED <<task, taskPrevious>>

(* The task could not be read in this sample: nothing of it is kept.        *)
MissRow ==
  /\ time < MaxTime
  /\ row' = <<>> /\ taskPrevious' = <<>> /\ statuses' = <<>> /\ cgroups' = <<>>
  /\ series' = {} /\ blocked' = <<>>
  /\ stat' = <<>> /\ time' = time + 1
  /\ UNCHANGED task

TaskRowsNext ==
  \/ TaskChanges
  \/ ReadStat
  \/ \E demanded \in BOOLEAN : FinishRow(demanded)
  \/ MissRow
-----------------------------------------------------------------------------
(* A row never shows what an earlier task of its PID left: status, cgroup   *)
(* and the counters of its rates are its own (a task that took the PID      *)
(* while the row was read may show through until the next sample).          *)
RowIsNotInherited ==
  \A r \in Range(row) :
    /\ r.status.of >= r.id /\ r.cgroup.of >= r.id
    /\ r.rate # <<>> => r.rate.id = r.id
    /\ r.switches # <<>> => r.switches.fact.of >= r.id

(* Rates that are divided by the time since the sample before are of that   *)
(* sample, whatever samples could not be read.                              *)
RateSpansItsInterval ==
  \A r \in Range(row) : r.rate # <<>> => r.rate.at = time - 2

(* A task is shown as blocked for as long as every sample has seen it so.   *)
BlockedWasSeen ==
  \A r \in Range(row) :
    r.since > 0 => blocked[r.id] = r.since..time - 1 /\ r.since \notin {0, time}

(* What a row shows was observed of its task, over the time it is given for. *)
RowsAreOwn == RowIsNotInherited /\ RateSpansItsInterval /\ BlockedWasSeen
=============================================================================
