-------------------------- MODULE TelemetryProofs --------------------------
(***************************************************************************)
(* Theorems about what is collected of the host: the timeline of samples,  *)
(* for any limits, costs and number of samples; the rows of tasks, for any *)
(* tasks that take a PID; the inventory, for any devices, cgroups, modules *)
(* and IRQs that change; the records of the kernel's logs, for any ring,   *)
(* reads and limit of what is kept; the pairs of events, for any threads,  *)
(* handlers and requests, and any size of the ring and the maps; and the   *)
(* versions of a series, for any holders and any size of chunk and series. *)
(***************************************************************************)
EXTENDS Timeline, TaskRows, Inventory, KernelLogs, Pairing, SampleChunks, DataLemmas,
  SequenceTheorems

\* Sequences of none or one.
LEMMA One ==
  ASSUME NEW v
  PROVE  Range(<<v>>) = {v} /\ Range(<< >>) = {} /\ <<v>> # << >> /\ <<v>>[1] = v
         /\ DOMAIN << >> = {}
  BY DEF Range

-----------------------------------------------------------------------------
(* Task rows.  What is kept per task of the sample before is of that task  *)
(* and that sample, or it is not there.                                    *)

TaskRowsSpec == TaskRowsInit /\ [][TaskRowsNext]_taskRowsVars

TimesInv ==
  /\ time \in Nat \ {0} /\ task.id \in Nat
  /\ task = [id |-> task.id, state |-> task.state, moves |-> task.moves]
  /\ stat # << >> => \E i \in 0..task.id : \E s : stat = <<[id |-> i, state |-> s]>>

\* What a cache has of a task was read when it had the PID, or later.
Cache(cache) ==
  \A k \in DOMAIN cache : cache[k].fact.of \in Nat /\ cache[k].fact.of >= k

\* The run of samples a task was seen blocked in.
Run(since) == IF since > 0 THEN since..time - 1 ELSE {}

PreviousInv ==
  /\ DOMAIN blocked = DOMAIN taskPrevious
  /\ \A k \in DOMAIN taskPrevious :
       \E s \in 0..time - 1 :
         taskPrevious[k] = [id |-> k, at |-> time - 1, since |-> s] /\ blocked[k] = Run(s)

TaskRowsInv == TimesInv /\ Cache(statuses) /\ Cache(cgroups) /\ PreviousInv /\ RowsAreOwn

\* A cache that was asked for a task has an entry of it, new or kept.
LEMMA CachedEntry ==
  ASSUME Cache(statuses), Cache(cgroups), TimesInv,
         NEW key \in 0..task.id, NEW cache \in {statuses, cgroups}, NEW period
  PROVE  LET read == Cached(cache, key, period)
         IN  read.fact.of \in Nat /\ read.fact.of >= key
  <1>1. CASE Aged(cache, key, period)
    <2>1. Cached(cache, key, period) = [at |-> time, fact |-> Facts]
      BY <1>1 DEF Cached
    <2>2. Facts.of = task.id /\ task.id \in Nat /\ task.id >= key
      BY DEF Facts, TimesInv
    <2> QED BY <2>1, <2>2
  <1>2. CASE ~Aged(cache, key, period)
    BY <1>2 DEF Cached, Aged, Cache
  <1> QED BY <1>1, <1>2

\* A row that is read.
LEMMA FinishRowStep ==
  ASSUME TaskRowsInv, NEW demanded \in BOOLEAN, FinishRow(demanded)
  PROVE  TaskRowsInv'
  <1> DEFINE key == stat[1].id
             st == stat[1].state
             period == IF demanded THEN DemandPeriod ELSE StatusPeriod
             since == BlockedSince(key, st)
             read == Cached(statuses, key, period)
             kept == Cached(cgroups, key, CgroupPeriod)
             fresh == Aged(statuses, key, period)
             rate == IF key \in DOMAIN taskPrevious THEN taskPrevious[key] ELSE << >>
             switches == IF fresh /\ key \in DOMAIN statuses THEN statuses[key] ELSE << >>
             run == IF st # "D" THEN {}
                    ELSE {time} \cup IF key \in DOMAIN blocked THEN blocked[key] ELSE {}
             r == [id |-> key, since |-> since, rate |-> rate, switches |-> switches,
                   status |-> read.fact, cgroup |-> kept.fact]
  <1>0. TimesInv /\ Cache(statuses) /\ Cache(cgroups) /\ PreviousInv /\ stat # << >>
    BY DEF TaskRowsInv, FinishRow
  <1>1. /\ row' = <<r>> /\ time' = time + 1 /\ task' = task /\ stat' = << >>
        /\ taskPrevious' = Only(key, [id |-> key, at |-> time, since |-> since])
        /\ statuses' = Only(key, read) /\ cgroups' = Only(key, kept)
        /\ blocked' = Only(key, run)
    BY DEF FinishRow
  <1>2. key \in 0..task.id /\ task.id \in Nat /\ time \in Nat \ {0}
    BY <1>0, One DEF TimesInv
  <1>3. /\ read.fact.of \in Nat /\ read.fact.of >= key
        /\ kept.fact.of \in Nat /\ kept.fact.of >= key
    BY <1>0, <1>2, CachedEntry
  <1>4. switches # << >> => switches.fact.of >= key
    BY <1>0 DEF Cache
  <1>5. rate # << >> => rate.id = key /\ rate.at = time - 1
    BY <1>0 DEF PreviousInv
  <1>6. /\ since \in 0..time
        /\ run = IF since > 0 THEN since..time ELSE {}
    <2>1. CASE st # "D"
      BY <1>2, <2>1 DEF BlockedSince
    <2>2. CASE st = "D" /\ key \in DOMAIN taskPrevious
      <3>1. PICK s \in 0..time - 1 :
              taskPrevious[key] = [id |-> key, at |-> time - 1, since |-> s] /\ blocked[key] = Run(s)
        BY <1>0, <2>2 DEF PreviousInv
      <3>2. run = {time} \cup Run(s)
        BY <1>0, <2>2, <3>1 DEF PreviousInv
      <3>3. since = IF s > 0 THEN s ELSE time
        BY <2>2, <3>1 DEF BlockedSince
      <3>4. s > 0 => {time} \cup (s..time - 1) = s..time
        BY <1>2
      <3>5. {time} = time..time
        BY <1>2
      <3> HIDE DEF since, run, key, st
      <3> QED BY <1>2, <3>2, <3>3, <3>4, <3>5 DEF Run
    <2>3. CASE st = "D" /\ key \notin DOMAIN taskPrevious
      <3>1. run = {time} /\ since = time
        BY <1>0, <2>3 DEF PreviousInv, BlockedSince
      <3>2. {time} = time..time
        BY <1>2
      <3> HIDE DEF since, run, key, st
      <3> QED BY <1>2, <3>1, <3>2
    <2> QED BY <2>1, <2>2, <2>3
  <1> HIDE DEF key, st, period, since, read, kept, fresh, rate, switches, run
  <1>7. time + 1 \in Nat \ {0} /\ time + 1 - 1 = time /\ time + 1 - 2 = time - 1
    BY <1>2
  <1>8. TimesInv'
    BY <1>0, <1>1, <1>7 DEF TimesInv
  <1>9. Cache(statuses') /\ Cache(cgroups')
    BY <1>1, <1>3 DEF Cache, Only
  <1>10. PreviousInv'
    <2>1. /\ DOMAIN taskPrevious' = {key} /\ DOMAIN blocked' = {key}
          /\ taskPrevious'[key] = [id |-> key, at |-> time, since |-> since]
          /\ blocked'[key] = run
      BY <1>1 DEF Only
    <2> DEFINE later == time'
    <2>2. later = time + 1
      BY <1>1
    <2> HIDE DEF later
    <2>3. since \in 0..later - 1 /\ time = later - 1 /\ run = IF since > 0 THEN since..later - 1 ELSE {}
      BY <1>2, <1>6, <2>2
    <2> QED BY <2>1, <2>3 DEF PreviousInv, Run, later
  <1>11. RowsAreOwn'
    <2>1. Range(row') = {r}
      BY <1>1, One
    <2>2. /\ r.id = key /\ r.since = since /\ r.rate = rate /\ r.switches = switches
          /\ r.status = read.fact /\ r.cgroup = kept.fact
      OBVIOUS
    <2> HIDE DEF r
    <2>3. RowIsNotInherited'
      BY <1>3, <1>4, <1>5, <2>1, <2>2 DEF RowIsNotInherited
    <2>4. RateSpansItsInterval'
      <3> DEFINE later == time'
      <3>1. later = time + 1
        BY <1>1
      <3> HIDE DEF later
      <3>2. rate # << >> => rate.at = later - 2
        BY <1>2, <1>5, <3>1
      <3> QED BY <2>1, <2>2, <3>2 DEF RateSpansItsInterval, later
    <2>5. blocked'[key] = run
      BY <1>1 DEF Only
    <2>8. BlockedWasSeen'
      <3> DEFINE later == time'
      <3>1. later = time + 1
        BY <1>1
      <3> HIDE DEF later
      <3>2. since > 0 => run = since..later - 1 /\ since \notin {0, later}
        BY <1>2, <1>6, <3>1
      <3> QED BY <2>1, <2>2, <2>5, <3>2 DEF BlockedWasSeen, later
    <2> QED BY <2>3, <2>4, <2>8 DEF RowsAreOwn
  <1> QED BY <1>8, <1>9, <1>10, <1>11 DEF TaskRowsInv, Cache

\* The other steps: the task or the PID changes, its stat is read, the sample
\* misses it.
LEMMA OtherRowSteps ==
  ASSUME TaskRowsInv, TaskChanges \/ ReadStat \/ MissRow \/ UNCHANGED taskRowsVars
  PROVE  TaskRowsInv'
  <1>0. TimesInv /\ Cache(statuses) /\ Cache(cgroups) /\ PreviousInv /\ RowsAreOwn
    BY DEF TaskRowsInv
  <1>1. CASE TaskChanges
    <2>1. /\ UNCHANGED <<time, stat, row, taskPrevious, statuses, cgroups, series, blocked>>
          /\ task' = [id |-> task'.id, state |-> task'.state, moves |-> task'.moves]
          /\ task'.id \in {task.id, task.id + 1}
      BY <1>0, <1>1 DEF TaskChanges, TimesInv
    <2>2. task'.id \in Nat /\ 0..task.id \subseteq 0..task'.id
      <3>1. 0..task.id \subseteq 0..(task.id + 1) /\ task.id \in Nat /\ task.id + 1 \in Nat
        BY <1>0 DEF TimesInv
      <3> QED BY <2>1, <3>1
    <2>3. TimesInv'
      BY <1>0, <2>1, <2>2 DEF TimesInv
    <2> QED BY <1>0, <2>1, <2>3 DEF TaskRowsInv, Cache, PreviousInv, Run, RowsAreOwn,
            RowIsNotInherited, RateSpansItsInterval, BlockedWasSeen
  <1>2. CASE ReadStat
    <2>1. TimesInv'
      <3>1. /\ stat' = <<[id |-> task.id, state |-> task.state]>> /\ UNCHANGED <<time, task>>
            /\ task.id \in 0..task.id
        BY <1>0, <1>2 DEF ReadStat, TimesInv
      <3> QED BY <1>0, <3>1 DEF TimesInv
    <2> QED BY <1>0, <1>2, <2>1 DEF ReadStat, TaskRowsInv, Cache, PreviousInv, Run, RowsAreOwn,
            RowIsNotInherited, RateSpansItsInterval, BlockedWasSeen
  <1>3. CASE MissRow
    <2>1. TimesInv'
      BY <1>0, <1>3 DEF MissRow, TimesInv
    <2>2. /\ taskPrevious' = << >> /\ statuses' = << >> /\ cgroups' = << >> /\ blocked' = << >>
          /\ row' = << >>
      BY <1>3 DEF MissRow
    <2> QED BY <2>1, <2>2, One DEF TaskRowsInv, Cache, PreviousInv, RowsAreOwn,
            RowIsNotInherited, RateSpansItsInterval, BlockedWasSeen
  <1>4. CASE UNCHANGED taskRowsVars
    BY <1>0, <1>4 DEF taskRowsVars, TaskRowsInv, TimesInv, Cache, PreviousInv, Run, RowsAreOwn,
       RowIsNotInherited, RateSpansItsInterval, BlockedWasSeen
  <1> QED BY <1>1, <1>2, <1>3, <1>4

\* Whatever a task's row shows was read of that task or of a later one with its
\* PID, its rates span the sample interval and its blocked time the samples that
\* saw it so (task_previous and the caches of Enricher::enrich).
THEOREM RowsCorrect == TaskRowsSpec => []RowsAreOwn
  <1>1. TaskRowsInit => TaskRowsInv
    <2> SUFFICES ASSUME TaskRowsInit PROVE TaskRowsInv
      OBVIOUS
    <2>1. TimesInv
      BY DEF TaskRowsInit, TimesInv
    <2>2. row = << >> /\ DOMAIN taskPrevious = {} /\ DOMAIN statuses = {} /\ DOMAIN cgroups = {}
          /\ DOMAIN blocked = {}
      BY One DEF TaskRowsInit
    <2>3. RowsAreOwn
      BY <2>2, One DEF RowsAreOwn, RowIsNotInherited, RateSpansItsInterval, BlockedWasSeen
    <2> QED BY <2>1, <2>2, <2>3 DEF TaskRowsInv, Cache, PreviousInv
  <1>2. TaskRowsInv /\ [TaskRowsNext]_taskRowsVars => TaskRowsInv'
    BY FinishRowStep, OtherRowSteps DEF TaskRowsNext
  <1>3. TaskRowsInv => RowsAreOwn
    BY DEF TaskRowsInv
  <1> QED BY <1>1, <1>2, <1>3, PTL DEF TaskRowsSpec

-----------------------------------------------------------------------------
(* The inventory.  A reading is remembered under its subject's number, a    *)
(* limit with the identity of its cgroup, and what an event is compared     *)
(* with was seen when the event says.                                      *)

InventorySpec == InventoryInit /\ [][InventoryNext]_inventoryVars

Reading == [id : Nat, at : Nat, count : Nat]

HostInv ==
  /\ clock \in Nat
  /\ device \in [id : Nat, count : Nat]
  /\ group \in [Group -> [id : Nat, limit : Nat]]
  /\ module \in BOOLEAN
  /\ irq \in [cpu : Int, count : Nat]
  /\ changed \in [{"module", "irq"} -> 0..clock]

\* A key names a subject, and what is under it is of that subject.
CountersInv ==
  /\ \A k \in DOMAIN previous : previous[k] \in Reading /\ previous[k].id = k[2]
  /\ DOMAIN rates = {"device", "child", "irq"}
  /\ RateIsOfOneSubject

\* A device's graphs are those of the last one that was polled, n, which is the
\* last one remembered.
GraphInv ==
  /\ DOMAIN graph = {"device", "child"}
  /\ \E n \in 0..device.id :
       /\ graph["device"] \subseteq {n}
       /\ \A k \in DOMAIN previous : k[1] = "device" => k[2] <= n

ConfigInv ==
  /\ \A g \in DOMAIN config : g \in DOMAIN identities /\ config[g].id = identities[g]
  /\ CeilingIsOwn

AffinityInv ==
  affinity # << >> =>
    \E c, a : affinity = <<[cpu |-> c, at |-> a]>> /\ a \in 0..clock
             /\ (c # irq.cpu => changed["irq"] >= a)

ModulesInv ==
  modules # << >> =>
    \E m : modules = <<m>> /\ succeeded \in 0..clock
          /\ (m # module => changed["module"] >= succeeded)

EventsInv ==
  /\ DOMAIN events = {"module", "irq"}
  /\ \A e \in Range(events["irq"]) : e.from \in 0..clock
  /\ \A e \in Range(events["module"]) : e.since \in 0..clock
  /\ ChangesAreBracketed

InventoryInv ==
  HostInv /\ CountersInv /\ GraphInv /\ ConfigInv /\ AffinityInv /\ ModulesInv /\ EventsInv

LEMMA InventoryStart == InventoryInit => InventoryInv
  <1> SUFFICES ASSUME InventoryInit PROVE InventoryInv
    OBVIOUS
  <1> USE DEF InventoryInit
  <1>1. HostInv
    <2>1. clock = 0 /\ 0 \in 0..clock /\ Unlimited \in Nat
      BY DEF Unlimited
    <2>2. \A g \in Group : [id |-> 1, limit |-> IF g = "child" THEN Unlimited ELSE 2]
                          \in [id : Nat, limit : Nat]
      BY <2>1
    <2>3. group \in [Group -> [id : Nat, limit : Nat]]
      BY <2>2
    <2>4. changed \in [{"module", "irq"} -> 0..clock]
      BY <2>1
    <2>5. device \in [id : Nat, count : Nat] /\ irq \in [cpu : Int, count : Nat]
      OBVIOUS
    <2>6. module \in BOOLEAN
      OBVIOUS
    <2> QED BY <2>1, <2>3, <2>4, <2>5, <2>6 DEF HostInv
  <1>2. CountersInv
    BY One DEF CountersInv, RateIsOfOneSubject
  <1>3. GraphInv
    <2>1. 1 \in 0..device.id /\ graph["device"] = {} /\ DOMAIN graph = {"device", "child"}
      OBVIOUS
    <2> QED BY <2>1, One DEF GraphInv
  <1>4. ConfigInv
    BY One DEF ConfigInv, CeilingIsOwn
  <1>5. AffinityInv /\ ModulesInv
    BY DEF AffinityInv, ModulesInv
  <1>6. EventsInv
    BY One DEF EventsInv, ChangesAreBracketed
  <1> QED BY <1>1, <1>2, <1>3, <1>4, <1>5, <1>6 DEF InventoryInv

\* A reading under its key: the rate is of one subject, and what is remembered is.
LEMMA CountOf ==
  ASSUME CountersInv, HostInv, NEW reading \in Reading, NEW key, key[2] = reading.id
  PROVE  LET r == Rate(key, reading)
             p == Remembered(key, reading)
         IN  /\ r # << >> => /\ r[1].id = r[2].id /\ r[1].at < r[2].at
                            /\ r[1].count <= r[2].count
             /\ DOMAIN p \subseteq DOMAIN previous \cup {key}
             /\ \A k \in DOMAIN p : p[k] \in Reading /\ p[k].id = k[2]
  <1> DEFINE r == Rate(key, reading)
             all == [k \in DOMAIN previous \cup {key} |-> IF k = key THEN reading ELSE previous[k]]
             p == Remembered(key, reading)
  <1>1. \A k \in DOMAIN previous : previous[k] \in Reading /\ previous[k].id = k[2]
    BY DEF CountersInv
  <1>2. r # << >> => /\ r[1].id = r[2].id /\ r[1].at < r[2].at
                   /\ r[1].count <= r[2].count
    <2>1. ASSUME r # << >>
          PROVE  /\ key \in DOMAIN previous /\ r = <<previous[key], reading>>
                 /\ ~(previous[key].at >= reading.at) /\ ~(previous[key].count > reading.count)
      BY <2>1 DEF Rate
    <2> HIDE DEF r
    <2>2. ASSUME r # << >>
          PROVE  /\ r[1] = previous[key] /\ r[2] = reading
                 /\ previous[key] \in Reading /\ previous[key].id = reading.id
      BY <1>1, <2>1, <2>2
    <2> QED BY <2>1, <2>2 DEF Reading
  <1>3. p = Restrict(all, {k \in DOMAIN all : clock - all[k].at < Keep})
    BY DEF Remembered
  <1>4. \A k \in DOMAIN all : all[k] \in Reading /\ all[k].id = k[2]
    BY <1>1
  <1>5. DOMAIN all = DOMAIN previous \cup {key}
    OBVIOUS
  <1> HIDE DEF all
  <1>6. /\ DOMAIN p \subseteq DOMAIN previous \cup {key}
        /\ \A k \in DOMAIN p : p[k] \in Reading /\ p[k].id = k[2]
    BY <1>3, <1>4, <1>5 DEF Restrict
  <1> QED BY <1>2, <1>6

\* Changes of the host: its subjects get higher numbers, and what changes is
\* marked with the clock.
LEMMA HostChangesStep == InventoryInv /\ HostChanges => InventoryInv'
  <1> SUFFICES ASSUME InventoryInv, HostChanges PROVE InventoryInv'
    OBVIOUS
  <1>0. /\ HostInv /\ CountersInv /\ GraphInv /\ ConfigInv /\ AffinityInv /\ ModulesInv
        /\ EventsInv
    BY DEF InventoryInv
  <1>1. UNCHANGED <<clock, counterVars, configVars, moduleVars, affinity, events>>
    BY DEF HostChanges
  <1>2. clock \in Nat /\ clock \in 0..clock /\ changed \in [{"module", "irq"} -> 0..clock]
    BY <1>0 DEF HostInv
  <1>3. /\ device' \in [id : Nat, count : Nat]
        /\ device'.id \in {device.id, device.id + 1}
    BY <1>0 DEF HostInv, HostChanges
  <1>4. group' \in [Group -> [id : Nat, limit : Nat]]
    <2>1. Unlimited \in Nat
      BY DEF Unlimited
    <2>2. CASE group' = group
      BY <1>0, <2>2 DEF HostInv
    <2>3. ASSUME NEW l \in {1, 3, Unlimited}, group' = [group EXCEPT !["parent"].limit = l]
          PROVE  group' \in [Group -> [id : Nat, limit : Nat]]
      BY <1>0, <2>1, <2>3 DEF HostInv, Group
    <2>4. ASSUME NEW l \in {1, 3},
                 group' = [group EXCEPT !["child"] = [id |-> @.id + 1, limit |-> l]]
          PROVE  group' \in [Group -> [id : Nat, limit : Nat]]
      BY <1>0, <2>4 DEF HostInv, Group
    <2>5. CASE group' = [g \in Group |-> [id |-> group[g].id + 1, limit |-> Unlimited]]
      BY <1>0, <2>1, <2>5 DEF HostInv
    <2> QED BY <2>2, <2>3, <2>4, <2>5 DEF HostChanges
  <1>5. /\ changed' \in [{"module", "irq"} -> 0..clock]
        /\ changed'["irq"] \in {changed["irq"], clock}
        /\ changed'["module"] \in {changed["module"], clock}
        /\ irq'.cpu # irq.cpu => changed'["irq"] = clock
        /\ module' # module => changed'["module"] = clock
    BY <1>0, <1>2 DEF HostInv, HostChanges
  <1>6. irq' \in [cpu : Int, count : Nat]
    BY <1>0 DEF HostInv, HostChanges
  <1>7. module' \in BOOLEAN
    BY <1>0, Zenon DEF HostInv, HostChanges
  <1>8. HostInv'
    BY <1>1, <1>2, <1>3, <1>4, <1>5, <1>6, <1>7 DEF HostInv
  <1>9. GraphInv'
    <2>1. 0..device.id \subseteq 0..device'.id
      <3>1. device.id \in Nat /\ 0..device.id \subseteq 0..(device.id + 1)
        BY <1>0 DEF HostInv
      <3> QED BY <1>3, <3>1
    <2> QED BY <1>0, <1>1, <2>1 DEF GraphInv, counterVars
  <1>10. CountersInv' /\ ConfigInv'
    BY <1>0, <1>1 DEF CountersInv, RateIsOfOneSubject, ConfigInv, CeilingIsOwn, counterVars, configVars
  <1> DEFINE changedIrq == changed'["irq"]
             changedModule == changed'["module"]
  <1>11. /\ changedIrq \in 0..clock /\ changedIrq \in {changed["irq"], clock}
         /\ changedModule \in 0..clock /\ changedModule \in {changed["module"], clock}
         /\ irq'.cpu # irq.cpu => changedIrq = clock
         /\ module' # module => changedModule = clock
         /\ changed["irq"] \in 0..clock /\ changed["module"] \in 0..clock
    BY <1>2, <1>5
  <1> HIDE DEF changedIrq, changedModule
  <1>12. AffinityInv'
    <2>1. ASSUME NEW c, NEW a \in 0..clock, c # irq.cpu => changed["irq"] >= a
          PROVE  c # irq'.cpu => changedIrq >= a
      BY <1>2, <1>11, <2>1
    <2> QED BY <1>0, <1>1, <2>1 DEF AffinityInv, changedIrq
  <1>13. ModulesInv'
    <2>1. ASSUME NEW m, succeeded \in 0..clock, m # module => changed["module"] >= succeeded
          PROVE  m # module' => changedModule >= succeeded
      BY <1>2, <1>11, <2>1
    <2> QED BY <1>0, <1>1, <2>1 DEF ModulesInv, changedModule, moduleVars
  <1>14. EventsInv'
    <2>1. ASSUME NEW e \in Range(events["irq"]) PROVE changedIrq >= e.from
      <3>1. e.from \in 0..clock /\ changed["irq"] >= e.from
        BY <1>0, <2>1 DEF EventsInv, ChangesAreBracketed
      <3> QED BY <1>2, <1>11, <3>1
    <2>2. ASSUME NEW e \in Range(events["module"]) PROVE changedModule >= e.since
      <3>1. e.since \in 0..clock /\ changed["module"] >= e.since
        BY <1>0, <2>2 DEF EventsInv, ChangesAreBracketed
      <3> QED BY <1>2, <1>11, <3>1
    <2> QED BY <1>0, <1>1, <2>1, <2>2 DEF EventsInv, ChangesAreBracketed, changedIrq, changedModule
  <1> QED BY <1>0, <1>1, <1>8, <1>9, <1>10, <1>12, <1>13, <1>14 DEF InventoryInv

\* The clock goes on; what it bounds stays bounded.
LEMMA ElapseStep == InventoryInv /\ Elapse => InventoryInv'
  <1> SUFFICES ASSUME InventoryInv, Elapse PROVE InventoryInv'
    OBVIOUS
  <1>0. /\ HostInv /\ CountersInv /\ GraphInv /\ ConfigInv /\ AffinityInv /\ ModulesInv
        /\ EventsInv
    BY DEF InventoryInv
  <1>1. UNCHANGED <<hostVars, counterVars, configVars, moduleVars, affinity, events>>
    BY DEF Elapse
  <1> DEFINE later == clock'
  <1>2. later = clock + 1 /\ clock \in Nat
    BY <1>0 DEF Elapse, HostInv
  <1> HIDE DEF later
  <1>3. later \in Nat /\ 0..clock \subseteq 0..later
    BY <1>2
  <1>4. HostInv'
    BY <1>0, <1>1, <1>3 DEF HostInv, hostVars, later
  <1>5. CountersInv' /\ GraphInv' /\ ConfigInv'
    BY <1>0, <1>1 DEF CountersInv, RateIsOfOneSubject, GraphInv, ConfigInv, CeilingIsOwn,
       hostVars, counterVars, configVars
  <1>6. AffinityInv' /\ ModulesInv'
    BY <1>0, <1>1, <1>3 DEF AffinityInv, ModulesInv, hostVars, moduleVars, later
  <1>7. EventsInv'
    BY <1>0, <1>1, <1>3 DEF EventsInv, ChangesAreBracketed, hostVars, later
  <1> QED BY <1>4, <1>5, <1>6, <1>7 DEF InventoryInv

\* A poll of a counter, of any subject: the rate shown and what is remembered.
LEMMA CountersStep ==
  ASSUME InventoryInv, NEW x \in {"device", "child", "irq"}, NEW key,
         NEW reading \in Reading, key[2] = reading.id,
         rates' = [rates EXCEPT ![x] = Rate(key, reading)],
         previous' = Remembered(key, reading)
  PROVE  CountersInv' /\ DOMAIN previous' \subseteq DOMAIN previous \cup {key}
  <1> DEFINE r == Rate(key, reading)
             p == Remembered(key, reading)
  <1>0. CountersInv /\ HostInv
    BY DEF InventoryInv
  <1>1. /\ r # << >> => /\ r[1].id = r[2].id /\ r[1].at < r[2].at
                       /\ r[1].count <= r[2].count
        /\ DOMAIN p \subseteq DOMAIN previous \cup {key}
        /\ \A k \in DOMAIN p : p[k] \in Reading /\ p[k].id = k[2]
    BY <1>0, CountOf
  <1>2. rates' = [rates EXCEPT ![x] = r] /\ previous' = p
    OBVIOUS
  <1> HIDE DEF r, p
  <1> DEFINE all == rates'
  <1>3. /\ DOMAIN all = {"device", "child", "irq"} /\ all[x] = r
        /\ \A y \in DOMAIN all : y # x => all[y] = rates[y]
    BY <1>0, <1>2 DEF CountersInv
  <1> HIDE DEF all
  <1>4. \A y \in DOMAIN all : all[y] # << >> =>
          /\ all[y][1].id = all[y][2].id
          /\ all[y][1].at < all[y][2].at /\ all[y][1].count <= all[y][2].count
    BY <1>0, <1>1, <1>3 DEF CountersInv, RateIsOfOneSubject
  <1>5. RateIsOfOneSubject'
    BY <1>4 DEF RateIsOfOneSubject, all
  <1> QED BY <1>1, <1>2, <1>3, <1>5 DEF CountersInv, all

\* A device that is new under its name starts its graphs anew: no key of it is
\* remembered, for the numbers go up.
LEMMA PollDeviceStep == InventoryInv /\ PollDevice => InventoryInv'
  <1> SUFFICES ASSUME InventoryInv, PollDevice PROVE InventoryInv'
    OBVIOUS
  <1> DEFINE n == device.id
             key == <<"device", n>>
             reading == [id |-> n, at |-> clock, count |-> device.count]
  <1>0. /\ HostInv /\ CountersInv /\ GraphInv /\ ConfigInv /\ AffinityInv /\ ModulesInv
        /\ EventsInv
    BY DEF InventoryInv
  <1>1. /\ rates' = [rates EXCEPT !["device"] = Rate(key, reading)]
        /\ graph' = [graph EXCEPT !["device"] = GraphOf(key) \cup {n}]
        /\ previous' = Remembered(key, reading)
        /\ UNCHANGED <<clock, hostVars, configVars, moduleVars, affinity, events>>
    BY DEF PollDevice
  <1>2. /\ reading \in Reading /\ reading.id = n /\ key[2] = n
        /\ n \in Nat
    BY <1>0 DEF HostInv, Reading
  <1> HIDE DEF reading
  <1>3. CountersInv' /\ DOMAIN previous' \subseteq DOMAIN previous \cup {key}
    BY <1>1, <1>2, CountersStep
  <1>4. GraphInv'
    <2>1. PICK m \in 0..n :
            /\ graph["device"] \subseteq {m}
            /\ \A k \in DOMAIN previous : k[1] = "device" => k[2] <= m
      BY <1>0 DEF GraphInv
    <2>2. GraphOf(key) \subseteq {n}
      <3>1. CASE key \in DOMAIN previous
        <4>1. n <= m
          BY <2>1, <3>1
        <4>2. m = n
          BY <1>2, <2>1, <4>1
        <4> QED BY <2>1, <4>2 DEF GraphOf
      <3>2. CASE key \notin DOMAIN previous
        BY <3>2 DEF GraphOf
      <3> QED BY <3>1, <3>2
    <2>3. ASSUME NEW k \in DOMAIN previous', k[1] = "device" PROVE k[2] <= n
      <3>1. CASE k = key
        BY <1>2, <3>1
      <3>2. CASE k \in DOMAIN previous
        <4>1. k[2] <= m /\ k[2] \in Nat
          BY <1>0, <2>1, <2>3, <3>2 DEF CountersInv, Reading
        <4> QED BY <1>2, <2>1, <4>1
      <3> QED BY <1>3, <2>3, <3>1, <3>2
    <2>4. DOMAIN graph' = {"device", "child"} /\ graph'["device"] \subseteq {n}
      BY <1>0, <1>1, <2>2 DEF GraphInv
    <2>5. n \in 0..n
      BY <1>2
    <2>6. device' = device
      BY <1>1 DEF hostVars
    <2> HIDE DEF key
    <2> QED BY <2>3, <2>4, <2>5, <2>6 DEF GraphInv
  <1>5. HostInv' /\ ConfigInv' /\ AffinityInv' /\ ModulesInv' /\ EventsInv'
    BY <1>0, <1>1 DEF HostInv, ConfigInv, CeilingIsOwn, AffinityInv, ModulesInv, EventsInv,
       ChangesAreBracketed, hostVars, configVars, moduleVars
  <1> QED BY <1>3, <1>4, <1>5 DEF InventoryInv

\* A poll of the IRQ: the affinity its event compares with is the one it saw.
LEMMA PollIrqStep == InventoryInv /\ PollIrq => InventoryInv'
  <1> SUFFICES ASSUME InventoryInv, PollIrq PROVE InventoryInv'
    OBVIOUS
  <1> DEFINE key == <<"irq", 0>>
             reading == [id |-> 0, at |-> clock, count |-> irq.count]
             e == [from |-> affinity[1].at, to |-> clock]
  <1>0. /\ HostInv /\ CountersInv /\ GraphInv /\ ConfigInv /\ AffinityInv /\ ModulesInv
        /\ EventsInv /\ clock \in Nat /\ clock \in 0..clock
    BY DEF InventoryInv, HostInv
  <1>1. /\ rates' = [rates EXCEPT !["irq"] = Rate(key, reading)]
        /\ previous' = Remembered(key, reading)
        /\ affinity' = <<[cpu |-> irq.cpu, at |-> clock]>>
        /\ events' = IF affinity # << >> /\ affinity[1].cpu # irq.cpu
                     THEN [events EXCEPT !["irq"] = <<e>>] ELSE events
        /\ UNCHANGED <<clock, hostVars, graph, configVars, moduleVars>>
    BY DEF PollIrq
  <1>2. reading \in Reading /\ key[2] = reading.id /\ key[1] = "irq"
    BY <1>0 DEF HostInv, Reading
  <1> HIDE DEF key, reading
  <1>3. CountersInv' /\ DOMAIN previous' \subseteq DOMAIN previous \cup {key}
    BY <1>1, <1>2, CountersStep
  <1>4. GraphInv'
    BY <1>0, <1>1, <1>2, <1>3 DEF GraphInv, hostVars
  <1>5. AffinityInv'
    BY <1>0, <1>1 DEF AffinityInv, hostVars
  <1>6. EventsInv'
    <2>1. CASE affinity # << >> /\ affinity[1].cpu # irq.cpu
      <3>1. e.from \in 0..clock /\ changed["irq"] >= e.from
        BY <1>0, <2>1 DEF AffinityInv
      <3> HIDE DEF e
      <3>2. /\ DOMAIN events' = {"module", "irq"} /\ Range(events'["irq"]) = {e}
            /\ events'["module"] = events["module"]
        BY <1>0, <1>1, <2>1, One DEF EventsInv
      <3> QED BY <1>0, <1>1, <3>1, <3>2 DEF EventsInv, ChangesAreBracketed, hostVars
    <2>2. CASE ~(affinity # << >> /\ affinity[1].cpu # irq.cpu)
      BY <1>0, <1>1, <2>2 DEF EventsInv, ChangesAreBracketed, hostVars
    <2> QED BY <2>1, <2>2
  <1>7. HostInv' /\ ConfigInv' /\ ModulesInv'
    BY <1>0, <1>1 DEF HostInv, ConfigInv, CeilingIsOwn, ModulesInv, hostVars, configVars, moduleVars
  <1> QED BY <1>3, <1>4, <1>5, <1>6, <1>7 DEF InventoryInv

\* A poll of the cgroups: what the cache keeps is of the identities there are.
LEMMA PollGroupsStep ==
  ASSUME InventoryInv, NEW demand \in BOOLEAN, PollGroups(demand)
  PROVE  InventoryInv'
  <1> DEFINE again == discovered = -1 \/ clock - discovered >= Period \/ demand # wanted
             cached == IF again THEN << >> ELSE config
             kept == Restrict(cached, {g \in DOMAIN cached : SameGroup(g)})
             limits == [g \in Group |-> LimitOf(kept, g)]
             reading == [id |-> group["child"].id, at |-> clock, count |-> 0]
             key == <<"child", group["child"].id>>
             c == [id |-> group["child"].id, parent |-> group["parent"].id, limits |-> limits]
  <1>0. /\ HostInv /\ CountersInv /\ GraphInv /\ ConfigInv /\ AffinityInv /\ ModulesInv
        /\ EventsInv /\ clock \in Nat
    BY DEF InventoryInv, HostInv
  <1>1. /\ identities' = [g \in Group |-> group[g].id] /\ config' = limits /\ ceiling' = <<c>>
        /\ rates' = [rates EXCEPT !["child"] = Rate(key, reading)]
        /\ graph' = [graph EXCEPT !["child"] = @ \cup {group["child"].id}]
        /\ previous' = Remembered(key, reading)
        /\ UNCHANGED <<clock, hostVars, moduleVars, affinity, events>>
    BY DEF PollGroups
  <1>2. reading \in Reading /\ key[2] = reading.id /\ key[1] = "child"
    BY <1>0 DEF HostInv, Reading, Group
  <1>3. \A g \in DOMAIN kept : g \in DOMAIN config /\ SameGroup(g) /\ kept[g] = config[g]
    <2>1. CASE again
      BY <2>1, One DEF Restrict
    <2>2. CASE ~again
      BY <2>2 DEF Restrict
    <2> QED BY <2>1, <2>2
  <1>4. \A g \in DOMAIN kept : kept[g].id = group[g].id
    BY <1>0, <1>3 DEF ConfigInv, SameGroup
  <1> HIDE DEF reading, key, kept
  <1>5. \A g \in Group : limits[g].id = group[g].id
    BY <1>4 DEF LimitOf
  <1>6. DOMAIN limits = Group
    OBVIOUS
  <1> HIDE DEF limits
  <1>7. ConfigInv'
    <2>1. \A g \in DOMAIN config' : g \in DOMAIN identities' /\ config'[g].id = identities'[g]
      BY <1>1, <1>5, <1>6
    <2>2. CeilingIsOwn'
      <3>1. Range(ceiling') = {c}
        BY <1>1, One
      <3>2. c.limits["child"].id = c.id /\ c.limits["parent"].id = c.parent
        BY <1>5 DEF Group
      <3> QED BY <3>1, <3>2 DEF CeilingIsOwn
    <2> QED BY <2>1, <2>2 DEF ConfigInv
  <1>8. CountersInv' /\ DOMAIN previous' \subseteq DOMAIN previous \cup {key}
    BY <1>1, <1>2, CountersStep
  <1>9. GraphInv'
    <2>1. DOMAIN graph' = {"device", "child"} /\ graph'["device"] = graph["device"]
      BY <1>0, <1>1 DEF GraphInv
    <2> QED BY <1>0, <1>1, <1>2, <1>8, <2>1 DEF GraphInv, hostVars
  <1>10. HostInv' /\ AffinityInv' /\ ModulesInv' /\ EventsInv'
    BY <1>0, <1>1 DEF HostInv, AffinityInv, ModulesInv, EventsInv, ChangesAreBracketed,
       hostVars, moduleVars
  <1> QED BY <1>7, <1>8, <1>9, <1>10 DEF InventoryInv

\* A poll of the modules: the list compared with is of the last that succeeded.
LEMMA PollModulesStep ==
  ASSUME InventoryInv, NEW ok \in BOOLEAN, PollModules(ok)
  PROVE  InventoryInv'
  <1> DEFINE e == [from |-> slow_at, to |-> clock, since |-> succeeded]
  <1>0. /\ HostInv /\ CountersInv /\ GraphInv /\ ConfigInv /\ AffinityInv /\ ModulesInv
        /\ EventsInv /\ clock \in Nat /\ clock \in 0..clock
    BY DEF InventoryInv, HostInv
  <1>1. UNCHANGED <<clock, hostVars, counterVars, configVars, affinity>>
    BY DEF PollModules
  <1>2. CASE ~ok
    <2>1. UNCHANGED <<modules, succeeded, events>>
      BY <1>2 DEF PollModules
    <2> QED BY <1>0, <1>1, <2>1 DEF InventoryInv, HostInv, CountersInv, RateIsOfOneSubject, GraphInv,
            ConfigInv, CeilingIsOwn, AffinityInv, ModulesInv, EventsInv, ChangesAreBracketed,
            hostVars, counterVars, configVars
  <1>3. CASE ok
    <2>1. /\ modules' = <<module>> /\ succeeded' = clock
          /\ events' = IF modules # << >> /\ modules[1] # module
                       THEN [events EXCEPT !["module"] = <<e>>] ELSE events
      BY <1>3 DEF PollModules
    <2>2. ModulesInv'
      BY <1>0, <1>1, <2>1 DEF ModulesInv, hostVars
    <2>3. EventsInv'
      <3>1. CASE modules # << >> /\ modules[1] # module
        <4>1. e.since \in 0..clock /\ changed["module"] >= e.since
          BY <1>0, <3>1 DEF ModulesInv
        <4> HIDE DEF e
        <4>2. /\ DOMAIN events' = {"module", "irq"} /\ Range(events'["module"]) = {e}
              /\ events'["irq"] = events["irq"]
          BY <1>0, <2>1, <3>1, One DEF EventsInv
        <4> QED BY <1>0, <1>1, <4>1, <4>2 DEF EventsInv, ChangesAreBracketed, hostVars
      <3>2. CASE ~(modules # << >> /\ modules[1] # module)
        BY <1>0, <1>1, <2>1, <3>2 DEF EventsInv, ChangesAreBracketed, hostVars
      <3> QED BY <3>1, <3>2
    <2> QED BY <1>0, <1>1, <2>2, <2>3 DEF InventoryInv, HostInv, CountersInv, RateIsOfOneSubject,
            GraphInv, ConfigInv, CeilingIsOwn, AffinityInv, hostVars, counterVars, configVars
  <1> QED BY <1>2, <1>3

\* Rates, graphs, limits and change events of the inventory are of the subject
\* they stand at, whatever takes over its name (Inventory::poll, irq::Collector).
THEOREM InventoryCorrect == InventorySpec => []SubjectsAreOwn
  <1>1. InventoryInv /\ [InventoryNext]_inventoryVars => InventoryInv'
    <2> SUFFICES ASSUME InventoryInv, [InventoryNext]_inventoryVars PROVE InventoryInv'
      OBVIOUS
    <2>1. CASE UNCHANGED inventoryVars
      BY <2>1 DEF inventoryVars, InventoryInv, HostInv, CountersInv, RateIsOfOneSubject, GraphInv,
         ConfigInv, CeilingIsOwn, AffinityInv, ModulesInv, EventsInv, ChangesAreBracketed
    <2> QED BY <2>1, HostChangesStep, ElapseStep, PollDeviceStep, PollIrqStep, PollGroupsStep,
            PollModulesStep DEF InventoryNext
  <1>2. InventoryInv => SubjectsAreOwn
    <2> SUFFICES ASSUME InventoryInv PROVE SubjectsAreOwn
      OBVIOUS
    <2>1. DeviceGraphIsOwn
      <3>1. PICK n \in 0..device.id : graph["device"] \subseteq {n}
        BY DEF InventoryInv, GraphInv
      <3>2. IsFiniteSet({n}) /\ Cardinality({n}) = 1
        BY FS_Singleton
      <3>3. Cardinality(graph["device"]) <= Cardinality({n}) /\ IsFiniteSet(graph["device"])
        BY <3>1, <3>2, FS_Subset
      <3> QED BY <3>2, <3>3 DEF DeviceGraphIsOwn
    <2> QED BY <2>1 DEF SubjectsAreOwn, InventoryInv, CountersInv, ConfigInv, EventsInv
  <1> QED BY <1>1, <1>2, InventoryStart, PTL DEF InventorySpec

-----------------------------------------------------------------------------
(* The timeline: what thinning and dropping frames never costs.            *)

Increasing(fs) == \A i, j \in 1..Len(fs) : i < j => fs[i].at < fs[j].at

FramesInv ==
  /\ frames \in Seq(Frame) /\ frames # <<>> /\ Increasing(frames)
  /\ sizes \in Hosts
  /\ pc \in {"idle", "thin", "drop"}

LEMMA FunctionIsSequence ==
  ASSUME NEW S, NEW n \in Nat, NEW f \in [1..n -> S]
  PROVE  f \in Seq(S) /\ Len(f) = n /\ (n > 0 => f # <<>>)
  OBVIOUS

\* Where the frames that thinning keeps were.
Source(n, i) ==
  LET half == n \div 2
      old  == (half + 1) \div 2
  IN  IF i <= old THEN 2 * i - 1 ELSE i - old + half

ThinnedLen(n) == (n \div 2 + 1) \div 2 + n - n \div 2

\* Thinning keeps the order and the newest frame.
LEMMA SourceIncreases ==
  ASSUME NEW n \in Nat, n > 0
  PROVE  /\ ThinnedLen(n) \in 1..n
         /\ Source(n, ThinnedLen(n)) = n
         /\ \A i \in 1..ThinnedLen(n) : Source(n, i) \in 1..n
         /\ \A i, j \in 1..ThinnedLen(n) : i < j => Source(n, i) < Source(n, j)
  BY DEF Source, ThinnedLen

LEMMA ThinnedType ==
  ASSUME NEW fs \in Seq(Frame), fs # <<>>
  PROVE  /\ Thinned(fs) \in Seq(Frame) /\ Thinned(fs) # <<>>
         /\ Len(Thinned(fs)) = ThinnedLen(Len(fs))
         /\ \A i \in 1..Len(Thinned(fs)) : Thinned(fs)[i] = fs[Source(Len(fs), i)]
  <1> DEFINE n == Len(fs)
             m == ThinnedLen(n)
  <1>1. n \in Nat /\ n > 0
    OBVIOUS
  <1>2. m \in 1..n /\ \A i \in 1..m : Source(n, i) \in 1..n
    BY <1>1, SourceIncreases
  <1>3. Thinned(fs) = [i \in 1..m |-> fs[Source(n, i)]]
    BY DEF Thinned, ThinnedLen, Source
  <1> HIDE DEF n, m
  <1>4. \A i \in 1..n : fs[i] \in Frame
    BY DEF n
  <1>5. Thinned(fs) \in [1..m -> Frame]
    BY <1>2, <1>3, <1>4
  <1>6. m \in Nat /\ m > 0
    BY <1>1, <1>2
  <1>7. Thinned(fs) \in Seq(Frame) /\ Thinned(fs) # <<>> /\ Len(Thinned(fs)) = m
    BY <1>5, <1>6, FunctionIsSequence
  <1>8. \A i \in 1..m : Thinned(fs)[i] = fs[Source(n, i)]
    BY <1>3
  <1> QED BY <1>7, <1>8 DEF m, n

LEMMA ThinnedIncreases ==
  ASSUME NEW fs \in Seq(Frame), fs # <<>>, Increasing(fs)
  PROVE  Increasing(Thinned(fs))
  <1>1. Len(fs) \in Nat /\ Len(fs) > 0
    OBVIOUS
  <1>2. /\ \A i \in 1..ThinnedLen(Len(fs)) : Source(Len(fs), i) \in 1..Len(fs)
        /\ \A i, j \in 1..ThinnedLen(Len(fs)) :
             i < j => Source(Len(fs), i) < Source(Len(fs), j)
    BY <1>1, SourceIncreases
  <1> SUFFICES ASSUME NEW i \in 1..ThinnedLen(Len(fs)), NEW j \in 1..ThinnedLen(Len(fs)), i < j
               PROVE  Thinned(fs)[i].at < Thinned(fs)[j].at
    BY ThinnedType DEF Increasing
  <1>3. /\ Source(Len(fs), i) \in 1..Len(fs) /\ Source(Len(fs), j) \in 1..Len(fs)
        /\ Source(Len(fs), i) < Source(Len(fs), j)
    BY <1>2
  <1>4. /\ Thinned(fs)[i] = fs[Source(Len(fs), i)]
        /\ Thinned(fs)[j] = fs[Source(Len(fs), j)]
    BY ThinnedType
  <1> QED BY <1>3, <1>4 DEF Increasing

\* The last of increasing times is the newest.
LEMMA LastIsNewest ==
  ASSUME NEW fs \in Seq(Frame), fs # <<>>, Increasing(fs), NEW i \in 1..Len(fs)
  PROVE  fs[i].at \in Nat /\ fs[i].at <= LastFrame(fs).at /\ Len(fs) \in 1..Len(fs)
  <1>1. Len(fs) \in 1..Len(fs)
    OBVIOUS
  <1>2. fs[i].at \in Nat /\ fs[Len(fs)].at \in Nat
    <2>1. fs[i] \in Frame /\ fs[Len(fs)] \in Frame
      BY <1>1
    <2> QED BY <2>1 DEF Frame
  <1>3. i = Len(fs) \/ fs[i].at < fs[Len(fs)].at
    BY <1>1 DEF Increasing
  <1> QED BY <1>1, <1>2, <1>3 DEF LastFrame

\* A new frame is later than all before.
LEMMA RetainType ==
  ASSUME FramesInv, NEW size \in sizes, NEW p \in Profiles, Retain(size, p)
  PROVE  /\ FramesInv'
         /\ Len(frames') = Len(frames) + 1
         /\ \A i \in 1..Len(frames) : frames'[i] = frames[i]
         /\ frames'[Len(frames) + 1].at = LastFrame(frames).at + 1
  <1> DEFINE new == [at |-> LastFrame(frames).at + 1, size |-> size, profile |-> p]
             fs  == frames'
             n   == Len(frames)
  <1>1. fs = Append(frames, new) /\ sizes' = sizes /\ pc' = "thin"
    BY DEF Retain
  <1>2. n \in Nat /\ n > 0 /\ \A i \in 1..n : frames[i] \in Frame
    BY DEF FramesInv
  <1>3. LastFrame(frames).at \in Nat
    BY <1>2, LastIsNewest DEF FramesInv, LastFrame
  <1>4. new \in Frame
    BY <1>3 DEF Frame, FramesInv
  <1> HIDE DEF new, fs
  <1>5. /\ fs \in Seq(Frame) /\ fs # <<>> /\ Len(fs) = n + 1
        /\ \A i \in 1..n : fs[i] = frames[i]
        /\ fs[n + 1] = new
    BY <1>1, <1>4 DEF FramesInv
  <1>6. new.at = LastFrame(frames).at + 1
    BY DEF new
  <1>7. Increasing(fs)
    <2> SUFFICES ASSUME NEW i \in 1..n + 1, NEW j \in 1..n + 1, i < j
                 PROVE  fs[i].at < fs[j].at
      BY <1>5 DEF Increasing
    <2>1. i \in 1..n /\ fs[i] = frames[i]
      BY <1>2, <1>5
    <2>2. CASE j = n + 1
      <3>1. frames[i].at \in Nat /\ frames[i].at <= LastFrame(frames).at
        BY <2>1, LastIsNewest DEF FramesInv
      <3> QED BY <1>3, <1>5, <1>6, <2>1, <2>2, <3>1
    <2>3. CASE j # n + 1
      <3>1. j \in 1..n /\ fs[j] = frames[j]
        BY <1>2, <1>5, <2>3
      <3> QED BY <2>1, <3>1 DEF FramesInv, Increasing
    <2> QED BY <2>2, <2>3
  <1> QED BY <1>1, <1>5, <1>6, <1>7 DEF FramesInv, fs

\* The oldest frame may go while another one is left.
LEMMA DropType ==
  ASSUME FramesInv, Drop
  PROVE  /\ FramesInv' /\ frames' = Tail(frames)
         /\ Len(frames) > 1 /\ Len(frames') = Len(frames) - 1
         /\ \A i \in 1..Len(frames) - 1 : frames'[i] = frames[i + 1]
  <1> DEFINE fs == frames'
             n  == Len(frames)
  <1>1. n \in Nat /\ n > 0
    BY DEF FramesInv
  <1>2. fs = Tail(frames) /\ sizes' = sizes /\ pc' = "drop"
    BY DEF Drop, Recount
  <1>3. n > 1
    BY <1>1, TimelineAssumption DEF Drop, CanDrop
  <1> HIDE DEF fs
  <1>4. /\ fs \in Seq(Frame) /\ Len(fs) = n - 1
        /\ \A i \in 1..n - 1 : fs[i] = frames[i + 1]
    BY <1>2, <1>3 DEF FramesInv
  <1>5. fs # <<>>
    BY <1>3, <1>4
  <1>6. Increasing(fs)
    <2> SUFFICES ASSUME NEW i \in 1..n - 1, NEW j \in 1..n - 1, i < j
                 PROVE  fs[i].at < fs[j].at
      BY <1>4 DEF Increasing
    <2>1. i + 1 \in 1..n /\ j + 1 \in 1..n /\ i + 1 < j + 1
      BY <1>1
    <2> QED BY <1>4, <2>1 DEF FramesInv, Increasing
  <1> QED BY <1>2, <1>3, <1>4, <1>5, <1>6 DEF FramesInv, fs

\* Thinning leaves frames, in order.
LEMMA ThinType ==
  ASSUME FramesInv, Thin
  PROVE  /\ FramesInv' /\ frames' = Thinned(frames)
         /\ Len(frames') = ThinnedLen(Len(frames))
         /\ \A i \in 1..Len(frames') : frames'[i] = frames[Source(Len(frames), i)]
  <1>1. frames' = Thinned(frames) /\ sizes' = sizes /\ pc' = pc
    BY DEF Thin, Recount
  <1> QED BY <1>1, ThinnedType, ThinnedIncreases DEF FramesInv

LEMMA FramesStep == FramesInv /\ [Next]_vars => FramesInv'
  <1> SUFFICES ASSUME FramesInv, [Next]_vars PROVE FramesInv'
    OBVIOUS
  <1>1. CASE Retained
    BY <1>1 DEF Retained, FramesInv
  <1>2. CASE UNCHANGED vars
    BY <1>2 DEF vars, FramesInv
  <1> QED BY <1>1, <1>2, RetainType, DropType, ThinType DEF Next, Repeated

LEMMA FramesInit == Init => FramesInv
  <1> SUFFICES ASSUME Init PROVE FramesInv
    OBVIOUS
  <1>1. PICK size \in sizes, p \in Profiles : frames = <<[at |-> 1, size |-> size, profile |-> p]>>
    BY DEF Init
  <1>2. [at |-> 1, size |-> size, profile |-> p] \in Frame
    BY DEF Init, Frame
  <1>3. frames \in Seq(Frame) /\ frames # <<>> /\ Len(frames) = 1
    BY <1>1, <1>2
  <1> QED BY <1>3 DEF Init, FramesInv, Increasing

-----------------------------------------------------------------------------
(* The recent past.  Thinning spares the newer half, which is at least as  *)
(* long as Spared when there are more than MinFull frames.                 *)

NoGaps(fs) ==
  \A i \in 1..Len(fs) : i > 1 /\ i + Spared > Len(fs) + 1 => fs[i].at = fs[i - 1].at + 1

LEMMA SparedSource ==
  ASSUME NEW n \in Nat, n > MinFull, NEW i \in 1..ThinnedLen(n), i > 1,
         i + Spared > ThinnedLen(n) + 1
  PROVE  /\ Source(n, i - 1) = Source(n, i) - 1
         /\ Source(n, i) \in 1..n /\ Source(n, i) > 1
         /\ Source(n, i) + Spared > n + 1
         /\ i - 1 \in 1..ThinnedLen(n)
  BY TimelineAssumption DEF Source, ThinnedLen, Spared

LEMMA NoGapsStep == FramesInv /\ NoGaps(frames) /\ [Next]_vars => NoGaps(frames)'
  <1> SUFFICES ASSUME FramesInv, NoGaps(frames), [Next]_vars PROVE NoGaps(frames)'
    OBVIOUS
  <1>0. Len(frames) \in Nat /\ Len(frames) > 0 /\ Spared \in Int
    BY TimelineAssumption DEF FramesInv, Spared
  <1> DEFINE fs == frames'
             n  == Len(frames)
  <1>1. ASSUME NEW size \in sizes, NEW p \in Profiles, Retain(size, p) PROVE NoGaps(fs)
    <2>1. /\ Len(fs) = n + 1 /\ \A i \in 1..n : fs[i] = frames[i]
          /\ fs[n + 1].at = frames[n].at + 1
      BY <1>1, RetainType DEF LastFrame
    <2> HIDE DEF fs
    <2> SUFFICES ASSUME NEW i \in 1..n + 1, i > 1, i + Spared > n + 2
                 PROVE  fs[i].at = fs[i - 1].at + 1
      BY <1>0, <2>1 DEF NoGaps
    <2>2. i - 1 \in 1..n /\ fs[i - 1] = frames[i - 1]
      BY <1>0, <2>1
    <2>3. CASE i = n + 1
      BY <2>1, <2>2, <2>3
    <2>4. CASE i # n + 1
      <3>1. i \in 1..n /\ i + Spared > n + 1
        BY <1>0, <2>4
      <3> QED BY <2>1, <2>2, <3>1 DEF NoGaps
    <2> QED BY <2>3, <2>4
  <1>2. ASSUME Drop PROVE NoGaps(fs)
    <2>1. n > 1 /\ Len(fs) = n - 1 /\ \A i \in 1..n - 1 : fs[i] = frames[i + 1]
      BY <1>2, DropType
    <2> HIDE DEF fs
    <2> SUFFICES ASSUME NEW i \in 1..Len(fs), i > 1, i + Spared > Len(fs) + 1
                 PROVE  fs[i].at = fs[i - 1].at + 1
      BY DEF NoGaps
    <2>2. i - 1 \in 1..n - 1 /\ fs[i - 1] = frames[i] /\ fs[i] = frames[i + 1]
      BY <1>0, <2>1
    <2>3. i + 1 \in 1..n /\ i + 1 > 1 /\ (i + 1) + Spared > n + 1 /\ (i + 1) - 1 = i
      BY <1>0, <2>1
    <2>4. frames[i + 1].at = frames[i].at + 1
      BY <2>3 DEF NoGaps
    <2> QED BY <2>2, <2>4
  <1>3. ASSUME Thin PROVE NoGaps(fs)
    <2>1. /\ Len(fs) = ThinnedLen(n)
          /\ \A i \in 1..ThinnedLen(n) : fs[i] = frames[Source(n, i)]
      BY <1>3, ThinType
    <2>2. n > MinFull
      BY <1>3 DEF Thin, CanThin
    <2> HIDE DEF fs
    <2> SUFFICES ASSUME NEW i \in 1..Len(fs), i > 1, i + Spared > Len(fs) + 1
                 PROVE  fs[i].at = fs[i - 1].at + 1
      BY DEF NoGaps
    <2>3. /\ Source(n, i - 1) = Source(n, i) - 1
          /\ Source(n, i) \in 1..n /\ Source(n, i) > 1
          /\ Source(n, i) + Spared > n + 1
          /\ i - 1 \in 1..ThinnedLen(n)
      BY <1>0, <2>1, <2>2, SparedSource
    <2>4. frames[Source(n, i)].at = frames[Source(n, i) - 1].at + 1
      BY <2>3 DEF NoGaps
    <2> QED BY <2>1, <2>3, <2>4
  <1>4. CASE UNCHANGED frames
    BY <1>4 DEF NoGaps
  <1>5. NoGaps(frames)' <=> NoGaps(fs)
    BY DEF NoGaps
  <1> QED BY <1>1, <1>2, <1>3, <1>4, <1>5 DEF Next, Repeated, Retained, vars

-----------------------------------------------------------------------------
(* The running total: what the frames cost, and the profiles they share.   *)

Cost(fs) == [i \in DOMAIN fs |-> fs[i].size]

LEMMA SizesAreNat == UNION Hosts \subseteq Nat /\ \A fs \in Seq(Frame) : \A i \in 1..Len(fs) :
                       fs[i].size \in Nat /\ fs[i].profile \in Profiles
  <1>1. UNION Hosts \subseteq Nat
    BY TimelineAssumption
  <1>2. ASSUME NEW fs \in Seq(Frame), NEW i \in 1..Len(fs)
        PROVE  fs[i].size \in Nat /\ fs[i].profile \in Profiles
    <2>1. fs[i] \in Frame
      OBVIOUS
    <2> QED BY <1>1, <2>1 DEF Frame
  <1> QED BY <1>1, <1>2

LEMMA CountedIs ==
  ASSUME NEW fs \in Seq(Frame)
  PROVE  /\ Counted(fs) = Sum(Cost(fs), 1..Len(fs)) + Sum(ProfileBytes, ProfilesOf(fs))
         /\ Sum(Cost(fs), 1..Len(fs)) \in Nat /\ Sum(ProfileBytes, ProfilesOf(fs)) \in Nat
         /\ Sum(ProfileBytes, Profiles) \in Nat
         /\ Sum(ProfileBytes, ProfilesOf(fs)) <= Sum(ProfileBytes, Profiles)
         /\ ProfilesOf(fs) \subseteq Profiles /\ IsFiniteSet(ProfilesOf(fs))
         /\ Cost(fs) \in [1..Len(fs) -> Nat] /\ IsFiniteSet(1..Len(fs))
  <1> DEFINE d == 1..Len(fs)
  <1>1. DOMAIN fs = d /\ IsFiniteSet(d)
    BY FS_Interval
  <1>2. Cost(fs) \in [d -> Nat]
    BY <1>1, SizesAreNat DEF Cost
  <1>3. ProfilesOf(fs) \subseteq Profiles
    BY <1>1, SizesAreNat DEF ProfilesOf
  <1>4. IsFiniteSet(Profiles) /\ \A p \in Profiles : ProfileBytes[p] \in Nat
    BY TimelineAssumption
  <1>5. IsFiniteSet(ProfilesOf(fs))
    BY <1>3, <1>4, FS_Subset
  <1>6. Sum(ProfileBytes, ProfilesOf(fs)) \in Nat
        /\ Sum(ProfileBytes, ProfilesOf(fs)) <= Sum(ProfileBytes, Profiles)
    BY <1>3, <1>4, SumOfFewer
  <1>7. Sum(ProfileBytes, Profiles) \in Nat
    BY <1>4, SumOfFewer
  <1>8. Sum(Cost(fs), d) \in Nat
    BY <1>1, <1>2, SumOfFewer
  <1>9. Counted(fs) = Sum(Cost(fs), d) + Sum(ProfileBytes, ProfilesOf(fs))
    <2>1. DOMAIN Cost(fs) = d
      BY <1>2
    <2> QED BY <2>1 DEF Counted, SumFunction, Sum, Cost
  <1> QED BY <1>1, <1>2, <1>3, <1>5, <1>6, <1>7, <1>8, <1>9

LEMMA CountedType ==
  ASSUME NEW fs \in Seq(Frame)
  PROVE  Counted(fs) \in Nat
  <1> DEFINE a == Sum(Cost(fs), 1..Len(fs))
             b == Sum(ProfileBytes, ProfilesOf(fs))
  <1>1. Counted(fs) = a + b /\ a \in Nat /\ b \in Nat
    BY CountedIs
  <1> HIDE DEF a, b
  <1> QED BY <1>1

\* One more frame costs its size, and its profile if no frame has it.
LEMMA CountedAdds ==
  ASSUME NEW fs \in Seq(Frame), NEW f \in Frame, NEW gs, gs = Append(fs, f)
  PROVE  /\ ProfilesOf(gs) = ProfilesOf(fs) \cup {f.profile}
         /\ Counted(gs) = Counted(fs) + f.size
              + IF f.profile \in ProfilesOf(fs) THEN 0 ELSE ProfileBytes[f.profile]
  <1> DEFINE n == Len(fs)
             d == 1..n
  <1>1. /\ gs \in Seq(Frame) /\ Len(gs) = n + 1 /\ n \in Nat
        /\ gs[n + 1] = f /\ \A i \in d : gs[i] = fs[i]
    OBVIOUS
  <1>2. 1..n + 1 = d \cup {n + 1} /\ n + 1 \notin d
    BY <1>1
  <1>3. DOMAIN fs = d /\ DOMAIN gs = d \cup {n + 1}
    BY <1>1, <1>2
  <1>4. ProfilesOf(gs) = ProfilesOf(fs) \cup {f.profile}
    BY <1>1, <1>3 DEF ProfilesOf
  <1>5. \A i \in d : Cost(gs)[i] = Cost(fs)[i] /\ Cost(fs)[i] \in Nat
    BY <1>1, <1>3, SizesAreNat DEF Cost
  <1>6. Cost(gs)[n + 1] = f.size /\ f.size \in Nat /\ f.profile \in Profiles
    BY <1>1, <1>3, SizesAreNat DEF Cost, Frame
  <1>7. IsFiniteSet(d)
    BY <1>1, FS_Interval
  <1> HIDE DEF d
  <1> DEFINE cf == Sum(Cost(fs), d)
             cg == Sum(Cost(gs), d)
             pf == Sum(ProfileBytes, ProfilesOf(fs))
             pg == Sum(ProfileBytes, ProfilesOf(gs))
  <1>8. cg = cf
    <2>1. \A i \in d : Cost(gs)[i] \in Int /\ Cost(gs)[i] = Cost(fs)[i]
      BY <1>5
    <2> QED BY <1>7, <2>1, SumEquals
  <1>9. Sum(Cost(gs), d \cup {n + 1}) = cg + f.size
    <2>1. (\A i \in d : Cost(gs)[i] \in Int) /\ Cost(gs)[n + 1] \in Int
      BY <1>5, <1>6
    <2> QED BY <1>2, <1>6, <1>7, <2>1, SumAdds
  <1>10. pg = pf + IF f.profile \in ProfilesOf(fs) THEN 0 ELSE ProfileBytes[f.profile]
    <2>1. CASE f.profile \in ProfilesOf(fs)
      <3>1. ProfilesOf(gs) = ProfilesOf(fs)
        BY <1>4, <2>1
      <3>2. pf \in Nat
        BY CountedIs
      <3>3. pf + 0 = pf
        BY <3>2
      <3> QED BY <2>1, <3>1, <3>3
    <2>2. CASE f.profile \notin ProfilesOf(fs)
      <3>1. IsFiniteSet(ProfilesOf(fs)) /\ ProfilesOf(fs) \subseteq Profiles
        BY CountedIs
      <3>2. (\A p \in ProfilesOf(fs) : ProfileBytes[p] \in Int) /\ ProfileBytes[f.profile] \in Int
        BY <1>6, <3>1, TimelineAssumption
      <3> QED BY <1>4, <2>2, <3>1, <3>2, SumAdds
    <2> QED BY <2>1, <2>2
  <1>11. Counted(fs) = cf + pf /\ cf \in Nat /\ pf \in Nat
    BY CountedIs DEF d
  <1>12. Counted(gs) = (cg + f.size) + pg
    BY <1>1, <1>2, <1>9, CountedIs
  <1> DEFINE extra == IF f.profile \in ProfilesOf(fs) THEN 0 ELSE ProfileBytes[f.profile]
  <1>13. extra \in Nat
    BY <1>6, TimelineAssumption
  <1>14. Counted(gs) = Counted(fs) + f.size + extra
    <2>1. pg = pf + extra
      BY <1>10
    <2> HIDE DEF cf, cg, pf, pg, extra
    <2> QED BY <1>6, <1>8, <1>11, <1>12, <1>13, <2>1
  <1> QED BY <1>4, <1>14

\* Without the oldest frame the timeline costs no more.
LEMMA CountedOfTail ==
  ASSUME NEW fs \in Seq(Frame), fs # <<>>
  PROVE  Counted(Tail(fs)) <= Counted(fs)
  <1> DEFINE gs == Tail(fs)
             n == Len(fs) - 1
             d == 1..n
  <1>1. /\ gs \in Seq(Frame) /\ Len(gs) = n /\ n \in Nat /\ Len(fs) = n + 1
        /\ \A i \in d : gs[i] = fs[i + 1] /\ i + 1 \in 1..n + 1
    OBVIOUS
  <1>2. DOMAIN gs = d /\ DOMAIN fs = 1..n + 1
    BY <1>1
  <1>3. \A i \in d : Cost(gs)[i] = Cost(fs)[i + 1]
    BY <1>1, <1>2 DEF Cost
  <1>4. \A i \in 1..n + 1 : Cost(fs)[i] \in Int
    BY <1>1, CountedIs
  <1>5. 1 \in 1..n + 1 /\ Cost(fs)[1] \in Nat
    BY <1>1, CountedIs
  <1>6. ProfilesOf(gs) \subseteq ProfilesOf(fs)
    BY <1>1, <1>2 DEF ProfilesOf
  <1> HIDE DEF gs, n
  <1> DEFINE cf == Sum(Cost(fs), 1..n + 1)
             cg == Sum(Cost(gs), d)
             pf == Sum(ProfileBytes, ProfilesOf(fs))
             pg == Sum(ProfileBytes, ProfilesOf(gs))
  <1>7. cf = Cost(fs)[1] + cg
    BY <1>1, <1>3, <1>4, SumShifts
  <1>8. pg <= pf
    <2>1. IsFiniteSet(ProfilesOf(fs)) /\ \A p \in ProfilesOf(fs) : ProfileBytes[p] \in Nat
      BY CountedIs, TimelineAssumption
    <2> QED BY <1>6, <2>1, SumOfFewer
  <1>9. Counted(fs) = cf + pf /\ pf \in Nat
    BY <1>1, CountedIs
  <1>10. Counted(gs) = cg + pg /\ cg \in Nat /\ pg \in Nat
    BY <1>1, CountedIs
  <1>11. cg + pg <= cf + pf
    <2> HIDE DEF cf, cg, pf, pg
    <2> QED BY <1>5, <1>7, <1>8, <1>9, <1>10
  <1> QED BY <1>9, <1>10, <1>11 DEF gs

\* k frames of at most m cost k times m, and every profile at most once.
LEMMA CountedWithin ==
  ASSUME NEW fs \in Seq(Frame), NEW k \in Nat, Len(fs) <= k, NEW m \in Nat,
         \A i \in 1..Len(fs) : fs[i].size <= m
  PROVE  Counted(fs) <= k * m + Sum(ProfileBytes, Profiles)
  <1> DEFINE n == Len(fs)
             d == 1..n
             c == Sum(Cost(fs), d)
             p == Sum(ProfileBytes, ProfilesOf(fs))
             all == Sum(ProfileBytes, Profiles)
             km == k * m
             nm == n * m
  <1>1. n \in Nat /\ DOMAIN fs = d
    OBVIOUS
  <1>2. \A i \in d : Cost(fs)[i] \in Nat /\ Cost(fs)[i] <= m
    BY <1>1, SizesAreNat DEF Cost
  <1>3. IsFiniteSet(d) /\ Cardinality(d) = n
    BY <1>1, IntervalIs
  <1>4. c <= nm
    <2> HIDE DEF d
    <2>1. Sum(Cost(fs), d) <= Cardinality(d) * m
      BY <1>2, <1>3, SumWithin
    <2> QED BY <1>3, <2>1
  <1>5. nm <= km /\ nm \in Nat /\ km \in Nat
    BY <1>1, ProductGrows
  <1>6. Counted(fs) = c + p /\ c \in Nat /\ p \in Nat /\ all \in Nat /\ p <= all
    BY CountedIs
  <1>7. c + p <= km + all
    <2> HIDE DEF c, p, all, km, nm
    <2> QED BY <1>4, <1>5, <1>6
  <1> QED BY <1>6, <1>7

BytesInv ==
  /\ profiles = ProfilesOf(frames) /\ BytesAreCounted
  /\ \A i \in 1..Len(frames) : frames[i].size \in sizes

LEMMA BytesStep == FramesInv /\ BytesInv /\ [Next]_vars => BytesInv'
  <1> SUFFICES ASSUME FramesInv, BytesInv, [Next]_vars PROVE BytesInv'
    OBVIOUS
  <1> USE DEF BytesInv, BytesAreCounted
  <1>1. ASSUME NEW size \in sizes, NEW p \in Profiles, Retain(size, p) PROVE BytesInv'
    <2> DEFINE f == [at |-> LastFrame(frames).at + 1, size |-> size, profile |-> p]
               fs == frames'
    <2>1. f.size = size /\ f.profile = p
      OBVIOUS
    <2>2. f \in Frame
      <3>1. LastFrame(frames).at \in Nat
        <4>1. Len(frames) \in 1..Len(frames) /\ frames \in Seq(Frame)
          BY DEF FramesInv
        <4>2. frames[Len(frames)] \in Frame
          BY <4>1
        <4> QED BY <4>2 DEF Frame, LastFrame
      <3> QED BY <3>1 DEF Frame, FramesInv
    <2>3. /\ fs = Append(frames, f) /\ profiles' = profiles \cup {p} /\ sizes' = sizes
          /\ bytes' = bytes + size + IF p \in profiles THEN 0 ELSE ProfileBytes[p]
      BY <1>1 DEF Retain
    <2> HIDE DEF f, fs
    <2>4. /\ ProfilesOf(fs) = ProfilesOf(frames) \cup {p}
          /\ Counted(fs) = Counted(frames) + size
               + IF p \in ProfilesOf(frames) THEN 0 ELSE ProfileBytes[p]
      BY <2>1, <2>2, <2>3, CountedAdds DEF FramesInv
    <2>5. \A i \in 1..Len(fs) : fs[i].size \in sizes
      BY <2>1, <2>2, <2>3 DEF FramesInv
    <2> QED BY <2>3, <2>4, <2>5 DEF fs
  <1>2. CASE Drop
    <2> DEFINE fs == frames'
    <2>1. fs = Tail(frames) /\ profiles' = ProfilesOf(fs) /\ bytes' = Counted(fs) /\ sizes' = sizes
      BY <1>2 DEF Drop, Recount
    <2>2. Len(fs) = Len(frames) - 1 /\ \A i \in 1..Len(frames) - 1 : fs[i] = frames[i + 1]
          /\ Len(frames) \in Nat
      BY <1>2, DropType DEF FramesInv
    <2> HIDE DEF fs
    <2>3. \A i \in 1..Len(fs) : i + 1 \in 1..Len(frames) /\ fs[i] = frames[i + 1]
      BY <2>2
    <2> QED BY <2>1, <2>3 DEF fs
  <1>3. CASE Thin
    <2> DEFINE fs == frames'
    <2>1. fs = Thinned(frames) /\ profiles' = ProfilesOf(fs) /\ bytes' = Counted(fs)
          /\ sizes' = sizes
      BY <1>3 DEF Thin, Recount
    <2>2. Len(fs) = ThinnedLen(Len(frames))
          /\ \A i \in 1..Len(fs) : fs[i] = frames[Source(Len(frames), i)]
      BY <1>3, ThinType
    <2>3. Len(frames) \in Nat /\ Len(frames) > 0
      BY DEF FramesInv
    <2> HIDE DEF fs
    <2>4. \A i \in 1..Len(fs) : Source(Len(frames), i) \in 1..Len(frames)
      BY <2>2, <2>3, SourceIncreases
    <2> QED BY <2>1, <2>2, <2>4 DEF fs
  <1>4. CASE UNCHANGED <<sizes, frames, profiles, bytes>>
    BY <1>4
  <1> HIDE DEF BytesInv, BytesAreCounted
  <1> QED BY <1>1, <1>2, <1>3, <1>4 DEF Next, Repeated, Retained, vars

-----------------------------------------------------------------------------
(* The reach.  While the least the timeline keeps fits the budget, frames  *)
(* are dropped for their number only, and then MaxFrames samples are left. *)

\* Increasing times are at least as far apart as they are in the sequence.
LEMMA Apart ==
  ASSUME NEW fs \in Seq(Frame), fs # <<>>, Increasing(fs)
  PROVE  fs[1].at <= LastFrame(fs).at - (Len(fs) - 1)
  <1> DEFINE n == Len(fs)
             S == {k \in Nat : k + 1 <= n => fs[1].at <= fs[k + 1].at - k}
  <1>0. n \in Nat /\ n > 0 /\ \A i \in 1..n : fs[i].at \in Nat
    <2>1. \A i \in 1..n : fs[i] \in Frame
      OBVIOUS
    <2> QED BY <2>1 DEF Frame
  <1>1. 0 \in S
    BY <1>0
  <1>2. ASSUME NEW k \in Nat, k \in S PROVE k + 1 \in S
    <2> SUFFICES ASSUME (k + 1) + 1 <= n PROVE fs[1].at <= fs[(k + 1) + 1].at - (k + 1)
      OBVIOUS
    <2>1. 1 \in 1..n /\ k + 1 \in 1..n /\ (k + 1) + 1 \in 1..n /\ k + 1 < (k + 1) + 1
      BY <1>0
    <2>2. fs[1].at <= fs[k + 1].at - k
      BY <1>0, <1>2, <2>1
    <2>3. fs[k + 1].at < fs[(k + 1) + 1].at
      BY <2>1 DEF Increasing
    <2> QED BY <1>0, <2>1, <2>2, <2>3
  <1> HIDE DEF S
  <1>3. n - 1 \in S
    BY <1>0, <1>1, <1>2, Naturals
  <1>4. (n - 1) + 1 = n /\ (n - 1) + 1 <= n
    BY <1>0
  <1> QED BY <1>3, <1>4 DEF S, LastFrame

Far(fs) == fs[1].at = 1 \/ fs[1].at <= LastFrame(fs).at - (MaxFrames - 1)

ReachInv == Affordable => Far(frames) /\ (pc = "drop" => bytes <= Budget)

\* MinFull frames, and every profile, are within an affordable budget.
LEMMA LeastFits ==
  ASSUME FramesInv, BytesInv, Affordable, Len(frames) <= MinFull
  PROVE  bytes <= Budget
  <1> DEFINE m == Max(sizes)
  <1>1. sizes \in SUBSET Int /\ IsFiniteSet(sizes) /\ sizes # {} /\ sizes \subseteq Nat
    BY TimelineAssumption DEF FramesInv
  <1>2. m \in sizes /\ \A y \in sizes : y <= m
    BY <1>1, MaxIs
  <1>3. \A i \in 1..Len(frames) : frames[i].size <= m
    BY <1>2 DEF BytesInv
  <1>4. m \in Nat /\ MinFull \in Nat /\ frames \in Seq(Frame)
    BY <1>1, <1>2, TimelineAssumption DEF FramesInv
  <1>5. Affordable => MinFull * m + Sum(ProfileBytes, Profiles) <= Budget
    BY DEF Affordable, SumFunction, Sum, Profiles
  <1> HIDE DEF m
  <1>6. Counted(frames) <= MinFull * m + Sum(ProfileBytes, Profiles)
    BY <1>3, <1>4, CountedWithin
  <1> DEFINE c == Counted(frames)
             mm == MinFull * m
             all == Sum(ProfileBytes, Profiles)
  <1>7. c \in Nat /\ all \in Nat
    BY <1>4, CountedIs
  <1>8. mm \in Int
    BY <1>4
  <1>9. c <= Budget
    <2>1. c <= mm + all /\ mm + all <= Budget
      BY <1>5, <1>6
    <2> HIDE DEF c, mm, all
    <2> QED BY <1>7, <1>8, <2>1, TimelineAssumption
  <1> QED BY <1>9 DEF BytesInv, BytesAreCounted

LEMMA ReachStep == FramesInv /\ BytesInv /\ ReachInv /\ [Next]_vars => ReachInv'
  <1> SUFFICES ASSUME FramesInv, BytesInv, ReachInv, [Next]_vars, Affordable'
               PROVE  Far(frames)' /\ (pc' = "drop" => bytes' <= Budget)
    BY DEF ReachInv
  <1> DEFINE fs == frames'
             n == Len(frames)
             now == bytes'
  <1>0. /\ n \in Nat /\ n > 0 /\ n \in 1..n /\ 1 \in 1..n
        /\ \A i \in 1..n : frames[i].at \in Nat
    <2>1. n \in Nat /\ n > 0 /\ \A i \in 1..n : frames[i] \in Frame
      BY DEF FramesInv
    <2> QED BY <2>1 DEF Frame
  <1>1. sizes' = sizes
    BY DEF Next, Retain, Repeated, Thin, Drop, Recount, Retained, vars
  <1>2. Affordable
    BY <1>1 DEF Affordable
  <1>3. Far(frames) /\ (pc = "drop" => bytes <= Budget)
    BY <1>2 DEF ReachInv
  <1>4. Far(frames)' <=> Far(fs)
    BY DEF Far, LastFrame
  <1>5. MaxFrames \in Nat /\ MaxFrames >= MinFull /\ MinFull \in Nat /\ Budget \in Nat
    BY TimelineAssumption
  <1>6. ASSUME NEW size \in sizes, NEW p \in Profiles, Retain(size, p)
        PROVE  Far(fs) /\ pc' # "drop"
    <2>1. /\ Len(fs) = n + 1 /\ fs[1] = frames[1] /\ fs[n + 1].at = frames[n].at + 1
      BY <1>0, <1>6, RetainType DEF LastFrame
    <2>2. pc' = "thin"
      BY <1>6 DEF Retain
    <2> HIDE DEF fs
    <2>3. LastFrame(fs).at = frames[n].at + 1 /\ LastFrame(frames).at = frames[n].at
      BY <2>1 DEF LastFrame
    <2> QED BY <1>0, <1>3, <1>5, <2>1, <2>2, <2>3 DEF Far
  <1>7. ASSUME Thin PROVE Far(fs) /\ pc' # "drop"
    <2>1. /\ Len(fs) = ThinnedLen(n)
          /\ \A i \in 1..Len(fs) : fs[i] = frames[Source(n, i)]
      BY <1>7, ThinType
    <2>2. pc' = "thin"
      BY <1>7 DEF Thin
    <2> HIDE DEF fs
    <2>3. ThinnedLen(n) \in 1..n /\ Source(n, ThinnedLen(n)) = n
      BY <1>0, SourceIncreases
    <2>4. n > MinFull
      BY <1>7 DEF Thin, CanThin
    <2>5. Source(n, 1) = 1
      BY <1>0, <2>4, TimelineAssumption DEF Source
    <2>6. fs[1] = frames[1] /\ LastFrame(fs) = LastFrame(frames)
      BY <2>1, <2>3, <2>5 DEF LastFrame
    <2> QED BY <1>3, <2>2, <2>6 DEF Far
  <1>8. ASSUME Drop PROVE Far(fs) /\ bytes' <= Budget
    <2>1. /\ n > 1 /\ Len(fs) = n - 1 /\ fs \in Seq(Frame) /\ fs # <<>> /\ Increasing(fs)
          /\ fs = Tail(frames)
      <3>1. FramesInv'
        BY <1>8, DropType
      <3>2. Increasing(frames)' <=> Increasing(fs)
        BY DEF Increasing
      <3> QED BY <1>8, <3>1, <3>2, DropType DEF FramesInv
    <2>2. bytes' = Counted(fs)
      BY <1>8 DEF Drop, Recount
    <2>3. bytes = Counted(frames) /\ Counted(frames) \in Nat
      <3>1. frames \in Seq(Frame)
        BY DEF FramesInv
      <3> QED BY <3>1, CountedIs DEF BytesInv, BytesAreCounted
    <2>4. bytes <= Budget
      <3>1. CASE pc = "drop"
        BY <1>3, <3>1
      <3>2. CASE n <= MinFull
        BY <1>2, <3>2, LeastFits
      <3>3. CASE pc # "drop" /\ ~(n <= MinFull)
        <4>1. ~(bytes > Budget /\ n > MinFull)
          BY <1>8, <3>3 DEF Drop, CanThin
        <4>2. n > MinFull
          BY <1>0, <1>5, <3>3
        <4>3. ~(bytes > Budget)
          BY <4>1, <4>2
        <4> QED BY <1>5, <2>3, <4>3
      <3> QED BY <3>1, <3>2, <3>3
    <2>5. n > MaxFrames
      <3>1. n > MaxFrames \/ (bytes > Budget /\ n > 1)
        BY <1>8 DEF Drop, CanDrop
      <3>2. ~(bytes > Budget)
        BY <1>5, <2>3, <2>4
      <3> QED BY <3>1, <3>2
    <2>6. Counted(Tail(frames)) <= Counted(frames)
      BY CountedOfTail DEF FramesInv
    <2> HIDE DEF fs
    <2>7. Counted(fs) \in Nat
      BY <2>1, CountedType
    <2> DEFINE a == Counted(fs)
               b == Counted(frames)
    <2>8. a <= Budget
      <3>1. a <= b /\ b <= Budget /\ a \in Nat /\ b \in Nat
        BY <2>1, <2>3, <2>4, <2>6, <2>7
      <3> HIDE DEF a, b
      <3> QED BY <1>5, <3>1
    <2>9. fs[1].at <= LastFrame(fs).at - (Len(fs) - 1)
      BY <2>1, Apart
    <2>10. fs[1].at \in Nat /\ LastFrame(fs).at \in Nat
      <3>1. 1 \in 1..Len(fs) /\ Len(fs) \in 1..Len(fs)
        BY <1>0, <2>1
      <3>2. fs[1] \in Frame /\ fs[Len(fs)] \in Frame
        BY <2>1, <3>1
      <3> QED BY <3>2 DEF Frame, LastFrame
    <2>11. fs[1].at <= LastFrame(fs).at - (MaxFrames - 1)
      BY <1>0, <1>5, <2>1, <2>5, <2>9, <2>10
    <2> QED BY <2>2, <2>8, <2>11 DEF Far
  <1>9. CASE Retained
    BY <1>3, <1>9 DEF Retained, Far
  <1>10. CASE UNCHANGED vars
    BY <1>3, <1>10 DEF vars, Far
  <1> HIDE DEF fs
  <1> QED BY <1>4, <1>6, <1>7, <1>8, <1>9, <1>10 DEF Next, Repeated

\* The running total is what a recount would find; between samples the timeline
\* is within its limits; and what it gave up for them is never of the recent
\* past, however often it was thinned, nor, while MinFull frames fit the budget,
\* of its reach.
THEOREM TimelineCorrect == Spec => []TimelineIsKept
  <1>1. Init => FramesInv /\ NoGaps(frames) /\ WithinLimits
    <2> SUFFICES ASSUME Init PROVE FramesInv /\ NoGaps(frames) /\ WithinLimits
      OBVIOUS
    <2>1. Len(frames) = 1 /\ pc = "thin"
      BY DEF Init
    <2> QED BY <2>1, FramesInit DEF NoGaps, WithinLimits
  <1>2. FramesInv /\ WithinLimits /\ [Next]_vars => WithinLimits'
    <2> SUFFICES ASSUME FramesInv, WithinLimits, [Next]_vars PROVE WithinLimits'
      OBVIOUS
    <2> USE DEF WithinLimits
    <2>1. CASE Retained
      <3>1. Len(frames) \in Nat /\ Len(frames) > 0
        BY DEF FramesInv
      <3>2. Len(frames) <= MaxFrames /\ (bytes > Budget => Len(frames) = 1)
        <4>1. ~(Len(frames) > MaxFrames) /\ ~(bytes > Budget /\ Len(frames) > 1)
          BY <2>1 DEF Retained, CanDrop
        <4> DEFINE n == Len(frames)
                   over == bytes > Budget
        <4>2. n \in Nat /\ n > 0 /\ ~(n > MaxFrames) /\ ~(over /\ n > 1)
          BY <3>1, <4>1
        <4> HIDE DEF n, over
        <4>3. n <= MaxFrames /\ (over => n = 1)
          BY <4>2, TimelineAssumption
        <4> QED BY <4>3 DEF n, over
      <3> QED BY <2>1, <3>2 DEF Retained
    <2>2. CASE UNCHANGED vars
      BY <2>2 DEF vars
    <2>3. CASE pc' # "idle"
      BY <2>3
    <2> QED BY <2>1, <2>2, <2>3 DEF Next, Repeated, Retain, Thin, Drop
  <1>3. FramesInv /\ NoGaps(frames) => RecentPast
    BY DEF FramesInv, NoGaps, RecentPast
  <1>4. FramesInv /\ NoGaps(frames) /\ WithinLimits /\ [Next]_vars
        => (FramesInv /\ NoGaps(frames) /\ WithinLimits)'
    BY <1>2, FramesStep, NoGapsStep
  <1>5. Init => BytesInv /\ ReachInv
    <2> SUFFICES ASSUME Init PROVE BytesInv /\ ReachInv
      OBVIOUS
    <2>1. PICK size \in sizes, p \in Profiles : frames = <<[at |-> 1, size |-> size, profile |-> p]>>
      BY DEF Init
    <2>2. Len(frames) = 1 /\ frames[1].at = 1 /\ frames[1].size \in sizes
      BY <2>1
    <2> QED BY <2>2 DEF Init, BytesInv, BytesAreCounted, ReachInv, Far
  <1>6. FramesInv /\ BytesInv => TypeOK /\ BytesAreCounted
    <2> SUFFICES ASSUME FramesInv, BytesInv PROVE TypeOK /\ BytesAreCounted
      OBVIOUS
    <2>1. frames \in Seq(Frame)
      BY DEF FramesInv
    <2>2. ProfilesOf(frames) \subseteq Profiles /\ Counted(frames) \in Nat
      BY <2>1, CountedIs
    <2> QED BY <2>2 DEF TypeOK, FramesInv, BytesInv, BytesAreCounted
  <1>7. FramesInv /\ ReachInv => Reach
    BY DEF FramesInv, ReachInv, Reach, Far
  <1>8. (FramesInv /\ NoGaps(frames) /\ WithinLimits) /\ BytesInv /\ ReachInv => TimelineIsKept
    BY <1>3, <1>6, <1>7 DEF TimelineIsKept
  <1> QED BY <1>1, <1>4, <1>5, <1>8, BytesStep, ReachStep, PTL DEF Spec

-----------------------------------------------------------------------------
(* The refinement: what a step retains, drops or thins is a step of the    *)
(* history that keeps the newest sample.                                   *)

LEMMA NewestIsLast ==
  ASSUME NEW fs \in Seq(Frame), fs # <<>>, Increasing(fs),
         NEW times, times = {fs[i].at : i \in 1..Len(fs)}
  PROVE  History!Newest(times) = LastFrame(fs).at /\ LastFrame(fs).at \in times
  <1>1. LastFrame(fs).at \in times /\ \A u \in times : u <= LastFrame(fs).at /\ u \in Nat
    BY LastIsNewest DEF LastFrame
  <1>2. ASSUME NEW t \in times, \A u \in times : u <= t PROVE t = LastFrame(fs).at
    <2>1. /\ t \in Nat /\ LastFrame(fs).at \in Nat
          /\ t <= LastFrame(fs).at /\ LastFrame(fs).at <= t
      BY <1>1, <1>2
    <2> QED BY <2>1
  <1> QED BY <1>1, <1>2 DEF History!Newest

\* The retained times are a history that keeps its newest sample and to which
\* no sample ever comes back, whatever frames cost and whichever is thinned.
THEOREM TimelineKeepsNewest == Spec => KeepsNewest
  <1>1. Init => History!Init
    <2> SUFFICES ASSUME Init PROVE History!Init
      OBVIOUS
    <2>1. Times = {1}
      BY DEF Init, Times
    <2> QED BY <2>1 DEF History!Init
  <1>2. FramesInv /\ [Next]_vars => [History!Next]_Times
    <2> SUFFICES ASSUME FramesInv, [Next]_vars
                 PROVE  [History!Next]_Times
      OBVIOUS
    <2> DEFINE fs == frames'
               n  == Len(frames)
               old == {frames[i].at : i \in 1..n}
               new == {fs[i].at : i \in 1..Len(fs)}
    <2>0. n \in Nat /\ n > 0 /\ Times = old
      BY DEF FramesInv, Times
    <2>1. Times' = new
      BY FramesStep DEF FramesInv, Times
    <2>2. ASSUME NEW size \in sizes, NEW p \in Profiles, Retain(size, p) PROVE History!Retain
      <3> DEFINE t == LastFrame(frames).at + 1
      <3>1. /\ Len(fs) = n + 1 /\ \A i \in 1..n : fs[i] = frames[i]
            /\ fs[n + 1].at = t
        BY <2>2, RetainType
      <3>2. LastFrame(frames).at \in Nat /\ \A u \in old : u \in Nat /\ u <= LastFrame(frames).at
        BY <2>0, LastIsNewest DEF FramesInv, LastFrame
      <3>3. t \in Nat /\ \A u \in old : u < t
        <4> HIDE DEF old
        <4> QED BY <3>2
      <3> HIDE DEF fs, t
      <3>4. new = old \cup {t}
        BY <2>0, <3>1
      <3> QED BY <2>0, <2>1, <3>3, <3>4 DEF History!Retain
    <2>3. History!Newest(Times) = LastFrame(frames).at /\ FramesInv'
      BY <2>0, NewestIsLast, FramesStep DEF FramesInv
    <2>4. CASE Drop
      <3>1. n > 1 /\ Len(fs) = n - 1 /\ \A i \in 1..n - 1 : fs[i] = frames[i + 1]
        BY <2>4, DropType
      <3> HIDE DEF fs
      <3>2. new \subseteq old
        <4>1. ASSUME NEW i \in 1..Len(fs) PROVE fs[i].at \in old
          <5>1. i \in 1..n - 1 /\ i + 1 \in 1..n
            BY <2>0, <3>1
          <5>2. fs[i].at = frames[i + 1].at
            BY <3>1, <5>1
          <5> QED BY <5>1, <5>2
        <4> QED BY <4>1
      <3>3. fs[n - 1] = frames[n] /\ n - 1 \in 1..Len(fs)
        BY <2>0, <3>1
      <3>4. LastFrame(frames).at \in new
        BY <3>3 DEF LastFrame
      <3> QED BY <2>0, <2>1, <2>3, <3>2, <3>4 DEF History!Evict, History!Next
    <2>5. CASE Thin
      <3>1. /\ Len(fs) = ThinnedLen(n)
            /\ \A i \in 1..ThinnedLen(n) : fs[i] = frames[Source(n, i)]
        BY <2>5, ThinType
      <3>2. /\ ThinnedLen(n) \in 1..n /\ Source(n, ThinnedLen(n)) = n
            /\ \A i \in 1..ThinnedLen(n) : Source(n, i) \in 1..n
        BY <2>0, SourceIncreases
      <3> HIDE DEF fs
      <3>3. new \subseteq old
        BY <3>1, <3>2
      <3>4. fs[ThinnedLen(n)] = frames[n] /\ ThinnedLen(n) \in 1..Len(fs)
        BY <2>0, <3>1, <3>2
      <3>5. LastFrame(frames).at \in new
        BY <3>4 DEF LastFrame
      <3> QED BY <2>0, <2>1, <2>3, <3>3, <3>5 DEF History!Evict, History!Next
    <2>6. CASE UNCHANGED frames
      BY <2>6 DEF Times
    <2> QED BY <2>2, <2>4, <2>5, <2>6 DEF Next, Repeated, Retained, vars, History!Next
  <1> QED BY <1>1, <1>2, FramesInit, FramesStep, PTL DEF Spec, KeepsNewest, History!Spec

-----------------------------------------------------------------------------
(* Pairing.  A key is a slot or a request; what is held of it is a start and *)
(* the bytes left, none of a slot.                                           *)

PairingSpec == PairingInit /\ [][PairingNext]_pairingVars

Keys == Slots \cup Requests
Held(k) == IF k \in Slots THEN [start |-> spans[k], left |-> 0] ELSE outstanding[k]
Values == {NoRequest} \cup [start : 0..MaxEvents, left : 0..2]

SpanTypes == {"enter", "leave", "exit"}
RequestTypes == {"issue", "done", "requeue"}
PairEvent ==
  {e \in [type : SpanTypes \cup RequestTypes, key : Keys, at : 0..MaxEvents, bytes : 0..2] :
     /\ e.type \in SpanTypes => e.key \in Slots /\ e.bytes = 0
     /\ e.type \in RequestTypes => e.key \in Requests}

\* What the tracer's maps hold of k after an event, and whether it is paired.
After(v, e, k) ==
  IF e.key # k THEN v
  ELSE IF e.type \in {"enter", "issue"} THEN [start |-> e.at, left |-> e.bytes]
  ELSE IF e.type = "done" /\ v # NoRequest /\ e.bytes < v.left
    THEN [start |-> v.start, left |-> v.left - e.bytes]
  ELSE NoRequest
Finishes(v, e, k) ==
  /\ e.key = k /\ v # NoRequest
  /\ e.type = "leave" \/ (e.type = "done" /\ ~(e.bytes < v.left))

PairTypes ==
  /\ ticks \in 0..MaxEvents /\ attached \in 0..Len(Programs) /\ alive \subseteq Threads
  /\ inside \in [Slots -> NoTime..MaxEvents] /\ issued \in [Requests -> Values]
  /\ ring \in Seq(PairEvent) /\ Len(ring) <= RingCap
  /\ batch \in 0..PollBatch /\ losses \in 0..ticks
  /\ spans \in [Slots -> NoTime..MaxEvents] /\ outstanding \in [Requests -> Values]
  /\ lastLoss \in 0..losses /\ lost \in Nat /\ lost >= lastLoss
  /\ Cardinality({t \in Threads : spans[t] # NoTime}) <= SpanCap
  /\ Cardinality({r \in Requests : outstanding[r] # NoRequest}) <= RequestCap
  /\ \A s \in Slots : inside[s] # NoTime => s \in alive \cup Handlers

LEMMA AttachedIs ==
  ASSUME attached \in 0..Len(Programs)
  PROVE  /\ Len(Programs) = 6
         /\ Attached("enter") <=> attached >= 1
         /\ Attached("leave") <=> attached >= 2
         /\ Attached("exit") <=> attached >= 3
         /\ Attached("issue") <=> attached >= 4
         /\ Attached("done") <=> attached >= 5
         /\ Attached("requeue") <=> attached >= 6
  <1>1. Len(Programs) = 6 /\ DOMAIN Programs = 1..6
    BY DEF Programs
  <1>2. /\ Programs[1] = "enter" /\ Programs[2] = "leave" /\ Programs[3] = "exit"
        /\ Programs[4] = "issue" /\ Programs[5] = "done" /\ Programs[6] = "requeue"
    BY DEF Programs
  <1>3. \A i \in 1..6 : i = 1 \/ i = 2 \/ i = 3 \/ i = 4 \/ i = 5 \/ i = 6
    OBVIOUS
  <1> DEFINE a == attached
  <1>4. a \in 0..6
    BY <1>1
  <1> HIDE DEF a
  <1>5. \A n \in 1..6 : (\E i \in 1..a : i = n) <=> a >= n
    BY <1>4
  <1>6. \A type : (\E i \in 1..a : Programs[i] = type) <=>
          \E n \in 1..6 : Programs[n] = type /\ a >= n
    <2> TAKE type
    <2>1. \A i \in 1..a : i \in 1..6
      BY <1>4
    <2> QED BY <1>4, <2>1
  <1>7. /\ (\E n \in 1..6 : Programs[n] = "enter" /\ a >= n) <=> a >= 1
        /\ (\E n \in 1..6 : Programs[n] = "leave" /\ a >= n) <=> a >= 2
        /\ (\E n \in 1..6 : Programs[n] = "exit" /\ a >= n) <=> a >= 3
        /\ (\E n \in 1..6 : Programs[n] = "issue" /\ a >= n) <=> a >= 4
        /\ (\E n \in 1..6 : Programs[n] = "done" /\ a >= n) <=> a >= 5
        /\ (\E n \in 1..6 : Programs[n] = "requeue" /\ a >= n) <=> a >= 6
    BY <1>2, <1>3
  <1> QED BY <1>1, <1>6, <1>7 DEF Attached, a

\* What is pending of k, once the ring is drained, against the host.
SlotAgrees(s, v) ==
  \/ s \in unseen
  \/ inside[s] = v.start
  \/ inside[s] = NoTime /\ s \in alive \cup Handlers
RequestAgrees(r, v) ==
  \/ issued[r] = v
  \/ r \in unseen /\ (issued[r] = NoRequest \/ issued[r].left < v.left)
Agrees(k, v) ==
  \/ v = NoRequest
  \/ k \in Slots /\ attached >= 1 /\ SlotAgrees(k, v)
  \/ k \in Requests /\ attached >= 4 /\ RequestAgrees(k, v)

\* A pair that was, or one of a thread whose end was not seen.
Backed(k, start, at) == <<k, start, at>> \in truth \/ (k \in Slots /\ k \in unseen)

\* An event tells what happened to every key.
Told(e) ==
  \A k \in Keys : \A v \in Values : Agrees(k, v) =>
    IF Attached(e.type)
      THEN Agrees(k, After(v, e, k))' /\ (Finishes(v, e, k) => Backed(k, v.start, e.at)')
      ELSE Agrees(k, v)'

LEMMA KeysDiffer ==
  /\ \A k \in Slots : k \notin Requests
  /\ \A t \in Threads : t \in Slots /\ t \notin Handlers
  BY PairingAssumption DEF Slots

LEMMA AfterType ==
  ASSUME NEW v \in Values, NEW e \in PairEvent, NEW k
  PROVE  After(v, e, k) \in Values
  BY DEF After, Values, PairEvent, NoRequest, NoTime

\* What the host's steps leave alone, key by key.
LEMMA OtherKeys ==
  ASSUME NEW k, NEW v, NEW x, Agrees(k, v), k # x, attached' = attached,
         k \in Slots => inside'[k] = inside[k] /\ (k \in alive \cup Handlers => k \in alive' \cup Handlers),
         k \in Requests => issued'[k] = issued[k],
         k \in unseen => k \in unseen'
  PROVE  Agrees(k, v)'
  BY DEF Agrees, SlotAgrees, RequestAgrees

LEMMA EnterTold ==
  ASSUME PairTypes, NEW s \in Slots, Enter(s), NEW e \in PairEvent,
         e.type = "enter", e.key = s, e.at = ticks', e.bytes = 0
  PROVE  Told(e)
  <1>1. /\ inside' = [inside EXCEPT ![s] = e.at] /\ inside[s] = NoTime /\ s \in alive \cup Handlers
        /\ UNCHANGED <<attached, alive, issued, unseen>> /\ inside \in [Slots -> NoTime..MaxEvents]
    BY DEF Enter, PairTypes
  <1>2. Attached("enter") <=> attached >= 1
    BY AttachedIs DEF PairTypes
  <1> SUFFICES ASSUME NEW k \in Keys, NEW v \in Values, Agrees(k, v)
               PROVE  IF Attached(e.type)
                        THEN Agrees(k, After(v, e, k))' /\ (Finishes(v, e, k) => Backed(k, v.start, e.at)')
                        ELSE Agrees(k, v)'
    BY DEF Told
  <1>3. ~Finishes(v, e, k)
    BY DEF Finishes
  <1>4. CASE k # s
    <2>1. Agrees(k, v)'
      BY <1>1, <1>4, OtherKeys
    <2> QED BY <1>3, <1>4, <2>1 DEF After
  <1>5. CASE k = s
    <2>1. inside'[s] = e.at
      BY <1>1
    <2>2. CASE Attached("enter")
      <3>1. After(v, e, k) = [start |-> e.at, left |-> 0]
        BY <1>5 DEF After
      <3>2. Agrees(k, [start |-> e.at, left |-> 0])'
        BY <1>1, <1>2, <1>5, <2>1, <2>2 DEF Agrees, SlotAgrees
      <3> QED BY <1>3, <2>2, <3>1, <3>2
    <2>3. CASE ~Attached("enter")
      <3>1. v = NoRequest
        BY <1>2, <1>5, <2>3, KeysDiffer DEF Agrees, PairTypes
      <3> QED BY <2>3, <3>1 DEF Agrees
    <2> QED BY <2>2, <2>3
  <1> QED BY <1>4, <1>5

LEMMA LeaveTold ==
  ASSUME PairTypes, NEW s \in Slots, Leave(s), NEW e \in PairEvent,
         e.type = "leave", e.key = s, e.at = ticks'
  PROVE  Told(e)
  <1>1. /\ inside' = [inside EXCEPT ![s] = NoTime] /\ inside[s] # NoTime
        /\ truth' = truth \cup {<<s, inside[s], e.at>>}
        /\ UNCHANGED <<attached, alive, issued, unseen>> /\ inside \in [Slots -> NoTime..MaxEvents]
        /\ s \in alive \cup Handlers
    BY DEF Leave, PairTypes
  <1> SUFFICES ASSUME NEW k \in Keys, NEW v \in Values, Agrees(k, v)
               PROVE  IF Attached(e.type)
                        THEN Agrees(k, After(v, e, k))' /\ (Finishes(v, e, k) => Backed(k, v.start, e.at)')
                        ELSE Agrees(k, v)'
    BY DEF Told
  <1>4. CASE k # s
    <2>1. Agrees(k, v)'
      BY <1>1, <1>4, OtherKeys
    <2> QED BY <1>4, <2>1 DEF After, Finishes
  <1>5. CASE k = s
    <2>1. inside'[s] = NoTime
      BY <1>1
    <2>2. After(v, e, k) = NoRequest
      BY <1>5 DEF After
    <2>3. Finishes(v, e, k) => Backed(k, v.start, e.at)'
      BY <1>1, <1>5, KeysDiffer DEF Finishes, Backed, Agrees, SlotAgrees
    <2>4. Agrees(k, v)'
      BY <1>1, <1>5, <2>1, KeysDiffer DEF Agrees, SlotAgrees
    <2> QED BY <2>2, <2>3, <2>4 DEF Agrees
  <1> QED BY <1>4, <1>5

LEMMA ThreadEndsTold ==
  ASSUME PairTypes, NEW s \in Threads, ThreadEnds(s), NEW e \in PairEvent,
         e.type = "exit", e.key = s, e.at = ticks'
  PROVE  Told(e)
  <1>1. /\ inside' = [inside EXCEPT ![s] = NoTime] /\ alive' = alive \ {s}
        /\ unseen' = IF Attached("exit") THEN unseen ELSE unseen \cup {s}
        /\ UNCHANGED <<attached, issued>> /\ inside \in [Slots -> NoTime..MaxEvents] /\ s \in Slots
    BY KeysDiffer DEF ThreadEnds, PairTypes
  <1> SUFFICES ASSUME NEW k \in Keys, NEW v \in Values, Agrees(k, v)
               PROVE  IF Attached(e.type)
                        THEN Agrees(k, After(v, e, k))' /\ (Finishes(v, e, k) => Backed(k, v.start, e.at)')
                        ELSE Agrees(k, v)'
    BY DEF Told
  <1>3. ~Finishes(v, e, k)
    BY DEF Finishes
  <1>4. CASE k # s
    <2>1. Agrees(k, v)'
      BY <1>1, <1>4, OtherKeys
    <2> QED BY <1>3, <1>4, <2>1 DEF After
  <1>5. CASE k = s
    <2>2. After(v, e, k) = NoRequest
      BY <1>5 DEF After
    <2>3. ~Attached("exit") => Agrees(k, v)'
      BY <1>1, <1>5, KeysDiffer DEF Agrees, SlotAgrees
    <2> QED BY <1>3, <2>2, <2>3 DEF Agrees
  <1> QED BY <1>4, <1>5

LEMMA ThreadBeginsTold ==
  ASSUME PairTypes, NEW s \in Threads, ThreadBegins(s), NEW e \in PairEvent,
         e.type = "leave", e.key = s, e.at = ticks'
  PROVE  Told(e)
  <1>1. /\ s \notin alive /\ alive' = alive \cup {s} /\ s \in Slots /\ s \notin Handlers
        /\ UNCHANGED <<attached, inside, issued, unseen>>
        /\ inside[s] # NoTime => s \in alive \cup Handlers
    BY KeysDiffer DEF ThreadBegins, PairTypes
  <1> SUFFICES ASSUME NEW k \in Keys, NEW v \in Values, Agrees(k, v)
               PROVE  IF Attached(e.type)
                        THEN Agrees(k, After(v, e, k))' /\ (Finishes(v, e, k) => Backed(k, v.start, e.at)')
                        ELSE Agrees(k, v)'
    BY DEF Told
  <1>4. CASE k # s
    <2>1. Agrees(k, v)'
      BY <1>1, <1>4, OtherKeys
    <2> QED BY <1>4, <2>1 DEF After, Finishes
  <1>5. CASE k = s
    <2>1. After(v, e, k) = NoRequest
      BY <1>5 DEF After
    <2>2. v = NoRequest \/ s \in unseen
      <3>1. inside[s] = NoTime
        BY <1>1
      <3>2. v # NoRequest => v.start # NoTime
        BY DEF Values, NoTime
      <3> QED BY <1>1, <1>5, <3>1, <3>2, KeysDiffer DEF Agrees, SlotAgrees
    <2>3. Finishes(v, e, k) => Backed(k, v.start, e.at)'
      BY <1>1, <1>5, <2>2 DEF Finishes, Backed
    <2>4. Agrees(k, v)'
      BY <1>1, <1>5, <2>2, KeysDiffer DEF Agrees, SlotAgrees
    <2> QED BY <2>1, <2>3, <2>4 DEF Agrees
  <1> QED BY <1>4, <1>5

LEMMA IssueTold ==
  ASSUME PairTypes, NEW r \in Requests, NEW size \in Sizes, NEW e \in PairEvent,
         issued[r] = NoRequest,
         issued' = [issued EXCEPT ![r] = [start |-> ticks', left |-> size]],
         unseen' = unseen \ {r}, UNCHANGED <<attached, alive, inside, truth>>,
         e.type = "issue", e.key = r, e.at = ticks', e.bytes = size
  PROVE  Told(e)
  <1>1. issued'[r] = [start |-> e.at, left |-> e.bytes] /\ \A k \in Requests : k # r => issued'[k] = issued[k]
    BY DEF PairTypes
  <1>2. Attached("issue") <=> attached >= 4
    BY AttachedIs DEF PairTypes
  <1>3. r \notin Slots
    BY KeysDiffer
  <1> SUFFICES ASSUME NEW k \in Keys, NEW v \in Values, Agrees(k, v)
               PROVE  IF Attached(e.type)
                        THEN Agrees(k, After(v, e, k))' /\ (Finishes(v, e, k) => Backed(k, v.start, e.at)')
                        ELSE Agrees(k, v)'
    BY DEF Told
  <1>4. ~Finishes(v, e, k)
    BY DEF Finishes
  <1>5. CASE k # r
    <2>1. Agrees(k, v)'
      BY <1>1, <1>5, OtherKeys
    <2> QED BY <1>4, <1>5, <2>1 DEF After
  <1>6. CASE k = r
    <2>1. CASE Attached("issue")
      <3>1. After(v, e, k) = [start |-> e.at, left |-> e.bytes]
        BY <1>6 DEF After
      <3>2. Agrees(k, [start |-> e.at, left |-> e.bytes])'
        BY <1>1, <1>2, <1>6, <2>1 DEF Agrees, RequestAgrees
      <3> QED BY <1>4, <2>1, <3>1, <3>2
    <2>2. CASE ~Attached("issue")
      <3>1. v = NoRequest
        BY <1>2, <1>3, <1>6, <2>2 DEF Agrees, PairTypes
      <3> QED BY <2>2, <3>1 DEF Agrees
    <2> QED BY <2>1, <2>2
  <1> QED BY <1>5, <1>6

\* What is left of a request at the device is less than what v has left of it.
LEMMA CompleteTold ==
  ASSUME PairTypes, NEW r \in Requests, NEW size \in 1..issued[r].left, NEW e \in PairEvent,
         IF size = issued[r].left
           THEN Ends(r, "done") /\ truth' = truth \cup {<<r, issued[r].start, ticks'>>}
           ELSE /\ issued' = [issued EXCEPT ![r].left = @ - size]
                /\ unseen' = IF Attached("done") THEN unseen ELSE unseen \cup {r}
                /\ UNCHANGED truth,
         UNCHANGED <<attached, alive, inside>>,
         e.type = "done", e.key = r, e.at = ticks', e.bytes = size
  PROVE  Told(e)
  <1> DEFINE p == issued[r]
  <1>1. p \in Values /\ r \notin Slots /\ p # NoRequest
    <2>1. NoRequest.left = 0
      BY DEF NoRequest
    <2> QED BY <2>1, KeysDiffer DEF PairTypes
  <1>2. p.left \in 0..2 /\ size \in 1..p.left /\ p = [start |-> p.start, left |-> p.left]
    BY <1>1 DEF Values, NoRequest
  <1>3. unseen' = IF Attached("done") THEN unseen ELSE unseen \cup {r}
    BY DEF Ends
  <1>4. \A k \in Requests : k # r => issued'[k] = issued[k]
    BY DEF Ends, PairTypes
  <1>5. issued'[r] = IF size = p.left THEN NoRequest ELSE [start |-> p.start, left |-> p.left - size]
    <2>1. CASE size = p.left
      BY <2>1 DEF Ends, PairTypes
    <2>2. CASE size # p.left
      <3>1. issued' = [issued EXCEPT ![r] = [p EXCEPT !.left = p.left - size]]
        BY <2>2
      <3>2. issued'[r] = [p EXCEPT !.left = p.left - size]
        BY <3>1 DEF PairTypes
      <3>3. [p EXCEPT !.left = p.left - size] = [start |-> p.start, left |-> p.left - size]
        BY <1>2
      <3> QED BY <2>2, <3>2, <3>3
    <2> QED BY <2>1, <2>2
  <1>6. size = p.left => truth' = truth \cup {<<r, p.start, e.at>>}
    OBVIOUS
  <1> SUFFICES ASSUME NEW k \in Keys, NEW v \in Values, Agrees(k, v)
               PROVE  IF Attached(e.type)
                        THEN Agrees(k, After(v, e, k))' /\ (Finishes(v, e, k) => Backed(k, v.start, e.at)')
                        ELSE Agrees(k, v)'
    BY DEF Told
  <1>7. CASE k # r
    <2>1. UNCHANGED <<attached, alive, inside>> /\ (k \in unseen => k \in unseen')
      BY <1>3
    <2>2. Agrees(k, v)'
      BY <1>4, <1>7, <2>1, OtherKeys
    <2> QED BY <1>7, <2>2 DEF After, Finishes
  <1>8. CASE v = NoRequest
    BY <1>8 DEF After, Finishes, Agrees
  <1>9. CASE k = r /\ v # NoRequest
    <2> DEFINE q == issued'[r]
    <2>1. attached >= 4 /\ (v = p \/ (r \in unseen /\ p.left < v.left))
      BY <1>1, <1>9 DEF Agrees, RequestAgrees
    <2>2. /\ v.left \in 0..2 /\ v = [start |-> v.start, left |-> v.left] /\ v.start \in 0..MaxEvents
          /\ p.left <= v.left /\ v.left - size \in 0..2
      BY <1>2, <1>9, <2>1 DEF Values
    <2>3. After(v, e, k) = IF size < v.left THEN [start |-> v.start, left |-> v.left - size] ELSE NoRequest
      BY <1>9 DEF After
    <2>4. CASE Attached("done")
      <3>1. unseen' = unseen
        BY <1>3, <2>4
      <3>2. CASE v = p
        <4>1. q = After(v, e, k)
          <5>1. CASE size = p.left
            BY <1>2, <1>5, <2>3, <3>2, <5>1
          <5>2. CASE size # p.left
            <6>1. size < v.left
              BY <1>2, <3>2, <5>2
            <6> QED BY <1>5, <2>3, <3>2, <5>2, <6>1
          <5> QED BY <5>1, <5>2
        <4>2. Agrees(k, After(v, e, k))'
          BY <1>9, <2>1, <4>1 DEF Agrees, RequestAgrees
        <4>3. Finishes(v, e, k) => size = p.left
          BY <1>2, <3>2 DEF Finishes
        <4>4. Finishes(v, e, k) => Backed(k, v.start, e.at)'
          BY <1>6, <1>9, <3>2, <4>3 DEF Backed
        <4> QED BY <2>4, <4>2, <4>4
      <3>3. CASE r \in unseen /\ p.left < v.left
        <4> DEFINE w == [start |-> v.start, left |-> v.left - size]
        <4>1. size < v.left
          BY <1>2, <2>2, <3>3
        <4>2. After(v, e, k) = w /\ ~Finishes(v, e, k)
          BY <2>3, <4>1 DEF Finishes
        <4>3. q = NoRequest \/ q.left < w.left
          <5>1. q = NoRequest \/ q.left = p.left - size
            BY <1>5
          <5>2. p.left - size < v.left - size
            BY <1>2, <2>2, <3>3
          <5> QED BY <5>1, <5>2
        <4>4. Agrees(k, w)'
          BY <1>9, <2>1, <3>1, <3>3, <4>3 DEF Agrees, RequestAgrees
        <4> QED BY <2>4, <4>2, <4>4
      <3> QED BY <2>1, <3>2, <3>3
    <2>5. CASE ~Attached("done")
      <3>1. r \in unseen'
        BY <1>3, <2>5
      <3>2. q = NoRequest \/ q.left < v.left
        <4>1. q = NoRequest \/ q.left = p.left - size
          BY <1>5
        <4>2. p.left - size < v.left
          BY <1>2, <2>2
        <4> QED BY <4>1, <4>2
      <3>3. Agrees(k, v)'
        BY <1>9, <2>1, <3>1, <3>2 DEF Agrees, RequestAgrees
      <3> QED BY <2>5, <3>3
    <2> QED BY <2>4, <2>5
  <1> QED BY <1>7, <1>8, <1>9

LEMMA RequeueTold ==
  ASSUME PairTypes, NEW r \in Requests, Requeue(r), NEW e \in PairEvent,
         e.type = "requeue", e.key = r, e.at = ticks'
  PROVE  Told(e)
  <1>1. /\ issued' = [issued EXCEPT ![r] = NoRequest] /\ issued \in [Requests -> Values]
        /\ unseen' = IF Attached("requeue") THEN unseen ELSE unseen \cup {r}
        /\ UNCHANGED <<attached, alive, inside, truth>> /\ r \notin Slots
    BY KeysDiffer DEF Requeue, Ends, PairTypes
  <1> SUFFICES ASSUME NEW k \in Keys, NEW v \in Values, Agrees(k, v)
               PROVE  IF Attached(e.type)
                        THEN Agrees(k, After(v, e, k))' /\ (Finishes(v, e, k) => Backed(k, v.start, e.at)')
                        ELSE Agrees(k, v)'
    BY DEF Told
  <1>2. ~Finishes(v, e, k)
    BY DEF Finishes
  <1>3. CASE k # r
    <2>1. Agrees(k, v)'
      BY <1>1, <1>3, OtherKeys
    <2> QED BY <1>2, <1>3, <2>1 DEF After
  <1>4. CASE k = r
    <2>1. issued'[r] = NoRequest
      BY <1>1
    <2>2. After(v, e, k) = NoRequest
      BY <1>4 DEF After
    <2>3. ~Attached("requeue") => Agrees(k, v)'
      BY <1>1, <1>4, <2>1 DEF Agrees, RequestAgrees
    <2> QED BY <1>2, <2>2, <2>3 DEF Agrees
  <1> QED BY <1>3, <1>4

-----------------------------------------------------------------------------
(* What the maps hold of k as the events still in the ring are taken.        *)

Runs(g, q, h, k) ==
  /\ g \in [0..Len(q) -> Values] /\ g[0] = h
  /\ \A i \in 1..Len(q) : g[i] = After(g[i - 1], q[i], k)
AllBacked(g, q, k) ==
  \A i \in 1..Len(q) : Finishes(g[i - 1], q[i], k) => Backed(k, g[i - 1].start, q[i].at)
Paths ==
  \A k \in Keys : \E g : /\ Runs(g, ring, Held(k), k) /\ AllBacked(g, ring, k)
                         /\ Agrees(k, g[Len(ring)])
Measured == \A s \in samples : s \in truth \/ (s[1] \in Slots /\ s[1] \in unseen)

Clean == lost = 0 /\ losses = 0
PairInv == PairTypes /\ (Clean => Paths /\ Measured)

LEMMA RunsAppend ==
  ASSUME NEW q \in Seq(PairEvent), NEW e \in PairEvent, NEW g, NEW h, NEW k, Runs(g, q, h, k),
         NEW d, d = [i \in 0..Len(q) + 1 |-> IF i <= Len(q) THEN g[i] ELSE After(g[Len(q)], e, k)]
  PROVE  /\ Runs(d, Append(q, e), h, k)
         /\ d[Len(q) + 1] = After(g[Len(q)], e, k)
         /\ \A i \in 0..Len(q) : d[i] = g[i]
  <1> DEFINE n == Len(q)
             r == Append(q, e)
  <1>1. /\ n \in Nat /\ Len(r) = n + 1 /\ r[n + 1] = e
        /\ \A i \in 1..n : r[i] = q[i]
    OBVIOUS
  <1>2. d = [i \in 0..n + 1 |-> IF i <= n THEN g[i] ELSE After(g[n], e, k)]
    OBVIOUS
  <1>3. g \in [0..n -> Values] /\ g[0] = h /\ \A i \in 1..n : g[i] = After(g[i - 1], q[i], k)
    BY DEF Runs
  <1> HIDE DEF n, r
  <1>4. d[n + 1] = After(g[n], e, k) /\ \A i \in 0..n : d[i] = g[i]
    BY <1>1, <1>2
  <1>5. After(g[n], e, k) \in Values
    BY <1>1, <1>3, AfterType
  <1>6. d \in [0..n + 1 -> Values]
    <2>1. ASSUME NEW i \in 0..n + 1
          PROVE  (IF i <= n THEN g[i] ELSE After(g[n], e, k)) \in Values
      <3>1. i <= n => i \in 0..n
        BY <1>1
      <3> QED BY <1>3, <1>5, <3>1
    <2> QED BY <1>2, <2>1
  <1>7. ASSUME NEW i \in 1..n + 1
        PROVE  d[i] = After(d[i - 1], r[i], k)
    <2>1. CASE i <= n
      <3>1. i \in 1..n /\ i \in 0..n /\ i - 1 \in 0..n
        BY <1>1, <2>1
      <3> QED BY <1>1, <1>3, <1>4, <3>1
    <2>2. CASE i = n + 1
      <3>1. i - 1 = n /\ n \in 0..n
        BY <1>1, <2>2
      <3> QED BY <1>1, <1>4, <2>2, <3>1
    <2> QED BY <1>1, <2>1, <2>2
  <1>8. d[0] = h
    BY <1>1, <1>3, <1>4
  <1>9. Runs(d, r, h, k)
    BY <1>1, <1>6, <1>7, <1>8 DEF Runs
  <1> QED BY <1>4, <1>9 DEF n, r

LEMMA RunsTail ==
  ASSUME NEW q \in Seq(PairEvent), q # <<>>, NEW g, NEW h, NEW k, Runs(g, q, h, k),
         NEW d, d = [i \in 0..Len(q) - 1 |-> g[i + 1]]
  PROVE  /\ Runs(d, Tail(q), After(h, Head(q), k), k)
         /\ d[Len(Tail(q))] = g[Len(q)]
         /\ \A i \in 0..Len(q) - 1 : d[i] = g[i + 1]
  <1> DEFINE n == Len(q)
             r == Tail(q)
  <1>1. /\ n \in Nat \ {0} /\ Len(r) = n - 1 /\ Head(q) = q[1]
        /\ \A i \in 1..n - 1 : r[i] = q[i + 1]
    OBVIOUS
  <1>2. d = [i \in 0..n - 1 |-> g[i + 1]]
    OBVIOUS
  <1>3. g \in [0..n -> Values] /\ g[0] = h /\ \A i \in 1..n : g[i] = After(g[i - 1], q[i], k)
    BY DEF Runs
  <1> HIDE DEF n, r
  <1>4. \A i \in 0..n - 1 : d[i] = g[i + 1] /\ i + 1 \in 1..n
    BY <1>1, <1>2
  <1>5. d \in [0..n - 1 -> Values]
    BY <1>1, <1>2, <1>3
  <1>6. ASSUME NEW i \in 1..n - 1
        PROVE  d[i] = After(d[i - 1], r[i], k)
    <2>1. i \in 0..n - 1 /\ i - 1 \in 0..n - 1 /\ (i - 1) + 1 = i /\ i + 1 \in 1..n /\ (i + 1) - 1 = i
      BY <1>1
    <2>2. d[i] = g[i + 1] /\ d[i - 1] = g[i] /\ g[i + 1] = After(g[i], q[i + 1], k)
      BY <1>3, <1>4, <2>1
    <2> QED BY <1>1, <2>2
  <1>7. d[0] = After(h, Head(q), k)
    <2>1. 0 \in 0..n - 1 /\ 0 + 1 = 1 /\ 1 \in 1..n /\ 1 - 1 = 0
      BY <1>1
    <2> QED BY <1>1, <1>3, <1>4, <2>1
  <1>8. Runs(d, r, After(h, Head(q), k), k)
    BY <1>1, <1>5, <1>6, <1>7 DEF Runs
  <1>9. d[Len(r)] = g[n]
    <2>1. n - 1 \in 0..n - 1 /\ (n - 1) + 1 = n
      BY <1>1
    <2> QED BY <1>1, <1>4, <2>1
  <1> QED BY <1>4, <1>8, <1>9 DEF n, r

\* The host loses nothing that happened.
Grows == truth \subseteq truth' /\ unseen \cap Slots \subseteq unseen' \cap Slots

LEMMA BackedGrows ==
  ASSUME Grows, NEW g, NEW q, NEW k, AllBacked(g, q, k)
  PROVE  AllBacked(g, q, k)'
  BY DEF Grows, AllBacked, Backed

\* An event of the host that its program sees, or that no program sees yet.
LEMMA EmittedPaths ==
  ASSUME PairTypes, NEW type, NEW key, NEW size, Emit(type, key, size),
         NEW e \in PairEvent, e = [type |-> type, key |-> key, at |-> ticks', bytes |-> size],
         Told(e), Grows, UNCHANGED tracerVars, Clean', Paths, Measured
  PROVE  Paths' /\ Measured'
  <1>1. UNCHANGED <<spans, outstanding, samples>>
    BY DEF tracerVars
  <1>2. Measured'
    BY <1>1 DEF Measured, Grows
  <1> SUFFICES ASSUME NEW k \in Keys, NEW q, q = ring, NEW w, w = ring'
               PROVE  \E g : /\ Runs(g, w, Held(k), k) /\ AllBacked(g, w, k)'
                             /\ Agrees(k, g[Len(w)])'
    <2>1. \A k \in Keys : Held(k)' = Held(k)
      BY <1>1 DEF Held
    <2>2. \A w : w = ring' =>
            \A k \in Keys : \E g : /\ Runs(g, w, Held(k)', k) /\ AllBacked(g, w, k)'
                                   /\ Agrees(k, g[Len(w)])'
      BY <2>1
    <2>3. Paths'
      BY <2>2 DEF Paths
    <2> QED BY <1>2, <2>3
  <1>3. PICK g : Runs(g, q, Held(k), k) /\ AllBacked(g, q, k) /\ Agrees(k, g[Len(q)])
    BY DEF Paths
  <1>4. q \in Seq(PairEvent) /\ Len(q) \in Nat
    BY DEF PairTypes
  <1> DEFINE v == g[Len(q)]
  <1>5. v \in Values /\ Agrees(k, v)
    <2>1. Len(q) \in 0..Len(q)
      BY <1>4
    <2> QED BY <1>3, <2>1 DEF Runs
  <1>6. /\ Attached(type) => Agrees(k, After(v, e, k))' /\ (Finishes(v, e, k) => Backed(k, v.start, e.at)')
        /\ ~Attached(type) => Agrees(k, v)'
    BY <1>5 DEF Told
  <1>7. AllBacked(g, q, k)'
    BY <1>3, BackedGrows
  <1> HIDE DEF v
  <1>8. CASE ~Attached(type)
    <2>1. w = q
      BY <1>8 DEF Emit
    <2>2. Agrees(k, g[Len(q)])'
      BY <1>6, <1>8 DEF v
    <2> QED BY <1>3, <1>7, <2>1, <2>2
  <1>9. CASE Attached(type)
    <2>1. w = Append(q, e)
      <3>1. losses' # losses + 1
        BY DEF Clean, PairTypes
      <3> QED BY <1>9, <3>1 DEF Emit
    <2> DEFINE d == [i \in 0..Len(q) + 1 |-> IF i <= Len(q) THEN g[i] ELSE After(g[Len(q)], e, k)]
    <2>2. /\ Runs(d, w, Held(k), k)
          /\ d[Len(q) + 1] = After(v, e, k)
          /\ \A i \in 0..Len(q) : d[i] = g[i]
      BY <1>3, <1>4, <2>1, RunsAppend DEF v
    <2> HIDE DEF d
    <2>3. Len(w) = Len(q) + 1 /\ w[Len(q) + 1] = e /\ \A i \in 1..Len(q) : w[i] = q[i]
      BY <1>4, <2>1
    <2>4. Agrees(k, d[Len(w)])'
      <3>1. d[Len(w)] = After(v, e, k)
        BY <2>2, <2>3
      <3> QED BY <1>6, <1>9, <3>1
    <2>5. ASSUME NEW i \in 1..Len(w), Finishes(d[i - 1], w[i], k)
          PROVE  Backed(k, d[i - 1].start, w[i].at)'
      <3>1. CASE i \in 1..Len(q)
        <4>1. d[i - 1] = g[i - 1] /\ w[i] = q[i]
          BY <1>4, <2>2, <2>3, <3>1
        <4> QED BY <1>7, <2>5, <3>1, <4>1 DEF AllBacked
      <3>2. CASE i = Len(q) + 1
        <4>1. i - 1 = Len(q) /\ Len(q) \in 0..Len(q)
          BY <1>4, <3>2
        <4>2. d[i - 1] = v /\ w[i] = e
          BY <2>2, <2>3, <3>2, <4>1 DEF v
        <4> QED BY <1>6, <1>9, <2>5, <4>2
      <3> QED BY <1>4, <2>3, <3>1, <3>2
    <2>6. AllBacked(d, w, k)'
      BY <2>5 DEF AllBacked
    <2> QED BY <2>2, <2>4, <2>6
  <1> QED BY <1>8, <1>9

\* The tracer's maps and counters follow the host's steps by the ring alone.
LEMMA HostStep ==
  ASSUME PairInv, NEW type, NEW key, NEW size, Emit(type, key, size),
         NEW e \in PairEvent, e = [type |-> type, key |-> key, at |-> ticks', bytes |-> size],
         Told(e), Grows, UNCHANGED tracerVars, UNCHANGED attached,
         alive' \subseteq Threads, inside' \in [Slots -> NoTime..MaxEvents],
         issued' \in [Requests -> Values],
         \A s \in Slots : inside'[s] # NoTime => s \in alive' \cup Handlers
  PROVE  PairInv'
  <1>1. PairTypes
    BY DEF PairInv
  <1>2. UNCHANGED <<batch, spans, outstanding, lastLoss, lost>>
    BY DEF tracerVars
  <1> DEFINE l == losses
             m == losses'
             t == ticks
             u == ticks'
             a == lastLoss
  <1>3. t \in 0..MaxEvents /\ l \in 0..t /\ a \in 0..l
    BY <1>1 DEF PairTypes
  <1>4. t < MaxEvents /\ u = t + 1 /\ m \in {l, l + 1}
    BY DEF Emit
  <1>5. ring' \in Seq(PairEvent) /\ Len(ring') <= RingCap
    <2>1. ring \in Seq(PairEvent) /\ Len(ring) <= RingCap
      BY <1>1 DEF PairTypes
    <2> DEFINE q == ring
               w == ring'
    <2>2. w = q \/ (Len(q) < RingCap /\ w = Append(q, e))
      BY DEF Emit
    <2> HIDE DEF q, w
    <2>3. q \in Seq(PairEvent) /\ Len(q) <= RingCap
      BY <2>1 DEF q
    <2>4. w \in Seq(PairEvent) /\ Len(w) <= RingCap
      BY <2>2, <2>3, PairingAssumption
    <2> QED BY <2>4 DEF w
  <1> HIDE DEF l, m, t, u, a
  <1>6. u \in 0..MaxEvents /\ m \in 0..u /\ a \in 0..m /\ (m = 0 => l = 0)
    BY <1>3, <1>4, PairingAssumption
  <1>7. ticks' \in 0..MaxEvents /\ losses' \in 0..ticks' /\ lastLoss' \in 0..losses' /\ (losses' = 0 => losses = 0)
    BY <1>2, <1>6 DEF l, m, u, a
  <1>8. PairTypes'
    <2>1. batch' \in 0..PollBatch /\ attached' \in 0..Len(Programs)
      BY <1>1, <1>2 DEF PairTypes
    <2>2. /\ spans' \in [Slots -> NoTime..MaxEvents] /\ outstanding' \in [Requests -> Values]
          /\ lost' \in Nat /\ lost' >= lastLoss'
          /\ Cardinality({x \in Threads : spans'[x] # NoTime}) <= SpanCap
          /\ Cardinality({r \in Requests : outstanding'[r] # NoRequest}) <= RequestCap
      BY <1>1, <1>2 DEF PairTypes
    <2> QED BY <1>5, <1>7, <2>1, <2>2 DEF PairTypes
  <1>9. Clean' => Paths' /\ Measured'
    <2>1. SUFFICES ASSUME Clean' PROVE Paths' /\ Measured'
      OBVIOUS
    <2>2. Clean
      BY <1>2, <1>7, <2>1 DEF Clean
    <2>3. Paths /\ Measured
      BY <2>2 DEF PairInv
    <2> QED BY <1>1, <2>1, <2>3, EmittedPaths
  <1> QED BY <1>8, <1>9 DEF PairInv

LEMMA TimeIsEvent ==
  ASSUME PairTypes, NEW type, NEW key, NEW size \in 0..2, Emit(type, key, size),
         \/ type \in SpanTypes /\ key \in Slots /\ size = 0
         \/ type \in RequestTypes /\ key \in Requests
  PROVE  ticks' \in 0..MaxEvents /\ [type |-> type, key |-> key, at |-> ticks', bytes |-> size] \in PairEvent
  <1> DEFINE t == ticks
             u == ticks'
  <1>1. t \in 0..MaxEvents /\ t < MaxEvents /\ u = t + 1
    BY DEF PairTypes, Emit
  <1> HIDE DEF t, u
  <1>2. u \in 0..MaxEvents
    BY <1>1, PairingAssumption
  <1>3. type \in SpanTypes <=> type \notin RequestTypes
    BY DEF SpanTypes, RequestTypes
  <1>4. [type |-> type, key |-> key, at |-> u, bytes |-> size] \in PairEvent
    BY <1>2, <1>3 DEF PairEvent, Keys
  <1> QED BY <1>2, <1>4 DEF u

LEMMA EnterStep ==
  ASSUME PairInv, NEW s \in Slots, Enter(s)
  PROVE  PairInv'
  <1>1. PairTypes /\ Emit("enter", s, 0)
    BY DEF PairInv, Enter
  <1>0. PICK e : e = [type |-> "enter", key |-> s, at |-> ticks', bytes |-> 0]
    OBVIOUS
  <1>2. e \in PairEvent /\ ticks' \in 0..MaxEvents
    BY <1>1, <1>0, 0 \in 0..2, TimeIsEvent DEF SpanTypes
  <1>3. Told(e)
    BY <1>0, <1>1, <1>2, EnterTold
  <1>4. /\ UNCHANGED <<attached, alive, issued, truth, unseen>> /\ UNCHANGED tracerVars
        /\ inside' = [inside EXCEPT ![s] = ticks'] /\ s \in alive \cup Handlers
    BY DEF Enter
  <1>5. /\ alive' \subseteq Threads /\ inside' \in [Slots -> NoTime..MaxEvents] /\ issued' \in [Requests -> Values]
        /\ \A x \in Slots : inside'[x] # NoTime => x \in alive' \cup Handlers
    <2>1. ticks' \in NoTime..MaxEvents
      BY <1>2 DEF NoTime
    <2> QED BY <1>1, <1>4, <2>1 DEF PairTypes
  <1>6. Grows
    BY <1>4 DEF Grows
  <1> QED BY <1>1, <1>2, <1>3, <1>4, <1>5, <1>6, <1>0, HostStep

LEMMA LeaveStep ==
  ASSUME PairInv, NEW s \in Slots, Leave(s)
  PROVE  PairInv'
  <1>1. PairTypes /\ Emit("leave", s, 0)
    BY DEF PairInv, Leave
  <1>0. PICK e : e = [type |-> "leave", key |-> s, at |-> ticks', bytes |-> 0]
    OBVIOUS
  <1>2. e \in PairEvent
    BY <1>1, <1>0, 0 \in 0..2, TimeIsEvent DEF SpanTypes
  <1>3. Told(e)
    BY <1>0, <1>1, <1>2, LeaveTold
  <1>4. /\ UNCHANGED <<attached, alive, issued, unseen>> /\ UNCHANGED tracerVars
        /\ inside' = [inside EXCEPT ![s] = NoTime] /\ truth \subseteq truth'
    BY DEF Leave
  <1>5. /\ alive' \subseteq Threads /\ inside' \in [Slots -> NoTime..MaxEvents] /\ issued' \in [Requests -> Values]
        /\ \A x \in Slots : inside'[x] # NoTime => x \in alive' \cup Handlers
    <2>1. NoTime \in NoTime..MaxEvents
      BY PairingAssumption DEF NoTime
    <2> QED BY <1>1, <1>4, <2>1 DEF PairTypes
  <1>6. Grows
    BY <1>4 DEF Grows
  <1> QED BY <1>1, <1>2, <1>3, <1>4, <1>5, <1>6, <1>0, HostStep

LEMMA ThreadEndsStep ==
  ASSUME PairInv, NEW s \in Threads, ThreadEnds(s)
  PROVE  PairInv'
  <1>1. PairTypes /\ Emit("exit", s, 0) /\ s \in Slots
    BY KeysDiffer DEF PairInv, ThreadEnds
  <1>0. PICK e : e = [type |-> "exit", key |-> s, at |-> ticks', bytes |-> 0]
    OBVIOUS
  <1>2. e \in PairEvent
    BY <1>1, <1>0, 0 \in 0..2, TimeIsEvent DEF SpanTypes
  <1>3. Told(e)
    BY <1>0, <1>1, <1>2, ThreadEndsTold
  <1>4. /\ UNCHANGED <<attached, issued, truth>> /\ UNCHANGED tracerVars
        /\ inside' = [inside EXCEPT ![s] = NoTime] /\ alive' = alive \ {s} /\ unseen \subseteq unseen'
    BY DEF ThreadEnds
  <1>5. /\ alive' \subseteq Threads /\ inside' \in [Slots -> NoTime..MaxEvents] /\ issued' \in [Requests -> Values]
        /\ \A x \in Slots : inside'[x] # NoTime => x \in alive' \cup Handlers
    <2>1. NoTime \in NoTime..MaxEvents
      BY PairingAssumption DEF NoTime
    <2> QED BY <1>1, <1>4, <2>1 DEF PairTypes
  <1>6. Grows
    BY <1>4 DEF Grows
  <1> QED BY <1>1, <1>2, <1>3, <1>4, <1>5, <1>6, <1>0, HostStep

LEMMA ThreadBeginsStep ==
  ASSUME PairInv, NEW s \in Threads, ThreadBegins(s)
  PROVE  PairInv'
  <1>1. PairTypes /\ Emit("leave", s, 0) /\ s \in Slots
    BY KeysDiffer DEF PairInv, ThreadBegins
  <1>0. PICK e : e = [type |-> "leave", key |-> s, at |-> ticks', bytes |-> 0]
    OBVIOUS
  <1>2. e \in PairEvent
    BY <1>1, <1>0, 0 \in 0..2, TimeIsEvent DEF SpanTypes
  <1>3. Told(e)
    BY <1>0, <1>1, <1>2, ThreadBeginsTold
  <1>4. /\ UNCHANGED <<attached, inside, issued, truth, unseen>> /\ UNCHANGED tracerVars
        /\ alive' = alive \cup {s}
    BY DEF ThreadBegins
  <1>5. /\ alive' \subseteq Threads /\ inside' \in [Slots -> NoTime..MaxEvents] /\ issued' \in [Requests -> Values]
        /\ \A x \in Slots : inside'[x] # NoTime => x \in alive' \cup Handlers
    BY <1>1, <1>4 DEF PairTypes
  <1>6. Grows
    BY <1>4 DEF Grows
  <1> QED BY <1>1, <1>2, <1>3, <1>4, <1>5, <1>6, <1>0, HostStep

LEMMA IssueStep ==
  ASSUME PairInv, NEW r \in Requests, Issue(r)
  PROVE  PairInv'
  <1>1. PICK size \in Sizes :
          /\ Emit("issue", r, size)
          /\ issued' = [issued EXCEPT ![r] = [start |-> ticks', left |-> size]]
    BY DEF Issue
  <1>2. PairTypes /\ size \in 0..2
    BY DEF PairInv, Sizes
  <1>0. PICK e : e = [type |-> "issue", key |-> r, at |-> ticks', bytes |-> size]
    OBVIOUS
  <1>3. e \in PairEvent /\ ticks' \in 0..MaxEvents
    BY <1>1, <1>2, <1>0, 0 \in 0..2, TimeIsEvent DEF RequestTypes
  <1>4. /\ UNCHANGED <<attached, alive, inside, truth>> /\ UNCHANGED tracerVars
        /\ unseen' = unseen \ {r} /\ r \notin Slots /\ issued[r] = NoRequest
    BY KeysDiffer DEF Issue
  <1>5. Told(e)
    BY <1>0, <1>1, <1>2, <1>3, <1>4, IssueTold
  <1>6. /\ alive' \subseteq Threads /\ inside' \in [Slots -> NoTime..MaxEvents]
        /\ \A x \in Slots : inside'[x] # NoTime => x \in alive' \cup Handlers
    BY <1>2, <1>4 DEF PairTypes
  <1>7. issued' \in [Requests -> Values]
    <2>1. [start |-> ticks', left |-> size] \in Values
      BY <1>2, <1>3 DEF Values
    <2> QED BY <1>1, <1>2, <2>1 DEF PairTypes
  <1>8. Grows
    BY <1>4 DEF Grows
  <1> QED BY <1>1, <1>3, <1>4, <1>5, <1>6, <1>7, <1>8, <1>0, HostStep

LEMMA CompleteStep ==
  ASSUME PairInv, NEW r \in Requests, Complete(r)
  PROVE  PairInv'
  <1>1. PICK size \in 1..issued[r].left :
          /\ Emit("done", r, size)
          /\ IF size = issued[r].left
               THEN Ends(r, "done") /\ truth' = truth \cup {<<r, issued[r].start, ticks'>>}
               ELSE /\ issued' = [issued EXCEPT ![r].left = @ - size]
                    /\ unseen' = IF Attached("done") THEN unseen ELSE unseen \cup {r}
                    /\ UNCHANGED truth
          /\ UNCHANGED <<attached, alive, inside>> /\ UNCHANGED tracerVars
    BY DEF Complete
  <1> DEFINE p == issued[r]
  <1>2. PairTypes /\ p \in Values
    BY DEF PairInv, PairTypes
  <1>3. /\ p.left \in 0..2 /\ size \in 1..p.left /\ p # NoRequest
        /\ p = [start |-> p.start, left |-> p.left]
    BY <1>2 DEF Values, NoRequest
  <1>4. size \in 0..2 /\ p.left - size \in 0..2 /\ p.start \in 0..MaxEvents
    BY <1>2, <1>3 DEF Values
  <1>0. PICK e : e = [type |-> "done", key |-> r, at |-> ticks', bytes |-> size]
    OBVIOUS
  <1>5. e \in PairEvent
    BY <1>1, <1>2, <1>4, <1>0, 0 \in 0..2, TimeIsEvent DEF RequestTypes
  <1>6. Told(e)
    BY <1>0, <1>1, <1>2, <1>5, CompleteTold
  <1>7. /\ alive' \subseteq Threads /\ inside' \in [Slots -> NoTime..MaxEvents]
        /\ \A x \in Slots : inside'[x] # NoTime => x \in alive' \cup Handlers
    BY <1>1, <1>2 DEF PairTypes
  <1>8. issued' \in [Requests -> Values]
    <2>1. CASE size = p.left
      BY <1>1, <1>2, <2>1 DEF Ends, PairTypes, Values
    <2>2. CASE size # p.left
      <3>1. issued' = [issued EXCEPT ![r] = [p EXCEPT !.left = p.left - size]]
        BY <1>1, <2>2
      <3>2. [p EXCEPT !.left = p.left - size] \in Values
        <4>1. [p EXCEPT !.left = p.left - size] = [start |-> p.start, left |-> p.left - size]
          BY <1>3
        <4> QED BY <1>4, <4>1 DEF Values
      <3> QED BY <1>2, <3>1, <3>2 DEF PairTypes
    <2> QED BY <2>1, <2>2
  <1>9. Grows
    BY <1>1 DEF Grows, Ends
  <1> QED BY <1>1, <1>5, <1>6, <1>7, <1>8, <1>9, <1>0, HostStep

LEMMA RequeueStep ==
  ASSUME PairInv, NEW r \in Requests, Requeue(r)
  PROVE  PairInv'
  <1>1. PairTypes /\ Emit("requeue", r, 0)
    BY DEF PairInv, Requeue
  <1>0. PICK e : e = [type |-> "requeue", key |-> r, at |-> ticks', bytes |-> 0]
    OBVIOUS
  <1>2. e \in PairEvent
    BY <1>1, <1>0, 0 \in 0..2, TimeIsEvent DEF RequestTypes
  <1>3. Told(e)
    BY <1>0, <1>1, <1>2, RequeueTold
  <1>4. /\ UNCHANGED <<attached, alive, inside, truth>> /\ UNCHANGED tracerVars
        /\ issued' = [issued EXCEPT ![r] = NoRequest] /\ unseen \subseteq unseen'
    BY DEF Requeue, Ends
  <1>5. /\ alive' \subseteq Threads /\ inside' \in [Slots -> NoTime..MaxEvents] /\ issued' \in [Requests -> Values]
        /\ \A x \in Slots : inside'[x] # NoTime => x \in alive' \cup Handlers
    <2>1. NoRequest \in Values
      BY DEF Values
    <2> QED BY <1>1, <1>4, <2>1 DEF PairTypes
  <1>6. Grows
    BY <1>4 DEF Grows
  <1> QED BY <1>1, <1>2, <1>3, <1>4, <1>5, <1>6, <1>0, HostStep

-----------------------------------------------------------------------------
(* The tracer's steps                                                        *)

LEMMA AttachStep ==
  ASSUME PairInv, Attach
  PROVE  PairInv'
  <1>1. /\ UNCHANGED <<ticks, ring, losses, alive, inside, issued, truth, unseen>>
        /\ UNCHANGED <<batch, spans, outstanding, lastLoss, lost, samples>>
    BY DEF Attach, kernelVars, tracerVars
  <1>2. attached' \in 0..Len(Programs) /\ \A n \in {1, 4} : attached >= n => attached' >= n
    <2>1. attached \in 0..6 /\ Len(Programs) = 6
      BY AttachedIs DEF PairInv, PairTypes
    <2> DEFINE a == attached
               b == attached'
    <2>2. a \in 0..6 /\ a < 6 /\ b = a + 1
      BY <2>1 DEF Attach
    <2> HIDE DEF a, b
    <2>3. b \in 0..6 /\ \A n \in {1, 4} : a >= n => b >= n
      BY <2>2
    <2> QED BY <2>1, <2>3 DEF a, b
  <1>3. PairTypes'
    BY <1>1, <1>2 DEF PairInv, PairTypes
  <1>4. \A k, v : Agrees(k, v) => Agrees(k, v)'
    BY <1>1, <1>2 DEF Agrees, SlotAgrees, RequestAgrees
  <1>5. Paths => Paths'
    <2> SUFFICES ASSUME Paths, NEW k \in Keys
                 PROVE  \E g : /\ Runs(g, ring', Held(k)', k) /\ AllBacked(g, ring', k)
                               /\ Agrees(k, g[Len(ring)])'
      <3>1. Len(ring') = Len(ring) /\ ring' = ring
        BY <1>1
      <3>2. \A g, j : AllBacked(g, ring, j) <=> AllBacked(g, ring, j)'
        BY <1>1 DEF AllBacked, Backed
      <3> QED BY <1>1, <3>1, <3>2 DEF Paths
    <2>1. Held(k)' = Held(k) /\ ring' = ring
      BY <1>1 DEF Held
    <2>2. PICK g : Runs(g, ring, Held(k), k) /\ AllBacked(g, ring, k) /\ Agrees(k, g[Len(ring)])
      BY DEF Paths
    <2> QED BY <1>4, <2>1, <2>2
  <1>6. Measured => Measured'
    BY <1>1 DEF Measured
  <1>7. Clean' => Clean
    BY <1>1 DEF Clean
  <1> QED BY <1>3, <1>5, <1>6, <1>7 DEF PairInv

LEMMA NothingHeld ==
  /\ None(Slots) \in [Slots -> NoTime..MaxEvents]
  /\ [r \in Requests |-> NoRequest] \in [Requests -> Values]
  /\ Cardinality({t \in Threads : None(Slots)[t] # NoTime}) <= SpanCap
  /\ Cardinality({r \in Requests : [x \in Requests |-> NoRequest][r] # NoRequest}) <= RequestCap
  <1>1. {t \in Threads : None(Slots)[t] # NoTime} = {}
    BY DEF None, Slots
  <1>2. {r \in Requests : [x \in Requests |-> NoRequest][r] # NoRequest} = {}
    OBVIOUS
  <1>3. NoTime \in NoTime..MaxEvents
    BY PairingAssumption DEF NoTime
  <1> QED BY <1>1, <1>2, <1>3, FS_EmptySet, PairingAssumption DEF None, Values

\* The steps that leave the ring, the maps and the host alone.
LEMMA QuietPaths ==
  ASSUME UNCHANGED <<attached, alive, inside, issued, truth, unseen, ring, spans, outstanding, samples>>,
         Paths, Measured
  PROVE  Paths' /\ Measured'
  <1>1. /\ \A k, v : Agrees(k, v) <=> Agrees(k, v)'
        /\ \A k : Held(k)' = Held(k)
        /\ \A g, q, k : AllBacked(g, q, k) <=> AllBacked(g, q, k)'
    BY DEF Agrees, SlotAgrees, RequestAgrees, Held, AllBacked, Backed
  <1> QED BY DEF Paths, Measured, Agrees, SlotAgrees, RequestAgrees, Held, AllBacked, Backed, Keys

LEMMA PollStartsStep ==
  ASSUME PairInv, PollStarts
  PROVE  PairInv'
  <1>1. PairTypes
    BY DEF PairInv
  <1>2. UNCHANGED <<ticks, attached, ring, losses, samples, alive, inside, issued, truth, unseen>>
    BY DEF PollStarts, kernelVars
  <1> DEFINE l == losses
             a == lastLoss
             b == lastLoss'
             n == lost
             m == lost'
  <1>3. /\ l \in Nat /\ a \in 0..l /\ n \in Nat /\ n >= a
        /\ b = l /\ m = n + (l - a)
    BY <1>1, PairingAssumption DEF PairTypes, PollStarts
  <1> HIDE DEF l, a, b, n, m
  <1>4. b \in 0..l /\ m \in Nat /\ m >= b /\ (m = 0 => n = 0) /\ (l > a \/ l = a) /\ (l = 0 => ~(l > a))
    BY <1>3
  <1>5. lastLoss' \in 0..losses' /\ lost' \in Nat /\ lost' >= lastLoss' /\ (lost' = 0 => lost = 0)
    BY <1>2, <1>4 DEF l, b, n, m
  <1>6. losses = 0 => UNCHANGED <<spans, outstanding>>
    BY <1>4 DEF PollStarts, l, a
  <1>7. /\ spans' \in [Slots -> NoTime..MaxEvents] /\ outstanding' \in [Requests -> Values]
        /\ Cardinality({t \in Threads : spans'[t] # NoTime}) <= SpanCap
        /\ Cardinality({r \in Requests : outstanding'[r] # NoRequest}) <= RequestCap
    <2>1. CASE losses > lastLoss
      <3>1. spans' = None(Slots) /\ outstanding' = [r \in Requests |-> NoRequest]
        BY <2>1 DEF PollStarts
      <3> QED BY <3>1, NothingHeld
    <2>2. CASE ~(losses > lastLoss)
      <3>1. spans' = spans /\ outstanding' = outstanding
        BY <2>2 DEF PollStarts
      <3> QED BY <1>1, <3>1 DEF PairTypes
    <2> QED BY <2>1, <2>2
  <1>8. batch' \in 0..PollBatch
    BY PairingAssumption DEF PollStarts
  <1>9. PairTypes'
    BY <1>1, <1>2, <1>5, <1>7, <1>8 DEF PairTypes
  <1>10. Clean' => Paths' /\ Measured'
    BY <1>2, <1>5, <1>6, QuietPaths DEF PairInv, Clean
  <1> QED BY <1>9, <1>10 DEF PairInv

LEMMA PollEndsStep ==
  ASSUME PairInv, PollEnds
  PROVE  PairInv'
  <1>1. /\ UNCHANGED <<ticks, attached, ring, losses, spans, outstanding, lastLoss, lost, samples>>
        /\ UNCHANGED <<alive, inside, issued, truth, unseen>>
        /\ batch' = 0
    BY DEF PollEnds, kernelVars
  <1>2. batch' \in 0..PollBatch
    BY <1>1, PairingAssumption
  <1>3. PairTypes'
    BY <1>1, <1>2 DEF PairInv, PairTypes
  <1>4. Clean' => Paths' /\ Measured'
    BY <1>1, QuietPaths DEF PairInv, Clean
  <1> QED BY <1>3, <1>4 DEF PairInv

\* One event taken: what is held, what is measured and what the maps may hold.
Took(e) ==
  /\ spans' \in [Slots -> NoTime..MaxEvents] /\ outstanding' \in [Requests -> Values]
  /\ lost' \in {lost, lost + 1}
  /\ Cardinality({t \in Threads : spans'[t] # NoTime}) <= SpanCap
  /\ Cardinality({r \in Requests : outstanding'[r] # NoRequest}) <= RequestCap
  /\ lost' = lost =>
       /\ \A s \in Slots : spans'[s] = IF e.key # s THEN spans[s]
                                       ELSE IF e.type = "enter" THEN e.at ELSE NoTime
       /\ \A r \in Requests :
            outstanding'[r] = IF e.key \in Slots THEN outstanding[r] ELSE After(outstanding[r], e, r)
  /\ samples' = samples \/
       \E k \in Keys : Finishes(Held(k), e, k) /\ samples' = samples \cup {<<k, Held(k).start, e.at>>}

LEMMA FewerHeld ==
  ASSUME PairTypes, NEW f, NEW g,
         \A t \in Threads : f[t] # NoTime => spans[t] # NoTime,
         \A r \in Requests : g[r] # NoRequest => outstanding[r] # NoRequest
  PROVE  /\ Cardinality({t \in Threads : f[t] # NoTime}) <= SpanCap
         /\ Cardinality({r \in Requests : g[r] # NoRequest}) <= RequestCap
  <1> DEFINE A == {t \in Threads : spans[t] # NoTime}
             B == {t \in Threads : f[t] # NoTime}
             C == {r \in Requests : outstanding[r] # NoRequest}
             D == {r \in Requests : g[r] # NoRequest}
  <1>1. IsFiniteSet(A) /\ IsFiniteSet(C)
    <2>1. A \subseteq Threads /\ C \subseteq Requests
      OBVIOUS
    <2> QED BY <2>1, FS_Subset, PairingAssumption
  <1>2. B \subseteq A /\ D \subseteq C
    OBVIOUS
  <1>3. Cardinality(A) <= SpanCap /\ Cardinality(C) <= RequestCap
    BY DEF PairTypes
  <1> HIDE DEF A, B, C, D
  <1>4. /\ Cardinality(B) \in Nat /\ Cardinality(A) \in Nat /\ Cardinality(B) <= Cardinality(A)
        /\ Cardinality(D) \in Nat /\ Cardinality(C) \in Nat /\ Cardinality(D) <= Cardinality(C)
    BY <1>1, <1>2, FS_Subset, FS_CardinalityType
  <1>5. Cardinality(B) <= SpanCap /\ Cardinality(D) <= RequestCap
    BY <1>3, <1>4, PairingAssumption
  <1> QED BY <1>5 DEF B, D

LEMMA EnteredTook ==
  ASSUME PairTypes, NEW e \in PairEvent, e.type = "enter", Entered(e)
  PROVE  Took(e)
  <1> DEFINE now == [spans EXCEPT ![e.key] = e.at]
             held == Cardinality({t \in Threads : now[t] # NoTime})
             full == held > SpanCap
  <1>1. /\ e.key \in Slots /\ now \in [Slots -> NoTime..MaxEvents]
        /\ spans \in [Slots -> NoTime..MaxEvents] /\ outstanding \in [Requests -> Values]
    <2>1. e.key \in Slots /\ e.at \in 0..MaxEvents
      BY DEF PairEvent, SpanTypes
    <2>2. e.at \in NoTime..MaxEvents
      BY <2>1 DEF NoTime
    <2> QED BY <2>1, <2>2 DEF PairTypes
  <1>2. /\ spans' = IF full THEN None(Slots) ELSE now
        /\ lost' = IF full THEN lost + 1 ELSE lost
        /\ UNCHANGED <<outstanding, samples>>
    BY DEF Entered
  <1>3. held \in Nat
    <2>1. {t \in Threads : now[t] # NoTime} \subseteq Threads
      OBVIOUS
    <2> QED BY <2>1, FS_Subset, FS_CardinalityType, PairingAssumption
  <1>4. Cardinality({t \in Threads : spans'[t] # NoTime}) <= SpanCap
    <2>1. CASE full
      BY <1>2, <2>1, NothingHeld
    <2>2. CASE ~full
      <3>1. held <= SpanCap
        BY <1>3, <2>2, PairingAssumption
      <3> QED BY <1>2, <2>2, <3>1
    <2> QED BY <2>1, <2>2
  <1>5. spans' \in [Slots -> NoTime..MaxEvents]
    BY <1>1, <1>2, NothingHeld
  <1>6. Cardinality({r \in Requests : outstanding'[r] # NoRequest}) <= RequestCap
    BY <1>2 DEF PairTypes
  <1>7. ASSUME lost' = lost, NEW s \in Slots
        PROVE  spans'[s] = IF e.key # s THEN spans[s] ELSE e.at
    <2>1. ~full
      BY <1>2, <1>7 DEF PairTypes
    <2> QED BY <1>1, <1>2, <2>1
  <1> HIDE DEF full, now
  <1> QED BY <1>1, <1>2, <1>4, <1>5, <1>6, <1>7 DEF Took

LEMMA LeftTook ==
  ASSUME PairTypes, NEW e \in PairEvent, e.type = "leave", Left(e)
  PROVE  Took(e)
  <1>1. /\ e.key \in Slots /\ e.key \in Keys /\ NoTime \in NoTime..MaxEvents
        /\ spans \in [Slots -> NoTime..MaxEvents] /\ outstanding \in [Requests -> Values]
    BY PairingAssumption DEF PairEvent, SpanTypes, PairTypes, NoTime, Keys
  <1>2. spans' = [spans EXCEPT ![e.key] = NoTime] /\ UNCHANGED <<outstanding, lost>>
    BY DEF Left
  <1>3. /\ Cardinality({t \in Threads : spans'[t] # NoTime}) <= SpanCap
        /\ Cardinality({r \in Requests : outstanding'[r] # NoRequest}) <= RequestCap
    <2>1. \A t \in Threads : spans'[t] # NoTime => spans[t] # NoTime
      BY <1>1, <1>2, KeysDiffer
    <2>2. \A r \in Requests : outstanding'[r] # NoRequest => outstanding[r] # NoRequest
      BY <1>2
    <2> QED BY <2>1, <2>2, FewerHeld
  <1>4. samples' = samples \/ (Finishes(Held(e.key), e, e.key) /\ samples' = samples \cup {<<e.key, Held(e.key).start, e.at>>})
    <2>1. CASE spans[e.key] = NoTime
      BY <2>1 DEF Left
    <2>2. CASE spans[e.key] # NoTime
      <3>1. samples' = samples \cup {<<e.key, spans[e.key], e.at>>}
        BY <2>2 DEF Left
      <3>2. Held(e.key).start = spans[e.key] /\ Held(e.key) # NoRequest
        BY <1>1, <2>2 DEF Held, NoRequest
      <3> QED BY <3>1, <3>2 DEF Finishes
    <2> QED BY <2>1, <2>2
  <1>5. spans' \in [Slots -> NoTime..MaxEvents]
    BY <1>1, <1>2
  <1>6. \A s \in Slots : spans'[s] = IF e.key # s THEN spans[s] ELSE NoTime
    BY <1>1, <1>2
  <1> QED BY <1>1, <1>2, <1>3, <1>4, <1>5, <1>6 DEF Took

LEMMA GoneTook ==
  ASSUME PairTypes, NEW e \in PairEvent, e.type = "exit", Gone(e)
  PROVE  Took(e)
  <1>1. /\ e.key \in Slots /\ NoTime \in NoTime..MaxEvents
        /\ spans \in [Slots -> NoTime..MaxEvents] /\ outstanding \in [Requests -> Values]
    BY PairingAssumption DEF PairEvent, SpanTypes, PairTypes, NoTime
  <1>2. spans' = [spans EXCEPT ![e.key] = NoTime] /\ UNCHANGED <<outstanding, lost, samples>>
    BY DEF Gone
  <1>3. /\ Cardinality({t \in Threads : spans'[t] # NoTime}) <= SpanCap
        /\ Cardinality({r \in Requests : outstanding'[r] # NoRequest}) <= RequestCap
    <2>1. \A t \in Threads : spans'[t] # NoTime => spans[t] # NoTime
      BY <1>1, <1>2, KeysDiffer
    <2>2. \A r \in Requests : outstanding'[r] # NoRequest => outstanding[r] # NoRequest
      BY <1>2
    <2> QED BY <2>1, <2>2, FewerHeld
  <1>5. spans' \in [Slots -> NoTime..MaxEvents]
    BY <1>1, <1>2
  <1>6. \A s \in Slots : spans'[s] = IF e.key # s THEN spans[s] ELSE NoTime
    BY <1>1, <1>2
  <1> QED BY <1>1, <1>2, <1>3, <1>5, <1>6 DEF Took

LEMMA IssuedTook ==
  ASSUME PairTypes, NEW e \in PairEvent, e.type = "issue", Issued(e)
  PROVE  Took(e)
  <1> DEFINE now == [outstanding EXCEPT ![e.key] = [start |-> e.at, left |-> e.bytes]]
             held == Cardinality({r \in Requests : now[r] # NoRequest})
             full == held > RequestCap
  <1>1. /\ e.key \in Requests /\ e.key \notin Slots /\ now \in [Requests -> Values]
        /\ spans \in [Slots -> NoTime..MaxEvents] /\ outstanding \in [Requests -> Values]
    <2>1. e.key \in Requests /\ [start |-> e.at, left |-> e.bytes] \in Values
      BY DEF PairEvent, RequestTypes, Values
    <2> QED BY <2>1, KeysDiffer DEF PairTypes
  <1>2. /\ outstanding' = IF full THEN [r \in Requests |-> NoRequest] ELSE now
        /\ lost' = IF full THEN lost + 1 ELSE lost
        /\ spans' = IF full THEN None(Slots) ELSE spans
        /\ UNCHANGED samples
    BY DEF Issued
  <1>3. held \in Nat
    <2>1. {r \in Requests : now[r] # NoRequest} \subseteq Requests
      OBVIOUS
    <2> QED BY <2>1, FS_Subset, FS_CardinalityType, PairingAssumption
  <1>4. /\ Cardinality({t \in Threads : spans'[t] # NoTime}) <= SpanCap
        /\ Cardinality({r \in Requests : outstanding'[r] # NoRequest}) <= RequestCap
    <2>1. CASE full
      BY <1>2, <2>1, NothingHeld
    <2>2. CASE ~full
      <3>1. held <= RequestCap
        BY <1>3, <2>2, PairingAssumption
      <3> QED BY <1>2, <2>2, <3>1 DEF PairTypes
    <2> QED BY <2>1, <2>2
  <1>5. spans' \in [Slots -> NoTime..MaxEvents] /\ outstanding' \in [Requests -> Values]
    BY <1>1, <1>2, NothingHeld
  <1>6. ASSUME lost' = lost
        PROVE  spans' = spans /\ \A r \in Requests : outstanding'[r] = After(outstanding[r], e, r)
    <2>1. ~full
      BY <1>2, <1>6 DEF PairTypes
    <2>2. \A r \in Requests : now[r] = IF e.key # r THEN outstanding[r] ELSE [start |-> e.at, left |-> e.bytes]
      BY <1>1
    <2> QED BY <1>2, <2>1, <2>2 DEF After
  <1> HIDE DEF full, now
  <1> QED BY <1>1, <1>2, <1>4, <1>5, <1>6 DEF Took

LEMMA DoneTook ==
  ASSUME PairTypes, NEW e \in PairEvent, e.type = "done", Done(e)
  PROVE  Took(e)
  <1> DEFINE p == outstanding[e.key]
  <1>1. /\ e.key \in Requests /\ e.key \notin Slots /\ e.key \in Keys /\ p \in Values /\ NoRequest \in Values
        /\ spans \in [Slots -> NoTime..MaxEvents] /\ outstanding \in [Requests -> Values] /\ e.bytes \in 0..2
    BY KeysDiffer DEF PairEvent, RequestTypes, PairTypes, Keys, Values
  <1>2. UNCHANGED <<spans, lost>>
    BY DEF Done
  <1>3. p # NoRequest => p.left \in 0..2 /\ p.start \in 0..MaxEvents /\ p = [start |-> p.start, left |-> p.left]
    BY <1>1 DEF Values
  <1>4. /\ outstanding' = [outstanding EXCEPT ![e.key] = After(p, e, e.key)]
        /\ samples' = IF Finishes(p, e, e.key) THEN samples \cup {<<e.key, p.start, e.at>>} ELSE samples
    <2>1. CASE p = NoRequest
      <3>1. UNCHANGED <<outstanding, samples>> /\ After(p, e, e.key) = p /\ ~Finishes(p, e, e.key)
        BY <2>1 DEF Done, After, Finishes
      <3>2. [outstanding EXCEPT ![e.key] = p] = outstanding
        BY <1>1
      <3> QED BY <3>1, <3>2
    <2>2. CASE p # NoRequest /\ e.bytes >= p.left
      <3>1. ~(e.bytes < p.left)
        BY <1>1, <1>3, <2>2
      <3>2. /\ outstanding' = [outstanding EXCEPT ![e.key] = NoRequest]
            /\ samples' = samples \cup {<<e.key, p.start, e.at>>}
        BY <2>2 DEF Done
      <3> QED BY <2>2, <3>1, <3>2 DEF After, Finishes
    <2>3. CASE p # NoRequest /\ ~(e.bytes >= p.left)
      <3>1. e.bytes < p.left
        BY <1>1, <1>3, <2>3
      <3>2. /\ outstanding' = [outstanding EXCEPT ![e.key] = [p EXCEPT !.left = p.left - e.bytes]]
            /\ UNCHANGED samples
        BY <2>3 DEF Done
      <3>3. [p EXCEPT !.left = p.left - e.bytes] = [start |-> p.start, left |-> p.left - e.bytes]
        BY <1>3, <2>3
      <3>4. After(p, e, e.key) = [start |-> p.start, left |-> p.left - e.bytes] /\ ~Finishes(p, e, e.key)
        BY <2>3, <3>1 DEF After, Finishes
      <3> QED BY <3>2, <3>3, <3>4
    <2> QED BY <2>1, <2>2, <2>3
  <1>5. Held(e.key) = p
    BY <1>1 DEF Held
  <1>6. After(p, e, e.key) \in Values
    BY <1>1, AfterType
  <1>7. outstanding' \in [Requests -> Values] /\ \A r \in Requests : outstanding'[r] = After(outstanding[r], e, r)
    <2>1. \A r \in Requests : r # e.key => After(outstanding[r], e, r) = outstanding[r]
      BY DEF After
    <2> QED BY <1>1, <1>4, <1>6, <2>1
  <1>8. /\ Cardinality({t \in Threads : spans'[t] # NoTime}) <= SpanCap
        /\ Cardinality({r \in Requests : outstanding'[r] # NoRequest}) <= RequestCap
    <2>1. \A r \in Requests : outstanding'[r] # NoRequest => outstanding[r] # NoRequest
      BY <1>7 DEF After
    <2>2. \A t \in Threads : spans'[t] # NoTime => spans[t] # NoTime
      BY <1>2
    <2> QED BY <2>1, <2>2, FewerHeld
  <1>9. samples' = samples \/ (Finishes(Held(e.key), e, e.key) /\ samples' = samples \cup {<<e.key, Held(e.key).start, e.at>>})
    BY <1>4, <1>5
  <1>10. \A s \in Slots : e.key # s
    BY <1>1
  <1> HIDE DEF p
  <1> QED BY <1>1, <1>2, <1>7, <1>8, <1>9, <1>10 DEF Took

LEMMA RequeuedTook ==
  ASSUME PairTypes, NEW e \in PairEvent, e.type = "requeue", Requeued(e)
  PROVE  Took(e)
  <1>1. /\ e.key \in Requests /\ e.key \notin Slots /\ NoRequest \in Values
        /\ spans \in [Slots -> NoTime..MaxEvents] /\ outstanding \in [Requests -> Values]
    BY KeysDiffer DEF PairEvent, RequestTypes, PairTypes, Values
  <1>2. outstanding' = [outstanding EXCEPT ![e.key] = NoRequest] /\ UNCHANGED <<spans, lost, samples>>
    BY DEF Requeued
  <1>3. outstanding' \in [Requests -> Values] /\ \A r \in Requests : outstanding'[r] = After(outstanding[r], e, r)
    <2>1. \A r \in Requests : After(outstanding[r], e, r) = IF r = e.key THEN NoRequest ELSE outstanding[r]
      BY DEF After
    <2> QED BY <1>1, <1>2, <2>1
  <1>4. /\ Cardinality({t \in Threads : spans'[t] # NoTime}) <= SpanCap
        /\ Cardinality({r \in Requests : outstanding'[r] # NoRequest}) <= RequestCap
    <2>1. \A r \in Requests : outstanding'[r] # NoRequest => outstanding[r] # NoRequest
      BY <1>1, <1>2
    <2>2. \A t \in Threads : spans'[t] # NoTime => spans[t] # NoTime
      BY <1>2
    <2> QED BY <2>1, <2>2, FewerHeld
  <1>5. \A s \in Slots : e.key # s
    BY <1>1
  <1> QED BY <1>1, <1>2, <1>3, <1>4, <1>5 DEF Took

LEMMA ConsumedPaths ==
  ASSUME PairTypes, NEW q \in Seq(PairEvent), q = ring, q # <<>>, NEW e \in PairEvent, e = Head(q),
         ring' = Tail(q), Took(e), lost' = lost,
         UNCHANGED <<attached, alive, inside, issued, truth, unseen>>, Paths, Measured
  PROVE  Paths' /\ Measured'
  <1>1. ASSUME NEW k \in Keys
        PROVE  Held(k)' = After(Held(k), e, k)
    <2>1. CASE k \in Slots
      <3>1. spans'[k] = IF e.key # k THEN spans[k] ELSE IF e.type = "enter" THEN e.at ELSE NoTime
        BY <2>1 DEF Took
      <3>2. e.key = k => e.type \in SpanTypes /\ e.bytes = 0
        BY <2>1, KeysDiffer DEF PairEvent
      <3> QED BY <2>1, <3>1, <3>2 DEF Held, After, SpanTypes, NoRequest
    <2>2. CASE k \notin Slots
      <3>1. k \in Requests
        BY <2>2 DEF Keys
      <3>2. outstanding'[k] = IF e.key \in Slots THEN outstanding[k] ELSE After(outstanding[k], e, k)
        BY <3>1 DEF Took
      <3>3. e.key \in Slots => After(outstanding[k], e, k) = outstanding[k]
        BY <2>2 DEF After
      <3> QED BY <2>2, <3>2, <3>3 DEF Held
    <2> QED BY <2>1, <2>2
  <1>2. \A k, v : Agrees(k, v) => Agrees(k, v)'
    BY DEF Agrees, SlotAgrees, RequestAgrees
  <1>3. \A k, a, b : Backed(k, a, b) => Backed(k, a, b)'
    BY DEF Backed
  <1>4. ASSUME NEW k \in Keys
        PROVE  /\ \E g : /\ Runs(g, Tail(q), After(Held(k), e, k), k) /\ AllBacked(g, Tail(q), k)'
                         /\ Agrees(k, g[Len(Tail(q))])'
               /\ Finishes(Held(k), e, k) => Backed(k, Held(k).start, e.at)
    <2>1. PICK g : Runs(g, q, Held(k), k) /\ AllBacked(g, q, k) /\ Agrees(k, g[Len(q)])
      BY DEF Paths
    <2> DEFINE d == [i \in 0..Len(q) - 1 |-> g[i + 1]]
    <2>2. /\ Runs(d, Tail(q), After(Held(k), e, k), k)
          /\ d[Len(Tail(q))] = g[Len(q)]
          /\ \A i \in 0..Len(q) - 1 : d[i] = g[i + 1]
      BY <2>1, RunsTail
    <2> HIDE DEF d
    <2>3. /\ Len(q) \in Nat \ {0} /\ Len(Tail(q)) = Len(q) - 1 /\ q[1] = e
          /\ \A i \in 1..Len(q) - 1 : Tail(q)[i] = q[i + 1]
      OBVIOUS
    <2>4. AllBacked(d, Tail(q), k)'
      <3> SUFFICES ASSUME NEW i \in 1..Len(q) - 1, Finishes(d[i - 1], Tail(q)[i], k)
                   PROVE  Backed(k, d[i - 1].start, Tail(q)[i].at)'
        BY <2>3 DEF AllBacked
      <3>1. i - 1 \in 0..Len(q) - 1 /\ (i - 1) + 1 = i /\ i + 1 \in 1..Len(q) /\ (i + 1) - 1 = i
        BY <2>3
      <3>2. d[i - 1] = g[i] /\ Tail(q)[i] = q[i + 1]
        BY <2>2, <2>3, <3>1
      <3>3. Finishes(g[(i + 1) - 1], q[i + 1], k) => Backed(k, g[(i + 1) - 1].start, q[i + 1].at)
        BY <2>1, <3>1 DEF AllBacked
      <3> QED BY <1>3, <3>1, <3>2, <3>3
    <2>5. Finishes(Held(k), e, k) => Backed(k, Held(k).start, e.at)
      <3>1. 1 \in 1..Len(q) /\ 1 - 1 = 0
        BY <2>3
      <3>2. g[1 - 1] = Held(k)
        BY <2>1, <3>1 DEF Runs
      <3> QED BY <2>1, <2>3, <3>1, <3>2 DEF AllBacked
    <2>6. Agrees(k, d[Len(Tail(q))])'
      BY <1>2, <2>1, <2>2
    <2> QED BY <2>2, <2>4, <2>5, <2>6
  <1>5. Paths'
    <2>1. \A w : w = ring' =>
            \A k \in Keys : \E g : /\ Runs(g, w, Held(k)', k) /\ AllBacked(g, w, k)'
                                   /\ Agrees(k, g[Len(w)])'
      BY <1>1, <1>4
    <2> QED BY <2>1 DEF Paths
  <1>6. Measured'
    <2>1. CASE samples' = samples
      BY <2>1 DEF Measured
    <2>2. CASE samples' # samples
      <3>1. PICK k \in Keys : Finishes(Held(k), e, k) /\ samples' = samples \cup {<<k, Held(k).start, e.at>>}
        BY <2>2 DEF Took
      <3>2. Backed(k, Held(k).start, e.at)
        BY <1>4, <3>1
      <3> DEFINE x == <<k, Held(k).start, e.at>>
      <3>3. x \in truth \/ (x[1] \in Slots /\ x[1] \in unseen)
        BY <3>2 DEF Backed
      <3> HIDE DEF x
      <3>4. samples' = samples \cup {x}
        BY <3>1 DEF x
      <3> QED BY <3>3, <3>4 DEF Measured
    <2> QED BY <2>1, <2>2
  <1> QED BY <1>5, <1>6

LEMMA ConsumeStep ==
  ASSUME PairInv, Consume
  PROVE  PairInv'
  <1>1. PairTypes
    BY DEF PairInv
  <1>2. ring # <<>> /\ ring \in Seq(PairEvent)
    BY <1>1 DEF Consume, PairTypes
  <1>3. PICK e \in PairEvent : e = Head(ring)
    BY <1>2
  <1>4. Took(e)
    <2>1. \/ e.type = "enter" /\ Entered(e)
          \/ e.type = "leave" /\ Left(e)
          \/ e.type = "exit" /\ Gone(e)
          \/ e.type = "issue" /\ Issued(e)
          \/ e.type = "done" /\ Done(e)
          \/ e.type = "requeue" /\ Requeued(e)
      BY <1>3 DEF Consume
    <2> QED BY <1>1, <2>1, EnteredTook, LeftTook, GoneTook, IssuedTook, DoneTook, RequeuedTook
  <1>5. /\ ring' = Tail(ring) /\ UNCHANGED <<ticks, attached, losses, lastLoss>>
        /\ UNCHANGED <<alive, inside, issued, truth, unseen>>
    BY DEF Consume, kernelVars
  <1> DEFINE n == lost
             m == lost'
             b == batch
             c == batch'
             a == lastLoss
  <1>6. n \in Nat /\ n >= a /\ m \in {n, n + 1} /\ b \in 0..PollBatch /\ b > 0 /\ c = b - 1 /\ a \in Nat
    <2>1. a \in Nat
      BY <1>1 DEF PairTypes
    <2>2. m \in {n, n + 1}
      BY <1>4 DEF Took
    <2> QED BY <1>1, <2>1, <2>2 DEF PairTypes, Consume
  <1> HIDE DEF n, m, b, c, a
  <1>7. m \in Nat /\ m >= a /\ c \in 0..PollBatch /\ (m = 0 => n = 0)
    BY <1>6, PairingAssumption
  <1>8. lost' \in Nat /\ lost' >= lastLoss' /\ batch' \in 0..PollBatch /\ (lost' = 0 => lost' = lost)
    BY <1>5, <1>7 DEF n, m, a, c
  <1>9. ring' \in Seq(PairEvent) /\ Len(ring') <= RingCap
    <2> DEFINE q == ring
               w == ring'
    <2>1. q \in Seq(PairEvent) /\ q # <<>> /\ Len(q) <= RingCap /\ w = Tail(q)
      BY <1>1, <1>2, <1>5 DEF PairTypes
    <2> HIDE DEF q, w
    <2>2. w \in Seq(PairEvent) /\ Len(w) <= RingCap
      BY <2>1, PairingAssumption
    <2> QED BY <2>2 DEF w
  <1>10. PairTypes'
    BY <1>1, <1>4, <1>5, <1>8, <1>9 DEF PairTypes, Took
  <1>11. Clean' => Clean /\ lost' = lost
    BY <1>5, <1>8 DEF Clean
  <1>12. Clean' => Paths' /\ Measured'
    <2>1. SUFFICES ASSUME Clean' PROVE Paths' /\ Measured'
      OBVIOUS
    <2>2. PICK q : q = ring
      OBVIOUS
    <2>3. Paths /\ Measured
      BY <1>11, <2>1 DEF PairInv
    <2> QED BY <1>1, <1>2, <1>3, <1>4, <1>5, <1>11, <2>1, <2>2, <2>3, ConsumedPaths
  <1> QED BY <1>10, <1>12 DEF PairInv

-----------------------------------------------------------------------------

LEMMA PairInvStarts ==
  ASSUME PairingInit
  PROVE  PairInv
  <1>1. /\ ticks = 0 /\ attached = 0 /\ alive = Threads
        /\ inside \in [Slots -> {NoTime, 0}] /\ issued = [r \in Requests |-> NoRequest]
        /\ ring = <<>> /\ losses = 0 /\ batch = 0
        /\ spans = None(Slots) /\ outstanding = [r \in Requests |-> NoRequest]
        /\ lastLoss = 0 /\ lost = 0
        /\ samples = {} /\ truth = {} /\ unseen = {}
    BY DEF PairingInit
  <1>2. /\ 0 \in 0..MaxEvents /\ 0 \in 0..PollBatch /\ 0 \in 0..0 /\ {NoTime, 0} \subseteq NoTime..MaxEvents
        /\ 0 <= RingCap /\ Len(Programs) = 6 /\ 0 \in 0..6
    BY PairingAssumption DEF NoTime, Programs
  <1>3. PairTypes
    <2>1. /\ spans \in [Slots -> NoTime..MaxEvents]
          /\ outstanding \in [Requests -> Values] /\ issued \in [Requests -> Values]
          /\ Cardinality({t \in Threads : spans[t] # NoTime}) <= SpanCap
          /\ Cardinality({r \in Requests : outstanding[r] # NoRequest}) <= RequestCap
      BY <1>1, NothingHeld
    <2>2. /\ inside \in [Slots -> NoTime..MaxEvents] /\ ring \in Seq(PairEvent) /\ Len(ring) = 0
          /\ \A s \in Slots : s \in alive \cup Handlers
      BY <1>1, <1>2 DEF Slots
    <2>3. /\ ticks \in 0..MaxEvents /\ attached \in 0..Len(Programs) /\ batch \in 0..PollBatch
          /\ losses \in 0..ticks /\ lastLoss \in 0..losses /\ lost \in Nat /\ lost >= lastLoss
          /\ Len(ring) <= RingCap /\ alive \subseteq Threads
      BY <1>1, <1>2, <2>2
    <2> QED BY <2>1, <2>2, <2>3 DEF PairTypes
  <1>4. ASSUME NEW k \in Keys
        PROVE  \E g : Runs(g, ring, Held(k), k) /\ AllBacked(g, ring, k) /\ Agrees(k, g[Len(ring)])
    <2>1. Held(k) = NoRequest
      BY <1>1 DEF Held, None, NoRequest, Keys
    <2>2. Len(ring) = 0
      BY <1>1
    <2> DEFINE g == [i \in 0..0 |-> NoRequest]
    <2>3. g[0] = NoRequest /\ g \in [0..0 -> Values]
      BY DEF Values
    <2> HIDE DEF g
    <2>4. Runs(g, ring, Held(k), k) /\ AllBacked(g, ring, k) /\ Agrees(k, g[Len(ring)])
      BY <2>1, <2>2, <2>3 DEF Runs, AllBacked, Agrees
    <2> QED BY <2>4
  <1>5. Paths /\ Measured
    BY <1>1, <1>4 DEF Paths, Measured
  <1> QED BY <1>3, <1>5 DEF PairInv

LEMMA PairInvStays ==
  ASSUME PairInv, [PairingNext]_pairingVars
  PROVE  PairInv'
  <1>1. CASE PairingNext
    BY <1>1, AttachStep, PollStartsStep, ConsumeStep, PollEndsStep, EnterStep, LeaveStep, ThreadEndsStep,
       ThreadBeginsStep, IssueStep, CompleteStep, RequeueStep DEF PairingNext
  <1>2. CASE UNCHANGED pairingVars
    <2>1. /\ UNCHANGED <<ticks, attached, alive, inside, issued, ring, losses, batch, spans>>
          /\ UNCHANGED <<outstanding, lastLoss, lost, samples, truth, unseen>>
      BY <1>2 DEF pairingVars
    <2>2. PairTypes'
      BY <2>1 DEF PairInv, PairTypes
    <2>3. Clean' => Paths' /\ Measured'
      BY <2>1, QuietPaths DEF PairInv, Clean
    <2> QED BY <2>2, <2>3 DEF PairInv
  <1> QED BY <1>1, <1>2

LEMMA PairInvTells ==
  ASSUME PairInv
  PROVE  PairsAreTrue
  <1>1. PairTypes
    BY DEF PairInv
  <1>2. PairingTypeOK
    <2>1. \A r \in Requests : issued[r].start \in NoTime..MaxEvents
      <3>1. \A v \in Values : v.start \in NoTime..MaxEvents
        BY PairingAssumption DEF Values, NoRequest, NoTime
      <3> QED BY <1>1, <3>1 DEF PairTypes
    <2>2. losses \in 0..MaxEvents
      <3> DEFINE l == losses
                 t == ticks
      <3>1. t \in 0..MaxEvents /\ l \in 0..t
        BY <1>1 DEF PairTypes
      <3> HIDE DEF l, t
      <3>2. l \in 0..MaxEvents
        BY <3>1, PairingAssumption
      <3> QED BY <3>2 DEF l
    <2> QED BY <1>1, <2>1, <2>2 DEF PairingTypeOK, PairTypes
  <1>3. Trusted /\ losses = lastLoss => Clean
    <2>1. lost >= lastLoss /\ lastLoss \in 0..losses
      BY <1>1 DEF PairTypes
    <2> QED BY <1>1, <2>1 DEF Trusted, Clean, PairTypes
  <1>4. SamplesAreOwn
    BY <1>3 DEF SamplesAreOwn, PairInv, Measured
  <1>5. PendingIsAtTheDevice
    <2> SUFFICES ASSUME Clean, ring = <<>>, NEW r \in Requests, outstanding[r] # NoRequest
                 PROVE  outstanding[r] = issued[r] \/ r \in unseen
      BY <1>3 DEF PendingIsAtTheDevice
    <2>1. r \in Keys /\ r \notin Slots
      BY KeysDiffer DEF Keys
    <2>2. PICK g : Runs(g, ring, Held(r), r) /\ Agrees(r, g[Len(ring)])
      BY <2>1 DEF PairInv, Paths
    <2>3. g[Len(ring)] = outstanding[r]
      BY <2>1, <2>2 DEF Runs, Held
    <2> QED BY <2>1, <2>2, <2>3 DEF Agrees, RequestAgrees
  <1> QED BY <1>2, <1>4, <1>5 DEF PairsAreTrue

\* What the tracer pairs did happen, and what it takes to be under way is.
THEOREM PairingCorrect == PairingSpec => []PairsAreTrue
  <1>1. PairingInit => PairInv
    BY PairInvStarts
  <1>2. PairInv /\ [PairingNext]_pairingVars => PairInv'
    BY PairInvStays
  <1>3. PairInv => PairsAreTrue
    BY PairInvTells
  <1> QED BY <1>1, <1>2, <1>3, PTL DEF PairingSpec

-----------------------------------------------------------------------------
(* Kernel logs.  Records are numbered as they are written, so a sequence of *)
(* them that rises, ends at the last one and misses none is the newest.     *)

LogsSpec == LogsInit /\ [][LogsNext]_logsVars

Rising(s) == s \in Seq(Nat) /\ \A i, j \in 1..Len(s) : i < j => s[i] < s[j]
Holds(s, r) == \E i \in 1..Len(s) : s[i] = r

LEMMA RisingIs ==
  ASSUME NEW s, Rising(s)
  PROVE  Len(s) \in Nat /\ DOMAIN s = 1..Len(s) /\ \A i \in 1..Len(s) : s[i] \in Nat
  BY DEF Rising

\* Rising naturals are as far apart as their places, or farther.
LEMMA RisingGrows ==
  ASSUME NEW s, Rising(s), NEW i \in 1..Len(s), NEW j \in 1..Len(s), i <= j
  PROVE  s[j] - s[i] >= j - i
  <1> DEFINE n == Len(s)
             Have == {k \in Nat : i + k <= n => s[i + k] - s[i] >= k}
  <1>0. n \in Nat /\ i \in Nat /\ j \in Nat /\ \A m \in 1..n : s[m] \in Nat
    BY RisingIs
  <1>1. 0 \in Have
    <2>1. i + 0 = i /\ s[i] \in Nat
      BY <1>0
    <2> QED BY <2>1
  <1>2. ASSUME NEW k \in Nat, k \in Have PROVE k + 1 \in Have
    <2> SUFFICES ASSUME i + (k + 1) <= n PROVE s[i + (k + 1)] - s[i] >= k + 1
      OBVIOUS
    <2>1. i + k \in 1..n /\ i + (k + 1) \in 1..n /\ i + k < i + (k + 1) /\ i + k <= n
      BY <1>0
    <2>2. s[i + k] - s[i] >= k
      BY <1>2, <2>1
    <2>3. s[i + k] < s[i + (k + 1)]
      BY <2>1 DEF Rising
    <2> DEFINE x == s[i + k]
               y == s[i + (k + 1)]
               z == s[i]
    <2>4. x \in Nat /\ y \in Nat /\ z \in Nat /\ x - z >= k /\ x < y
      BY <1>0, <2>1, <2>2, <2>3
    <2> HIDE DEF x, y, z
    <2>5. y - z >= k + 1
      BY <2>4
    <2> QED BY <2>5 DEF y, z
  <1> HIDE DEF Have
  <1>3. j - i \in Have
    BY <1>0, <1>1, <1>2, Naturals
  <1>4. i + (j - i) = j
    BY <1>0
  <1> QED BY <1>0, <1>3, <1>4 DEF Have

\* A rising sequence that holds all of lo to hi, and nothing greater, ends
\* with them.
LEMMA RisingEnds ==
  ASSUME NEW s, Rising(s), NEW lo \in Nat, NEW hi \in Nat, lo <= hi,
         \A i \in 1..Len(s) : s[i] <= hi, \A r \in lo..hi : Holds(s, r)
  PROVE  /\ Len(s) >= hi - lo + 1
         /\ \A i \in 1..Len(s) : i > Len(s) - (hi - lo + 1) => s[i] = hi - (Len(s) - i)
  <1> DEFINE n == Len(s)
             l == hi - lo + 1
             P == [j \in 1..l |-> CHOOSE q \in 1..n : s[q] = lo + j - 1]
  <1>0. n \in Nat /\ l \in Nat /\ l >= 1 /\ \A m \in 1..n : s[m] \in Nat
    BY RisingIs
  <1>1. ASSUME NEW j \in 1..l PROVE P[j] \in 1..n /\ s[P[j]] = lo + j - 1
    <2>1. lo + j - 1 \in lo..hi
      OBVIOUS
    <2>2. \E q \in 1..n : s[q] = lo + j - 1
      BY <2>1 DEF Holds
    <2> QED BY <2>2
  <1>2. DOMAIN P = 1..l /\ P \in Seq(Nat) /\ Len(P) = l
    <2>1. P \in [1..l -> Nat]
      <3>1. \A j \in 1..l : P[j] \in Nat
        <4> HIDE DEF P
        <4> QED BY <1>0, <1>1
      <3>2. P = [j \in 1..l |-> P[j]]
        OBVIOUS
      <3> HIDE DEF P
      <3> QED BY <3>1, <3>2
    <2> HIDE DEF P, l
    <2> QED BY <1>0, <2>1
  <1> HIDE DEF P
  <1>3. Rising(P)
    <2> SUFFICES ASSUME NEW i \in 1..l, NEW j \in 1..l, i < j PROVE P[i] < P[j]
      BY <1>2 DEF Rising
    <2>1. P[i] \in 1..n /\ P[j] \in 1..n /\ s[P[i]] = lo + i - 1 /\ s[P[j]] = lo + j - 1
      BY <1>1
    <2>2. P[i] # P[j] /\ ~(s[P[j]] < s[P[i]])
      BY <2>1
    <2>3. ~(P[j] < P[i])
      BY <2>1, <2>2 DEF Rising
    <2> QED BY <1>0, <2>1, <2>2, <2>3
  <1>4. P[l] = n
    <2>1. P[l] \in 1..n /\ s[P[l]] = hi /\ n \in 1..n
      <3>1. l \in 1..l /\ lo + l - 1 = hi
        BY <1>0
      <3>2. P[l] \in 1..n /\ s[P[l]] = lo + l - 1
        BY <1>1, <3>1
      <3> HIDE DEF l
      <3> QED BY <1>0, <3>1, <3>2
    <2>2. ASSUME P[l] < n PROVE FALSE
      <3>1. s[P[l]] < s[n]
        BY <2>1, <2>2 DEF Rising
      <3> QED BY <1>0, <2>1, <3>1
    <2> QED BY <1>0, <2>1, <2>2
  <1>5. ASSUME NEW j \in 1..l PROVE P[j] = n - (l - j)
    <2>1. P[j] \in 1..n /\ s[P[j]] = lo + j - 1 /\ P[l] \in 1..n /\ s[P[l]] = lo + l - 1
          /\ j \in 1..l /\ l \in 1..l /\ j <= l
      BY <1>0, <1>1
    <2>2. P[l] - P[j] >= l - j
      BY <1>2, <1>3, <2>1, RisingGrows
    <2>3. s[n] - s[P[j]] >= n - P[j]
      <3>1. n \in 1..n /\ P[j] <= n
        BY <1>0, <2>1
      <3> QED BY <2>1, <3>1, RisingGrows
    <2> DEFINE p == P[j]
    <2>4. p \in Nat /\ n - p >= l - j /\ (lo + l - 1) - (lo + j - 1) >= n - p /\ j \in Nat
      BY <1>0, <1>4, <2>1, <2>2, <2>3
    <2> HIDE DEF p, l
    <2>5. p = n - (l - j)
      BY <1>0, <2>4
    <2> QED BY <2>5 DEF p
  <1>6. n >= l
    <2>1. 1 \in 1..l /\ P[1] \in 1..n
      BY <1>0, <1>1
    <2>2. P[1] = n - (l - 1)
      BY <1>5, <2>1
    <2> QED BY <1>0, <2>1, <2>2
  <1>7. ASSUME NEW i \in 1..n, i > n - l PROVE s[i] = hi - (n - i)
    <2> DEFINE j == i - (n - l)
    <2>1. j \in 1..l /\ n - (l - j) = i /\ lo + j - 1 = hi - (n - i)
      BY <1>0, <1>7
    <2> HIDE DEF j
    <2>2. P[j] = i /\ s[P[j]] = lo + j - 1
      BY <1>1, <1>5, <2>1
    <2> QED BY <2>1, <2>2
  <1> QED BY <1>6, <1>7

\* What is kept of a rising sequence rises, and is what was wanted of it.
LEMMA FilteredRises ==
  ASSUME NEW s, Rising(s), NEW S
  PROVE  Rising(Filtered(s, S)) /\ \A r : Holds(Filtered(s, S), r) <=> Holds(s, r) /\ r \in S
  <1> DEFINE t == Filtered(s, S)
             n == Len(s)
  <1>0. s \in Seq(Nat) /\ n \in Nat /\ n <= Len(s)
    BY DEF Rising
  <1>1. PICK p : Places(s, S, n, t, p)
    BY <1>0, FilteredPlaces
  <1>2. t \in Seq(Nat)
    BY <1>0, FilteredPlaces
  <1> HIDE DEF t
  <1>3. Rising(t)
    <2> SUFFICES ASSUME NEW i \in 1..Len(t), NEW j \in 1..Len(t), i < j PROVE t[i] < t[j]
      BY <1>2 DEF Rising
    <2>1. p[i] \in 1..n /\ p[j] \in 1..n /\ p[i] < p[j] /\ t[i] = s[p[i]] /\ t[j] = s[p[j]]
      BY <1>1 DEF Places
    <2> QED BY <2>1 DEF Rising
  <1>4. ASSUME NEW r PROVE Holds(t, r) <=> Holds(s, r) /\ r \in S
    BY <1>1 DEF Places, Holds
  <1> QED BY <1>3, <1>4 DEF t

\* The newest of a sequence are its end.
LEMMA NewestIs ==
  ASSUME NEW T, NEW s \in Seq(T), NEW n \in Nat
  PROVE  LET d == IF Len(s) > n THEN Len(s) - n ELSE 0
         IN  /\ Newest(s, n) \in Seq(T) /\ d \in Nat /\ d <= Len(s)
             /\ Len(Newest(s, n)) = Len(s) - d
             /\ \A i \in 1..Len(s) - d : Newest(s, n)[i] = s[d + i]
  <1> DEFINE l == Len(s)
             d == IF l > n THEN l - n ELSE 0
             m == d + 1
             t == SubSeq(s, m, l)
  <1>1. l \in Nat /\ (IF l > n THEN l - n + 1 ELSE 1) = m
    OBVIOUS
  <1>2. Newest(s, n) = t
    BY <1>1 DEF Newest
  <1>3. d \in Nat /\ d <= l
    <2> HIDE DEF l
    <2> QED BY <1>1
  <1> HIDE DEF d
  <1>4. m \in Int /\ l \in Int /\ \A i \in m..l : s[i] \in T
    BY <1>1, <1>3
  <1>5. /\ t \in Seq(T) /\ Len(t) = IF m <= l THEN l - m + 1 ELSE 0
        /\ \A i \in 1..l - m + 1 : t[i] = s[m + i - 1]
    <2> HIDE DEF m, l
    <2> QED BY <1>4, SubSeqProperties
  <1> HIDE DEF t, l
  <1>6. Len(t) = l - d /\ \A i \in 1..l - d : t[i] = s[d + i]
    <2>1. l - m + 1 = l - d
      BY <1>1, <1>3
    <2>2. ASSUME NEW i \in 1..l - d PROVE m + i - 1 = d + i
      BY <1>1, <1>3
    <2> QED BY <1>1, <1>3, <1>5, <2>1, <2>2
  <1> QED BY <1>2, <1>3, <1>5, <1>6 DEF d, l

LEMMA RecordsAre ==
  ASSUME NEW from \in Nat, NEW to \in Nat, from >= 1, from <= to + 1
  PROVE  /\ Rising(Records(from, to)) /\ Len(Records(from, to)) = to - from + 1
         /\ \A r : Holds(Records(from, to), r) <=> r \in from..to
         /\ \A i \in 1..to - from + 1 : Records(from, to)[i] = from + i - 1
  <1> DEFINE n == to - from + 1
             s == Records(from, to)
  <1>1. n \in Nat /\ s = [i \in 1..n |-> from + i - 1]
    BY DEF Records
  <1>2. \A i \in 1..n : s[i] = from + i - 1 /\ s[i] \in Nat
    BY <1>1
  <1>3. s \in Seq(Nat) /\ Len(s) = n
    <2> HIDE DEF n, s
    <2>1. s \in [1..n -> Nat]
      BY <1>1, <1>2
    <2> QED BY <1>1, <2>1
  <1> HIDE DEF s
  <1>4. Rising(s)
    BY <1>2, <1>3 DEF Rising
  <1>5. ASSUME NEW r PROVE Holds(s, r) <=> r \in from..to
    <2>1. ASSUME r \in from..to PROVE Holds(s, r)
      <3>1. r - from + 1 \in 1..n /\ from + (r - from + 1) - 1 = r
        BY <2>1
      <3> QED BY <1>2, <1>3, <3>1 DEF Holds
    <2>2. ASSUME Holds(s, r) PROVE r \in from..to
      BY <1>2, <1>3, <2>2 DEF Holds
    <2> QED BY <2>1, <2>2
  <1> QED BY <1>2, <1>3, <1>4, <1>5 DEF s

\* The records up to the last, from some record on that is old enough.
EndsAt(s, last) ==
  /\ s \in Seq(Nat) /\ last \in Nat
  /\ Len(s) <= last /\ (Len(s) >= Keep300 \/ Len(s) = last)
  /\ \A i \in 1..Len(s) : s[i] = last - Len(s) + i

LEMMA NewestEnds ==
  ASSUME NEW s, NEW last, EndsAt(s, last)
  PROVE  /\ EndsAt(Newest(s, Keep300), last)
         /\ Len(Newest(s, Keep300)) = IF last > Keep300 THEN Keep300 ELSE last
  <1> DEFINE l == Len(s)
             d == IF l > Keep300 THEN l - Keep300 ELSE 0
             t == Newest(s, Keep300)
  <1>1. /\ s \in Seq(Nat) /\ last \in Nat /\ l \in Nat /\ Keep300 \in Nat /\ l <= last
        /\ (l >= Keep300 \/ l = last) /\ \A i \in 1..l : s[i] = last - l + i
    BY KernelLogsAssumption DEF EndsAt
  <1>2. /\ t \in Seq(Nat) /\ d \in Nat /\ d <= l /\ Len(t) = l - d
        /\ \A i \in 1..l - d : t[i] = s[d + i]
    BY <1>1, NewestIs
  <1> HIDE DEF t
  <1>3. Len(t) = IF last > Keep300 THEN Keep300 ELSE last
    <2> HIDE DEF l
    <2> QED BY <1>1, <1>2
  <1>4. ASSUME NEW i \in 1..Len(t) PROVE t[i] = last - Len(t) + i
    <2>1. d + i \in 1..l /\ i \in 1..l - d
      BY <1>1, <1>2
    <2>2. t[i] = last - l + (d + i)
      BY <1>1, <1>2, <2>1
    <2>3. Len(t) \in Nat
      BY <1>2
    <2> HIDE DEF d, l
    <2> QED BY <1>1, <1>2, <2>2, <2>3
  <1>5. Len(t) <= last /\ (Len(t) >= Keep300 \/ Len(t) = last)
    BY <1>1, <1>2, <1>3
  <1> QED BY <1>1, <1>2, <1>3, <1>4, <1>5 DEF EndsAt, t

\* Of a sequence that ends at the last record the newest are the newest there are.
LEMMA NewestAreNewest ==
  ASSUME NEW s, NEW last, EndsAt(s, last)
  PROVE  Newest(s, Keep300) = Newest(Records(1, last), Keep300)
  <1> DEFINE t == Newest(s, Keep300)
             r == Records(1, last)
             u == Newest(r, Keep300)
  <1>1. last \in Nat /\ Keep300 \in Nat
    BY KernelLogsAssumption DEF EndsAt
  <1>2. /\ Rising(r) /\ Len(r) = last - 1 + 1
        /\ \A i \in 1..last - 1 + 1 : r[i] = 1 + i - 1
    <2>1. 1 \in Nat /\ 1 >= 1 /\ 1 <= last + 1
      BY <1>1
    <2> QED BY <1>1, <2>1, RecordsAre
  <1>3. EndsAt(r, last)
    <2>1. Len(r) = last /\ r \in Seq(Nat)
      BY <1>1, <1>2 DEF Rising
    <2>2. ASSUME NEW i \in 1..Len(r) PROVE r[i] = last - Len(r) + i
      <3>1. r[i] = 1 + i - 1
        BY <1>1, <1>2, <2>1
      <3> QED BY <1>1, <2>1, <3>1
    <2> QED BY <1>1, <2>1, <2>2 DEF EndsAt
  <1>4. EndsAt(t, last) /\ EndsAt(u, last) /\ Len(t) = Len(u)
    <2> HIDE DEF r
    <2> QED BY <1>3, NewestEnds
  <1> HIDE DEF t, u
  <1>5. t \in Seq(Nat) /\ u \in Seq(Nat) /\ \A i \in 1..Len(t) : t[i] = u[i]
    BY <1>4 DEF EndsAt
  <1>6. t = u
    BY <1>4, <1>5
  <1> QED BY <1>6 DEF t, u

-----------------------------------------------------------------------------
(* kmsg: while nothing was lost, what was read ends before the position, and *)
(* a poll adds no more to what is kept than it has reads.                    *)

KmsgInv ==
  /\ written \in Nat /\ position \in Nat \ {0} /\ reads \in 0..Reads /\ kmsg \in Seq(Nat)
  /\ kmsg_quality = "available" =>
       /\ EndsAt(kmsg, position - 1)
       /\ Len(kmsg) <= Keep300 + (IF reads = 0 THEN 0 ELSE Reads - reads)

LEMMA KmsgComplete ==
  ASSUME KmsgInv
  PROVE  KmsgIsComplete
  <1> SUFFICES ASSUME kmsg_quality = "available"
               PROVE  /\ Newest(kmsg, Keep300) = Newest(Records(1, position - 1), Keep300)
                      /\ Len(kmsg) < Keep300 + Reads
    BY DEF KmsgIsComplete
  <1>1. EndsAt(kmsg, position - 1)
    BY DEF KmsgInv
  <1>2. Len(kmsg) < Keep300 + Reads
    <2>1. Len(kmsg) \in Nat /\ Len(kmsg) <= Keep300 + (IF reads = 0 THEN 0 ELSE Reads - reads)
          /\ reads \in 0..Reads /\ Keep300 \in Nat /\ Reads \in Nat \ {0}
      BY KernelLogsAssumption DEF KmsgInv
    <2> QED BY <2>1
  <1> QED BY <1>1, <1>2, NewestAreNewest

\* The end of a poll keeps the newest of what it has.
LEMMA EndPollKeeps ==
  ASSUME written' \in Nat, NEW got \in Seq(Nat), NEW at \in Nat \ {0}, EndPoll(got), position' = at,
         kmsg_quality' = "available" => EndsAt(got, at - 1)
  PROVE  KmsgInv'
  <1> DEFINE l == Len(got)
             d == IF l > Keep300 THEN l - Keep300 ELSE 0
  <1>1. Keep300 \in Nat /\ Reads \in Nat
    BY KernelLogsAssumption
  <1>2. kmsg' = Newest(got, Keep300) /\ reads' = 0
    BY DEF EndPoll
  <1>3. Newest(got, Keep300) \in Seq(Nat)
    BY <1>1, NewestIs
  <1>4. kmsg_quality' = "available" => EndsAt(kmsg', at - 1) /\ Len(kmsg') <= Keep300 + 0
    <2> SUFFICES ASSUME kmsg_quality' = "available"
                 PROVE  EndsAt(kmsg', at - 1) /\ Len(kmsg') <= Keep300 + 0
      OBVIOUS
    <2>1. /\ EndsAt(kmsg', at - 1)
          /\ Len(kmsg') = IF at - 1 > Keep300 THEN Keep300 ELSE at - 1
      BY <1>2, NewestEnds
    <2> DEFINE n == Len(kmsg')
    <2>2. n = IF at - 1 > Keep300 THEN Keep300 ELSE at - 1
      BY <2>1
    <2> HIDE DEF n
    <2>3. n <= Keep300 + 0
      BY <1>1, <2>2
    <2> QED BY <2>1, <2>3 DEF n
  <1>5. 0 \in 0..Reads
    BY <1>1
  <1> QED BY <1>2, <1>3, <1>4, <1>5 DEF KmsgInv, EndsAt

LEMMA ReadRecordKeeps ==
  ASSUME KmsgInv, ReadRecord
  PROVE  KmsgInv'
  <1> DEFINE got == Append(kmsg, position)
             l == Len(kmsg)
  <1>1. /\ written \in Nat /\ written' = written
        /\ position \in Nat \ {0} /\ reads \in 1..Reads /\ kmsg \in Seq(Nat) /\ l \in Nat
        /\ kmsg_quality = "available" => EndsAt(kmsg, position - 1)
        /\ kmsg_quality = "available" => l <= Keep300 + (Reads - reads)
        /\ Keep300 \in Nat /\ Reads \in Nat \ {0}
    BY KernelLogsAssumption DEF KmsgInv, ReadRecord
  <1>2. /\ position' = position + 1 /\ kmsg_quality' = kmsg_quality
        /\ IF reads = 1 THEN EndPoll(got) ELSE kmsg' = got /\ reads' = reads - 1
    BY DEF ReadRecord
  <1>3. got \in Seq(Nat) /\ Len(got) = l + 1 /\ got[l + 1] = position
        /\ \A i \in 1..l : got[i] = kmsg[i]
    BY <1>1
  <1> HIDE DEF got
  <1>4. ASSUME kmsg_quality = "available" PROVE EndsAt(got, (position + 1) - 1)
    <2>1. /\ l <= position - 1 /\ (l >= Keep300 \/ l = position - 1)
          /\ \A i \in 1..l : kmsg[i] = position - 1 - l + i
      BY <1>1, <1>4 DEF EndsAt
    <2>2. (position + 1) - 1 = position
      BY <1>1
    <2>3. ASSUME NEW i \in 1..l + 1 PROVE got[i] = position - (l + 1) + i
      <3>1. CASE i = l + 1
        BY <1>1, <1>3, <3>1
      <3>2. CASE i # l + 1
        <4>1. i \in 1..l
          BY <1>1, <3>2
        <4>2. got[i] = position - 1 - l + i
          BY <1>3, <2>1, <4>1
        <4> HIDE DEF l
        <4> QED BY <1>1, <4>2
      <3> QED BY <3>1, <3>2
    <2>4. l + 1 <= position /\ (l + 1 >= Keep300 \/ l + 1 = position)
      BY <1>1, <2>1
    <2> QED BY <1>1, <1>3, <2>2, <2>3, <2>4 DEF EndsAt
  <1>5. CASE reads = 1
    <2>1. position + 1 \in Nat \ {0} /\ EndPoll(got)
      BY <1>1, <1>2, <1>5
    <2> QED BY <1>1, <1>2, <1>3, <1>4, <2>1, EndPollKeeps
  <1>6. CASE reads # 1
    <2>1. kmsg' = got /\ reads' = reads - 1
      BY <1>2, <1>6
    <2>2. position + 1 \in Nat \ {0} /\ reads - 1 \in 0..Reads /\ reads - 1 # 0
      BY <1>1, <1>6
    <2>3. kmsg_quality = "available" => l + 1 <= Keep300 + (Reads - (reads - 1))
      BY <1>1
    <2>4. kmsg_quality = "available" =>
            Len(got) <= Keep300 + (IF reads - 1 = 0 THEN 0 ELSE Reads - (reads - 1))
      BY <1>3, <2>2, <2>3
    <2> QED BY <1>1, <1>2, <1>3, <1>4, <2>1, <2>2, <2>4 DEF KmsgInv, EndsAt
  <1> QED BY <1>5, <1>6

LEMMA KmsgStep ==
  ASSUME KmsgInv, [LogsNext]_logsVars
  PROVE  KmsgInv'
  <1>0. KmsgInv /\ written \in Nat /\ Keep300 \in Nat \ {0} /\ Reads \in Nat \ {0} /\ Ring \in Nat \ {0}
    BY KernelLogsAssumption DEF KmsgInv
  <1>1. ASSUME UNCHANGED kmsgVars, written' \in Nat PROVE KmsgInv'
    BY <1>1 DEF kmsgVars, KmsgInv, EndsAt
  <1>2. CASE UNCHANGED logsVars
    BY <1>0, <1>1, <1>2 DEF logsVars
  <1>3. ASSUME NEW isBad \in BOOLEAN, Log(isBad) PROVE KmsgInv'
    BY <1>0, <1>1, <1>3 DEF Log
  <1>4. CASE StartPoll
    <2>1. reads = 0 /\ reads' = Reads /\ UNCHANGED <<written, position, kmsg, kmsg_quality>>
      BY <1>4 DEF StartPoll
    <2>2. kmsg_quality = "available" =>
            /\ EndsAt(kmsg, position - 1)
            /\ Len(kmsg) <= Keep300 + (IF Reads = 0 THEN 0 ELSE Reads - Reads)
      BY <1>0, <2>1 DEF KmsgInv
    <2>3. Reads \in 0..Reads
      BY <1>0
    <2> QED BY <1>0, <2>1, <2>2, <2>3 DEF KmsgInv, EndsAt
  <1>5. CASE ReadRecord
    BY <1>5, ReadRecordKeeps
  <1>6. CASE Overwritten
    <2>1. /\ Oldest \in Nat \ {0} /\ position' = Oldest /\ kmsg_quality' = "stale" /\ reads > 0
          /\ written' = written
          /\ IF reads = 1 THEN EndPoll(kmsg) ELSE reads' = reads - 1 /\ UNCHANGED kmsg
      BY <1>0, <1>6 DEF KmsgInv, Overwritten, Oldest
    <2>2. CASE reads = 1
      BY <1>0, <2>1, <2>2, EndPollKeeps DEF KmsgInv
    <2>3. CASE reads # 1
      <3>1. reads - 1 \in 0..Reads
        BY <1>0, <2>1, <2>3 DEF KmsgInv
      <3> QED BY <1>0, <2>1, <2>3, <3>1 DEF KmsgInv
    <2> QED BY <2>2, <2>3
  <1>7. CASE NothingYet
    <2>1. EndPoll(kmsg) /\ written' = written /\ position' = position /\ kmsg_quality' = kmsg_quality
      BY <1>7 DEF NothingYet
    <2> QED BY <1>0, <2>1, EndPollKeeps DEF KmsgInv
  <1>8. CASE ReadError
    <2>1. EndPoll(kmsg) /\ written' = written /\ position' = position /\ kmsg_quality' = "error"
      BY <1>8 DEF ReadError
    <2> QED BY <1>0, <2>1, EndPollKeeps DEF KmsgInv
  <1>9. CASE JournalAnswers
    BY <1>0, <1>1, <1>9 DEF JournalAnswers
  <1>10. CASE JournalFails
    BY <1>0, <1>1, <1>10 DEF JournalFails
  <1> QED BY <1>2, <1>3, <1>4, <1>5, <1>6, <1>7, <1>8, <1>9, <1>10 DEF LogsNext

-----------------------------------------------------------------------------
(* The journal: what is kept rises, and has every good record of the last   *)
(* ones at the last answer, so an answer adds nothing that is older.         *)

JournalInv ==
  /\ written \in Nat /\ asked \in Nat /\ asked <= written
  /\ journalCursor \in Nat /\ journalCursor <= asked
  /\ bad \subseteq 1..written
  /\ Rising(journal) /\ Len(journal) <= Keep300
  /\ \A i \in 1..Len(journal) : journal[i] \in 1..asked
  /\ \A r \in 1..asked : r > asked - Keep300 /\ r \notin bad => Holds(journal, r)
  /\ spoilt \/ \A r \in 1..asked : r > asked - Keep300 => r \notin bad

\* Without refused records, what is kept ends at the last answer.
LEMMA JournalEnds ==
  ASSUME JournalInv, ~spoilt
  PROVE  EndsAt(journal, asked) /\ Len(journal) = IF asked > Keep300 THEN Keep300 ELSE asked
  <1> DEFINE n == Len(journal)
             lo == IF asked > Keep300 THEN asked - Keep300 + 1 ELSE 1
  <1>1. /\ asked \in Nat /\ Keep300 \in Nat \ {0} /\ n \in Nat /\ n <= Keep300
        /\ Rising(journal) /\ journal \in Seq(Nat)
        /\ \A i \in 1..n : journal[i] \in 1..asked
        /\ \A r \in 1..asked : r > asked - Keep300 => Holds(journal, r)
    BY KernelLogsAssumption DEF JournalInv, Rising
  <1>2. CASE asked = 0
    <2>1. n = 0
      <3>1. ASSUME n >= 1 PROVE FALSE
        <4>1. journal[1] \in 1..asked
          BY <1>1, <3>1
        <4> QED BY <1>2, <4>1
      <3> QED BY <1>1, <3>1
    <2> QED BY <1>1, <1>2, <2>1 DEF EndsAt
  <1>3. CASE asked # 0
    <2>1. lo \in Nat /\ lo <= asked /\ lo >= 1 /\ asked - lo + 1 <= Keep300
      BY <1>1, <1>3
    <2>2. \A r \in lo..asked : Holds(journal, r)
      <3>1. \A r \in lo..asked : r \in 1..asked /\ r > asked - Keep300
        BY <1>1, <1>3
      <3> QED BY <1>1, <3>1
    <2> HIDE DEF lo
    <2>3. \A i \in 1..n : journal[i] <= asked
      BY <1>1
    <2>4. /\ n >= asked - lo + 1
          /\ \A i \in 1..n : i > n - (asked - lo + 1) => journal[i] = asked - (n - i)
      BY <1>1, <2>1, <2>2, <2>3, RisingEnds
    <2>5. n = asked - lo + 1
      <3>1. CASE asked > Keep300
        BY <1>1, <2>1, <2>4, <3>1 DEF lo
      <3>2. CASE ~(asked > Keep300)
        <4>1. lo = 1
          BY <3>2 DEF lo
        <4>2. n >= asked
          BY <1>1, <2>4, <4>1
        <4>3. 1 \in 1..n /\ n \in 1..n /\ 1 <= n
          BY <1>1, <1>3, <4>2
        <4>4. journal[n] - journal[1] >= n - 1
          BY <1>1, <4>3, RisingGrows
        <4>5. journal[n] \in 1..asked /\ journal[1] \in 1..asked
          BY <1>1, <4>3
        <4>6. asked - 1 >= n - 1
          BY <1>1, <4>4, <4>5
        <4> QED BY <1>1, <4>1, <4>2, <4>6
      <3> QED BY <3>1, <3>2
    <2>6. n <= asked /\ n = IF asked > Keep300 THEN Keep300 ELSE asked
      BY <1>1, <2>5 DEF lo
    <2>7. ASSUME NEW i \in 1..n PROVE journal[i] = asked - n + i
      <3>1. i > n - (asked - lo + 1)
        BY <1>1, <2>5
      <3>2. journal[i] = asked - (n - i)
        BY <2>4, <3>1
      <3> HIDE DEF n
      <3> QED BY <1>1, <3>2
    <2> QED BY <1>1, <2>6, <2>7 DEF EndsAt
  <1> QED BY <1>2, <1>3

LEMMA JournalKept ==
  ASSUME JournalInv
  PROVE  JournalIsComplete /\ JournalIsInOrder
  <1>1. JournalIsInOrder
    BY DEF JournalInv, JournalIsInOrder, Rising
  <1>2. ASSUME ~spoilt PROVE journal = Newest(Records(1, asked), Keep300)
    <2>1. EndsAt(journal, asked) /\ Len(journal) <= Keep300
      BY <1>2, JournalEnds DEF JournalInv
    <2>2. Newest(journal, Keep300) = Newest(Records(1, asked), Keep300)
      BY <2>1, NewestAreNewest
    <2>3. Newest(journal, Keep300) = journal
      <3> DEFINE n == Len(journal)
                 d == IF n > Keep300 THEN n - Keep300 ELSE 0
                 t == Newest(journal, Keep300)
      <3>1. journal \in Seq(Nat) /\ Keep300 \in Nat /\ n \in Nat
        BY <2>1, KernelLogsAssumption DEF EndsAt
      <3>2. /\ t \in Seq(Nat) /\ Len(t) = n - d /\ \A i \in 1..n - d : t[i] = journal[d + i]
        BY <3>1, NewestIs
      <3>3. d = 0
        BY <2>1, <3>1
      <3> HIDE DEF d, t
      <3>4. Len(t) = n /\ \A i \in 1..n : t[i] = journal[i]
        BY <3>1, <3>2, <3>3
      <3>5. t = journal
        BY <3>1, <3>2, <3>4
      <3> QED BY <3>5 DEF t
    <2> QED BY <2>2, <2>3
  <1> QED BY <1>1, <1>2 DEF JournalIsComplete

\* A rising sequence and a rising one of greater numbers after it.
LEMMA RisingAfter ==
  ASSUME NEW s, Rising(s), NEW t, Rising(t), NEW x \in Nat,
         \A i \in 1..Len(s) : s[i] <= x, \A i \in 1..Len(t) : t[i] > x
  PROVE  /\ Rising(s \o t)
         /\ \A r : Holds(s \o t, r) <=> Holds(s, r) \/ Holds(t, r)
  <1> DEFINE a == s \o t
             m == Len(s)
             n == Len(t)
  <1>1. /\ s \in Seq(Nat) /\ t \in Seq(Nat) /\ m \in Nat /\ n \in Nat
        /\ a \in Seq(Nat) /\ Len(a) = m + n
        /\ \A i \in 1..m : a[i] = s[i]
        /\ \A i \in 1..n : a[m + i] = t[i]
        /\ (\A i \in 1..m : s[i] \in Nat) /\ \A i \in 1..n : t[i] \in Nat
    BY DEF Rising
  <1> HIDE DEF a
  <1>2. ASSUME NEW i \in m + 1..m + n PROVE i - m \in 1..n /\ a[i] = t[i - m]
    <2>1. i - m \in 1..n /\ m + (i - m) = i
      BY <1>1
    <2> QED BY <1>1, <2>1
  <1>3. Rising(a)
    <2> SUFFICES ASSUME NEW i \in 1..m + n, NEW j \in 1..m + n, i < j PROVE a[i] < a[j]
      BY <1>1 DEF Rising
    <2>1. CASE j \in 1..m
      <3>1. i \in 1..m
        BY <1>1, <2>1
      <3> QED BY <1>1, <2>1, <3>1 DEF Rising
    <2>2. CASE i \in m + 1..m + n
      <3>1. j \in m + 1..m + n /\ i - m < j - m
        BY <1>1, <2>2
      <3>2. t[i - m] < t[j - m]
        BY <1>2, <2>2, <3>1 DEF Rising
      <3> QED BY <1>2, <2>2, <3>1, <3>2
    <2>3. CASE i \in 1..m /\ j \in m + 1..m + n
      <3>1. a[i] <= x /\ a[j] > x /\ a[i] \in Nat /\ a[j] \in Nat
        BY <1>1, <1>2, <2>3
      <3> QED BY <3>1
    <2>4. j \in 1..m \/ i \in m + 1..m + n \/ (i \in 1..m /\ j \in m + 1..m + n)
      BY <1>1
    <2> QED BY <2>1, <2>2, <2>3, <2>4
  <1>4. ASSUME NEW r PROVE Holds(a, r) <=> Holds(s, r) \/ Holds(t, r)
    <2>1. ASSUME Holds(s, r) PROVE Holds(a, r)
      <3>1. PICK i \in 1..m : s[i] = r
        BY <2>1 DEF Holds
      <3>2. i \in 1..m + n
        BY <1>1
      <3> QED BY <1>1, <3>1, <3>2 DEF Holds
    <2>2. ASSUME Holds(t, r) PROVE Holds(a, r)
      <3>1. PICK i \in 1..n : t[i] = r
        BY <2>2 DEF Holds
      <3>2. m + i \in 1..m + n
        BY <1>1
      <3> QED BY <1>1, <3>1, <3>2 DEF Holds
    <2>3. ASSUME Holds(a, r) PROVE Holds(s, r) \/ Holds(t, r)
      <3>1. PICK i \in 1..m + n : a[i] = r
        BY <1>1, <2>3 DEF Holds
      <3>2. i \in 1..m \/ i \in m + 1..m + n
        BY <1>1
      <3> QED BY <1>1, <1>2, <3>1, <3>2 DEF Holds
    <2> QED BY <2>1, <2>2, <2>3
  <1> QED BY <1>3, <1>4 DEF a

\* The newest of a rising sequence rises, and holds what is recent enough.
LEMMA NewestRises ==
  ASSUME NEW s, Rising(s), NEW last \in Nat, \A i \in 1..Len(s) : s[i] <= last
  PROVE  /\ Rising(Newest(s, Keep300)) /\ Len(Newest(s, Keep300)) <= Keep300
         /\ \A i \in 1..Len(Newest(s, Keep300)) : Holds(s, Newest(s, Keep300)[i])
         /\ \A r \in Nat : r > last - Keep300 /\ Holds(s, r) => Holds(Newest(s, Keep300), r)
  <1> DEFINE n == Len(s)
             d == IF n > Keep300 THEN n - Keep300 ELSE 0
             t == Newest(s, Keep300)
  <1>0. /\ s \in Seq(Nat) /\ n \in Nat /\ Keep300 \in Nat /\ \A i \in 1..n : s[i] \in Nat
    BY KernelLogsAssumption DEF Rising
  <1>1. /\ t \in Seq(Nat) /\ d \in Nat /\ d <= n /\ Len(t) = n - d
        /\ \A i \in 1..n - d : t[i] = s[d + i]
    BY <1>0, NewestIs
  <1> HIDE DEF t
  <1>2. n - d <= Keep300 /\ (d = 0 \/ d = n - Keep300)
    <2> HIDE DEF n
    <2> QED BY <1>0
  <1> HIDE DEF d
  <1>3. ASSUME NEW i \in 1..n - d PROVE d + i \in 1..n
    BY <1>0, <1>1
  <1>4. Rising(t)
    <2> SUFFICES ASSUME NEW i \in 1..n - d, NEW j \in 1..n - d, i < j PROVE t[i] < t[j]
      BY <1>1 DEF Rising
    <2>1. d + i \in 1..n /\ d + j \in 1..n /\ d + i < d + j
      BY <1>0, <1>1, <1>3
    <2> QED BY <1>1, <2>1 DEF Rising
  <1>5. \A i \in 1..Len(t) : Holds(s, t[i])
    BY <1>1, <1>3 DEF Holds
  <1>6. ASSUME NEW r \in Nat, r > last - Keep300, Holds(s, r) PROVE Holds(t, r)
    <2>1. PICK q \in 1..n : s[q] = r
      BY <1>6 DEF Holds
    <2>2. q > d
      <3> SUFFICES ASSUME q <= d PROVE FALSE
        BY <1>0, <1>1
      <3>1. n \in 1..n /\ q <= n /\ d = n - Keep300 /\ n - q >= Keep300
        BY <1>0, <1>1, <1>2
      <3>2. s[n] - s[q] >= n - q
        BY <3>1, RisingGrows
      <3>3. s[n] <= last /\ s[n] \in Nat
        BY <1>0, <3>1
      <3> DEFINE x == s[n]
      <3>4. x - r >= n - q /\ x <= last /\ x \in Nat
        BY <2>1, <3>2, <3>3
      <3> HIDE DEF x, n
      <3> QED BY <1>0, <1>6, <3>1, <3>4
    <2>3. q - d \in 1..n - d /\ d + (q - d) = q
      BY <1>0, <1>1, <2>2
    <2>4. t[q - d] = r
      BY <1>1, <2>1, <2>3
    <2> QED BY <1>1, <2>3, <2>4 DEF Holds
  <1> QED BY <1>1, <1>2, <1>4, <1>5, <1>6 DEF t

LEMMA JournalAnswersKeeps ==
  ASSUME JournalInv, JournalAnswers
  PROVE  JournalInv'
  <1> DEFINE from == IF journalCursor + Keep300 > written THEN journalCursor + 1 ELSE written - Keep300 + 1
             start == IF journalCursor = 0 /\ written <= Keep300 THEN 1 ELSE from
             answer == Records(start, written)
             good == Filtered(answer, ToSet(answer) \ bad)
             failed == \E r \in ToSet(answer) : r \in bad
             fresh == Filtered(good, {r \in ToSet(good) : ~Contains(journal, r)})
             all == journal \o fresh
  <1>0. /\ written \in Nat /\ asked \in Nat /\ asked <= written /\ Keep300 \in Nat \ {0}
        /\ journalCursor \in Nat /\ journalCursor <= asked /\ bad \subseteq 1..written
        /\ Rising(journal) /\ \A i \in 1..Len(journal) : journal[i] \in 1..asked
        /\ \A r \in 1..asked : r > asked - Keep300 /\ r \notin bad => Holds(journal, r)
        /\ spoilt \/ \A r \in 1..asked : r > asked - Keep300 => r \notin bad
    BY KernelLogsAssumption DEF JournalInv
  <1>1. /\ journalCursor' = IF good = <<>> THEN journalCursor ELSE Last(good)
        /\ journal' = Newest(all, Keep300) /\ asked' = written /\ spoilt' = (spoilt \/ failed)
        /\ written' = written /\ bad' = bad
    BY DEF JournalAnswers, Unseen
  <1>2. /\ start \in Nat /\ start >= 1 /\ start <= written + 1
        /\ start > written - Keep300
        /\ \A r \in 1..written : r > asked /\ r > written - Keep300 => r >= start
    BY <1>0
  <1> HIDE DEF start
  <1>3. Rising(answer) /\ \A r : Holds(answer, r) <=> r \in start..written
    BY <1>0, <1>2, RecordsAre
  <1> HIDE DEF answer
  <1>4. \A s, r : Rising(s) => (r \in ToSet(s) <=> Holds(s, r))
    <2> SUFFICES ASSUME NEW s, NEW r, Rising(s) PROVE r \in ToSet(s) <=> Holds(s, r)
      OBVIOUS
    <2>1. DOMAIN s = 1..Len(s)
      BY RisingIs
    <2> QED BY <2>1 DEF ToSet, Holds
  <1>5. Rising(good) /\ \A r : Holds(good, r) <=> r \in start..written /\ r \notin bad
    <2>1. Rising(good) /\ \A r : Holds(good, r) <=> Holds(answer, r) /\ r \in ToSet(answer) \ bad
      BY <1>3, FilteredRises
    <2> HIDE DEF good
    <2> QED BY <1>3, <1>4, <2>1
  <1>6. failed <=> \E r \in start..written : r \in bad
    BY <1>3, <1>4
  <1> HIDE DEF good, failed
  <1>7. /\ Rising(fresh)
        /\ \A r : Holds(fresh, r) <=> r \in start..written /\ r \notin bad /\ ~Holds(journal, r)
    <2> DEFINE S == {r \in ToSet(good) : ~Contains(journal, r)}
    <2>1. Rising(fresh) /\ \A r : Holds(fresh, r) <=> Holds(good, r) /\ r \in S
      BY <1>5, FilteredRises
    <2>2. \A r : r \in S <=> Holds(good, r) /\ ~Holds(journal, r)
      BY <1>4, <1>5 DEF Contains, Holds
    <2> HIDE DEF S, fresh
    <2> QED BY <1>5, <2>1, <2>2
  <1> HIDE DEF fresh
  <1>8. \A i \in 1..Len(fresh) : fresh[i] > asked /\ fresh[i] <= written
    <2> SUFFICES ASSUME NEW i \in 1..Len(fresh) PROVE fresh[i] > asked /\ fresh[i] <= written
      OBVIOUS
    <2> DEFINE r == fresh[i]
    <2>1. Holds(fresh, r)
      BY DEF Holds
    <2> HIDE DEF r
    <2>2. r \in start..written /\ r \notin bad /\ ~Holds(journal, r)
      BY <1>7, <2>1
    <2>3. r \in Nat /\ r >= 1 /\ r <= written /\ r > written - Keep300
      BY <1>0, <1>2, <2>2
    <2>4. ~(r <= asked)
      <3> SUFFICES ASSUME r <= asked PROVE FALSE
        OBVIOUS
      <3>1. r \in 1..asked /\ r > asked - Keep300
        BY <1>0, <2>3
      <3> QED BY <1>0, <2>2, <3>1
    <2>5. r > asked /\ r <= written
      BY <1>0, <2>3, <2>4
    <2> QED BY <2>5 DEF r
  <1>9. Rising(all) /\ \A r : Holds(all, r) <=> Holds(journal, r) \/ Holds(fresh, r)
    <2>1. \A i \in 1..Len(journal) : journal[i] <= asked
      BY <1>0
    <2>2. \A i \in 1..Len(fresh) : fresh[i] > asked
      BY <1>8
    <2> QED BY <1>0, <1>7, <2>1, <2>2, RisingAfter
  <1> HIDE DEF all
  <1>10. \A i \in 1..Len(all) : all[i] \in 1..written
    <2> SUFFICES ASSUME NEW i \in 1..Len(all) PROVE all[i] \in 1..written
      OBVIOUS
    <2> DEFINE r == all[i]
    <2>1. Holds(all, r)
      BY DEF Holds
    <2> HIDE DEF r
    <2>2. CASE Holds(journal, r)
      <3>1. r \in 1..asked
        BY <1>0, <2>2 DEF Holds
      <3>2. r \in 1..written
        BY <1>0, <3>1
      <3> QED BY <3>2 DEF r
    <2>3. CASE Holds(fresh, r)
      <3>1. r \in start..written
        BY <1>7, <2>3
      <3>2. r \in 1..written
        BY <1>0, <1>2, <3>1
      <3> QED BY <3>2 DEF r
    <2> QED BY <1>9, <2>1, <2>2, <2>3
  <1> DEFINE new == Newest(all, Keep300)
  <1>11. /\ Rising(new) /\ Len(new) <= Keep300
         /\ \A i \in 1..Len(new) : Holds(all, new[i])
         /\ \A r \in Nat : r > written - Keep300 /\ Holds(all, r) => Holds(new, r)
    <2>1. \A i \in 1..Len(all) : all[i] <= written
      BY <1>10
    <2> QED BY <1>0, <1>9, <2>1, NewestRises
  <1> HIDE DEF new
  <1>12. \A i \in 1..Len(new) : new[i] \in 1..written
    BY <1>10, <1>11 DEF Holds
  <1>13. ASSUME NEW r \in 1..written, r > written - Keep300
         PROVE  /\ r \notin bad => Holds(new, r)
                /\ spoilt \/ failed \/ r \notin bad
    <2>1. CASE r <= asked
      <3>1. r \in 1..asked /\ r > asked - Keep300
        BY <1>0, <1>13, <2>1
      <3>2. (r \notin bad => Holds(journal, r)) /\ (spoilt \/ r \notin bad)
        BY <1>0, <3>1
      <3>3. Holds(journal, r) => Holds(new, r)
        BY <1>9, <1>11, <1>13
      <3> QED BY <3>2, <3>3
    <2>2. CASE ~(r <= asked)
      <3>0. r \in Nat /\ r <= written /\ r > asked
        BY <1>0, <2>2
      <3>1. r > asked /\ r \in start..written
        <4>1. r >= start
          BY <1>2, <1>13, <3>0
        <4> QED BY <1>0, <1>2, <3>0, <4>1
      <3>2. ~Holds(journal, r)
        <4>1. \A i \in 1..Len(journal) : journal[i] # r
          BY <1>0, <2>2
        <4> QED BY <4>1 DEF Holds
      <3>3. r \notin bad => Holds(fresh, r)
        BY <1>7, <3>1, <3>2
      <3>4. Holds(fresh, r) => Holds(new, r)
        BY <1>9, <1>11, <1>13
      <3> QED BY <1>6, <3>1, <3>3, <3>4
    <2> QED BY <2>1, <2>2
  <1>14. journalCursor' \in Nat /\ journalCursor' <= written
    <2>1. CASE good = <<>>
      BY <1>0, <1>1, <2>1
    <2>2. CASE good # <<>>
      <3>1. good \in Seq(Nat) /\ Len(good) \in 1..Len(good)
        BY <1>5, <2>2 DEF Rising
      <3>2. Holds(good, good[Len(good)])
        BY <3>1 DEF Holds
      <3>3. good[Len(good)] \in start..written
        BY <1>5, <3>2
      <3>4. journalCursor' = good[Len(good)]
        BY <1>1, <2>2 DEF Last
      <3> DEFINE x == good[Len(good)]
      <3>5. x \in Nat /\ x <= written
        BY <1>0, <1>2, <3>3
      <3> HIDE DEF x
      <3>6. journalCursor' = x
        BY <3>4 DEF x
      <3> QED BY <3>5, <3>6
    <2> QED BY <2>1, <2>2
  <1>15. journal' = new
    BY <1>1 DEF new
  <1>16. /\ asked' = written /\ written' = written /\ bad' = bad /\ spoilt' = (spoilt \/ failed)
    BY <1>1
  <1>17. /\ \A r \in 1..written : r > written - Keep300 /\ r \notin bad => Holds(new, r)
         /\ (spoilt \/ failed) \/ \A r \in 1..written : r > written - Keep300 => r \notin bad
    BY <1>13
  <1>18. written <= written
    BY <1>0
  <1> QED BY <1>0, <1>11, <1>12, <1>14, <1>15, <1>16, <1>17, <1>18
          DEF JournalInv, Rising, Holds

LEMMA LogKeeps ==
  ASSUME JournalInv, NEW isBad \in BOOLEAN, Log(isBad)
  PROVE  JournalInv'
  <1> DEFINE w == written'
  <1>1. w = written + 1 /\ written \in Nat /\ asked \in Nat /\ asked <= written /\ bad \subseteq 1..written
    BY DEF Log, JournalInv
  <1>2. bad' = bad \/ bad' = bad \cup {written + 1}
    BY DEF Log
  <1> HIDE DEF w
  <1>3. w \in Nat /\ asked <= w
    BY <1>1
  <1>4. bad' \subseteq 1..w
    <2>1. 1..written \subseteq 1..w /\ written + 1 \in 1..w
      BY <1>1
    <2> QED BY <1>1, <1>2, <2>1
  <1>5. \A r \in 1..asked : r \in bad' <=> r \in bad
    <2>1. \A r \in 1..asked : r # written + 1
      BY <1>1
    <2> QED BY <1>2, <2>1
  <1>6. UNCHANGED <<asked, journalCursor, journal, spoilt>>
    BY DEF Log, journalVars
  <1>7. written' = w
    BY DEF w
  <1> QED BY <1>1, <1>3, <1>4, <1>5, <1>6, <1>7 DEF JournalInv, Rising, Holds

LEMMA JournalStep ==
  ASSUME JournalInv, [LogsNext]_logsVars
  PROVE  JournalInv'
  <1>1. ASSUME UNCHANGED <<written, bad, journalVars>> PROVE JournalInv'
    BY <1>1 DEF journalVars, JournalInv, Rising, Holds
  <1>2. CASE UNCHANGED logsVars
    BY <1>1, <1>2 DEF logsVars
  <1>3. ASSUME NEW isBad \in BOOLEAN, Log(isBad) PROVE JournalInv'
    BY <1>3, LogKeeps
  <1>4. CASE StartPoll \/ ReadRecord \/ Overwritten \/ NothingYet \/ ReadError
    BY <1>1, <1>4 DEF StartPoll, ReadRecord, Overwritten, NothingYet, ReadError
  <1>5. CASE JournalAnswers
    BY <1>5, JournalAnswersKeeps
  <1>6. CASE JournalFails
    <2>1. journalCursor' = 0 /\ UNCHANGED <<written, bad, journal, asked, spoilt>>
      BY <1>6 DEF JournalFails
    <2>2. asked \in Nat /\ 0 <= asked
      BY DEF JournalInv
    <2> QED BY <2>1, <2>2 DEF JournalInv, Rising, Holds
  <1> QED BY <1>2, <1>3, <1>4, <1>5, <1>6 DEF LogsNext

\* Kernel logs: what is kept of kmsg and of the journal are their newest
\* records, each once and in order, whatever is overwritten while it is read,
\* fails or is asked for again; unless that is told (poll of logs.rs, for kmsg
\* and for the journal).
THEOREM LogsCorrect == LogsSpec => []RecordsAreKept
  <1>1. LogsInit => KmsgInv /\ JournalInv
    <2> SUFFICES ASSUME LogsInit PROVE KmsgInv /\ JournalInv
      OBVIOUS
    <2>1. Keep300 \in Nat \ {0} /\ Reads \in Nat \ {0} /\ Len(<<>>) = 0 /\ <<>> \in Seq(Nat)
      BY KernelLogsAssumption
    <2>2. KmsgInv
      BY <2>1 DEF LogsInit, KmsgInv, EndsAt
    <2>3. JournalInv
      BY <2>1 DEF LogsInit, JournalInv, Rising
    <2> QED BY <2>2, <2>3
  <1>2. KmsgInv /\ JournalInv /\ [LogsNext]_logsVars => KmsgInv' /\ JournalInv'
    BY KmsgStep, JournalStep
  <1>3. KmsgInv /\ JournalInv => RecordsAreKept
    BY KmsgComplete, JournalKept DEF RecordsAreKept
  <1> QED BY <1>1, <1>2, <1>3, PTL DEF LogsSpec

-----------------------------------------------------------------------------
(* Samples in chunks.  A spot is where a sample of a chunk is among all that *)
(* the chunks hold; Sized says that a version's numbers fit its chunks, and  *)
(* Sampled what is read of them.                                             *)

Measurements == [at : SampleTimes, value : Readings]

\* Where the j-th sample of the i-th chunk is among all of them.
Spot(i, j) == (i - 1) * ChunkSize + j

LEMMA SpotIs ==
  ASSUME NEW i \in Nat \ {0}, NEW j \in Nat
  PROVE  /\ Spot(i, j) \in Nat /\ Spot(i, j) >= j /\ Spot(1, j) = j
         /\ Spot(i + 1, j) = Spot(i, j) + ChunkSize
         /\ Spot(i, j + 1) = Spot(i, j) + 1
         /\ Spot(i + 1, j) = Spot(i, ChunkSize) + j
  <1> DEFINE c == ChunkSize
  <1>1. c \in Nat /\ i - 1 \in Nat
    BY ChunksAssumption
  <1> HIDE DEF c
  <1>2. (i - 1) * c \in Nat /\ (i + 1 - 1) * c = (i - 1) * c + c /\ (1 - 1) * c = 0
    BY <1>1
  <1> DEFINE x == (i - 1) * c
             y == (i + 1 - 1) * c
             z == (1 - 1) * c
  <1>3. x \in Nat /\ y = x + c /\ z = 0
    BY <1>2
  <1> HIDE DEF x, y, z
  <1>4. /\ x + j \in Nat /\ x + j >= j /\ z + j = j /\ y + j = x + j + c
        /\ x + (j + 1) = x + j + 1 /\ y + j = x + c + j
    BY <1>1, <1>3
  <1> QED BY <1>4 DEF Spot, x, y, z, c

\* Spots of earlier chunks come first.
LEMMA SpotBefore ==
  ASSUME NEW i \in Nat \ {0}, NEW k \in Nat \ {0}, i < k, NEW j \in 1..ChunkSize, NEW m \in Nat
  PROVE  Spot(i, j) <= Spot(k, m) /\ (m > 0 => Spot(i, j) < Spot(k, m))
  <1> DEFINE c == ChunkSize
             a == i - 1
             b == k - 1
  <1>1. c \in Nat /\ a \in Nat /\ b \in Nat /\ a < b /\ j \in 1..c
    BY ChunksAssumption
  <1> HIDE DEF a, b, c
  <1>2. a * c \in Nat /\ b * c \in Nat /\ a * c + c <= b * c
    BY <1>1
  <1> DEFINE x == a * c
             y == b * c
  <1>3. x \in Nat /\ y \in Nat /\ x + c <= y
    BY <1>2
  <1> HIDE DEF x, y
  <1>4. x + j <= y + m /\ (m > 0 => x + j < y + m)
    BY <1>1, <1>3
  <1> QED BY <1>4 DEF Spot, x, y, a, b, c

LEMMA SpotWithin ==
  ASSUME NEW i \in Nat \ {0}, NEW j \in Nat, NEW m \in Nat, j <= m
  PROVE  Spot(i, j) <= Spot(i, m) /\ Spot(i, m) - Spot(i, j) = m - j
  <1> DEFINE x == (i - 1) * ChunkSize
  <1>1. x \in Nat
    <2>1. i - 1 \in Nat /\ ChunkSize \in Nat
      BY ChunksAssumption
    <2> QED BY <2>1
  <1> HIDE DEF x
  <1>2. x + j <= x + m /\ (x + m) - (x + j) = m - j
    BY <1>1
  <1> QED BY <1>2 DEF Spot, x

\* Every place is a spot of one chunk.
LEMMA SpotOf ==
  ASSUME NEW k \in Nat
  PROVE  LET i == (k \div ChunkSize) + 1
             j == (k % ChunkSize) + 1
         IN  i \in Nat \ {0} /\ j \in 1..ChunkSize /\ Spot(i, j) = k + 1
  <1> DEFINE c == ChunkSize
             d == k \div c
             r == k % c
  <1>1. c \in Nat \ {0}
    BY ChunksAssumption
  <1> HIDE DEF c
  <1>2. k = c * d + r /\ r \in 0..c - 1 /\ d \in Nat /\ c * d = d * c
    BY <1>1
  <1> HIDE DEF d, r
  <1>3. d + 1 \in Nat \ {0} /\ r + 1 \in 1..c /\ ((d + 1) - 1) * c + (r + 1) = k + 1
    <2> DEFINE x == d * c
    <2>1. (d + 1 - 1) * c = x /\ x \in Nat /\ k = x + r
      BY <1>1, <1>2
    <2> HIDE DEF x
    <2>2. x + (r + 1) = k + 1
      BY <1>1, <1>2, <2>1
    <2> QED BY <1>1, <1>2, <2>1, <2>2
  <1>4. Spot(d + 1, r + 1) = k + 1
    BY <1>3, Zenon DEF Spot, c
  <1>5. d + 1 \in Nat \ {0} /\ r + 1 \in 1..c
    BY <1>3
  <1> QED BY <1>4, <1>5, Zenon DEF d, r, c

-----------------------------------------------------------------------------
(* Chunks, all of which are full but the last, one after the other.         *)

Chunked(q) ==
  /\ q \in Seq(Seq(Measurements))
  /\ \A i \in 1..Len(q) : Len(q[i]) \in 1..ChunkSize
  /\ \A i \in 1..Len(q) - 1 : Len(q[i]) = ChunkSize

Flat(q, n, f) ==
  /\ f \in Seq(Measurements) /\ Len(f) = Spot(n, Len(q[n]))
  /\ \A i \in 1..n : \A j \in 1..Len(q[i]) : f[Spot(i, j)] = q[i][j]

FlatAre(q, flatten) ==
  flatten = [i \in 1..Len(q) |-> IF i = 1 THEN q[i] ELSE flatten[i - 1] \o q[i]]

LEMMA FlatsExist ==
  ASSUME NEW q, Len(q) \in Nat, Len(q) > 0
  PROVE  \E flatten : FlatAre(q, flatten)
  <1> DEFINE Step(k, i) == IF i = 1 THEN q[i] ELSE k[i - 1] \o q[i]
             Has(n) == \E k : \A i \in 1..n + 1 : k[i] = Step(k, i)
             Have == {n \in Nat : Has(n)}
             last == Len(q) - 1
  <1>0. last \in Nat /\ last + 1 = Len(q)
    OBVIOUS
  <1>1. 0 \in Have
    <2> DEFINE k == [i \in 1..1 |-> q[i]]
    <2>1. \A i \in 1..0 + 1 : k[i] = Step(k, i)
      OBVIOUS
    <2>2. Has(0)
      BY <2>1
    <2> QED BY <2>2
  <1>2. ASSUME NEW n \in Nat, n \in Have PROVE n + 1 \in Have
    <2>1. PICK k : \A i \in 1..n + 1 : k[i] = Step(k, i)
      BY <1>2
    <2> DEFINE h == [i \in 1..n + 1 + 1 |-> IF i <= n + 1 THEN k[i] ELSE Step(k, i)]
    <2>2. ASSUME NEW i \in 1..n + 1 + 1 PROVE h[i] = Step(h, i)
      <3>1. CASE i = 1
        BY <2>1, <3>1
      <3>2. CASE i # 1
        <4>1. i - 1 \in 1..n + 1 /\ h[i - 1] = k[i - 1]
          BY <3>2
        <4>2. h[i] = Step(k, i)
          BY <2>1
        <4> QED BY <3>2, <4>1, <4>2
      <3> QED BY <3>1, <3>2
    <2> HIDE DEF h
    <2>3. \A i \in 1..n + 1 + 1 : h[i] = Step(h, i)
      BY <2>2
    <2>4. Has(n + 1)
      BY <2>3
    <2> HIDE DEF Has
    <2> QED BY <2>4
  <1> HIDE DEF Have
  <1>3. last \in Have
    BY <1>0, <1>1, <1>2, Naturals
  <1>4. PICK k : \A i \in 1..last + 1 : k[i] = Step(k, i)
    BY <1>3 DEF Have
  <1> DEFINE h == [i \in 1..Len(q) |-> k[i]]
  <1>5. ASSUME NEW i \in 1..Len(q) PROVE h[i] = Step(h, i)
    <2>1. i # 1 => i - 1 \in 1..Len(q) /\ h[i - 1] = k[i - 1]
      OBVIOUS
    <2>2. k[i] = Step(k, i)
      BY <1>0, <1>4
    <2> QED BY <2>1, <2>2
  <1>6. h = [i \in 1..Len(q) |-> Step(h, i)]
    BY <1>5
  <1> QED BY <1>6 DEF FlatAre

LEMMA ConcatIs ==
  ASSUME NEW T, NEW a \in Seq(T), NEW b \in Seq(T)
  PROVE  /\ a \o b \in Seq(T) /\ Len(a) \in Nat /\ Len(b) \in Nat
         /\ Len(a \o b) = Len(a) + Len(b)
         /\ \A k \in 1..Len(a) : (a \o b)[k] = a[k]
         /\ \A k \in 1..Len(b) : (a \o b)[Len(a) + k] = b[k]
  OBVIOUS

LEMMA SubSeqIs ==
  ASSUME NEW T, NEW a \in Seq(T), NEW o \in Nat, NEW l \in Nat, o + l = Len(a)
  PROVE  LET b == SubSeq(a, o + 1, Len(a))
         IN  b \in Seq(T) /\ Len(b) = l /\ \A k \in 1..l : b[k] = a[o + k]
  <1> DEFINE m == Len(a)
  <1>1. m \in Nat /\ m = o + l /\ \A i \in 1..m : a[i] \in T
    OBVIOUS
  <1> HIDE DEF m
  <1>2. SubSeq(a, o + 1, m) = [i \in 1..l |-> a[o + i]]
    <2>1. SubSeq(a, o + 1, m) = [i \in 1..m - (o + 1) + 1 |-> a[i + (o + 1) - 1]]
      BY <1>1
    <2>2. m - (o + 1) + 1 = l /\ \A i \in 1..l : i + (o + 1) - 1 = o + i
      BY <1>1
    <2> QED BY <2>1, <2>2
  <1>3. \A i \in 1..l : a[o + i] \in T
    BY <1>1
  <1>4. [i \in 1..l |-> a[o + i]] \in Seq(T) /\ Len([i \in 1..l |-> a[o + i]]) = l
    BY <1>3
  <1> QED BY <1>2, <1>4 DEF m

LEMMA FlattenIs ==
  ASSUME NEW q, Chunked(q), q # <<>>
  PROVE  Flat(q, Len(q), FlattenSeq(q))
  <1> DEFINE f == CHOOSE flatten : FlatAre(q, flatten)
             n == Len(q)
             Have == {m \in Nat : m + 1 <= n => Flat(q, m + 1, f[m + 1])}
  <1>1. n \in Nat /\ n > 0 /\ DOMAIN q = 1..n /\ \A i \in 1..n : q[i] \in Seq(Measurements)
    BY DEF Chunked
  <1>2. FlatAre(q, f)
    BY <1>1, FlatsExist
  <1>3. FlattenSeq(q) = f[n]
    BY <1>1 DEF FlattenSeq, FlatAre
  <1> HIDE DEF f
  <1>4. \A i \in 1..n : f[i] = IF i = 1 THEN q[i] ELSE f[i - 1] \o q[i]
    BY <1>2 DEF FlatAre
  <1> HIDE DEF n
  <1>5. 0 \in Have
    <2>1. f[1] = q[1] /\ q[1] \in Seq(Measurements) /\ Len(q[1]) \in Nat
      BY <1>1, <1>4
    <2>2. \A j \in Nat : Spot(1, j) = j
      BY SpotIs
    <2>3. Flat(q, 1, f[1])
      BY <2>1, <2>2 DEF Flat
    <2> QED BY <2>3
  <1>6. ASSUME NEW m \in Nat, m \in Have PROVE m + 1 \in Have
    <2> DEFINE p == m + 1
               r == p + 1
               a == f[p]
               b == q[r]
               ab == a \o b
    <2> SUFFICES ASSUME r <= n PROVE Flat(q, r, f[r])
      OBVIOUS
    <2>1. p \in 1..n /\ r \in 1..n /\ p \in Nat \ {0} /\ r # 1 /\ r - 1 = p /\ r \in Nat
      BY <1>1
    <2>2. Flat(q, p, a)
      BY <1>6, <2>1
    <2>3. Len(q[p]) = ChunkSize
      BY <1>1, <2>1 DEF Chunked, n
    <2>4. f[r] = ab
      BY <1>4, <2>1
    <2>5. b \in Seq(Measurements) /\ a \in Seq(Measurements)
      BY <1>1, <2>1, <2>2 DEF Flat
    <2> DEFINE la == Len(a)
               lb == Len(b)
    <2> HIDE DEF a, b
    <2>6. /\ ab \in Seq(Measurements) /\ la \in Nat /\ lb \in Nat /\ Len(ab) = la + lb
          /\ \A k \in 1..la : ab[k] = a[k]
          /\ \A k \in 1..lb : ab[la + k] = b[k]
      BY <2>5, ConcatIs DEF la, lb, ab
    <2>7. la = Spot(p, ChunkSize)
      BY <2>2, <2>3 DEF Flat
    <2> HIDE DEF a, b, ab, la, lb, Have
    <2>8. \A j \in Nat : Spot(r, j) = la + j
      BY <2>1, <2>7, SpotIs DEF r
    <2> HIDE DEF p, r
    <2>9. \A i \in 1..r : i \in 1..p \/ i = r
      BY <2>1
    <2>10. ASSUME NEW i \in 1..r, NEW j \in 1..Len(q[i])
           PROVE  ab[Spot(i, j)] = q[i][j]
      <3>1. CASE i = r
        <4>1. j \in 1..lb /\ Spot(r, j) = la + j
          BY <2>6, <2>8, <3>1 DEF b, lb
        <4> QED BY <2>6, <3>1, <4>1 DEF b
      <3>2. CASE i \in 1..p
        <4>1. i \in Nat \ {0} /\ j \in 1..ChunkSize /\ i \in 1..n /\ j \in Nat
          BY <1>1, <2>1, <3>2 DEF Chunked, n
        <4>2. Spot(i, j) \in 1..la
          <5>0. ChunkSize \in Nat
            BY ChunksAssumption
          <5>1. Spot(i, j) \in Nat /\ Spot(i, j) >= j /\ j >= 1
            BY <4>1, SpotIs
          <5>2. i < p => Spot(i, j) <= la
            BY <2>1, <2>7, <4>1, <5>0, SpotBefore
          <5>3. i = p => Spot(i, j) <= la
            <6>3. i = p => j <= ChunkSize
              BY <5>0, <4>1
            <6>4. j <= ChunkSize => Spot(i, j) <= Spot(i, ChunkSize)
              BY <4>1, <5>0, SpotWithin
            <6> QED BY <2>7, <6>3, <6>4
          <5>4. i < p \/ i = p
            BY <2>1, <3>2
          <5> QED BY <2>6, <5>1, <5>2, <5>3, <5>4
        <4>3. a[Spot(i, j)] = q[i][j]
          BY <2>2, <3>2 DEF Flat
        <4> QED BY <2>6, <4>2, <4>3
      <3> QED BY <2>9, <3>1, <3>2
    <2>11. Len(ab) = Spot(r, Len(q[r]))
      BY <2>6, <2>8 DEF b, lb
    <2>12. Flat(q, r, ab)
      BY <2>6, <2>10, <2>11 DEF Flat
    <2> QED BY <2>4, <2>12
  <1>7. n - 1 \in Nat /\ n - 1 + 1 = n
    BY <1>1
  <1> HIDE DEF Have
  <1>8. n - 1 \in Have
    BY <1>5, <1>6, <1>7, Naturals
  <1>9. Flat(q, n, f[n])
    BY <1>7, <1>8 DEF Have
  <1> QED BY <1>3, <1>9 DEF n

-----------------------------------------------------------------------------
(* What is read of a version's chunks, some samples in front being gone.    *)

Sized(q, offset, len) ==
  /\ Chunked(q) /\ offset \in Nat /\ len \in Nat
  /\ q = <<>> => offset = 0 /\ len = 0
  /\ q # <<>> => offset < Len(q[1]) /\ offset + len = Spot(Len(q), Len(q[Len(q)]))

Sampled(q, offset, len, s) ==
  /\ s \in Seq(Measurements) /\ Len(s) = len
  /\ \A i \in 1..Len(q) : \A j \in 1..Len(q[i]) :
       Spot(i, j) > offset => s[Spot(i, j) - offset] = q[i][j]

LEMMA ChunkIs ==
  ASSUME NEW q, Chunked(q), NEW i \in 1..Len(q), NEW j \in 1..Len(q[i])
  PROVE  /\ Len(q) \in Nat /\ i \in Nat \ {0} /\ j \in Nat \ {0} /\ j \in 1..ChunkSize
         /\ Len(q[i]) \in Nat /\ Len(q[i]) <= ChunkSize
         /\ q[i] \in Seq(Measurements) /\ q[i][j] \in Measurements
  <1>1. Len(q) \in Nat /\ q[i] \in Seq(Measurements)
    BY DEF Chunked
  <1>2. Len(q[i]) \in 1..ChunkSize /\ ChunkSize \in Nat
    BY ChunksAssumption DEF Chunked
  <1> QED BY <1>1, <1>2

\* No spot is past the last.
LEMMA SpotsEnd ==
  ASSUME NEW q, Chunked(q), NEW i \in 1..Len(q), NEW j \in 1..Len(q[i])
  PROVE  Spot(i, j) \in Nat \ {0} /\ Spot(i, j) <= Spot(Len(q), Len(q[Len(q)]))
  <1> DEFINE n == Len(q)
             l == Len(q[n])
  <1>1. /\ n \in Nat /\ i \in Nat \ {0} /\ j \in Nat \ {0} /\ j \in 1..ChunkSize
        /\ ChunkSize \in Nat
    BY ChunkIs, ChunksAssumption
  <1>2. n \in 1..n /\ n \in Nat \ {0}
    BY <1>1
  <1>3. l \in 1..ChunkSize /\ l \in Nat
    BY <1>1, <1>2 DEF Chunked
  <1>4. i = n => j <= l
    BY <1>1
  <1> HIDE DEF n, l
  <1>5. Spot(i, j) \in Nat /\ Spot(i, j) >= j
    BY <1>1, SpotIs
  <1>6. CASE i < n
    <2>1. Spot(i, j) <= Spot(n, l)
      BY <1>1, <1>2, <1>3, <1>6, SpotBefore
    <2> QED BY <1>1, <1>5, <2>1 DEF n, l
  <1>7. CASE i = n
    <2>1. Spot(i, j) <= Spot(i, l)
      BY <1>1, <1>3, <1>4, <1>7, SpotWithin
    <2> QED BY <1>1, <1>5, <1>7, <2>1 DEF n, l
  <1> QED BY <1>1, <1>2, <1>6, <1>7 DEF n

\* Every sample of a version is at a spot of a chunk.
LEMMA SpotFor ==
  ASSUME NEW q, NEW offset, NEW len, Sized(q, offset, len), NEW k \in 1..len
  PROVE  LET i == ((k - 1 + offset) \div ChunkSize) + 1
             j == ((k - 1 + offset) % ChunkSize) + 1
         IN  i \in 1..Len(q) /\ j \in 1..Len(q[i]) /\ Spot(i, j) = k + offset /\ Spot(i, j) > offset
  <1> DEFINE m == k - 1 + offset
             i == (m \div ChunkSize) + 1
             j == (m % ChunkSize) + 1
             n == Len(q)
             l == Len(q[n])
  <1>1. m \in Nat /\ m + 1 = k + offset /\ k \in Nat /\ offset \in Nat /\ len \in Nat
        /\ k >= 1 /\ k <= len
    BY DEF Sized
  <1>2. i \in Nat \ {0} /\ j \in 1..ChunkSize /\ Spot(i, j) = m + 1
    <2> HIDE DEF m
    <2> QED BY <1>1, SpotOf
  <1>3. q # <<>> /\ n \in Nat \ {0} /\ offset + len = Spot(n, l) /\ l \in 1..ChunkSize
        /\ l \in Nat /\ ChunkSize \in Nat
    <2>1. q # <<>>
      BY <1>1 DEF Sized
    <2>2. n \in Nat \ {0}
      BY <2>1 DEF Sized, Chunked
    <2> QED BY <2>1, <2>2, ChunksAssumption DEF Sized, Chunked
  <1> HIDE DEF m, i, j, n, l
  <1>4. i <= n
    <2> SUFFICES ASSUME n < i PROVE FALSE
      BY <1>2, <1>3
    <2>1. Spot(n, l) < Spot(i, j)
      BY <1>2, <1>3, SpotBefore
    <2> DEFINE x == Spot(n, l)
               y == Spot(i, j)
    <2>2. x < y /\ y = m + 1 /\ offset + len = x
      BY <1>2, <1>3, <2>1
    <2> HIDE DEF x, y
    <2> QED BY <1>1, <2>2
  <1>5. j <= Len(q[i])
    <2>1. CASE i < n
      <3>1. Len(q[i]) = ChunkSize
        BY <1>2, <1>3, <2>1 DEF Sized, Chunked, n
      <3> QED BY <1>2, <1>3, <3>1
    <2>2. CASE i = n
      <3> SUFFICES ASSUME l < j PROVE FALSE
        BY <1>2, <1>3, <2>2 DEF l
      <3>1. Spot(i, j) - Spot(i, l) = j - l
        BY <1>2, <1>3, <2>2, SpotWithin
      <3> DEFINE x == Spot(i, l)
                 y == Spot(i, j)
      <3>2. y - x = j - l /\ y = m + 1 /\ offset + len = x
        BY <1>2, <1>3, <2>2, <3>1
      <3> HIDE DEF x, y
      <3> QED BY <1>1, <1>2, <1>3, <3>2
    <2> QED BY <1>2, <1>3, <1>4, <2>1, <2>2
  <1>6. Len(q[i]) \in Nat /\ i \in 1..Len(q)
    <2>1. i \in 1..Len(q)
      BY <1>2, <1>3, <1>4 DEF n
    <2>2. Len(q[i]) \in 1..ChunkSize
      BY <2>1 DEF Sized, Chunked
    <2> QED BY <1>3, <2>1, <2>2
  <1>7. j \in 1..Len(q[i]) /\ Spot(i, j) = k + offset
    BY <1>1, <1>2, <1>3, <1>5, <1>6
  <1>8. Spot(i, j) > offset
    BY <1>1, <1>7
  <1> QED BY <1>6, <1>7, <1>8 DEF i, j, m

LEMMA Determined ==
  ASSUME NEW q, NEW offset, NEW len, Sized(q, offset, len),
         NEW s, Sampled(q, offset, len, s), NEW t, Sampled(q, offset, len, t)
  PROVE  s = t
  <1>1. s \in Seq(Measurements) /\ t \in Seq(Measurements) /\ Len(s) = len /\ Len(t) = len
    BY DEF Sampled
  <1>2. ASSUME NEW k \in 1..len PROVE s[k] = t[k]
    <2> DEFINE i == ((k - 1 + offset) \div ChunkSize) + 1
               j == ((k - 1 + offset) % ChunkSize) + 1
    <2>1. /\ i \in 1..Len(q) /\ j \in 1..Len(q[i]) /\ Spot(i, j) = k + offset
          /\ Spot(i, j) > offset
      BY SpotFor
    <2> HIDE DEF i, j
    <2>2. s[Spot(i, j) - offset] = q[i][j] /\ t[Spot(i, j) - offset] = q[i][j]
      BY <2>1 DEF Sampled
    <2>3. Spot(i, j) - offset = k
      BY <2>1 DEF Sized
    <2> QED BY <2>2, <2>3
  <1>3. DOMAIN s = 1..len /\ DOMAIN t = 1..len
    BY <1>1
  <1> QED BY <1>1, <1>2, <1>3

\* The iterator, of the chunks.
Read(q, offset) == LET all == FlattenSeq(q) IN SubSeq(all, offset + 1, Len(all))

LEMMA ReadHolds ==
  ASSUME NEW q, NEW offset, NEW len, Sized(q, offset, len)
  PROVE  Sampled(q, offset, len, Read(q, offset))
  <1>1. CASE q = <<>>
    <2>1. FlattenSeq(q) = <<>>
      BY <1>1 DEF FlattenSeq
    <2>2. Read(q, offset) = <<>>
      BY <1>1, <2>1 DEF Read, Sized
    <2> DEFINE s == Read(q, offset)
    <2>3. s \in Seq(Measurements) /\ Len(s) = 0
      BY <2>2
    <2>4. Len(q) = 0 /\ len = 0
      BY <1>1 DEF Sized
    <2> HIDE DEF s
    <2>5. Sampled(q, offset, len, s)
      BY <2>3, <2>4 DEF Sampled
    <2> QED BY <2>5 DEF s
  <1>2. CASE q # <<>>
    <2> DEFINE n == Len(q)
               all == FlattenSeq(q)
               m == Len(all)
               s == SubSeq(all, offset + 1, m)
    <2>1. Flat(q, n, all)
      BY <1>2, FlattenIs DEF Sized
    <2>2. all \in Seq(Measurements) /\ m \in Nat /\ m = offset + len /\ offset \in Nat /\ len \in Nat
      BY <1>2, <2>1 DEF Flat, Sized
    <2> HIDE DEF all, m
    <2>3. \A i \in offset + 1..m : i \in 1..Len(all)
      BY <2>2 DEF m
    <2>4. s \in Seq(Measurements) /\ Len(s) = len /\ \A k \in 1..len : s[k] = all[offset + k]
      BY <2>2, <2>3, SubSeqIs DEF m
    <2> HIDE DEF s
    <2>5. ASSUME NEW i \in 1..Len(q), NEW j \in 1..Len(q[i]), Spot(i, j) > offset
          PROVE  s[Spot(i, j) - offset] = q[i][j]
      <3> DEFINE x == Spot(i, j)
      <3>1. x \in Nat \ {0} /\ x <= offset + len
        BY <1>2, SpotsEnd DEF Sized
      <3>2. all[x] = q[i][j]
        BY <2>1 DEF Flat
      <3>3. x > offset
        BY <2>5
      <3> HIDE DEF x
      <3>4. x - offset \in 1..len /\ offset + (x - offset) = x
        BY <2>2, <3>1, <3>3
      <3>5. s[x - offset] = all[offset + (x - offset)]
        BY <2>4, <3>4
      <3>6. s[x - offset] = q[i][j]
        BY <3>2, <3>4, <3>5
      <3> QED BY <3>6 DEF x
    <2>6. Sampled(q, offset, len, s)
      BY <2>4, <2>5 DEF Sampled
    <2> QED BY <2>6 DEF Read, s, m, all
  <1> QED BY <1>1, <1>2

LEMMA ReadIs ==
  ASSUME NEW q, NEW offset, NEW len, Sized(q, offset, len), NEW s, Sampled(q, offset, len, s)
  PROVE  Read(q, offset) = s
  BY ReadHolds, Determined

-----------------------------------------------------------------------------
(* What a version reads as after each operation.                            *)

\* A version's samples are as many as its chunks have, but for those in front.
Total(q) == IF q = <<>> THEN 0 ELSE Spot(Len(q), Len(q[Len(q)]))

LEMMA TotalIs ==
  ASSUME NEW q, NEW offset, NEW len, Sized(q, offset, len)
  PROVE  /\ Total(q) = offset + len /\ offset \in Nat /\ len \in Nat /\ Total(q) \in Nat
         /\ (q = <<>> <=> len = 0) /\ Len(q) \in Nat
  <1>1. offset \in Nat /\ len \in Nat /\ Len(q) \in Nat
    BY DEF Sized, Chunked
  <1>2. CASE q = <<>>
    BY <1>1, <1>2 DEF Sized, Total
  <1>3. CASE q # <<>>
    <2>1. Total(q) = offset + len
      BY <1>3 DEF Sized, Total
    <2>2. 1 \in 1..Len(q) /\ Len(q[1]) \in 1..ChunkSize /\ offset < Len(q[1])
      BY <1>3 DEF Sized, Chunked
    <2>3. Len(q[1]) \in 1..Len(q[1])
      BY <2>2, ChunksAssumption
    <2>4. Spot(1, Len(q[1])) <= Spot(Len(q), Len(q[Len(q)]))
      BY <2>2, <2>3, SpotsEnd DEF Sized
    <2>5. Len(q[1]) \in Nat
      BY <2>2, ChunksAssumption
    <2>6. Spot(1, Len(q[1])) = Len(q[1])
      <3>1. \A j \in Nat : Spot(1, j) = j
        BY SpotIs
      <3> QED BY <2>5, <3>1
    <2>7. Spot(Len(q), Len(q[Len(q)])) = offset + len
      BY <1>3 DEF Sized
    <2> DEFINE a == Len(q[1])
    <2>8. a \in Nat /\ offset < a /\ a <= offset + len
      BY <2>2, <2>4, <2>5, <2>6, <2>7
    <2> HIDE DEF a
    <2>9. len # 0 /\ offset + len \in Nat
      BY <1>1, <2>8
    <2> QED BY <1>1, <1>3, <2>1, <2>9
  <1> QED BY <1>2, <1>3

\* r is q and one sample more.
Extended(q, r, x) ==
  /\ Chunked(r) /\ r # <<>> /\ Total(r) = Total(q) + 1
  /\ q # <<>> => Len(r[1]) >= Len(q[1])
  /\ \A i \in 1..Len(r) : \A j \in 1..Len(r[i]) :
       \/ i \in 1..Len(q) /\ j \in 1..Len(q[i]) /\ r[i][j] = q[i][j]
       \/ Spot(i, j) = Total(q) + 1 /\ r[i][j] = x

LEMMA ExtendedReads ==
  ASSUME NEW q, NEW offset, NEW len, Sized(q, offset, len), NEW s, Sampled(q, offset, len, s),
         NEW x \in Measurements, NEW r, Extended(q, r, x)
  PROVE  Sized(r, offset, len + 1) /\ Sampled(r, offset, len + 1, Append(s, x))
  <1> DEFINE z == Append(s, x)
  <1>1. /\ Total(q) = offset + len /\ offset \in Nat /\ len \in Nat /\ Total(q) \in Nat
        /\ (q = <<>> <=> len = 0)
    BY TotalIs
  <1>2. /\ s \in Seq(Measurements) /\ Len(s) = len
    BY DEF Sampled
  <1>3. /\ z \in Seq(Measurements) /\ Len(z) = len + 1 /\ z[len + 1] = x
        /\ \A k \in 1..len : z[k] = s[k]
    BY <1>1, <1>2
  <1>4. Chunked(r) /\ r # <<>> /\ Total(r) = Total(q) + 1
    BY DEF Extended
  <1>5. Sized(r, offset, len + 1)
    <2>1. 1 \in 1..Len(r) /\ Len(r[1]) \in 1..ChunkSize /\ ChunkSize \in Nat
      BY <1>4, ChunksAssumption DEF Chunked
    <2>2. offset < Len(r[1])
      <3>1. CASE q = <<>>
        BY <2>1, <3>1 DEF Sized
      <3>2. CASE q # <<>>
        <4>1. 1 \in 1..Len(q) /\ Len(q[1]) \in 1..ChunkSize /\ offset < Len(q[1])
          BY <3>2 DEF Sized, Chunked
        <4>2. Len(r[1]) >= Len(q[1])
          BY <3>2 DEF Extended
        <4> QED BY <1>1, <2>1, <4>1, <4>2
      <3> QED BY <3>1, <3>2
    <2>3. Spot(Len(r), Len(r[Len(r)])) = offset + (len + 1)
      <3>1. Total(r) = Spot(Len(r), Len(r[Len(r)]))
        BY <1>4 DEF Total
      <3>2. Total(r) = offset + (len + 1)
        <4> DEFINE a == Total(q)
                   b == Total(r)
        <4>1. b = a + 1 /\ a = offset + len
          BY <1>1, <1>4
        <4> HIDE DEF a, b
        <4>2. b = offset + (len + 1)
          BY <1>1, <4>1
        <4> QED BY <4>2 DEF b
      <3> QED BY <3>1, <3>2
    <2> QED BY <1>1, <1>4, <2>2, <2>3 DEF Sized
  <1> HIDE DEF z
  <1>6. ASSUME NEW i \in 1..Len(r), NEW j \in 1..Len(r[i]), Spot(i, j) > offset
        PROVE  z[Spot(i, j) - offset] = r[i][j]
    <2>1. CASE i \in 1..Len(q) /\ j \in 1..Len(q[i]) /\ r[i][j] = q[i][j]
      <3> DEFINE k == Spot(i, j)
      <3>1. s[k - offset] = q[i][j]
        BY <1>6, <2>1 DEF Sampled
      <3>2. k \in Nat /\ k <= Spot(Len(q), Len(q[Len(q)]))
        BY <2>1, SpotsEnd DEF Sized
      <3>3. q # <<>>
        BY <2>1
      <3>4. k <= offset + len /\ k > offset
        BY <1>6, <3>2, <3>3 DEF Sized
      <3> HIDE DEF k
      <3>5. k - offset \in 1..len
        BY <1>1, <3>2, <3>4
      <3>6. z[k - offset] = q[i][j]
        BY <1>3, <3>1, <3>5
      <3> QED BY <2>1, <3>6 DEF k
    <2>2. CASE Spot(i, j) = Total(q) + 1 /\ r[i][j] = x
      <3>1. Spot(i, j) = offset + len + 1
        BY <1>1, <2>2
      <3> DEFINE k == Spot(i, j)
      <3>2. k = offset + len + 1 /\ r[i][j] = x
        BY <2>2, <3>1
      <3> HIDE DEF k
      <3>3. k - offset = len + 1
        BY <1>1, <3>2
      <3>4. z[k - offset] = r[i][j]
        BY <1>3, <3>2, <3>3
      <3> QED BY <3>4 DEF k
    <2> QED BY <1>4, <2>1, <2>2 DEF Extended
  <1>7. Sampled(r, offset, len + 1, z)
    BY <1>3, <1>6 DEF Sampled
  <1> QED BY <1>5, <1>7 DEF z

\* A chunk is begun.
LEMMA BegunIs ==
  ASSUME NEW q, Chunked(q), NEW x \in Measurements,
         q = <<>> \/ Len(q[Len(q)]) = ChunkSize,
         NEW r, r = Append(q, <<x>>)
  PROVE  Extended(q, r, x)
  <1> DEFINE n == Len(q)
  <1>1. q \in Seq(Seq(Measurements)) /\ n \in Nat /\ <<x>> \in Seq(Measurements)
        /\ ChunkSize \in Nat /\ 1 \in 1..ChunkSize
    BY ChunksAssumption DEF Chunked
  <1>2. /\ r \in Seq(Seq(Measurements)) /\ Len(r) = n + 1 /\ r[n + 1] = <<x>>
        /\ \A i \in 1..n : r[i] = q[i]
    BY <1>1
  <1>3. Len(<<x>>) = 1 /\ <<x>>[1] = x
    OBVIOUS
  <1>4. q = <<>> <=> n = 0
    BY <1>1
  <1>5. \A i \in 1..n : Len(q[i]) \in 1..ChunkSize
    BY DEF Chunked
  <1>6. \A i \in 1..n - 1 : Len(q[i]) = ChunkSize
    BY DEF Chunked
  <1>7. \A i \in 1..n : Len(q[i]) = ChunkSize
    <2>1. n > 0 => Len(q[n]) = ChunkSize
      BY <1>4
    <2>2. \A i \in 1..n : i \in 1..n - 1 \/ (i = n /\ n > 0)
      BY <1>1
    <2> QED BY <1>6, <2>1, <2>2
  <1>8. Spot(n + 1, 1) = Total(q) + 1
    <2>1. CASE n = 0
      BY <1>4, <2>1, SpotIs DEF Total
    <2>2. CASE n # 0
      <3>1. Spot(n + 1, 1) = Spot(n, ChunkSize) + 1
        BY <1>1, <2>2, SpotIs
      <3>2. Len(q[n]) = ChunkSize /\ q # <<>>
        BY <1>1, <1>4, <1>7, <2>2
      <3> QED BY <3>1, <3>2 DEF Total
    <2> QED BY <2>1, <2>2
  <1> HIDE DEF n
  <1>9. Chunked(r)
    <2>1. \A i \in 1..n + 1 : i \in 1..n \/ i = n + 1
      BY <1>1
    <2>2. \A i \in 1..n + 1 : Len(r[i]) \in 1..ChunkSize
      BY <1>1, <1>2, <1>3, <1>5, <2>1
    <2>3. \A i \in 1..n + 1 - 1 : i \in 1..n
      BY <1>1
    <2>4. \A i \in 1..n + 1 - 1 : Len(r[i]) = ChunkSize
      BY <1>2, <1>7, <2>3
    <2> QED BY <1>2, <2>2, <2>4 DEF Chunked
  <1>10. r # <<>>
    BY <1>1, <1>2
  <1>11. Total(r) = Total(q) + 1
    BY <1>2, <1>3, <1>8, <1>10 DEF Total
  <1>12. q # <<>> => Len(r[1]) >= Len(q[1])
    <2> SUFFICES ASSUME q # <<>> PROVE Len(r[1]) >= Len(q[1])
      OBVIOUS
    <2>1. 1 \in 1..n
      BY <1>1, <1>4
    <2> QED BY <1>1, <1>2, <1>7, <2>1
  <1>13. ASSUME NEW i \in 1..Len(r), NEW j \in 1..Len(r[i])
         PROVE  \/ i \in 1..Len(q) /\ j \in 1..Len(q[i]) /\ r[i][j] = q[i][j]
                \/ Spot(i, j) = Total(q) + 1 /\ r[i][j] = x
    <2>1. CASE i \in 1..n
      BY <1>2, <2>1 DEF n
    <2>2. CASE i = n + 1
      <3>1. r[i] = <<x>> /\ j = 1
        BY <1>2, <1>3, <2>2
      <3> QED BY <1>3, <1>8, <2>2, <3>1
    <2>3. i \in 1..n \/ i = n + 1
      BY <1>1, <1>2
    <2> QED BY <2>1, <2>2, <2>3
  <1> QED BY <1>9, <1>10, <1>11, <1>12, <1>13 DEF Extended

\* An unfinished chunk grows.
LEMMA GrownIs ==
  ASSUME NEW q, Chunked(q), NEW x \in Measurements, q # <<>>, Len(q[Len(q)]) # ChunkSize,
         NEW r, r = [q EXCEPT ![Len(q)] = Append(q[Len(q)], x)]
  PROVE  Extended(q, r, x)
  <1> DEFINE n == Len(q)
             c == q[n]
             l == Len(c)
             d == Append(c, x)
  <1>1. q \in Seq(Seq(Measurements)) /\ n \in Nat /\ n \in 1..n /\ n # 0 /\ ChunkSize \in Nat
    BY ChunksAssumption DEF Chunked
  <1>2. c \in Seq(Measurements) /\ l \in Nat /\ l < ChunkSize /\ l >= 1
    <2>1. c \in Seq(Measurements)
      BY <1>1
    <2>2. l \in 1..ChunkSize
      BY <1>1 DEF Chunked
    <2> QED BY <1>1, <2>1, <2>2
  <1>3. d \in Seq(Measurements) /\ Len(d) = l + 1 /\ d[l + 1] = x /\ \A k \in 1..l : d[k] = c[k]
    BY <1>2
  <1> HIDE DEF d, c, l
  <1>4. /\ r = [q EXCEPT ![n] = d]
    BY DEF d, c
  <1>5. /\ r \in Seq(Seq(Measurements)) /\ Len(r) = n /\ r[n] = d
        /\ \A i \in 1..n : i # n => r[i] = q[i]
    BY <1>1, <1>3, <1>4
  <1>6. \A i \in 1..n : Len(q[i]) \in 1..ChunkSize
    BY DEF Chunked
  <1>7. \A i \in 1..n - 1 : Len(q[i]) = ChunkSize
    BY DEF Chunked
  <1>8. Spot(n, l + 1) = Spot(n, l) + 1 /\ Total(q) = Spot(n, l)
    BY <1>1, <1>2, SpotIs DEF Total, l, c
  <1> HIDE DEF n
  <1>9. Chunked(r)
    <2>1. \A i \in 1..n : Len(r[i]) \in 1..ChunkSize
      <3> SUFFICES ASSUME NEW i \in 1..n PROVE Len(r[i]) \in 1..ChunkSize
        OBVIOUS
      <3>1. CASE i = n
        BY <1>1, <1>2, <1>3, <1>5, <3>1
      <3>2. CASE i # n
        BY <1>5, <1>6, <3>2
      <3> QED BY <3>1, <3>2
    <2>2. \A i \in 1..n - 1 : i \in 1..n /\ i # n
      BY <1>1
    <2>3. \A i \in 1..n - 1 : Len(r[i]) = ChunkSize
      BY <1>5, <1>7, <2>2
    <2> QED BY <1>5, <2>1, <2>3 DEF Chunked
  <1>10. r # <<>>
    BY <1>1, <1>5
  <1>11. Total(r) = Total(q) + 1
    BY <1>3, <1>5, <1>8, <1>10 DEF Total
  <1>12. Len(r[1]) >= Len(q[1])
    <2>1. CASE n = 1
      BY <1>2, <1>3, <1>5, <2>1 DEF c, l
    <2>2. CASE n # 1
      <3>1. 1 \in 1..n
        BY <1>1
      <3>2. r[1] = q[1] /\ Len(q[1]) \in 1..ChunkSize
        BY <1>5, <1>6, <2>2, <3>1
      <3>3. Len(q[1]) \in Nat
        BY <1>1, <3>2
      <3> QED BY <3>2, <3>3
    <2> QED BY <2>1, <2>2
  <1>13. ASSUME NEW i \in 1..Len(r), NEW j \in 1..Len(r[i])
         PROVE  \/ i \in 1..Len(q) /\ j \in 1..Len(q[i]) /\ r[i][j] = q[i][j]
                \/ Spot(i, j) = Total(q) + 1 /\ r[i][j] = x
    <2>1. CASE i # n
      BY <1>5, <2>1 DEF n
    <2>2. CASE i = n
      <3>1. r[i] = d /\ j \in 1..l + 1 /\ q[i] = c
        BY <1>3, <1>5, <2>2 DEF c
      <3>2. CASE j = l + 1
        BY <1>3, <1>8, <2>2, <3>1, <3>2
      <3>3. CASE j # l + 1
        <4>1. j \in 1..l
          BY <1>2, <3>1, <3>3
        <4> QED BY <1>1, <1>3, <2>2, <3>1, <4>1 DEF n, l
      <3> QED BY <3>2, <3>3
    <2> QED BY <2>1, <2>2
  <1> QED BY <1>9, <1>10, <1>11, <1>12, <1>13 DEF Extended

\* The first sample goes, and with the last of its samples the first chunk.
LEMMA PoppedReads ==
  ASSUME NEW q, NEW offset, NEW len, Sized(q, offset, len), NEW s, Sampled(q, offset, len, s),
         len > 1, NEW t, t = SubSeq(s, 2, len)
  PROVE  IF offset + 1 = Len(q[1])
         THEN Sized(Tail(q), 0, len - 1) /\ Sampled(Tail(q), 0, len - 1, t)
         ELSE Sized(q, offset + 1, len - 1) /\ Sampled(q, offset + 1, len - 1, t)
  <1>1. /\ Total(q) = offset + len /\ offset \in Nat /\ len \in Nat /\ Total(q) \in Nat
        /\ q # <<>> /\ Len(q) \in Nat /\ len - 1 \in Nat
    BY TotalIs
  <1>2. s \in Seq(Measurements) /\ Len(s) = len
    BY DEF Sampled
  <1>3. t \in Seq(Measurements) /\ Len(t) = len - 1 /\ \A k \in 1..len - 1 : t[k] = s[1 + k]
    <2>1. 1 + (len - 1) = Len(s) /\ 1 + 1 = 2 /\ 1 \in Nat /\ t = SubSeq(s, 1 + 1, Len(s))
      BY <1>1, <1>2
    <2> QED BY <1>1, <1>2, <2>1, SubSeqIs
  <1> DEFINE n == Len(q)
  <1>4. /\ q \in Seq(Seq(Measurements)) /\ n \in Nat /\ 1 \in 1..n /\ Len(q[1]) \in 1..ChunkSize
        /\ ChunkSize \in Nat /\ offset < Len(q[1]) /\ Total(q) = Spot(n, Len(q[n]))
    BY <1>1, ChunksAssumption DEF Sized, Chunked, Total
  <1>5. \A i \in 1..n : Len(q[i]) \in 1..ChunkSize
    BY DEF Sized, Chunked
  <1>6. \A i \in 1..n - 1 : Len(q[i]) = ChunkSize
    BY DEF Sized, Chunked
  <1> HIDE DEF n
  <1>7. CASE offset + 1 = Len(q[1])
    <2> DEFINE r == Tail(q)
               m == n - 1
    <2>1. \A j \in Nat : Spot(1, j) = j
      BY SpotIs
    <2>2. n # 1
      <3> SUFFICES ASSUME n = 1 PROVE FALSE
        OBVIOUS
      <3> DEFINE a == Len(q[1])
      <3>1. a \in Nat /\ Spot(1, a) = a
        BY <1>4, <2>1
      <3>2. Total(q) = a /\ offset + 1 = a
        BY <1>4, <1>7, <3>1
      <3> HIDE DEF a
      <3> QED BY <1>1, <3>1, <3>2
    <2>3. m \in Nat \ {0} /\ m + 1 = n /\ 1 \in 1..n - 1
      BY <1>4, <2>2
    <2>4. Len(q[1]) = ChunkSize
      BY <1>6, <2>3
    <2>5. /\ r \in Seq(Seq(Measurements)) /\ Len(r) = m /\ \A i \in 1..m : r[i] = q[i + 1]
      BY <1>4, <2>3 DEF n
    <2> HIDE DEF r, m
    <2>6. \A i \in 1..m : i + 1 \in 1..n /\ i \in Nat \ {0}
      BY <1>4, <2>3
    <2>7. \A i \in 1..m - 1 : i + 1 \in 1..n - 1 /\ i \in 1..m
      BY <1>4, <2>3
    <2>8. Chunked(r)
      <3>1. \A i \in 1..m : Len(r[i]) \in 1..ChunkSize
        BY <1>5, <2>5, <2>6
      <3>2. \A i \in 1..m - 1 : Len(r[i]) = ChunkSize
        BY <1>6, <2>5, <2>7
      <3> QED BY <2>5, <3>1, <3>2 DEF Chunked
    <2>9. r # <<>> /\ r[m] = q[n] /\ 1 \in 1..m
      BY <2>3, <2>5
    <2>10. Spot(m, Len(r[m])) = 0 + (len - 1)
      <3> DEFINE a == Spot(n, Len(q[n]))
                 b == Spot(m, Len(r[m]))
                 l == Len(q[n])
      <3>1. l \in Nat /\ n \in 1..n
        BY <1>4, <1>5, <2>3
      <3>2. Spot(m + 1, l) = Spot(m, l) + ChunkSize
        BY <2>3, <3>1, SpotIs
      <3>3. a = b + ChunkSize
        BY <2>3, <2>9, <3>2
      <3>4. b \in Nat
        BY <2>3, <2>9, <3>1, SpotIs
      <3>5. a = offset + len /\ offset + 1 = ChunkSize
        BY <1>1, <1>4, <1>7, <2>4
      <3> HIDE DEF a, b
      <3>6. b = 0 + (len - 1)
        BY <1>1, <1>4, <3>3, <3>4, <3>5
      <3> QED BY <3>6 DEF b
    <2>11. 0 < Len(r[1])
      <3>1. Len(r[1]) \in 1..ChunkSize
        BY <2>5, <2>8, <2>9 DEF Chunked
      <3> QED BY <1>4, <3>1
    <2>12. Sized(r, 0, len - 1)
      BY <1>1, <2>5, <2>8, <2>9, <2>10, <2>11 DEF Sized
    <2>13. ASSUME NEW i \in 1..Len(r), NEW j \in 1..Len(r[i]), Spot(i, j) > 0
           PROVE  t[Spot(i, j) - 0] = r[i][j]
      <3> DEFINE x == Spot(i, j)
                 y == Spot(i + 1, j)
      <3>1. i + 1 \in 1..Len(q) /\ j \in 1..Len(q[i + 1]) /\ r[i][j] = q[i + 1][j] /\ i \in Nat \ {0}
        BY <2>5, <2>6 DEF n
      <3>2. y <= Total(q) /\ y \in Nat
        BY <1>1, <3>1, SpotsEnd DEF Sized, Total
      <3>3. j \in Nat
        BY <3>1, ChunkIs DEF Sized
      <3>4. x \in Nat /\ y = x + ChunkSize
        BY <3>1, <3>3, SpotIs
      <3>5. x > 0
        BY <2>13
      <3>6. y > offset => s[y - offset] = q[i + 1][j]
        BY <3>1 DEF Sampled
      <3> HIDE DEF x, y
      <3>7. y - offset = 1 + x /\ y > offset /\ x \in 1..len - 1 /\ x - 0 = x
        BY <1>1, <1>4, <1>7, <2>4, <3>2, <3>4, <3>5
      <3>8. t[x - 0] = r[i][j]
        BY <1>3, <3>1, <3>6, <3>7
      <3> QED BY <3>8 DEF x
    <2>14. Sampled(r, 0, len - 1, t)
      BY <1>3, <2>13 DEF Sampled
    <2> QED BY <1>7, <2>12, <2>14 DEF r
  <1>8. CASE offset + 1 # Len(q[1])
    <2>1. offset + 1 < Len(q[1]) /\ offset + 1 \in Nat /\ (offset + 1) + (len - 1) = offset + len
      BY <1>1, <1>4, <1>8
    <2>2. Sized(q, offset + 1, len - 1)
      BY <1>1, <2>1 DEF Sized
    <2>3. ASSUME NEW i \in 1..Len(q), NEW j \in 1..Len(q[i]), Spot(i, j) > offset + 1
          PROVE  t[Spot(i, j) - (offset + 1)] = q[i][j]
      <3> DEFINE x == Spot(i, j)
      <3>1. x \in Nat /\ x <= Total(q)
        BY <1>1, SpotsEnd DEF Sized, Total
      <3>2. x > offset + 1 /\ (x > offset => s[x - offset] = q[i][j])
        BY <2>3 DEF Sampled
      <3> HIDE DEF x
      <3>3. x - offset = 1 + (x - (offset + 1)) /\ x - (offset + 1) \in 1..len - 1 /\ x > offset
        BY <1>1, <3>1, <3>2
      <3>4. t[x - (offset + 1)] = q[i][j]
        BY <1>3, <3>2, <3>3
      <3> QED BY <3>4 DEF x
    <2>4. Sampled(q, offset + 1, len - 1, t)
      BY <1>3, <2>3 DEF Sampled
    <2> QED BY <1>8, <2>2, <2>4
  <1> QED BY <1>7, <1>8

LEMMA ListOf ==
  ASSUME NEW T, NEW n \in Nat, NEW f, f = [i \in 1..n |-> f[i]], \A i \in 1..n : f[i] \in T
  PROVE  f \in Seq(T) /\ Len(f) = n
  OBVIOUS

\* The samples of r are those of q, but for the value w.
Revalued(q, offset, r, w) ==
  /\ r \in Seq(Seq(Measurements)) /\ Len(r) = Len(q)
  /\ \A i \in 1..Len(q) : Len(r[i]) = Len(q[i])
  /\ \A i \in 1..Len(q) : \A j \in 1..Len(q[i]) :
       Spot(i, j) > offset => r[i][j] = [q[i][j] EXCEPT !.value = w]

LEMMA RevaluedReads ==
  ASSUME NEW q, NEW offset, NEW len, Sized(q, offset, len), NEW s, Sampled(q, offset, len, s),
         NEW w \in Readings, NEW r, Revalued(q, offset, r, w)
  PROVE  /\ Sized(r, offset, len)
         /\ Sampled(r, offset, len, [k \in DOMAIN s |-> [s[k] EXCEPT !.value = w]])
  <1>0. /\ r \in Seq(Seq(Measurements)) /\ Len(r) = Len(q)
        /\ \A i \in 1..Len(q) : Len(r[i]) = Len(q[i])
        /\ \A i \in 1..Len(q) : \A j \in 1..Len(q[i]) :
             Spot(i, j) > offset => r[i][j] = [q[i][j] EXCEPT !.value = w]
    BY DEF Revalued
  <1> DEFINE z == [k \in 1..len |-> [s[k] EXCEPT !.value = w]]
  <1>1. s \in Seq(Measurements) /\ Len(s) = len /\ len \in Nat /\ DOMAIN s = 1..len
    BY DEF Sampled, Sized
  <1>2. z \in Seq(Measurements) /\ Len(z) = len
    <2>1. \A k \in 1..len : s[k] \in Measurements
      BY <1>1
    <2>2. \A k \in 1..len : z[k] \in Measurements
      BY <2>1 DEF Measurements
    <2>3. z = [k \in 1..len |-> z[k]]
      OBVIOUS
    <2> HIDE DEF Measurements, z
    <2> QED BY <1>1, <2>2, <2>3
  <1> USE <1>0
  <1>3. Len(q) \in Nat
    BY DEF Sized, Chunked
  <1>4. Chunked(r)
    <2>1. \A i \in 1..Len(q) - 1 : i \in 1..Len(q)
      BY <1>3
    <2> QED BY <1>3, <2>1 DEF Sized, Chunked
  <1>5. Sized(r, offset, len)
    <2>1. r = <<>> <=> q = <<>>
      BY <1>3 DEF Sized, Chunked
    <2>2. q # <<>> => 1 \in 1..Len(q) /\ Len(q) \in 1..Len(q)
      BY <1>3 DEF Sized, Chunked
    <2>3. CASE q = <<>>
      BY <1>4, <2>1, <2>3 DEF Sized
    <2>4. CASE q # <<>>
      <3>1. Len(r[1]) = Len(q[1]) /\ Len(r[Len(r)]) = Len(q[Len(q)])
        BY <2>2, <2>4
      <3>2. offset < Len(q[1]) /\ offset + len = Spot(Len(q), Len(q[Len(q)])) /\ offset \in Nat
        BY <2>4 DEF Sized
      <3> QED BY <1>1, <1>4, <2>1, <2>4, <3>1, <3>2 DEF Sized
    <2> QED BY <2>3, <2>4
  <1>6. ASSUME NEW i \in 1..Len(r), NEW j \in 1..Len(r[i]), Spot(i, j) > offset
        PROVE  z[Spot(i, j) - offset] = r[i][j]
    <2>1. i \in 1..Len(q) /\ j \in 1..Len(q[i])
      OBVIOUS
    <2> DEFINE x == Spot(i, j)
    <2>2. x \in Nat /\ x <= Total(q) /\ Total(q) = offset + len /\ offset \in Nat
      <3>1. q # <<>>
        BY <1>3
      <3> QED BY <2>1, <3>1, SpotsEnd, TotalIs DEF Sized, Total
    <2>3. x > offset /\ s[x - offset] = q[i][j] /\ r[i][j] = [q[i][j] EXCEPT !.value = w]
      BY <1>6, <2>1 DEF Sampled
    <2> HIDE DEF x
    <2>4. x - offset \in 1..len
      BY <1>1, <2>2, <2>3
    <2>5. z[x - offset] = r[i][j]
      BY <2>3, <2>4
    <2> QED BY <2>5 DEF x
  <1> HIDE DEF z
  <1>7. Sampled(r, offset, len, z)
    BY <1>2, <1>6 DEF Sampled
  <1> QED BY <1>1, <1>5, <1>7 DEF z

LEMMA Division ==
  ASSUME NEW k \in Nat, NEW c \in Nat \ {0}
  PROVE  /\ k \div c \in Nat /\ k % c \in 0..c - 1 /\ k = c * (k \div c) + (k % c)
         /\ c * (k \div c) = (k \div c) * c
  OBVIOUS

LEMMA NextProduct ==
  ASSUME NEW i \in Nat, NEW n \in Nat, NEW c \in Nat, i < n
  PROVE  i * c + c <= n * c
  OBVIOUS

\* Chunks that are cut from a sequence.
Cut(s, n) ==
  [i \in 1..n |-> SubSeq(s, (i - 1) * ChunkSize + 1,
                        IF i * ChunkSize < Len(s) THEN i * ChunkSize ELSE Len(s))]

LEMMA CutReads ==
  ASSUME NEW s \in Seq(Measurements), NEW n, n = (Len(s) + ChunkSize - 1) \div ChunkSize,
         NEW q, q = Cut(s, n)
  PROVE  n \in Nat /\ Sized(q, 0, Len(s)) /\ Sampled(q, 0, Len(s), s)
  <1> DEFINE c == ChunkSize
             l == Len(s)
             from(i) == (i - 1) * c
             upto(i) == IF i * c < l THEN i * c ELSE l
  <1>1. c \in Nat /\ c >= 1 /\ l \in Nat
    BY ChunksAssumption
  <1>2. \A k \in 1..l : s[k] \in Measurements
    OBVIOUS
  <1> HIDE DEF c, l
  <1>3. n \in Nat /\ n * c >= l /\ n * c <= l + c - 1
    <2> DEFINE m == l + c - 1
    <2>1. m \in Nat /\ n = m \div c
      BY <1>1 DEF c, l
    <2> HIDE DEF m
    <2>2. n \in Nat /\ m = c * n + (m % c) /\ m % c \in 0..c - 1 /\ c * n = n * c
      <3>1. m \in Nat /\ c \in Nat \ {0}
        BY <1>1, <2>1
      <3>2. /\ m \div c \in Nat /\ m % c \in 0..c - 1 /\ m = c * (m \div c) + (m % c)
            /\ c * (m \div c) = (m \div c) * c
        BY <3>1, Division
      <3> QED BY <2>1, <3>2, Zenon
    <2> DEFINE x == n * c
               y == m % c
    <2>3. m = x + y /\ y \in 0..c - 1 /\ x \in Int
      BY <1>1, <2>2
    <2> HIDE DEF x, y
    <2>4. x >= l /\ x <= l + c - 1
      BY <1>1, <2>3 DEF m
    <2> QED BY <2>2, <2>4 DEF x
  <1>4. ASSUME NEW i \in 1..n
        PROVE  /\ from(i) \in Nat /\ upto(i) \in Nat /\ from(i) < upto(i) /\ upto(i) <= l
               /\ upto(i) - from(i) \in 1..c
               /\ (i < n => upto(i) - from(i) = c) /\ (i = n => upto(i) = l)
    <2> DEFINE a == (i - 1) * c
               b == i * c
               e == n * c
    <2>1. a \in Nat /\ b \in Nat /\ b = a + c
      BY <1>1, <1>3
    <2>2. i < n => b + c <= e
      <3>1. i \in Nat /\ n \in Nat
        BY <1>3
      <3> QED BY <1>1, <3>1, NextProduct
    <2>3. i = n => b = e
      OBVIOUS
    <2>4. e \in Int /\ e >= l /\ e <= l + c - 1 /\ (i < n \/ i = n)
      BY <1>1, <1>3
    <2> HIDE DEF a, b, e
    <2> DEFINE u == IF b < l THEN b ELSE l
    <2>5. a < l /\ (i < n => b < l) /\ (i = n => ~(b < l))
      BY <1>1, <2>1, <2>2, <2>3, <2>4
    <2>6. /\ u \in Nat /\ a < u /\ u <= l /\ u - a \in 1..c /\ (i < n => u - a = c) /\ (i = n => u = l)
      BY <1>1, <2>1, <2>4, <2>5
    <2> QED BY <2>1, <2>6 DEF a, b
  <1> HIDE DEF from, upto
  <1>5. q = [i \in 1..n |-> SubSeq(s, from(i) + 1, upto(i))]
    BY DEF Cut, from, upto, c, l
  <1>6. ASSUME NEW i \in 1..n
        PROVE  /\ q[i] \in Seq(Measurements) /\ Len(q[i]) = upto(i) - from(i)
               /\ \A j \in 1..upto(i) - from(i) : q[i][j] = s[from(i) + j]
    <2> DEFINE a == from(i)
               u == upto(i)
               d == u - a
    <2>1. a \in Nat /\ u \in Nat /\ a < u /\ u <= l /\ d \in Nat
      BY <1>4
    <2>2. q[i] = SubSeq(s, a + 1, u)
      BY <1>5
    <2> HIDE DEF a, u
    <2>3. SubSeq(s, a + 1, u) = [k \in 1..d |-> s[a + k]]
      <3>1. SubSeq(s, a + 1, u) = [k \in 1..u - (a + 1) + 1 |-> s[k + (a + 1) - 1]]
        BY <2>1
      <3>2. u - (a + 1) + 1 = d /\ \A k \in 1..d : k + (a + 1) - 1 = a + k
        BY <2>1
      <3> QED BY <3>1, <3>2
    <2>4. \A k \in 1..d : a + k \in 1..l
      BY <1>1, <2>1
    <2>5. \A k \in 1..d : s[a + k] \in Measurements
      BY <1>2, <2>4
    <2> HIDE DEF d
    <2>6. [k \in 1..d |-> s[a + k]] \in Seq(Measurements) /\ Len([k \in 1..d |-> s[a + k]]) = d
      BY <2>1, <2>5
    <2> QED BY <2>2, <2>3, <2>6 DEF a, u, d
  <1>7. q \in Seq(Seq(Measurements)) /\ Len(q) = n
    <2>1. q = [i \in 1..n |-> q[i]]
      BY <1>5
    <2> DEFINE M == Seq(Measurements)
    <2>2. \A i \in 1..n : q[i] \in M
      BY <1>6
    <2> HIDE DEF M
    <2>3. q \in Seq(M) /\ Len(q) = n
      BY <1>3, <2>1, <2>2, ListOf
    <2> QED BY <2>3 DEF M
  <1>8. Chunked(q)
    <2>1. \A i \in 1..n : Len(q[i]) \in 1..c
      BY <1>4, <1>6
    <2>2. \A i \in 1..n - 1 : i \in 1..n /\ i < n
      BY <1>3
    <2>3. \A i \in 1..n - 1 : Len(q[i]) = c
      BY <1>4, <1>6, <2>2
    <2> QED BY <1>7, <2>1, <2>3 DEF Chunked, c
  <1>9. \A i \in 1..n : \A j : Spot(i, j) = from(i) + j
    BY DEF Spot, from, c
  <1>10. Sized(q, 0, l)
    <2>1. CASE n = 0
      <3>1. l = 0
        <4>1. n * c = 0
          BY <1>1, <2>1
        <4> QED BY <1>1, <1>3, <4>1
      <3>2. q = <<>>
        BY <1>7, <2>1
      <3> QED BY <1>8, <3>1, <3>2 DEF Sized
    <2>2. CASE n # 0
      <3>1. n \in 1..n /\ 1 \in 1..n /\ q # <<>>
        BY <1>3, <1>7, <2>2
      <3>2. 0 < Len(q[1])
        <4>1. Len(q[1]) \in 1..c
          BY <1>4, <1>6, <3>1
        <4> DEFINE x == Len(q[1])
        <4>2. x \in 1..c
          BY <4>1
        <4> HIDE DEF x
        <4>3. 0 < x
          BY <1>1, <4>2
        <4> QED BY <4>3 DEF x
      <3>3. Spot(n, Len(q[n])) = 0 + l
        <4> DEFINE a == from(n)
                   u == upto(n)
        <4>1. Len(q[n]) = u - a /\ Spot(n, u - a) = a + (u - a) /\ u = l /\ a \in Nat
          BY <1>4, <1>6, <1>9, <3>1
        <4> HIDE DEF a, u
        <4>2. a + (u - a) = 0 + l
          BY <1>1, <4>1
        <4> QED BY <4>1, <4>2
      <3> QED BY <1>1, <1>7, <1>8, <3>1, <3>2, <3>3 DEF Sized
    <2> QED BY <2>1, <2>2
  <1>11. ASSUME NEW i \in 1..Len(q), NEW j \in 1..Len(q[i]), Spot(i, j) > 0
         PROVE  s[Spot(i, j) - 0] = q[i][j]
    <2> DEFINE a == from(i)
    <2>1. q[i][j] = s[a + j] /\ Spot(i, j) = a + j /\ a \in Nat /\ j \in 1..upto(i) - a /\ upto(i) \in Nat
      BY <1>4, <1>6, <1>7, <1>9
    <2> HIDE DEF a
    <2> DEFINE x == Spot(i, j)
    <2>2. x = a + j
      BY <2>1
    <2> HIDE DEF x
    <2>3. x - 0 = a + j
      BY <2>1, <2>2
    <2>4. s[x - 0] = q[i][j]
      BY <2>1, <2>3
    <2> QED BY <2>4 DEF x
  <1>12. Sampled(q, 0, l, s)
    BY <1>11 DEF Sampled, l
  <1> QED BY <1>3, <1>10, <1>12 DEF l

-----------------------------------------------------------------------------
(* The versions there are.                                                  *)

ChunksOf(hp, v) == [i \in DOMAIN v.chunks |-> hp[v.chunks[i]]]

IsVersion(hp, v) ==
  /\ v = [chunks |-> v.chunks, offset |-> v.offset, len |-> v.len]
  /\ v.chunks \in Seq(DOMAIN hp) /\ IsInjective(v.chunks)
  /\ Sized(ChunksOf(hp, v), v.offset, v.len) /\ v.len <= MaxKept

ChunksInv ==
  /\ taken \in SampleTimes /\ IsFiniteSet(DOMAIN heap)
  /\ version = [h \in Holders |-> version[h]]
  /\ \A h \in Holders : IsVersion(heap, version[h])

\* What the holders read.
Seen == [h \in Holders |-> Iterated(version[h])]

LEMMA IteratedIs ==
  ASSUME NEW v
  PROVE  Iterated(v) = Read(ChunksOf(heap, v), v.offset)
  BY DEF Iterated, Read, ChunksOf

LEMMA IteratedHolds ==
  ASSUME NEW v, IsVersion(heap, v)
  PROVE  Sampled(ChunksOf(heap, v), v.offset, v.len, Iterated(v))
  BY IteratedIs, ReadHolds DEF IsVersion

\* Access by index is the iterator's.
LEMMA IndexAgrees ==
  ASSUME NEW v, IsVersion(heap, v)
  PROVE  IndexIsIteration(v)
  <1> DEFINE q == ChunksOf(heap, v)
             s == Iterated(v)
  <1>1. Sized(q, v.offset, v.len) /\ Sampled(q, v.offset, v.len, s)
    BY IteratedHolds DEF IsVersion
  <1>2. v.offset \in Nat /\ v.len \in Nat
    BY <1>1 DEF Sized
  <1>3. DOMAIN q = 1..Len(q) /\ \A i \in 1..Len(q) : q[i] = heap[v.chunks[i]]
    BY <1>1 DEF ChunksOf, Sized, Chunked
  <1> HIDE DEF q, s
  <1>4. ASSUME NEW k \in 1..v.len PROVE At(v, k) = s[k]
    <2> DEFINE o == v.offset
               i == ((k - 1 + o) \div ChunkSize) + 1
               j == ((k - 1 + o) % ChunkSize) + 1
    <2>1. i \in 1..Len(q) /\ j \in 1..Len(q[i]) /\ Spot(i, j) = k + o /\ Spot(i, j) > o
      BY <1>1, SpotFor
    <2>2. At(v, k) = heap[v.chunks[i]][j]
      BY DEF At
    <2> HIDE DEF i, j
    <2>3. At(v, k) = q[i][j]
      BY <1>3, <2>1, <2>2
    <2>4. s[Spot(i, j) - o] = q[i][j]
      BY <1>1, <2>1 DEF Sampled
    <2>5. Spot(i, j) - o = k
      BY <1>2, <2>1
    <2> QED BY <2>3, <2>4, <2>5
  <1>5. Len(s) = v.len
    BY <1>1 DEF Sampled
  <1> QED BY <1>4, <1>5 DEF IndexIsIteration, s

\* The newest sample, and whether there is one.
LEMMA NewestSampleIs ==
  ASSUME NEW v, IsVersion(heap, v)
  PROVE  /\ v.chunks # <<>> <=> Iterated(v) # <<>>
         /\ v.chunks # <<>> => LastOf(v) = Iterated(v)[Len(Iterated(v))]
  <1> DEFINE q == ChunksOf(heap, v)
             s == Iterated(v)
             o == v.offset
             len == v.len
             n == Len(v.chunks)
  <1>1. Sized(q, o, len) /\ Sampled(q, o, len, s)
    BY IteratedHolds DEF IsVersion
  <1>2. v.chunks \in Seq(DOMAIN heap) /\ n \in Nat /\ DOMAIN v.chunks = 1..n
    BY DEF IsVersion
  <1>3. q = [i \in 1..n |-> heap[v.chunks[i]]]
    BY <1>2 DEF ChunksOf
  <1>4. Len(q) = n /\ (q = <<>> <=> n = 0) /\ (v.chunks = <<>> <=> n = 0)
    <2>1. q \in Seq(Seq(Measurements)) /\ DOMAIN q = 1..n /\ n \in Nat
      BY <1>1, <1>2, <1>3 DEF Sized, Chunked
    <2>2. v.chunks = <<>> <=> n = 0
      BY <1>2
    <2> HIDE DEF q, n
    <2>3. Len(q) = n /\ (q = <<>> <=> n = 0)
      BY <2>1
    <2> QED BY <2>2, <2>3
  <1>5. s \in Seq(Measurements) /\ Len(s) = len /\ len \in Nat /\ o \in Nat
    BY <1>1 DEF Sized, Sampled
  <1>6. q = <<>> <=> len = 0
    BY <1>1, TotalIs
  <1>7. s # <<>> <=> len # 0
    BY <1>5
  <1>8. ASSUME n # 0 PROVE LastOf(v) = s[len]
    <2> DEFINE c == heap[v.chunks[n]]
               l == Len(c)
    <2>1. n \in 1..n /\ q[n] = c
      BY <1>2, <1>3, <1>8
    <2>2. l \in 1..ChunkSize
      BY <1>1, <1>4, <2>1 DEF Sized, Chunked
    <2>3. l \in 1..l
      BY <2>2, ChunksAssumption
    <2>4. LastOf(v) = c[l]
      BY DEF LastOf, Last
    <2>5. Spot(n, l) = o + len
      BY <1>1, <1>4, <1>8, <2>1 DEF Sized
    <2>6. Spot(n, l) > o => s[Spot(n, l) - o] = c[l]
      BY <1>1, <1>4, <2>1, <2>3 DEF Sampled
    <2>7. len # 0
      BY <1>4, <1>6, <1>8
    <2> HIDE DEF c, l
    <2>8. Spot(n, l) > o /\ Spot(n, l) - o = len
      BY <1>5, <2>5, <2>7
    <2> QED BY <2>4, <2>6, <2>8
  <1> HIDE DEF s, q, n
  <1> QED BY <1>4, <1>5, <1>6, <1>7, <1>8 DEF s, n

\* References that are new are.
LEMMA FreshRefs ==
  ASSUME IsFiniteSet(DOMAIN heap), NEW n \in Nat
  PROVE  /\ FreeRefs(n) \in Seq(Nat) /\ Len(FreeRefs(n)) >= n
         /\ \A i \in 1..n : FreeRefs(n)[i] \notin DOMAIN heap
         /\ \A i, j \in 1..n : FreeRefs(n)[i] = FreeRefs(n)[j] => i = j
  <1> DEFINE D == DOMAIN heap
             m == Cardinality(D) + n
             all == 1..m
             s == [r \in all |-> r]
             S == all \ D
             f == Filtered(s, S)
             k == Len(f)
  <1>1. Cardinality(D) \in Nat /\ m \in Nat /\ m - Cardinality(D) = n
    <2>1. Cardinality(D) \in Nat
      BY FS_CardinalityType
    <2> DEFINE d == Cardinality(D)
    <2>2. d \in Nat
      BY <2>1
    <2> HIDE DEF d
    <2>3. d + n \in Nat /\ d + n - d = n
      BY <2>2
    <2> QED BY <2>1, <2>3 DEF d
  <1> HIDE DEF m
  <1>2. s \in Seq(Nat) /\ Len(s) = m /\ \A r \in all : s[r] = r
    BY <1>1
  <1> HIDE DEF s
  <1>3. f \in Seq(Nat) /\ \E p : Places(s, S, m, f, p)
    BY <1>2, FilteredPlaces
  <1>4. PICK p : Places(s, S, m, f, p)
    BY <1>3
  <1> HIDE DEF f, S
  <1>5. k \in Nat
    BY <1>3
  <1>6. \A i \in 1..k : p[i] \in all /\ f[i] = p[i] /\ f[i] \in S
    BY <1>2, <1>4 DEF Places
  <1>7. \A i, j \in 1..k : i < j => p[i] < p[j]
    BY <1>4 DEF Places
  <1>8. \A i, j \in 1..k : f[i] = f[j] => i = j
    <2> SUFFICES ASSUME NEW i \in 1..k, NEW j \in 1..k, f[i] = f[j], i # j PROVE FALSE
      OBVIOUS
    <2>1. p[i] = p[j] /\ p[i] \in Nat
      BY <1>1, <1>6
    <2>2. i < j \/ j < i
      BY <1>5
    <2>3. p[i] < p[j] \/ p[j] < p[i]
      BY <1>7, <2>2
    <2> DEFINE a == p[i]
               b == p[j]
    <2>4. a = b /\ a \in Nat /\ (a < b \/ b < a)
      BY <2>1, <2>3
    <2> HIDE DEF a, b
    <2> QED BY <2>4
  <1>9. \A r \in S : \E j \in 1..k : f[j] = r
    <2> SUFFICES ASSUME NEW r \in S PROVE \E j \in 1..k : f[j] = r
      OBVIOUS
    <2>1. r \in all /\ s[r] = r
      BY <1>2 DEF S
    <2>2. PICK j \in 1..k : p[j] = r
      BY <1>4, <2>1 DEF Places
    <2> QED BY <1>6, <2>2
  <1>10. f \in Bijection(1..k, S)
    <2>1. DOMAIN f = 1..k
      BY <1>3
    <2>2. f \in [1..k -> S]
      BY <1>3, <1>6, <2>1
    <2> QED BY <1>8, <1>9, <2>2 DEF Bijection, Injection, Surjection, IsInjective
  <1>11. IsFiniteSet(all) /\ Cardinality(all) = m
    BY <1>1, IntervalIs
  <1>12. IsFiniteSet(S) /\ Cardinality(S) = k
    <2>1. IsFiniteSet(S)
      BY <1>11, FS_Subset DEF S
    <2>2. ExistsBijection(1..k, S)
      BY <1>10 DEF ExistsBijection
    <2> QED BY <1>5, <2>1, <2>2, FS_CountingElements
  <1>13. Cardinality(S) >= m - Cardinality(D)
    <2> DEFINE B == all \cap D
    <2>1. IsFiniteSet(B) /\ Cardinality(B) <= Cardinality(D)
      BY FS_Subset
    <2>2. Cardinality(S) = Cardinality(all) - Cardinality(B)
      BY <1>11, FS_Difference DEF S
    <2>3. Cardinality(B) \in Nat
      BY <2>1, FS_CardinalityType
    <2> DEFINE b == Cardinality(B)
               d == Cardinality(D)
               c == Cardinality(S)
    <2>4. b \in Nat /\ d \in Nat /\ b <= d /\ c = m - b
      BY <1>1, <1>11, <2>1, <2>2, <2>3
    <2> HIDE DEF b, d, c
    <2>5. c >= m - d
      BY <1>1, <2>4
    <2> QED BY <2>5 DEF c, d
  <1>14. k >= n
    BY <1>1, <1>12, <1>13
  <1>15. FreeRefs(n) = f
    BY DEF FreeRefs, f, S, s, m
  <1>16. \A i \in 1..n : i \in 1..k
    BY <1>5, <1>14
  <1>17. \A i \in 1..n : f[i] \notin DOMAIN heap
    BY <1>6, <1>16 DEF S
  <1> QED BY <1>3, <1>8, <1>14, <1>15, <1>16, <1>17

-----------------------------------------------------------------------------
(* The actions.                                                             *)

\* What the chunks are after a write.
Written(chunks, v) ==
  [i \in DOMAIN v.chunks |->
     IF v.chunks[i] \in DOMAIN chunks THEN chunks[v.chunks[i]] ELSE heap[v.chunks[i]]]

\* A holder's version becomes v, which reads as s; the others read as before.
LEMMA SetKeeps ==
  ASSUME ChunksInv, NEW h \in Holders, NEW v, NEW chunks, Set(h, v, chunks), taken' \in SampleTimes,
         v = [chunks |-> v.chunks, offset |-> v.offset, len |-> v.len],
         v.chunks \in Seq(DOMAIN heap \cup DOMAIN chunks), IsInjective(v.chunks),
         IsFiniteSet(DOMAIN chunks), v.len <= MaxKept,
         \A r \in DOMAIN chunks : ~IsShared(h, r),
         NEW s, Sized(Written(chunks, v), v.offset, v.len), Sampled(Written(chunks, v), v.offset, v.len, s)
  PROVE  ChunksInv' /\ Histories!Becomes(h, s)
  <1> DEFINE R == Referred(version')
  <1>1. /\ version' = [version EXCEPT ![h] = v]
        /\ heap' = [r \in R |-> IF r \in DOMAIN chunks THEN chunks[r] ELSE heap[r]]
    BY DEF Set
  <1>2. version' = [g \in Holders |-> IF g = h THEN v ELSE version[g]]
    BY <1>1 DEF ChunksInv
  <1>3. /\ DOMAIN version' = Holders /\ version'[h] = v
        /\ \A g \in Holders \ {h} : version'[g] = version[g]
    BY <1>2
  <1>4. DOMAIN heap' = R
    BY <1>1
  <1>5. \A g \in Holders : \A i \in DOMAIN version'[g].chunks : version'[g].chunks[i] \in R
    BY DEF Referred, ToSet
  <1> HIDE DEF R
  <1>6. R \subseteq DOMAIN heap \cup DOMAIN chunks
    <2> SUFFICES ASSUME NEW g \in Holders, NEW i \in DOMAIN version'[g].chunks
                 PROVE  version'[g].chunks[i] \in DOMAIN heap \cup DOMAIN chunks
      BY DEF R, Referred, ToSet
    <2>1. CASE g = h
      BY <1>3, <2>1
    <2>2. CASE g # h
      BY <1>3, <2>2 DEF ChunksInv, IsVersion
    <2> QED BY <2>1, <2>2
  <1>7. IsFiniteSet(DOMAIN heap')
    <2>1. IsFiniteSet(DOMAIN heap \cup DOMAIN chunks)
      BY FS_Union DEF ChunksInv
    <2> QED BY <1>4, <1>6, <2>1, FS_Subset
  <1>8. ASSUME NEW w, NEW S, w \in Seq(S), \A i \in DOMAIN w : w[i] \in R
        PROVE  w \in Seq(DOMAIN heap')
    BY <1>4, <1>8
  <1>9. ASSUME NEW g \in Holders \ {h}
        PROVE  IsVersion(heap', version'[g]) /\ Iterated(version[g])' = Iterated(version[g])
    <2> DEFINE w == version[g]
    <2>1. version'[g] = w /\ IsVersion(heap, w)
      BY <1>3 DEF ChunksInv
    <2>2. \A i \in DOMAIN w.chunks : w.chunks[i] \in R /\ w.chunks[i] \notin DOMAIN chunks
      <3>1. \A i \in DOMAIN w.chunks : w.chunks[i] \in R
        BY <1>5, <2>1
      <3>2. \A i \in DOMAIN w.chunks : IsShared(h, w.chunks[i])
        BY DEF IsShared, ToSet
      <3> QED BY <3>1, <3>2
    <2> HIDE DEF w
    <2>3. \A i \in DOMAIN w.chunks : heap'[w.chunks[i]] = heap[w.chunks[i]]
      BY <1>1, <2>2
    <2>4. ChunksOf(heap', w) = ChunksOf(heap, w)
      BY <2>3 DEF ChunksOf
    <2>5. w.chunks \in Seq(DOMAIN heap')
      BY <1>8, <2>1, <2>2 DEF IsVersion
    <2>6. IsVersion(heap', w)
      BY <2>1, <2>4, <2>5 DEF IsVersion
    <2>7. Iterated(version[g])' = Read(ChunksOf(heap', version'[g]), version'[g].offset)
      BY DEF Iterated, Read, ChunksOf
    <2>8. Iterated(w) = Read(ChunksOf(heap, w), w.offset)
      BY IteratedIs
    <2> QED BY <2>1, <2>4, <2>6, <2>7, <2>8 DEF w
  <1>10. IsVersion(heap', v) /\ Iterated(version[h])' = s
    <2>1. \A i \in DOMAIN v.chunks : v.chunks[i] \in R
      BY <1>3, <1>5
    <2>2. \A i \in DOMAIN v.chunks :
            heap'[v.chunks[i]] = IF v.chunks[i] \in DOMAIN chunks THEN chunks[v.chunks[i]]
                                 ELSE heap[v.chunks[i]]
      BY <1>1, <2>1
    <2>3. ChunksOf(heap', v) = Written(chunks, v)
      BY <2>2 DEF ChunksOf, Written
    <2>4. v.chunks \in Seq(DOMAIN heap')
      BY <1>8, <2>1
    <2>5. IsVersion(heap', v)
      BY <2>3, <2>4 DEF IsVersion
    <2>6. Iterated(version[h])' = Read(ChunksOf(heap', version'[h]), version'[h].offset)
      BY DEF Iterated, Read, ChunksOf
    <2>7. Read(Written(chunks, v), v.offset) = s
      BY ReadIs
    <2> QED BY <1>3, <2>3, <2>5, <2>6, <2>7
  <1>11. ChunksInv'
    <2>1. \A g \in Holders : IsVersion(heap', version'[g])
      BY <1>3, <1>9, <1>10
    <2>2. version' = [g \in Holders |-> version'[g]]
      BY <1>2
    <2> QED BY <1>7, <2>1, <2>2 DEF ChunksInv
  <1>12. \A g \in Holders : Iterated(version[g])' = IF g = h THEN s ELSE Iterated(version[g])
    BY <1>3, <1>9, <1>10
  <1>13. Seen' = [Seen EXCEPT ![h] = s]
    BY <1>12 DEF Seen
  <1> QED BY <1>11, <1>13 DEF Histories!Becomes, Seen

LEMMA NoChunks ==
  /\ DOMAIN << >> = {} /\ IsFiniteSet(DOMAIN << >>)
  /\ \A v : Written(<< >>, v) = ChunksOf(heap, v)
  <1>1. DOMAIN << >> = {}
    OBVIOUS
  <1> QED BY <1>1, FS_EmptySet DEF Written, ChunksOf

LEMMA CloneReads ==
  ASSUME ChunksInv, NEW from \in Holders, NEW to \in Holders, Clone(from, to)
  PROVE  ChunksInv' /\ Histories!Becomes(to, Seen[from])
  <1> DEFINE v == version[from]
  <1>1. IsVersion(heap, v)
    BY DEF ChunksInv
  <1>2. Sampled(ChunksOf(heap, v), v.offset, v.len, Iterated(v))
    BY <1>1, IteratedHolds
  <1>3. Set(to, v, << >>) /\ taken' \in SampleTimes
    BY DEF Clone, ChunksInv
  <1>4. Seen[from] = Iterated(v)
    BY DEF Seen
  <1> HIDE DEF v
  <1>5. v.chunks \in Seq(DOMAIN heap \cup DOMAIN << >>)
    BY <1>1, NoChunks DEF IsVersion
  <1>6. Sized(Written(<< >>, v), v.offset, v.len) /\ Sampled(Written(<< >>, v), v.offset, v.len, Iterated(v))
    BY <1>1, <1>2, NoChunks DEF IsVersion
  <1> DEFINE it == Iterated(v)
  <1>7. Sampled(Written(<< >>, v), v.offset, v.len, it)
    BY <1>6
  <1> HIDE DEF it
  <1>8. ChunksInv' /\ Histories!Becomes(to, it)
    BY <1>1, <1>3, <1>5, <1>6, <1>7, NoChunks, SetKeeps DEF IsVersion
  <1> QED BY <1>4, <1>8 DEF it

LEMMA DropReads ==
  ASSUME ChunksInv, NEW h \in Holders, DropVersion(h)
  PROVE  ChunksInv' /\ Histories!Becomes(h, << >>)
  <1> DEFINE v == NoSamples
             c == << >>
  <1>1. v = [chunks |-> << >>, offset |-> 0, len |-> 0] /\ v.chunks = << >> /\ v.offset = 0 /\ v.len = 0
    BY DEF NoSamples
  <1>2. Set(h, v, c) /\ taken' \in SampleTimes
    BY DEF DropVersion, Edit, ChunksInv
  <1>3. Written(c, v) = << >>
    BY <1>1 DEF Written
  <1>4. << >> \in Seq(Seq(Measurements)) /\ << >> \in Seq(Measurements) /\ Len(<< >>) = 0
        /\ << >> \in Seq(DOMAIN heap \cup DOMAIN c) /\ IsInjective(<< >>)
    BY DEF IsInjective
  <1>5. Sized(<< >>, 0, 0)
    BY <1>4 DEF Sized, Chunked
  <1>6. Sampled(<< >>, 0, 0, << >>)
    BY <1>4 DEF Sampled
  <1>7. 0 <= MaxKept
    BY ChunksAssumption
  <1>8. IsFiniteSet(DOMAIN c) /\ \A r \in DOMAIN c : ~IsShared(h, r)
    BY NoChunks
  <1> HIDE DEF v, c
  <1> QED BY <1>1, <1>2, <1>3, <1>4, <1>5, <1>6, <1>7, <1>8, SetKeeps

\* What push does to the chunks of a version.
LEMMA GrownChunks ==
  ASSUME ChunksInv, NEW h \in Holders, NEW x \in Measurements, NEW g, g = Grown(h, x)
  PROVE  LET v == version[h]
             r == [i \in DOMAIN g.chunks |-> IF g.chunks[i] = g.at THEN g.chunk ELSE heap[g.chunks[i]]]
         IN  /\ g.chunks \in Seq(DOMAIN heap \cup {g.at}) /\ IsInjective(g.chunks)
             /\ g.chunks # << >> /\ g.chunks[Len(g.chunks)] = g.at
             /\ ~IsShared(h, g.at) /\ Extended(ChunksOf(heap, v), r, x)
  <1> DEFINE v == version[h]
             q == ChunksOf(heap, v)
             cs == v.chunks
             n == Len(cs)
             new == NewRef
             r == [i \in DOMAIN g.chunks |-> IF g.chunks[i] = g.at THEN g.chunk ELSE heap[g.chunks[i]]]
  <1>1. /\ IsVersion(heap, v) /\ cs \in Seq(DOMAIN heap) /\ n \in Nat /\ DOMAIN cs = 1..n
        /\ IsInjective(cs) /\ Chunked(q) /\ IsFiniteSet(DOMAIN heap)
    BY DEF ChunksInv, IsVersion, Sized
  <1>2. q = [i \in 1..n |-> heap[cs[i]]]
    BY <1>1 DEF ChunksOf
  <1>3. new \notin DOMAIN heap
    BY <1>1, FreshRefs DEF NewRef
  <1>4. \A k \in Holders : \A i \in DOMAIN version[k].chunks : version[k].chunks[i] \in DOMAIN heap
    BY DEF ChunksInv, IsVersion
  <1>5. ~IsShared(h, new)
    BY <1>3, <1>4 DEF IsShared, ToSet
  <1>6. Len(q) = n /\ (q = << >> <=> n = 0) /\ (cs = << >> <=> n = 0) /\ q \in Seq(Seq(Measurements))
    <2>1. q \in Seq(Seq(Measurements)) /\ DOMAIN q = 1..n
      BY <1>1, <1>2 DEF Chunked
    <2>2. cs = << >> <=> n = 0
      BY <1>1
    <2> HIDE DEF q, n
    <2> QED BY <1>1, <2>1, <2>2
  <1>7. \A i, j \in 1..n : cs[i] = cs[j] => i = j
    BY <1>1 DEF IsInjective
  <1> HIDE DEF v, new
  <1>8. CASE n = 0 \/ Len(q[n]) = ChunkSize
    <2>0. cs = << >> \/ Len(heap[Last(cs)]) = ChunkSize
      BY <1>1, <1>2, <1>6, <1>8 DEF Last
    <2>1. g = [chunks |-> Append(cs, new), at |-> new, chunk |-> <<x>>]
      BY <2>0 DEF Grown, v, new
    <2>2. g.chunks = Append(cs, new) /\ g.at = new /\ g.chunk = <<x>>
      BY <2>1
    <2> DEFINE ds == g.chunks
    <2>3. /\ ds \in Seq(DOMAIN heap \cup {new}) /\ Len(ds) = n + 1 /\ ds[n + 1] = new
          /\ \A i \in 1..n : ds[i] = cs[i] /\ ds[i] \in DOMAIN heap
      BY <1>1, <2>2
    <2> HIDE DEF ds, cs, q
    <2>4. DOMAIN ds = 1..n + 1 /\ ds # << >> /\ \A i \in 1..n + 1 : i \in 1..n \/ i = n + 1
      BY <1>1, <2>3
    <2>5. \A i \in 1..n : ds[i] # new
      BY <1>3, <2>3
    <2>6. IsInjective(ds)
      BY <1>7, <2>3, <2>4, <2>5 DEF IsInjective
    <2>7. r = [i \in 1..n + 1 |-> IF ds[i] = new THEN <<x>> ELSE heap[ds[i]]]
      BY <2>2, <2>4 DEF ds
    <2> HIDE DEF r, n
    <2>8. /\ r[n + 1] = <<x>> /\ \A i \in 1..n : r[i] = q[i]
      <3>1. n + 1 \in 1..n + 1 /\ \A i \in 1..n : i \in 1..n + 1
        BY <1>1
      <3>2. r[n + 1] = <<x>>
        BY <2>3, <2>7, <3>1
      <3>3. ASSUME NEW i \in 1..n PROVE r[i] = q[i]
        <4>1. r[i] = heap[ds[i]]
          BY <2>5, <2>7, <3>1
        <4> QED BY <1>2, <2>3, <4>1
      <3> QED BY <3>2, <3>3
    <2>9. r = Append(q, <<x>>)
      <3> DEFINE a == Append(q, <<x>>)
      <3>1. <<x>> \in Seq(Measurements)
        OBVIOUS
      <3>2. /\ a \in Seq(Seq(Measurements)) /\ Len(a) = n + 1 /\ a[n + 1] = <<x>> /\ \A i \in 1..n : a[i] = q[i]
        BY <1>1, <1>6, <3>1
      <3> HIDE DEF a
      <3>3. a = [i \in 1..n + 1 |-> a[i]] /\ r = [i \in 1..n + 1 |-> r[i]]
        BY <2>7, <3>2
      <3>4. \A i \in 1..n + 1 : a[i] = r[i]
        BY <2>4, <2>8, <3>2
      <3>5. a = r
        BY <3>3, <3>4
      <3> QED BY <3>5 DEF a
    <2>10. Extended(q, r, x)
      BY <1>1, <1>6, <1>8, <2>9, BegunIs DEF n
    <2> QED BY <1>5, <2>2, <2>3, <2>4, <2>6, <2>10 DEF ds, r, q, v
  <1>9. CASE n # 0 /\ Len(q[n]) # ChunkSize
    <2> DEFINE tail == cs[n]
               ref == IF IsShared(h, tail) THEN new ELSE tail
               grown == Append(q[n], x)
               ds == g.chunks
    <2>0. /\ cs # << >> /\ Last(cs) = tail /\ n \in 1..n /\ q[n] = heap[tail] /\ tail \in DOMAIN heap
      BY <1>1, <1>2, <1>6, <1>9 DEF Last
    <2>1. g = [chunks |-> Append(Front(cs), ref), at |-> ref, chunk |-> grown]
      BY <1>9, <2>0 DEF Grown, v, new
    <2>2. ds = Append(Front(cs), ref) /\ g.at = ref /\ g.chunk = grown
      BY <2>1
    <2>3. ~IsShared(h, ref)
      BY <1>5
    <2>4. ref = tail \/ ref \notin DOMAIN heap
      BY <1>3
    <2> HIDE DEF tail, ref, grown, ds
    <2>5. /\ ds \in Seq(DOMAIN heap \cup {ref}) /\ Len(ds) = n /\ ds[n] = ref
          /\ \A i \in 1..n - 1 : ds[i] = cs[i] /\ i \in 1..n
      <3> DEFINE f == Front(cs)
      <3>1. f \in Seq(DOMAIN heap) /\ Len(f) = n - 1 /\ \A i \in 1..n - 1 : f[i] = cs[i] /\ i \in 1..n
        BY <1>1, <2>0 DEF Front
      <3> HIDE DEF f, cs
      <3>2. Append(f, ref) \in Seq(DOMAIN heap \cup {ref}) /\ Len(Append(f, ref)) = n - 1 + 1
            /\ Append(f, ref)[n - 1 + 1] = ref /\ \A i \in 1..n - 1 : Append(f, ref)[i] = f[i]
        BY <3>1
      <3>3. n - 1 + 1 = n
        BY <1>1
      <3> QED BY <2>2, <3>1, <3>2, <3>3 DEF f
    <2> HIDE DEF cs, q, n
    <2>6. DOMAIN ds = 1..n /\ ds # << >> /\ \A i \in 1..n : i \in 1..n - 1 \/ i = n
      <3>1. DOMAIN ds = 1..n
        BY <2>5
      <3>2. n >= 1 /\ n \in Nat
        BY <1>1, <2>0
      <3>3. ds # << >>
        BY <2>5, <3>2
      <3> QED BY <3>1, <3>2, <3>3
    <2>7. \A i \in 1..n - 1 : ds[i] \in DOMAIN heap /\ ds[i] # tail /\ i # n
      <3>1. \A i \in 1..n : cs[i] \in DOMAIN heap
        BY <1>1
      <3>2. \A i \in 1..n - 1 : i # n
        BY <1>1
      <3> QED BY <1>7, <2>0, <2>5, <3>1, <3>2 DEF tail
    <2>8. \A i \in 1..n - 1 : ds[i] # ref
      BY <2>4, <2>7
    <2>9. IsInjective(ds)
      BY <1>7, <2>5, <2>6, <2>8 DEF IsInjective
    <2>10. r = [i \in 1..n |-> IF ds[i] = ref THEN grown ELSE heap[ds[i]]]
      BY <2>2, <2>6 DEF ds
    <2> HIDE DEF r
    <2>11. r[n] = grown /\ \A i \in 1..n : i # n => r[i] = q[i]
      <3>1. r[n] = grown
        BY <2>0, <2>5, <2>10
      <3>2. ASSUME NEW i \in 1..n, i # n PROVE r[i] = q[i]
        <4>1. i \in 1..n - 1
          BY <2>6, <3>2
        <4>2. ds[i] = cs[i] /\ ds[i] # ref
          BY <2>5, <2>8, <4>1
        <4>3. r[i] = heap[ds[i]]
          BY <2>10, <4>2
        <4> QED BY <1>2, <4>2, <4>3
      <3> QED BY <3>1, <3>2
    <2>12. r = [q EXCEPT ![n] = grown]
      <3>1. DOMAIN q = 1..n
        BY <1>6
      <3>2. [q EXCEPT ![n] = grown] = [i \in 1..n |-> IF i = n THEN grown ELSE q[i]]
        BY <3>1
      <3>3. r = [i \in 1..n |-> r[i]]
        BY <2>10
      <3>4. \A i \in 1..n : r[i] = IF i = n THEN grown ELSE q[i]
        BY <2>11
      <3> QED BY <3>2, <3>3, <3>4
    <2>13. Extended(q, r, x)
      BY <1>1, <1>6, <1>9, <2>12, GrownIs DEF grown
    <2> QED BY <2>2, <2>3, <2>5, <2>6, <2>9, <2>13 DEF ds, r, q, v
  <1> QED BY <1>8, <1>9
LEMMA TailOf ==
  ASSUME NEW T, NEW c \in Seq(T), c # << >>, IsInjective(c)
  PROVE  /\ Tail(c) \in Seq(T) /\ IsInjective(Tail(c)) /\ Len(Tail(c)) = Len(c) - 1
         /\ Len(c) \in Nat \ {0} /\ DOMAIN Tail(c) = 1..Len(c) - 1
         /\ \A i \in 1..Len(c) - 1 : Tail(c)[i] = c[i + 1] /\ i + 1 \in 1..Len(c)
  <1> DEFINE t == Tail(c)
             n == Len(c)
  <1>1. /\ t \in Seq(T) /\ n \in Nat \ {0} /\ DOMAIN t = 1..n - 1 /\ Len(t) = n - 1 /\ DOMAIN c = 1..n
        /\ \A i \in 1..n - 1 : t[i] = c[i + 1] /\ i + 1 \in 1..n
    OBVIOUS
  <1> HIDE DEF t, n
  <1>2. \A i, j \in 1..n : c[i] = c[j] => i = j
    BY <1>1 DEF IsInjective
  <1>3. \A i, j \in 1..n - 1 : t[i] = t[j] => i + 1 = j + 1
    BY <1>1, <1>2
  <1>4. \A i, j \in 1..n - 1 : i + 1 = j + 1 => i = j
    BY <1>1
  <1>5. IsInjective(t)
    BY <1>1, <1>3, <1>4 DEF IsInjective
  <1> QED BY <1>1, <1>5 DEF t, n

\* push, and what goes in front of more than a series keeps.
LEMMA RecordReads ==
  ASSUME ChunksInv, NEW h \in Holders, Record(h)
  PROVE  /\ ChunksInv'
         /\ \E x \in Measurements :
              /\ Seen[h] # << >> => Seen[h][Len(Seen[h])].at # x.at
              /\ Histories!Becomes(h, Histories!Trimmed(Append(Seen[h], x)))
  <1> DEFINE x == [at |-> taken, value |-> "measured"]
             v == version[h]
             q == ChunksOf(heap, v)
             s == Iterated(v)
             o == v.offset
             len == v.len
             g == Grown(h, x)
             ds == g.chunks
             made == [r \in {g.at} |-> g.chunk]
             r == [i \in DOMAIN ds |-> IF ds[i] = g.at THEN g.chunk ELSE heap[ds[i]]]
             longer == [chunks |-> ds, offset |-> o, len |-> len + 1]
             firstLen == IF Len(ds) = 1 THEN Len(g.chunk) ELSE Len(heap[Head(ds)])
             more == Append(s, x)
             kept == Histories!Trimmed(more)
  <1>1. IsVersion(heap, v) /\ x \in Measurements /\ taken' \in SampleTimes
    BY DEF ChunksInv, Measurements, Readings, Record
  <1>2. /\ v.chunks # << >> => LastOf(v).at # taken
        /\ Set(h, IF longer.len > MaxKept THEN Popped(longer, firstLen) ELSE longer, made)
    BY DEF Record
  <1>3. Seen[h] = s /\ x.at = taken
    BY DEF Seen
  <1> HIDE DEF s
  <1>4. s # << >> => s[Len(s)].at # x.at
    BY <1>1, <1>2, <1>3, NewestSampleIs DEF s
  <1>5. Sized(q, o, len) /\ Sampled(q, o, len, s)
    BY <1>1, IteratedHolds DEF IsVersion, s
  <1>6. /\ o \in Nat /\ len \in Nat /\ len <= MaxKept /\ MaxKept \in Nat \ {0}
        /\ s \in Seq(Measurements) /\ Len(s) = len
    BY <1>1, <1>5, ChunksAssumption DEF Sized, Sampled, IsVersion
  <1> HIDE DEF x
  <1>7. /\ ds \in Seq(DOMAIN heap \cup {g.at}) /\ IsInjective(ds) /\ ds # << >>
        /\ ds[Len(ds)] = g.at /\ ~IsShared(h, g.at) /\ Extended(q, r, x)
    BY <1>1, GrownChunks
  <1>8. Sized(r, o, len + 1) /\ Sampled(r, o, len + 1, more)
    BY <1>1, <1>5, <1>7, ExtendedReads
  <1>9. longer = [chunks |-> ds, offset |-> o, len |-> len + 1]
    OBVIOUS
  <1>11. longer.chunks = ds /\ longer.offset = o /\ longer.len = len + 1
    BY <1>9
  <1> HIDE DEF v, longer, g, len, o
  <1>12. /\ DOMAIN made = {g.at} /\ made[g.at] = g.chunk /\ IsFiniteSet(DOMAIN made)
         /\ \A p \in DOMAIN made : ~IsShared(h, p)
    BY <1>7, FS_Singleton
  <1>13. ASSUME NEW w, \A i \in DOMAIN w.chunks : w.chunks[i] = ds[i]
         PROVE  Written(made, w) = [i \in DOMAIN w.chunks |-> IF ds[i] = g.at THEN g.chunk ELSE heap[ds[i]]]
    BY <1>12, <1>13 DEF Written
  <1> HIDE DEF made
  <1>14. Written(made, longer) = r
    BY <1>11, <1>13
  <1>15. ASSUME NEW w, \A i \in DOMAIN w.chunks : w.chunks[i] = ds[i + 1]
         PROVE  Written(made, w)
                  = [i \in DOMAIN w.chunks |-> IF ds[i + 1] = g.at THEN g.chunk ELSE heap[ds[i + 1]]]
    BY <1>12, <1>15 DEF Written
  <1>16. Len(more) = len + 1
    BY <1>1, <1>6
  <1> HIDE DEF more
  <1>17. CASE ~(len + 1 > MaxKept)
    <2>1. kept = more
      BY <1>16, <1>17 DEF Histories!Trimmed
    <2>2. Set(h, longer, made)
      BY <1>2, <1>11, <1>17
    <2>3. len + 1 <= MaxKept
      BY <1>6, <1>17
    <2> HIDE DEF kept, r, ds
    <2>4. ChunksInv' /\ Histories!Becomes(h, more)
      BY <1>1, <1>7, <1>8, <1>9, <1>11, <1>12, <1>14, <2>2, <2>3, SetKeeps
    <2> QED BY <1>1, <1>3, <1>4, <2>1, <2>4 DEF kept, more
  <1>18. CASE len + 1 > MaxKept
    <2>1. len = MaxKept /\ len + 1 > 1 /\ len + 1 - MaxKept + 1 = 2 /\ len + 1 - 1 = len
      BY <1>6, <1>18
    <2>2. kept = SubSeq(more, 2, len + 1)
      <3>1. Len(more) - MaxKept + 1 = 2 /\ Len(more) > MaxKept
        BY <1>6, <1>16, <1>18
      <3> QED BY <1>16, <3>1, Zenon DEF Histories!Trimmed
    <2>3. /\ Tail(ds) \in Seq(DOMAIN heap \cup {g.at}) /\ IsInjective(Tail(ds))
          /\ Len(ds) \in Nat \ {0} /\ DOMAIN Tail(ds) = 1..Len(ds) - 1
          /\ \A i \in 1..Len(ds) - 1 : Tail(ds)[i] = ds[i + 1] /\ i + 1 \in 1..Len(ds)
      BY <1>7, TailOf
    <2>4. DOMAIN ds = 1..Len(ds) /\ Head(ds) = ds[1]
      BY <1>7
    <2> HIDE DEF ds
    <2>5. r[1] = IF ds[1] = g.at THEN g.chunk ELSE heap[ds[1]]
      BY <2>3, <2>4
    <2>6. ds[1] = g.at <=> Len(ds) = 1
      BY <1>7, <2>3, <2>4 DEF IsInjective
    <2>7. firstLen = Len(r[1])
      BY <2>4, <2>5, <2>6
    <2> HIDE DEF firstLen, kept
    <2>8. /\ o + 1 = firstLen => Sized(Tail(r), 0, len) /\ Sampled(Tail(r), 0, len, kept)
          /\ o + 1 # firstLen => Sized(r, o + 1, len) /\ Sampled(r, o + 1, len, kept)
      <3> HIDE DEF r
      <3> DEFINE more1 == len + 1
      <3>0. more1 > 1 /\ more1 - 1 = len /\ kept = SubSeq(more, 2, more1)
            /\ Sized(r, o, more1) /\ Sampled(r, o, more1, more)
        BY <1>6, <1>8, <2>1, <2>2
      <3> HIDE DEF more1
      <3>1. IF o + 1 = Len(r[1])
            THEN Sized(Tail(r), 0, more1 - 1) /\ Sampled(Tail(r), 0, more1 - 1, kept)
            ELSE Sized(r, o + 1, more1 - 1) /\ Sampled(r, o + 1, more1 - 1, kept)
        BY <3>0, PoppedReads
      <3> QED BY <2>7, <3>0, <3>1
    <2>9. Set(h, Popped(longer, firstLen), made)
      BY <1>2, <1>11, <1>18 DEF firstLen
    <2>10. CASE o + 1 = firstLen
      <3> DEFINE w == [chunks |-> Tail(ds), offset |-> 0, len |-> len]
      <3>1. Popped(longer, firstLen) = w
        <4>1. longer.offset + 1 = firstLen /\ longer.len - 1 = len
          BY <1>6, <1>11, <2>1, <2>10
        <4> QED BY <1>11, <4>1, Zenon DEF Popped
      <3>2. w.chunks = Tail(ds) /\ w.offset = 0 /\ w.len = len
        OBVIOUS
      <3>3. Written(made, w)
              = [i \in 1..Len(ds) - 1 |-> IF ds[i + 1] = g.at THEN g.chunk ELSE heap[ds[i + 1]]]
        BY <1>15, <2>3, <3>2
      <3>4. Tail(r) = [i \in 1..Len(ds) - 1 |-> IF ds[i + 1] = g.at THEN g.chunk ELSE heap[ds[i + 1]]]
        <4>1. r \in Seq(Seq(Measurements)) /\ DOMAIN r = 1..Len(ds)
          BY <1>8, <2>4 DEF Sized, Chunked
        <4>2. \A i \in 1..Len(ds) - 1 : r[i + 1] = IF ds[i + 1] = g.at THEN g.chunk ELSE heap[ds[i + 1]]
          BY <2>3, <2>4
        <4> DEFINE n == Len(ds)
        <4> HIDE DEF r, n
        <4>3. Len(r) = n /\ n \in Nat
          BY <2>3, <4>1 DEF n
        <4> DEFINE t == Tail(r)
        <4>4. t \in Seq(Seq(Measurements)) /\ Len(t) = n - 1 /\ \A i \in 1..n - 1 : t[i] = r[i + 1]
          <5>1. n > 0
            BY <2>3 DEF n
          <5> QED BY <4>1, <4>3, <5>1
        <4> HIDE DEF t
        <4>5. t = [i \in 1..n - 1 |-> t[i]]
          BY <4>4
        <4>6. t = [i \in 1..n - 1 |-> IF ds[i + 1] = g.at THEN g.chunk ELSE heap[ds[i + 1]]]
          BY <4>2, <4>4, <4>5 DEF n
        <4> QED BY <4>6 DEF n, t
      <3> HIDE DEF w, r
      <3>5. Sized(Written(made, w), w.offset, w.len) /\ Sampled(Written(made, w), w.offset, w.len, kept)
        BY <2>8, <2>10, <3>2, <3>3, <3>4
      <3>6. w = [chunks |-> w.chunks, offset |-> w.offset, len |-> w.len]
        BY DEF w
      <3>7. ChunksInv' /\ Histories!Becomes(h, kept)
        BY <1>1, <1>6, <1>12, <2>3, <2>9, <3>1, <3>2, <3>5, <3>6, SetKeeps
      <3> QED BY <1>1, <1>3, <1>4, <3>7 DEF kept, more
    <2>11. CASE o + 1 # firstLen
      <3> DEFINE w == [chunks |-> ds, offset |-> o + 1, len |-> len]
      <3>1. Popped(longer, firstLen) = w
        <4>1. longer.offset + 1 # firstLen /\ longer.offset + 1 = o + 1 /\ longer.len - 1 = len
          BY <1>6, <1>11, <2>1, <2>11
        <4> QED BY <1>11, <4>1, Zenon DEF Popped
      <3>2. w.chunks = ds /\ w.offset = o + 1 /\ w.len = len
        OBVIOUS
      <3>3. Written(made, w) = r
        BY <1>13, <3>2
      <3> HIDE DEF w, r
      <3>5. Sized(Written(made, w), w.offset, w.len) /\ Sampled(Written(made, w), w.offset, w.len, kept)
        BY <2>8, <2>11, <3>2, <3>3
      <3>6. w = [chunks |-> w.chunks, offset |-> w.offset, len |-> w.len]
        BY DEF w
      <3>7. ChunksInv' /\ Histories!Becomes(h, kept)
        BY <1>1, <1>6, <1>7, <1>12, <2>9, <3>1, <3>2, <3>5, <3>6, SetKeeps
      <3> QED BY <1>1, <1>3, <1>4, <3>7 DEF kept, more
    <2> QED BY <2>10, <2>11
  <1> QED BY <1>17, <1>18
\* Nothing is added by a filter.
LEMMA FilteredIsNoLonger ==
  ASSUME NEW T, NEW s \in Seq(T), NEW S
  PROVE  Len(Filtered(s, S)) <= Len(s)
  <1> DEFINE f == Filtered(s, S)
             n == Len(s)
             k == Len(f)
  <1>1. PICK p : Places(s, S, n, f, p)
    BY FilteredPlaces
  <1>2. n \in Nat /\ k \in Nat
    BY FilteredPlaces
  <1> HIDE DEF f, n, k
  <1>3. p \in [1..k -> 1..n] /\ \A i, j \in 1..k : i < j => p[i] < p[j]
    BY <1>1 DEF Places, k
  <1>4. \A i, j \in 1..k : p[i] = p[j] => i = j
    <2> SUFFICES ASSUME NEW i \in 1..k, NEW j \in 1..k, p[i] = p[j], i # j PROVE FALSE
      OBVIOUS
    <2>1. p[i] \in 1..n /\ p[j] \in 1..n /\ (i < j \/ j < i)
      BY <1>2, <1>3
    <2>2. p[i] < p[j] \/ p[j] < p[i]
      BY <1>3, <2>1
    <2> DEFINE a == p[i]
               b == p[j]
    <2>3. a \in 1..n /\ b \in 1..n /\ a = b /\ (a < b \/ b < a)
      BY <2>1, <2>2
    <2> HIDE DEF a, b
    <2> QED BY <1>2, <2>3
  <1>5. p \in Injection(1..k, 1..n)
    BY <1>3, <1>4 DEF Injection, IsInjective
  <1>6. /\ IsFiniteSet(1..n) /\ Cardinality(1..n) = n
        /\ IsFiniteSet(1..k) /\ Cardinality(1..k) = k
    BY <1>2, IntervalIs
  <1>7. Cardinality(1..k) <= Cardinality(1..n)
    BY <1>5, <1>6, FS_Injection
  <1>8. k <= n
    BY <1>6, <1>7
  <1> QED BY <1>8 DEF k, n, f

LEMMA ElementsAreFinite ==
  ASSUME NEW T, NEW s \in Seq(T)
  PROVE  IsFiniteSet(ToSet(s))
  <1>1. Len(s) \in Nat /\ DOMAIN s = 1..Len(s)
    OBVIOUS
  <1>2. s \in [1..Len(s) -> ToSet(s)]
    BY <1>1 DEF ToSet
  <1>3. \A x \in ToSet(s) : \E i \in 1..Len(s) : s[i] = x
    BY <1>1 DEF ToSet
  <1>4. s \in Surjection(1..Len(s), ToSet(s))
    BY <1>2, <1>3 DEF Surjection
  <1>5. IsFiniteSet(1..Len(s))
    BY <1>1, IntervalIs
  <1> QED BY <1>4, <1>5, FS_Surjection

\* A reference that was not there is nobody's.
LEMMA NewIsNotShared ==
  ASSUME ChunksInv, NEW h \in Holders, NEW r, r \notin DOMAIN heap
  PROVE  ~IsShared(h, r)
  BY DEF ChunksInv, IsVersion, IsShared, ToSet

LEMMA ChunksCounted ==
  ASSUME NEW l \in Nat
  PROVE  (l + ChunkSize - 1) \div ChunkSize \in Nat
  <1> DEFINE c == ChunkSize
             m == l + c - 1
  <1>1. c \in Nat \ {0} /\ m \in Nat
    BY ChunksAssumption
  <1> HIDE DEF m, c
  <1>2. m \div c \in Nat
    BY <1>1, Division
  <1> QED BY <1>2 DEF m, c

\* The chunks of a version made anew.
LEMMA CollectedIs ==
  ASSUME ChunksInv, NEW h \in Holders, NEW f \in Seq(Measurements)
  PROVE  LET made == Collected(f)
             v == made.version
             chunks == made.chunks
         IN  /\ v = [chunks |-> v.chunks, offset |-> 0, len |-> Len(f)]
             /\ v.chunks \in Seq(DOMAIN heap \cup DOMAIN chunks) /\ IsInjective(v.chunks)
             /\ IsFiniteSet(DOMAIN chunks) /\ \A r \in DOMAIN chunks : ~IsShared(h, r)
             /\ Written(chunks, v) = Cut(f, (Len(f) + ChunkSize - 1) \div ChunkSize)
  <1> DEFINE n == (Len(f) + ChunkSize - 1) \div ChunkSize
             free == FreeRefs(n)
             refs == SubSeq(free, 1, n)
             piece(i) == SubSeq(f, (i - 1) * ChunkSize + 1,
                                IF i * ChunkSize < Len(f) THEN i * ChunkSize ELSE Len(f))
             chunks == [r \in ToSet(refs) |-> LET i == CHOOSE i \in DOMAIN refs : refs[i] = r
                                              IN  piece(i)]
             v == [chunks |-> refs, offset |-> 0, len |-> Len(f)]
  <1>1. n \in Nat
    BY ChunksCounted
  <1>2. Collected(f) = [version |-> v, chunks |-> chunks]
    BY DEF Collected
  <1>3. Collected(f).version = v /\ Collected(f).chunks = chunks
    <2> HIDE DEF v, chunks
    <2> QED BY <1>2
  <1> HIDE DEF n
  <1>4. /\ free \in Seq(Nat) /\ Len(free) >= n /\ Len(free) \in Nat
        /\ \A i \in 1..n : free[i] \notin DOMAIN heap
        /\ \A i, j \in 1..n : free[i] = free[j] => i = j
    BY <1>1, FreshRefs DEF ChunksInv
  <1> HIDE DEF free
  <1>5. /\ refs \in Seq(Nat) /\ Len(refs) = n /\ DOMAIN refs = 1..n /\ \A i \in 1..n : refs[i] = free[i]
    BY <1>1, <1>4
  <1> HIDE DEF refs, piece
  <1>6. /\ \A i, j \in 1..n : refs[i] = refs[j] => i = j
        /\ \A i \in 1..n : refs[i] \notin DOMAIN heap
    BY <1>4, <1>5
  <1>7. IsInjective(refs)
    BY <1>5, <1>6 DEF IsInjective
  <1>8. ToSet(refs) = {refs[i] : i \in 1..n}
    BY <1>5 DEF ToSet
  <1>9. DOMAIN chunks = ToSet(refs)
    OBVIOUS
  <1>10. IsFiniteSet(DOMAIN chunks)
    BY <1>5, <1>9, ElementsAreFinite
  <1>11. \A r \in DOMAIN chunks : ~IsShared(h, r)
    BY <1>6, <1>8, <1>9, NewIsNotShared
  <1>12. refs \in Seq(DOMAIN heap \cup DOMAIN chunks)
    <2>1. \A i \in 1..n : refs[i] \in DOMAIN chunks
      BY <1>8, <1>9
    <2> HIDE DEF chunks
    <2> QED BY <1>5, <2>1
  <1>13. \A i \in 1..n : chunks[refs[i]] = piece(i) /\ refs[i] \in DOMAIN chunks
    <2> SUFFICES ASSUME NEW i \in 1..n PROVE chunks[refs[i]] = piece(i) /\ refs[i] \in DOMAIN chunks
      OBVIOUS
    <2>1. refs[i] \in ToSet(refs)
      BY <1>8
    <2>2. (CHOOSE j \in DOMAIN refs : refs[j] = refs[i]) = i
      BY <1>5, <1>6
    <2>3. chunks[refs[i]] = LET j == CHOOSE j \in DOMAIN refs : refs[j] = refs[i] IN piece(j)
      BY <2>1
    <2> QED BY <2>1, <2>2, <2>3
  <1> HIDE DEF chunks
  <1>14. v.chunks = refs /\ v.offset = 0 /\ v.len = Len(f)
    OBVIOUS
  <1>15. Written(chunks, v) = [i \in 1..n |-> piece(i)]
    <2>1. Written(chunks, v)
            = [i \in 1..n |-> IF refs[i] \in DOMAIN chunks THEN chunks[refs[i]] ELSE heap[refs[i]]]
      BY <1>5 DEF Written
    <2> QED BY <1>13, <2>1
  <1>16. Cut(f, n) = [i \in 1..n |-> piece(i)]
    BY DEF Cut, piece
  <1>17. v = [chunks |-> v.chunks, offset |-> 0, len |-> Len(f)]
    OBVIOUS
  <1> HIDE DEF v
  <1> QED BY <1>3, <1>7, <1>10, <1>11, <1>12, <1>14, <1>15, <1>16, <1>17 DEF n
\* retain
LEMMA SelectReads ==
  ASSUME ChunksInv, NEW h \in Holders, NEW last \in SampleTimes, RetainUpTo(h, last)
  PROVE  ChunksInv' /\ Histories!Becomes(h, Filtered(Seen[h], Histories!UpTo(last)))
  <1> DEFINE u == version[h]
             s == Iterated(u)
             f == Filtered(s, Histories!UpTo(last))
             v == Collected(f).version
             chunks == Collected(f).chunks
             n == (Len(f) + ChunkSize - 1) \div ChunkSize
             q == Cut(f, n)
  <1>1. Set(h, v, chunks) /\ taken' \in SampleTimes
    BY DEF RetainUpTo, Edit, ChunksInv
  <1>2. Sized(ChunksOf(heap, u), u.offset, u.len) /\ Sampled(ChunksOf(heap, u), u.offset, u.len, s)
        /\ u.len <= MaxKept
    BY IteratedHolds DEF ChunksInv, IsVersion
  <1>3. s \in Seq(Measurements) /\ Len(s) <= MaxKept /\ Len(s) \in Nat
    BY <1>2 DEF Sampled
  <1>4. Seen[h] = s
    BY DEF Seen
  <1> HIDE DEF s, u
  <1>5. f \in Seq(Measurements) /\ Len(f) <= Len(s)
    BY <1>3, FilteredPlaces, FilteredIsNoLonger
  <1> HIDE DEF f
  <1>6. Len(f) <= MaxKept
    <2> DEFINE a == Len(f)
               b == Len(s)
    <2>1. a \in Nat /\ b \in Nat /\ a <= b /\ b <= MaxKept /\ MaxKept \in Nat
      BY <1>3, <1>5, ChunksAssumption
    <2> HIDE DEF a, b
    <2>2. a <= MaxKept
      BY <2>1
    <2> QED BY <2>2 DEF a
  <1>7. /\ v = [chunks |-> v.chunks, offset |-> 0, len |-> Len(f)]
        /\ v.chunks \in Seq(DOMAIN heap \cup DOMAIN chunks) /\ IsInjective(v.chunks)
        /\ IsFiniteSet(DOMAIN chunks) /\ \A r \in DOMAIN chunks : ~IsShared(h, r)
        /\ Written(chunks, v) = q
    BY <1>5, CollectedIs
  <1> HIDE DEF v, chunks, n, q
  <1>8. v.offset = 0 /\ v.len = Len(f)
    BY <1>7
  <1>9. Sized(q, 0, Len(f)) /\ Sampled(q, 0, Len(f), f)
    BY <1>5, CutReads DEF q, n
  <1>10. v = [chunks |-> v.chunks, offset |-> v.offset, len |-> v.len] /\ v.len <= MaxKept
    BY <1>6, <1>7, <1>8
  <1>11. Sized(Written(chunks, v), v.offset, v.len) /\ Sampled(Written(chunks, v), v.offset, v.len, f)
    BY <1>7, <1>8, <1>9
  <1>12. ChunksInv' /\ Histories!Becomes(h, f)
    BY <1>1, <1>7, <1>10, <1>11, SetKeeps
  <1> QED BY <1>4, <1>12 DEF f

\* iter_mut
LEMMA RewriteReads ==
  ASSUME ChunksInv, NEW h \in Holders, Rewrite(h)
  PROVE  /\ ChunksInv'
         /\ Histories!Becomes(h, [k \in DOMAIN Seen[h] |-> [Seen[h][k] EXCEPT !.value = "revalued"]])
  <1> DEFINE v == version[h]
             q == ChunksOf(heap, v)
             s == Iterated(v)
             o == v.offset
             len == v.len
             old == v.chunks
             n == Len(old)
             free == FreeRefs(n)
             refs == OwnChunks(h)
             valued(i, k, x) == IF i > 1 \/ k > o THEN [x EXCEPT !.value = "revalued"] ELSE x
             chunk(i) == [k \in DOMAIN heap[old[i]] |-> valued(i, k, heap[old[i]][k])]
             chunks == [r \in ToSet(refs) |-> LET i == CHOOSE i \in DOMAIN refs : refs[i] = r
                                              IN  chunk(i)]
             w == [v EXCEPT !.chunks = refs]
             t == [k \in DOMAIN s |-> [s[k] EXCEPT !.value = "revalued"]]
  <1>1. IsVersion(heap, v)
    BY DEF ChunksInv
  <1>2. Set(h, w, chunks) /\ taken' \in SampleTimes
    BY DEF Rewrite, Edit, ChunksInv
  <1>3. Sized(q, o, len) /\ Sampled(q, o, len, s)
    BY <1>1, IteratedHolds DEF IsVersion
  <1>4. Seen[h] = s
    BY DEF Seen
  <1>5. /\ old \in Seq(DOMAIN heap) /\ n \in Nat /\ DOMAIN old = 1..n /\ IsInjective(old)
        /\ v = [chunks |-> old, offset |-> o, len |-> len] /\ len <= MaxKept
    BY <1>1 DEF IsVersion
  <1>6. q = [i \in 1..n |-> heap[old[i]]] /\ Len(q) = n
    <2>1. q = [i \in 1..n |-> heap[old[i]]]
      BY <1>5 DEF ChunksOf
    <2>2. q \in Seq(Seq(Measurements)) /\ DOMAIN q = 1..n
      BY <1>3, <2>1 DEF Sized, Chunked
    <2> HIDE DEF q, n
    <2>3. Len(q) = n
      BY <1>5, <2>2
    <2> QED BY <2>1, <2>3
  <1>7. w = [chunks |-> refs, offset |-> o, len |-> len]
    <2> HIDE DEF v, refs, old, o, len
    <2> QED BY <1>5
  <1>8. refs = [i \in 1..n |-> IF IsShared(h, old[i]) THEN free[i] ELSE old[i]]
    BY <1>5 DEF OwnChunks
  <1>9. /\ free \in Seq(Nat) /\ Len(free) >= n
        /\ \A i \in 1..n : free[i] \notin DOMAIN heap
        /\ \A i, j \in 1..n : free[i] = free[j] => i = j
    BY <1>5, FreshRefs DEF ChunksInv
  <1> HIDE DEF v, q, s, o, len, old, n, free, refs, w
  <1>10. \A i \in 1..n : old[i] \in DOMAIN heap
    BY <1>5
  <1>11. \A i, j \in 1..n : old[i] = old[j] => i = j
    BY <1>5 DEF IsInjective
  <1>12. \A i, j \in 1..n : refs[i] = refs[j] => i = j
    BY <1>8, <1>9, <1>10, <1>11
  <1>13. DOMAIN refs = 1..n /\ IsInjective(refs) /\ ToSet(refs) = {refs[i] : i \in 1..n}
    BY <1>8, <1>12 DEF IsInjective, ToSet
  <1>14. \A i \in 1..n : ~IsShared(h, refs[i])
    BY <1>8, <1>9, NewIsNotShared
  <1>15. DOMAIN chunks = ToSet(refs) /\ \A i \in 1..n : refs[i] \in DOMAIN chunks
    BY <1>13
  <1>16. refs \in Seq(DOMAIN chunks) /\ refs \in Seq(DOMAIN heap \cup DOMAIN chunks)
    <2> HIDE DEF chunks
    <2>1. refs = [i \in 1..n |-> refs[i]]
      BY <1>8
    <2>2. \A i \in 1..n : refs[i] \in DOMAIN heap \cup DOMAIN chunks
      BY <1>15
    <2> QED BY <1>5, <1>15, <2>1, <2>2, ListOf
  <1>17. IsFiniteSet(DOMAIN chunks)
    BY <1>15, <1>16, ElementsAreFinite
  <1>18. \A r \in DOMAIN chunks : ~IsShared(h, r)
    BY <1>13, <1>14, <1>15
  <1> HIDE DEF chunk
  <1>19. \A i \in 1..n : chunks[refs[i]] = chunk(i)
    <2> SUFFICES ASSUME NEW i \in 1..n PROVE chunks[refs[i]] = chunk(i)
      OBVIOUS
    <2>1. refs[i] \in ToSet(refs)
      BY <1>13
    <2>2. (CHOOSE j \in DOMAIN refs : refs[j] = refs[i]) = i
      BY <1>12, <1>13
    <2>3. chunks[refs[i]] = LET j == CHOOSE j \in DOMAIN refs : refs[j] = refs[i] IN chunk(j)
      BY <2>1
    <2> QED BY <2>2, <2>3
  <1> HIDE DEF chunks
  <1>20. w.chunks = refs /\ w.offset = o /\ w.len = len
    BY <1>7
  <1> DEFINE r == [i \in 1..n |-> chunk(i)]
  <1>21. Written(chunks, w) = r
    <2>1. Written(chunks, w)
            = [i \in 1..n |-> IF refs[i] \in DOMAIN chunks THEN chunks[refs[i]] ELSE heap[refs[i]]]
      BY <1>13, <1>20 DEF Written
    <2> QED BY <1>15, <1>19, <2>1
  <1>22. ASSUME NEW i \in 1..n
         PROVE  /\ chunk(i) \in Seq(Measurements) /\ Len(chunk(i)) = Len(q[i])
                /\ \A j \in 1..Len(q[i]) :
                     Spot(i, j) > o => chunk(i)[j] = [q[i][j] EXCEPT !.value = "revalued"]
    <2> DEFINE c == q[i]
               l == Len(c)
    <2>0. q \in Seq(Seq(Measurements))
      BY <1>3 DEF Sized, Chunked
    <2>1. c = heap[old[i]] /\ c \in Seq(Measurements) /\ l \in Nat /\ DOMAIN c = 1..l
      <3>1. c = heap[old[i]]
        BY <1>6
      <3>2. i \in 1..Len(q)
        BY <1>6
      <3>3. c \in Seq(Measurements)
        BY <2>0, <3>2
      <3> HIDE DEF c
      <3> QED BY <3>1, <3>3
    <2>2. chunk(i) = [k \in 1..l |-> valued(i, k, c[k])]
      BY <2>1 DEF chunk
    <2> HIDE DEF c, l
    <2>3. \A k \in 1..l : c[k] \in Measurements
      BY <2>1
    <2>4. \A x \in Measurements : [x EXCEPT !.value = "revalued"] \in Measurements
      BY DEF Measurements, Readings
    <2>5. \A k \in 1..l : valued(i, k, c[k]) \in Measurements
      BY <2>3, <2>4
    <2>6. \A j \in 1..l : Spot(i, j) > o => i > 1 \/ j > o
      <3> SUFFICES ASSUME NEW j \in 1..l, Spot(i, j) > o, ~(i > 1) PROVE j > o
        OBVIOUS
      <3>1. i = 1 /\ j \in Nat
        BY <1>5, <2>1
      <3>2. Spot(1, j) = j
        BY <3>1, SpotIs
      <3> QED BY <3>1, <3>2
    <2>7. \A j \in 1..l : Spot(i, j) > o => chunk(i)[j] = [c[j] EXCEPT !.value = "revalued"]
      BY <2>2, <2>6
    <2> DEFINE d == chunk(i)
    <2>8. d = [k \in 1..l |-> d[k]] /\ \A k \in 1..l : d[k] \in Measurements
      BY <2>2, <2>5
    <2> HIDE DEF d
    <2>9. d \in Seq(Measurements) /\ Len(d) = l
      BY <2>1, <2>8, ListOf
    <2> QED BY <2>7, <2>9 DEF d, l, c
  <1>23. r \in Seq(Seq(Measurements)) /\ Len(r) = n /\ \A i \in 1..n : r[i] = chunk(i)
    <2>1. r = [i \in 1..n |-> r[i]] /\ \A i \in 1..n : r[i] \in Seq(Measurements) /\ r[i] = chunk(i)
      BY <1>22
    <2> HIDE DEF r
    <2> QED BY <1>5, <2>1, ListOf
  <1> HIDE DEF r
  <1>24. Sized(r, o, len) /\ Sampled(r, o, len, t)
    <2>1. \A i \in 1..Len(q) : Len(r[i]) = Len(q[i])
      BY <1>6, <1>22, <1>23
    <2>2. \A i \in 1..Len(q) : \A j \in 1..Len(q[i]) :
            Spot(i, j) > o => r[i][j] = [q[i][j] EXCEPT !.value = "revalued"]
      BY <1>6, <1>22, <1>23
    <2>3. "revalued" \in Readings
      BY DEF Readings
    <2>4. Revalued(q, o, r, "revalued")
      BY <1>6, <1>23, <2>1, <2>2 DEF Revalued
    <2> QED BY <1>3, <2>3, <2>4, RevaluedReads
  <1>25. w = [chunks |-> w.chunks, offset |-> w.offset, len |-> w.len] /\ w.len <= MaxKept
    BY <1>5, <1>7, <1>20
  <1> HIDE DEF t
  <1>26. ChunksInv' /\ Histories!Becomes(h, t)
    BY <1>2, <1>13, <1>16, <1>17, <1>18, <1>20, <1>21, <1>24, <1>25, SetKeeps
  <1> QED BY <1>4, <1>26 DEF t
LEMMA ChunksStart ==
  ASSUME ChunksInit
  PROVE  ChunksInv /\ Histories!HistoryInit
  <1> DEFINE v == NoSamples
  <1>1. heap = << >> /\ version = [h \in Holders |-> v] /\ taken = 0
    BY DEF ChunksInit
  <1>2. v = [chunks |-> << >>, offset |-> 0, len |-> 0] /\ v.chunks = << >> /\ v.offset = 0 /\ v.len = 0
    BY DEF NoSamples
  <1>3. ChunksOf(heap, v) = << >>
    BY <1>2 DEF ChunksOf
  <1>4. /\ << >> \in Seq(Seq(Measurements)) /\ << >> \in Seq(Measurements) /\ Len(<< >>) = 0
        /\ << >> \in Seq(DOMAIN heap) /\ IsInjective(<< >>)
    BY DEF IsInjective
  <1>5. Sized(<< >>, 0, 0)
    BY <1>4 DEF Sized, Chunked
  <1>6. Sampled(<< >>, 0, 0, << >>)
    BY <1>4 DEF Sampled
  <1>7. 0 <= MaxKept /\ 0 \in SampleTimes
    BY ChunksAssumption DEF SampleTimes
  <1> HIDE DEF v
  <1>8. IsVersion(heap, v)
    BY <1>2, <1>3, <1>4, <1>5, <1>7 DEF IsVersion
  <1>9. ChunksInv
    BY <1>1, <1>7, <1>8, NoChunks DEF ChunksInv
  <1>10. Sampled(<< >>, 0, 0, Iterated(v))
    BY <1>2, <1>3, <1>8, IteratedHolds
  <1>11. Iterated(v) = << >>
    BY <1>5, <1>6, <1>10, Determined
  <1>12. \A h \in Holders : Iterated(version[h]) = << >>
    BY <1>1, <1>11
  <1> QED BY <1>9, <1>12 DEF Histories!HistoryInit

\* A version that becomes what it was changes nothing.
LEMMA Becoming ==
  ASSUME NEW h \in Holders, NEW s, Histories!Becomes(h, s)
  PROVE  Seen' = Seen \/ Seen'[h] # Seen[h]
  <1>1. Seen' = [Seen EXCEPT ![h] = s] /\ DOMAIN Seen = Holders
    BY DEF Histories!Becomes, Seen
  <1>2. Seen'[h] = s
    BY <1>1
  <1>3. CASE s = Seen[h]
    <2>1. Seen' = [g \in Holders |-> Seen[g]]
      BY <1>1, <1>3
    <2>2. Seen = [g \in Holders |-> Seen[g]]
      BY DEF Seen
    <2> QED BY <2>1, <2>2
  <1> QED BY <1>2, <1>3

\* What a holder sees of an operation is an operation on its samples alone.
LEMMA SeenAs ==
  ASSUME NEW h \in Holders, NEW s, Histories!Becomes(h, s),
         Histories!Observe(h) \/ Histories!Copy(h) \/ Histories!Forget(h) \/ Histories!Select(h)
           \/ Histories!Revalue(h)
  PROVE  Histories!HistoryNext \/ Seen' = Seen
  BY Becoming DEF Histories!HistoryNext, Seen

LEMMA SameRead ==
  ASSUME ChunksInv, UNCHANGED <<heap, version>>, taken' \in SampleTimes
  PROVE  ChunksInv' /\ Seen' = Seen
  <1>1. \A h \in Holders : Iterated(version[h])' = Iterated(version[h])
    BY DEF Iterated
  <1>2. Seen' = Seen
    BY <1>1 DEF Seen
  <1>3. ChunksInv'
    BY DEF ChunksInv
  <1> QED BY <1>2, <1>3

LEMMA ChunksStep ==
  ASSUME ChunksInv, [ChunksNext]_chunksVars
  PROVE  ChunksInv' /\ (Histories!HistoryNext \/ Seen' = Seen)
  <1>1. CASE PassTime
    <2>1. taken' \in SampleTimes
      BY <1>1, ChunksAssumption DEF PassTime, ChunksInv, SampleTimes
    <2> QED BY <1>1, <2>1, SameRead DEF PassTime
  <1>2. CASE UNCHANGED chunksVars
    <2>1. UNCHANGED <<heap, version>> /\ taken' \in SampleTimes
      BY <1>2 DEF chunksVars, ChunksInv
    <2> QED BY <2>1, SameRead
  <1>3. ASSUME NEW h \in Holders, Record(h) PROVE ChunksInv' /\ (Histories!HistoryNext \/ Seen' = Seen)
    <2>1. ChunksInv'
      BY <1>3, RecordReads
    <2>2. PICK x \in Measurements :
            /\ Seen[h] # << >> => Seen[h][Len(Seen[h])].at # x.at
            /\ Histories!Becomes(h, Histories!Trimmed(Append(Seen[h], x)))
      BY <1>3, RecordReads
    <2>3. Histories!Observe(h)
      BY <2>2 DEF Histories!Observe, Measurements, Seen
    <2> QED BY <2>1, <2>2, <2>3, SeenAs
  <1>4. ASSUME NEW h \in Holders, DropVersion(h)
        PROVE  ChunksInv' /\ (Histories!HistoryNext \/ Seen' = Seen)
    <2>1. ChunksInv' /\ Histories!Becomes(h, << >>)
      BY <1>4, DropReads
    <2>2. Histories!Forget(h)
      BY <2>1 DEF Histories!Forget
    <2> QED BY <2>1, <2>2, SeenAs
  <1>5. ASSUME NEW h \in Holders, Rewrite(h)
        PROVE  ChunksInv' /\ (Histories!HistoryNext \/ Seen' = Seen)
    <2> DEFINE s == [k \in DOMAIN Seen[h] |-> [Seen[h][k] EXCEPT !.value = "revalued"]]
    <2>1. ChunksInv' /\ Histories!Becomes(h, s)
      BY <1>5, RewriteReads
    <2>2. "revalued" \in Readings
      BY DEF Readings
    <2>3. Histories!Revalue(h)
      BY <2>1, <2>2 DEF Histories!Revalue, Seen
    <2> HIDE DEF s
    <2> QED BY <2>1, <2>3, SeenAs
  <1>6. ASSUME NEW h \in Holders, NEW to \in Holders, Clone(h, to)
        PROVE  ChunksInv' /\ (Histories!HistoryNext \/ Seen' = Seen)
    <2>1. ChunksInv' /\ Histories!Becomes(to, Seen[h])
      BY <1>6, CloneReads
    <2>2. Histories!Copy(to)
      BY <2>1 DEF Histories!Copy, Seen
    <2> QED BY <2>1, <2>2, SeenAs
  <1>7. ASSUME NEW h \in Holders, NEW last \in SampleTimes, RetainUpTo(h, last)
        PROVE  ChunksInv' /\ (Histories!HistoryNext \/ Seen' = Seen)
    <2> DEFINE s == Filtered(Seen[h], Histories!UpTo(last))
    <2>1. ChunksInv' /\ Histories!Becomes(h, s)
      BY <1>7, SelectReads
    <2>2. \A u, S : Histories!Filtered(u, S) = Filtered(u, S)
      BY DEF Histories!Filtered, Filtered
    <2>3. Histories!Filtered(Seen[h], Histories!UpTo(last)) = s
      BY <2>2
    <2>4. Histories!Becomes(h, Histories!Filtered(Seen[h], Histories!UpTo(last)))
      BY <2>1, <2>3
    <2>5. Histories!Select(h)
      BY <2>4, Zenon DEF Histories!Select, Seen
    <2> HIDE DEF s
    <2> QED BY <2>1, <2>5, SeenAs
  <1> QED BY <1>1, <1>2, <1>3, <1>4, <1>5, <1>6, <1>7 DEF ChunksNext

\* Versions that share chunks are values to whoever reads them: a clone, a
\* push, a trim, a selection and a rewrite of one are each an operation on its
\* own samples and change no other holder's, with access by index and
\* iteration agreeing, for any number of holders and any size of chunk and
\* series.
THEOREM VersionsCorrect == ChunksSpec => VersionsAreValues
  <1>1. ChunksInit => ChunksInv /\ Histories!HistoryInit
    BY ChunksStart
  <1>2. ChunksInv /\ [ChunksNext]_chunksVars => ChunksInv' /\ [Histories!HistoryNext]_Seen
    BY ChunksStep
  <1>3. ChunksInv => \A h \in Holders : IndexIsIteration(version[h])
    BY IndexAgrees DEF ChunksInv
  <1> QED BY <1>1, <1>2, <1>3, PTL DEF ChunksSpec, VersionsAreValues, Histories!HistorySpec, Seen

=============================================================================
