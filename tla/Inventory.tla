----------------------------- MODULE Inventory -----------------------------
(***************************************************************************)
(* What the topology workers keep between their polls (inventory.rs,       *)
(* irq.rs): counters and histories of devices and cgroups, a cache of      *)
(* cgroup limits, the modules seen before and the affinity of an IRQ.      *)
(*                                                                         *)
(* One device, one cgroup below a parent, one module among others and one  *)
(* IRQ, each changed by the host between polls; a poll is one step.  A     *)
(* subject that is replaced keeps its name and gets a new number, as it    *)
(* gets a new inode.                                                       *)
(***************************************************************************)
EXTENDS Integers, FiniteSets, Functions

CONSTANTS
  Period,       \* time between polls of modules, and between discoveries of cgroups (5 s)
  Keep,         \* time a counter is remembered (60 s)
  MaxClock,     \* bound: the clock
  MaxChanges    \* bound: changes of the host

ASSUME InventoryAssumption ==
  /\ Period \in Nat \ {0} /\ Keep \in Nat \ {0} /\ MaxClock \in Nat /\ MaxChanges \in Nat

VARIABLES
  clock, changes,
  device,     \* the device: number and a counter
  group,      \* the cgroup and its parent: number and limit
  module,     \* whether the module is loaded
  irq,        \* the IRQ: affinity, and a counter
  changed,    \* when each of module and irq last changed (history)
  previous,   \* Inventory::previous and irq::Collector::previous, per key
  rates,      \* per subject: <<older reading, newer reading>> or <<>>
  graph,      \* per subject: the numbers whose values its histories hold
  discovered, \* Inventory::group_discovered; -1: never
  wanted,     \* Inventory::group_demand: whether the cgroup is demanded
  identities, \* Inventory::group_identities
  config,     \* Inventory::group_config: limits read, and of which number
  ceiling,    \* the cgroup's row: number, numbers and limits it is bounded by
  slow_at,    \* Inventory::slow_at; -1: never polled
  modules,    \* Inventory::modules: <<>> or <<whether the module is among them>>
  succeeded,  \* time of the last successful poll of modules (history)
  affinity,   \* irq::Collector::affinity: <<>> or <<value and time>>
  events      \* newest change event of module and irq: <<>> or <<event>>

inventoryVars == <<clock, changes, device, group, module, irq, changed, previous, rates, graph,
  discovered, wanted, identities, config, ceiling, slow_at, modules, succeeded, affinity, events>>
hostVars == <<device, group, module, irq, changed, changes>>
counterVars == <<previous, rates, graph>>
configVars == <<discovered, wanted, identities, config, ceiling>>
moduleVars == <<slow_at, modules, succeeded>>

Unlimited == 9
Group == {"child", "parent"}
-----------------------------------------------------------------------------
InventoryInit ==
  /\ clock = 0 /\ changes = 0
  /\ device = [id |-> 1, count |-> 0]
  /\ group = [g \in Group |-> [id |-> 1, limit |-> IF g = "child" THEN Unlimited ELSE 2]]
  /\ module = FALSE /\ irq = [cpu |-> 0, count |-> 0]
  /\ changed = [x \in {"module", "irq"} |-> 0]
  /\ previous = <<>> /\ rates = [x \in {"device", "child", "irq"} |-> <<>>]
  /\ graph = [x \in {"device", "child"} |-> {}]
  /\ discovered = -1 /\ wanted = FALSE /\ identities = <<>> /\ config = <<>> /\ ceiling = <<>>
  /\ slow_at = -1 /\ modules = <<>> /\ succeeded = -1 /\ affinity = <<>>
  /\ events = [x \in {"module", "irq"} |-> <<>>]

(* The host changes: devices and cgroups are replaced or go, limits change, *)
(* counters advance or start over, the module is loaded or unloaded, the    *)
(* IRQ is moved.                                                            *)
HostChanges ==
  /\ changes < MaxChanges /\ changes' = changes + 1
  /\ \/ /\ \/ device' = [id |-> device.id + 1, count |-> 0]
           \/ device' = [device EXCEPT !.count = @ + 1]
        /\ UNCHANGED <<group, module, irq, changed>>
     \/ /\ \/ \E l \in {1, 3, Unlimited} : group' = [group EXCEPT !["parent"].limit = l]
           \/ \E l \in {1, 3} : group' = [group EXCEPT !["child"] = [id |-> @.id + 1, limit |-> l]]
           \/ group' = [g \in Group |-> [id |-> group[g].id + 1, limit |-> Unlimited]]
        /\ UNCHANGED <<device, module, irq, changed>>
     \/ /\ module' = ~module /\ changed' = [changed EXCEPT !["module"] = clock]
        /\ UNCHANGED <<device, group, irq>>
     \/ /\ irq' = [irq EXCEPT !.cpu = 1 - @] /\ changed' = [changed EXCEPT !["irq"] = clock]
        /\ UNCHANGED <<device, group, module>>
     \/ /\ \E n \in {irq.count + 1, 0} : irq' = [irq EXCEPT !.count = n]
        /\ UNCHANGED <<device, group, module, changed>>
  /\ UNCHANGED <<clock, counterVars, configVars, moduleVars, affinity, events>>

Elapse ==
  /\ clock < MaxClock /\ clock' = clock + 1
  /\ UNCHANGED <<hostVars, counterVars, configVars, moduleVars, affinity, events>>
-----------------------------------------------------------------------------
(* Mutant: a counter that started over is not noticed.                      *)
RateWrapped(key, reading) ==
  IF key \notin DOMAIN previous \/ previous[key].at >= reading.at
  THEN <<>> ELSE <<previous[key], reading>>

(* rates: the reading before this one under the same key, unless the clock  *)
(* or the counter did not advance, and what is then remembered.             *)
Rate(key, reading) ==
  IF key \notin DOMAIN previous \/ previous[key].at >= reading.at
     \/ previous[key].count > reading.count
  THEN <<>> ELSE <<previous[key], reading>>

Remembered(key, reading) ==
  LET all == [k \in DOMAIN previous \cup {key} |-> IF k = key THEN reading ELSE previous[k]] IN
  Restrict(all, {k \in DOMAIN all : clock - all[k].at < Keep})

(* Mutant: histories are kept by the name.                                  *)
GraphByName(key) == graph["device"]

GraphOf(key) == IF key \in DOMAIN previous THEN graph["device"] ELSE {}

(* disks: a device that is new under its name starts its histories anew.    *)
PollDevice ==
  LET key == <<"device", device.id>>
      reading == [id |-> device.id, at |-> clock, count |-> device.count]
  IN  /\ rates' = [rates EXCEPT !["device"] = Rate(key, reading)]
      /\ graph' = [graph EXCEPT !["device"] = GraphOf(key) \cup {device.id}]
      /\ previous' = Remembered(key, reading)
      /\ UNCHANGED <<clock, hostVars, configVars, moduleVars, affinity, events>>

(* irq::Collector::sample: the counter of an IRQ, and an event when its     *)
(* affinity is not what the last poll of it saw.                            *)
PollIrq ==
  LET key == <<"irq", 0>>
      reading == [id |-> 0, at |-> clock, count |-> irq.count]
  IN  /\ rates' = [rates EXCEPT !["irq"] = Rate(key, reading)]
      /\ previous' = Remembered(key, reading)
      /\ affinity' = <<[cpu |-> irq.cpu, at |-> clock]>>
      /\ events' = IF affinity # <<>> /\ affinity[1].cpu # irq.cpu
                   THEN [events EXCEPT !["irq"] = <<[from |-> affinity[1].at, to |-> clock]>>]
                   ELSE events
      /\ UNCHANGED <<clock, hostVars, graph, configVars, moduleVars>>
-----------------------------------------------------------------------------
(* group_read of a limit: what the cache has of this file, or the file.     *)
LimitOf(cache, g) ==
  IF g \in DOMAIN cache THEN cache[g] ELSE [id |-> group[g].id, limit |-> group[g].limit]

(* Mutant: a path stands for one cgroup.                                    *)
SameGroupByPath(g) == TRUE

SameGroup(g) == g \in DOMAIN identities => identities[g] = group[g].id

(* groups: paths are discovered again after a while or when the demanded    *)
(* cgroup changes, which clears the cached limits; a cgroup with another    *)
(* identity loses its own.  The parent is polled before the child, whose    *)
(* ceiling is the least limit of both.                                      *)
PollGroups(demand) ==
  LET again == discovered = -1 \/ clock - discovered >= Period \/ demand # wanted
      cached == IF again THEN <<>> ELSE config
      kept == Restrict(cached, {g \in DOMAIN cached : SameGroup(g)})
      limits == [g \in Group |-> LimitOf(kept, g)]
      reading == [id |-> group["child"].id, at |-> clock, count |-> 0]
      key == <<"child", group["child"].id>>
  IN  /\ discovered' = IF again THEN clock ELSE discovered
      /\ wanted' = demand
      /\ identities' = [g \in Group |-> group[g].id]
      /\ config' = limits
      /\ ceiling' = <<[id |-> group["child"].id, parent |-> group["parent"].id, limits |-> limits]>>
      /\ rates' = [rates EXCEPT !["child"] = Rate(key, reading)]
      /\ graph' = [graph EXCEPT !["child"] = @ \cup {group["child"].id}]
      /\ previous' = Remembered(key, reading)
      /\ UNCHANGED <<clock, hostVars, moduleVars, affinity, events>>
-----------------------------------------------------------------------------
(* Mutant: a list that cannot be read is an empty one.                      *)
PollModulesDefaulted(ok) ==
  /\ slow_at = -1 \/ clock - slow_at >= Period
  /\ slow_at' = clock
  /\ modules' = <<ok /\ module>>
  /\ succeeded' = IF ok THEN clock ELSE succeeded
  /\ events' = IF modules # <<>> /\ modules' # modules
               THEN [events EXCEPT !["module"] =
                       <<[from |-> slow_at, to |-> clock, since |-> succeeded]>>]
               ELSE events
  /\ UNCHANGED <<clock, hostVars, counterVars, configVars, affinity>>

(* modules: the list is compared with that of the last successful poll; an  *)
(* event names the interval since the last poll.  A list that cannot be     *)
(* read ends the poll.                                                      *)
PollModules(ok) ==
  /\ slow_at = -1 \/ clock - slow_at >= Period
  /\ slow_at' = clock
  /\ IF ok
     THEN /\ modules' = <<module>> /\ succeeded' = clock
          /\ events' = IF modules # <<>> /\ modules[1] # module
                       THEN [events EXCEPT !["module"] =
                               <<[from |-> slow_at, to |-> clock, since |-> succeeded]>>]
                       ELSE events
     ELSE UNCHANGED <<modules, succeeded, events>>
  /\ UNCHANGED <<clock, hostVars, counterVars, configVars, affinity>>

InventoryNext ==
  \/ HostChanges
  \/ Elapse
  \/ PollDevice
  \/ PollIrq
  \/ \E demand \in BOOLEAN : PollGroups(demand)
  \/ \E ok \in BOOLEAN : PollModules(ok)
-----------------------------------------------------------------------------
(* A rate is the advance of one subject's counter over the time between two *)
(* readings of it, however often its name was taken over in between.        *)
RateIsOfOneSubject ==
  \A x \in DOMAIN rates : rates[x] # <<>> =>
    /\ rates[x][1].id = rates[x][2].id
    /\ rates[x][1].at < rates[x][2].at /\ rates[x][1].count <= rates[x][2].count

(* A device's graphs hold nothing of another device that had its name.      *)
DeviceGraphIsOwn == Cardinality(graph["device"]) <= 1

(* The limits a cgroup's ceiling is made of are those of the cgroup in the  *)
(* row and of its present parent, not of ones that had their paths before.  *)
CeilingIsOwn ==
  \A c \in Range(ceiling) : c.limits["child"].id = c.id /\ c.limits["parent"].id = c.parent

(* The affinity of an IRQ changed in the interval its event names, and the  *)
(* presence of a module since the last list that could be read.             *)
ChangesAreBracketed ==
  /\ \A e \in Range(events["irq"]) : changed["irq"] >= e.from
  /\ \A e \in Range(events["module"]) : changed["module"] >= e.since

(* Rates, graphs, limits and changes are those of the subject they stand at. *)
SubjectsAreOwn ==
  RateIsOfOneSubject /\ DeviceGraphIsOwn /\ CeilingIsOwn /\ ChangesAreBracketed

=============================================================================
