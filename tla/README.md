# kernwatch: a verification project in TLA+

kernwatch is a terminal monitor of a Linux host. It samples procfs and sysfs once
a second, traces the kernel with BPF on request, keeps a timeline the user can
walk back through, diagnoses sustained deviations, and changes a few host
controls after a review. This directory models the parts of it where several
actors, failures or long sequences of commands meet; TLC checks the models on
small instances and TLAPS proves some of the results for every instance.
Paths are relative to the repository root, which is `src/` in the project file.

## 1. The system

### Threads

| thread | code | what it does |
|---|---|---|
| main | `src/main_linux.rs:311-450` | takes the newest sample, joins it with the tracer's data, runs the diagnosis, updates `App`, executes keys and commands, draws |
| sampler | `src/main_linux.rs:258-288` | one sample a second into a slot of one; a sample nobody took is replaced |
| metadata workers | `src/sources.rs`, `src/enrichment.rs`, `src/bpf.rs` | one per source; take a request, read or run a helper command, answer; a request and an answer at a time |
| tracer | `src/main_linux.rs:194-257` | owns a capture (`Probes`); polls the BPF ring every 20 ms, publishes every 250 ms, ends the capture after its duration |
| the kernel | `probes/kernwatch.bpf.c` | BPF programs put events into a ring and count those it has no room for |
| other programs | none | write the same host controls, recreate cgroups and devices, replace files, reuse PIDs |

The threads share a slot for the sample, a mutex around the tracer's data and
status, a queue of eight probe requests and two flags; the sampler and its workers
share channels of one. Nothing else is shared, so inside the main thread a command
is a sequence of its own host calls, between which only the host changes. Two
running instances share the settings file, the working directory that reports go
to, and the journal's directory.

### Components

| component | state | operations | what makes it correct | hard because of |
|---|---|---|---|---|
| Host actions and journal (`actions.rs`, `app.rs:2441-2740`) | pending plan, journal in memory and on disk, the control itself | preview, apply, revert, verify, save | a change is never made without its intent on disk; the journal never denies a change or claims one that is not there; a replay changes nothing | other writers between any two host calls, failing calls, failing saves, a crash, display modes |
| Scheduler correlation (`tracing.rs`) | maps by PID of starts, samples and start times, each with a limit | consume one event, loss, apply | a latency is of one wait of one task | PID reuse, exits, repeated wakeups, lost events, limits |
| BPF, ring, polling, joining (`kernwatch.bpf.c`, `probes.rs`) | ring, loss counter, published measurements | emit, poll, publish, hydrate | loss ends availability; rows show their own task's latency | the kernel, tracer, sampler and main run at once |
| Entity timeline (`app.rs:245-441`) | frames, profiles counted, bytes | retain, thin, drop, recount | limits hold, the recent past is complete, reach is kept | a running total of shared costs, two loops with different limits |
| Display (`app.rs:442-603, 1173-1440, 2382-2440, 2741-2791`) | shown frame, frame aside, cursor, frozen, replay, routes | update, seek, freeze, drill, back, replay, live, scenario | the newest sample is never lost; a replay shows its position; Esc returns | samples arrive between any two keys; modes combine |
| Diagnosis (`diagnose.rs`) | baselines, issues, streaks, clear times, absences; saved to a file | update, load, save, verify | issues open after a streak of deviations, resolve after a time without any, and are forgotten | subjects come and go, scopes change, restarts with old state, reboots |
| Capture control (`main_linux.rs:194-257, 318-403, 466-496`) | request queue, session, published data and its status | start, stop, time out, fail, merge, quit | a stopped capture shows nothing as current; a capture ends; histories do not mix | two locks one after the other, a bounded queue, slow starts |
| Verification of an action (`diagnose.rs:262-340`, `domain.rs`, `app.rs:2500-2640`) | series, issue, action, verdict | sample, chart, verify, preview, apply | a verdict says what the charts show, and is of the issue and the action it is shown at | a sampler that jitters, gaps, a frozen display, edges of the window |
| Recording (`recording.rs`, `app.rs:442-470, 2382-2440`) | file, buffer, replayed frames | record, push, flush, read, seek | what was answered Ok is read back, in order, up to the torn end | failing writes, crashes, power, two processes on one file |
| Reports (`recording.rs:100-260`) | staging directory, working directory, what of both is durable | create, write, sync, rename, clean up | what has a report's name is complete, and stays | a failure at any call, power, names that come again |
| Settings (`settings.rs`) | one file | load, save | the file is what one session saved | two instances, a process that dies while it saves |
| Sources (`sources.rs`, `enrichment.rs`) | demand, deadline, request, answer, cache | demand, sample, receive, read, answer | metadata is of its subject and arrives | subjects replaced between request, reading and display; a worker that dies |
| Helper commands (`command.rs`) | permits, waiters, children | acquire, spawn, read, kill, reap | permits are conserved; nothing is left running | errors on any path, children that hold pipes |
| CPU profiles (`cpu_profile.rs`, `kernwatch.bpf.c`) | count maps, folded counts, names | count, poll, name, hotplug, finish | every sample is accounted for under names of its own image, or told missing | the kernel counts while the map is read; exec, exit, reuse of a PID |
| Symbols (`symbols.rs`) | caches by PID and by path | read mappings, stat, read image, look up | a name is of the function that was at the address | paths that mean different files, files replaced, processes that change while they are read |
| Flame view (`flame.rs`, `app.rs`) | tree, cursor, zoom, baseline | observe, lay out, compare, move | tree, panel, export and comparison show the stacks observed, all and no others | rounding, trees that differ at any depth |
| Block, syscall and IRQ pairing (`tracing.rs`, `probes.rs`, `kernwatch.bpf.c`) | open calls, handlers, requests | enter, leave, issue, complete, requeue, exit | a sample is of one call, handler or request | lost halves, programs attached one after the other, reused keys |
| Task rows (`enrich.rs`) | counters of the sample before, caches, blocked times | read, finish, miss | a row shows what was observed of its task over the time it is given for | PID reuse between and inside samples, samples that fail |
| Inventory (`inventory.rs`, `irq.rs`) | counters, graphs, limits, lists of the poll before | poll devices, groups, modules, IRQs | rates, graphs, limits and changes are of the subject they stand at | names taken over, limits cached, lists that cannot be read |
| BPF programs (`bpf.rs`) | readings, helpers, series, a worker | request, enumerate, rate, sample | figures are of the program and the round they are given for | ids used again, enumerations that end early, a slow worker |
| Kernel logs (`logs.rs`) | records, position, cursor | poll, read, ask the journal | the newest records, each once, in order | overwritten and refused records, failing calls |
| Series (`domain.rs`) | shared chunks | push, trim, clone, select, revalue | a version is a value | chunks shared between versions |
| Rows and selection (`app.rs`) | rows, index, filter, sort, details | sample, move, filter, sort, open, drill | what was chosen stays chosen | rows and events move under the selection |
| Rendering, fixture, tour | none | drawing, constant data | | |

`PROJECT.json` lists all of them with what is modelled, and every hazard at its line.

## 2. Modules

`FrameHistory` and `SampleHistory` are abstract specifications; the others are state
machines of the code. `Filters` has the one operator on sequences that several of them
select with, as a function that can be reasoned about; `DataLemmas` has what proofs of
several components need of filters, sums, intervals and folds. `MC*` modules hold the definitions a configuration needs and
put components that share no state into one run: `part` says which of them a
behaviour is of, while the others stay at their start. Where components do
share state they are one module: the correlator with the kernel, ring, tracer and
rows; the control of a capture with all three threads; issue, action, verdict and
series in `Verification`. `*Proofs` modules extend the components they have theorems of and add
nothing to them but the invariants (section 4).

### ActionJournal (`actions.rs`, the commands of `app.rs`)

A command runs to its end on the main thread, and each host call is a step
(`pc`): `review` and `identity` are the second call of preview and the first of
apply or revert, then `read`, `write`, `set`, `readback`, `finish`. Between any
two of them another program may write a control (`ForeignWrite`), also one it
recreates under the same name; any call may fail (`CommandFails`), and the
process may die (`Restart`). The intent is saved by `ApplyStart` and
`RevertStart` before the first host call; the result by `Finish`. A save that
fails before its rename leaves the old file, one that fails after it the new one
(`SaveFails`). A task's control names one incarnation (`SameTask`), and its write
checks the start time in a step of its own before `sched_setaffinity`
(`ValidateTask`, then `WriteHost`). The modes of the process, of the displayed
frame and of the recording choose the host (`DemoHost` or `LinuxHost`), so the
display's part of `App` is here too (`Update`, `Hold`, `Replay`, `Live`).
`writer` is history: which plan last wrote a control. Values are up to the
equivalence of CPU lists; what `parse_target` accepts is the set of controls.

### Correlator and TraceCapture (`tracing.rs`, `kernwatch.bpf.c`, `probes.rs`)

`Correlator` holds `Correlator::consume`, `loss` and their limits as functions of
the state, without variables of its own. `TraceCapture` runs them against a
kernel: tasks fork, wake, are dispatched, preempted, exit and leave their PID to
another one, each emitting the event its BPF program does (`Emit` drops it when
the ring is full). `ReadLosses`, `Take` and `Publish` are the steps of the tracer,
between which the kernel goes on; `Sample` is the sampler reading start times, and
`Hydrated` the main thread's join of both. Latencies are pairs of times, so that
what a sample spans can be asked. `births`, `waits`, `since` and `drops` are history.

### CaptureControl (`main_linux.rs`)

The three threads of a live process. A step is what a thread does under one lock,
so the end of a capture is two steps, `FinishTrace` and `MarkTraceStopped`, in each
of the three places that have it (a request, a failed poll, the duration). `Send` is
`try_send`: a full queue or a replay refuses the request. `TakeSample` to
`ReadStatus` hold the slot's lock, as the `if let` does. `session` is a capture id;
what is measured is reduced to whether it is current (its metrics are not marked
as stopped) and whether it has stacks. Clipboard, drawing and settings are left
out, and so is the demo, which never has a capture.

### Timeline and FrameHistory (`App::retain_frame`)

One sample is `Retain`, then rounds of the thinning loop (`Thin`) and of the
dropping loop (`Drop`) until `Retained`. A frame's bytes and a shared profile's are
parameters; `Hosts` is a set of hosts, so that one run has both a quiet one and one
whose single frame exceeds the budget. `FrameHistory` says what a timeline
promises: it is a set of times that only grows by a newer one and may lose any but
its newest; `KeepsNewest` is that refinement.

### Display (`app.rs`)

`displayed` and `latest` are the displayed frame and the one kept aside, `cursor`,
`frozen`, `replay` and `routes` as in `App`. `Sample` is a sampler round with the
main thread's update; a frame is a time, a mode and where it came from. `Show` is
`seek_time` as all its callers use it. Thinning of the timeline is a choice of
which frame goes. `opened` (for each route, the frozen frame it was opened on, if
any) and `fresh` are history. Selection, filter, sort order
and the views' own modes are left out.

### Diagnosis (`diagnose.rs`)

`Updated` is what `Engine::update` does to one subject: `Raised`, `Cleared` or
`Missed`, after `Compared` has wiped what another boot or scope leaves invalid. A
reading is what comparisons tell apart: above the limit, deviant from the baseline,
normal, or missing. A sample observes an IRQ's placement once per affinity event
of the last minute, hence `times`. `Restart` loads the file of another process, of
this boot or an earlier one, or none. `past` is history: it counts samples where the
engine counts observations (`some` and `row`: anomalous ones without a normal one
between, and without an absence either; `clean`: since when all were normal; `many`:
one of them observed the subject more than once), and is saved beside the file so
that it stays the past of the engine that was loaded. Counting beyond `ReadyCount`
is cut, since only the comparison with it is read.

### Verification (`diagnose::verify`, the commands bound to it)

The sampler's cadence (`NextDue`) leaves a series (`Observed`) that `Chart` draws by
the second and `Verdict` judges. `Preview`, `Apply` and `Verify` bind the verdict to
the issue selected on the display, which may be frozen, and to the action applied
for it. A tick is 500 ms; a value is compared with the engine's limit and with
the one the command falls back to.

### Recording, Reports, Settings (`recording.rs`, `settings.rs`)

A recording is a sequence of units, so that a write can end anywhere (`WriteSome`,
`WriteFails`); `ReadBack` is what `read` makes of any such file, and `Crash` and
`PowerLoss` what is left of one. In `Reports` every call of an export is a step and
may fail; a directory is its entries, their data, and which of both are
durable, so that `PowerFails` can take away whatever was not synced. In `Settings` two
instances write and rename temporary files of their own.

### Sources (`sources.rs`, `enrichment.rs`, PSS of `inventory.rs`)

One source at a time, `kind`, with its interval as the unit of time. `List`, `SetDemand`
and `Replace` are what changes around it; `Sample` is the sampler's update of it
(take the answer, ask again, publish); `Receive`, `WorkerReads` and `Answer` the
worker. `host` numbers the incarnations of a name, and what was read is the number of
the one it was read of.

### Helpers (`command.rs`)

`run` from the permit to its drop: `Acquire`, `Spawn`, `ReadEnds` or `Kill`, `Reap`,
`Drop1`, `Notify`, for several workers. A helper forks and ends on its own.

### CpuProfile and Symbols (`cpu_profile.rs`, `symbols.rs`, `kernwatch.bpf.c`)

`CpuProfile` has the kernel's counts, the sampler's `Poll` up to its loop, `Fold` of one
key, `ReadMappings`, and `Finish`, against processes that exec, exit and are replaced
and CPUs that come and go. `Symbols` is what `ReadMappings` stands for there: mappings
(`ReadMaps`), the file's version (`Stat`), its image (`ReadImage`), each in a step, with
the caches they fill; `Lookup` and `Vaddr` are the code's functions of addresses.

### FlameView (`flame.rs`)

A profile is a tree of `Node`s built by `Folded`; `Layout`, `Changes`, `UnionOf` and
`FoldLines` are the code's functions of trees, and cursor, zoom and baseline move
over it, while it is compared too. Baselines are kept profiles: reading one from a
file, and its `validate`, are left out. It has recursive operators, hence no theorems.

### Pairing (`tracing.rs`, `probes.rs`, `kernwatch.bpf.c`)

Programs are attached in the code's order (`Attach`) and emit into a ring that may be
full; `PollStarts`, `Consume` and `PollEnds` are the tracer. The clock ticks once per
event, so a time names its event; `truth` keeps the intervals that happened.

### TaskRows, Inventory, BpfPrograms, KernelLogs

What the collectors keep from sample to sample, against subjects that are replaced
under their name. A task row is read in two steps (`ReadStat`, `FinishRow`); a poll of
the inventory is one. `BpfPrograms` has the worker's enumeration, which may end
early, and channels of one; an enumeration is one step, as of one moment, so a
program that is loaded behind the walk's position, which the code misses in a total it
calls complete, is not in the model. `KernelLogs` has the ring of kmsg, read while it is
overwritten, and the journal's cursor.

### SampleChunks and SampleHistory (`domain.rs`)

`SampleChunks` holds versions of a series as queues of references to shared chunks, with
copy on write; `SampleHistory` holds them as sequences, and `VersionsAreValues`
is the refinement between the two.

### Browse (`app.rs`)

What a view lists (`Rows`, `MemoryTasks`, `ObjectRows`, `VisibleEvents`, ...), the keys, and
the part of `App::update` that keeps the selection (`Refresh`). `chosen` and
`inspected` are history: the row the user chose, and the one that was opened.

## 3. Runs

All runs that pass are exhaustive, two to three and a half minutes each with two workers.
A property whose name has parts in the list is their conjunction; each part is
stated, with its comment, where the component is.

| run | modules | properties and their parts | bounds, and why they are enough |
|---|---|---|---|
| Journal | ActionJournal | `TypeOK`, `JournalIsTruthful` (`NothingLeftBehind`, `OutcomeMatchesHost`), `IntentOnDisk`, `AppliedOnce`, `ReplayIsReadOnly`, `OutstandingUntilReverted` | in one part a file and a task with two values, one plan, two foreign changes (one between any two calls and a second to undo or repeat it), demo and live modes; in the other two plans (entries, reverts and saves of one meet those of the other) and two processes |
| Capture | TraceCapture | `LatenciesAreTrue` (`WakeInOneLife`, `RowLatencyIsOwn`, `NoWaitMissed`) | two PIDs, one CPU, six events without limits or loss: as many as fork, exit and second fork of a PID need with the switches of both |
| | Display | `ShownIsDue` (`DisplayTypeOK`, `LatestIsNewest`, `ReplayShowsIndex`), `EscReturnsLive` | three seconds, two retained frames (so that frames are thinned), one route, a live and a demo recording, both modes |
| | BpfPrograms | `BpfFiguresAreOwn` (`BpfRowsAreOwn`, `BpfRateSpansRound`, `BpfTotalIsComplete`, `BpfSeriesAreOwn`) | two ids, two loads (an id comes again beside another), one inspection a round (some program is always left for the next), ages of two in a time of three |
| | Symbols | `NamesAreExact` | two processes in two roots, an image mapped at 10, four changes of files and processes |
| Tracer | CaptureControl | `ControlTypeOK`, `HistoryOfOneCapture`, `StatusTells`, `CurrentIsRunning`, `CaptureEnds`, `QuitEnds` | a queue of two, `--trace` and two more requests: the queue is full while the tracer starts a capture, and two captures follow each other |
| | TraceCapture | `TraceTypeOK` (with the limits), `LossDegrades` | a ring of one, all maps of one entry, two PIDs, four ticks: events are lost before a poll, and between its reading of the counter and of the ring |
| Session | Diagnosis | `EngineIsOfScope` (`BaselineOfScope`), `IssuesAreEarned` (`OpensOnStreak`, `ResolvesClear`), `GoneIsForgotten` | one subject (they do not interact), two scopes, samples 1 or 3 apart, clear time 2, forget time 3, ready after 2, two processes and two boots; a sample observes the subject once or three times |
| | Verification | `VerdictIsCharted` (`PassedAsCharted`, `SteadyIsConclusive`) | a window of six ticks (three seconds) and eight ticks, values under, at and over the limits |
| | Recording | `PrefixIsRecovered` | frames shorter, as long as and longer than the buffer of two, one with a view this build lacks, one too large; two files |
| | Reports | `ReportsAreWhole` (`ReportsAreComplete`, `ReportsAreKept`) | two processes, two exports, one name for both |
| | Settings | `SettingsAreOfOneSession` | two instances, three launches, a view load rejects |
| Telemetry | Timeline | `TimelineIsKept` (`BytesAreCounted`, `WithinLimits`, `RecentPast`, `Reach`), `KeepsNewest` (refinement of FrameHistory) | eleven samples with thinning above four frames and dropping above seven |
| | SampleChunks | `VersionsAreValues` (refinement of SampleHistory, `IndexIsIteration`) | two holders, chunks of two, two samples kept, three taken, one edit: a first chunk with a gap in front and a last that is not full |
| | TaskRows | `RowsAreOwn` (`RowIsNotInherited`, `RateSpansItsInterval`, `BlockedWasSeen`) | three tasks of one PID, one move, six seconds with caches of two |
| | Inventory | `SubjectsAreOwn` (`RateIsOfOneSubject`, `DeviceGraphIsOwn`, `CeilingIsOwn`, `ChangesAreBracketed`) | two changes of the host, any polls, time four with a memory of three |
| | KernelLogs | `RecordsAreKept` (`KmsgIsComplete`, `JournalIsComplete`, `JournalIsInOrder`) | a ring of two, two reads a poll, two records kept of four |
| | Pairing | `PairsAreTrue` (`PairingTypeOK`, `SamplesAreOwn`, `PendingIsAtTheDevice`) | two threads, a softirq, two requests; a ring of two, maps of one, five events, at most one dropped |
| | Browse | `ChosenIsKept` (`SelectionIsKept`, `DetailIsOfOpened`, `EventsAreFollowed`) | two names in two generations, two samples and three keys, four of them in all, a filter, a route |
| | FlameView | `FlamesAreHonest` (`TreeIsObserved`, `LayoutIsHonest`, `CursorIsDrawn`, `ComparisonIsComplete`) | two names, depth two, two stacks, panels of one to four columns, three steps |
| Services | Sources | `MetadataIsOwn` (`TaskMetadataIsOwn`, `MetadataIsNotInherited`), `MetadataArrives` (`DemandIsServed`, `EveryLeaderIsRead`, `DeathIsTold`) | two subjects and one read a round, so that one must wait; one replacement of each |
| | Helpers | `HelpersAreBounded` (`PermitsAreCounted`, `NothingIsLeftRunning`, `NoWakeupIsLost`) | three workers for two permits |
| | CpuProfile | `ProfileIsAccounted` (`EverySampleIsAccounted`, `FramesAreOwn`, `CoverageIsTold`), `GoneTargetEndsCapture` | one PID with its successors, two CPUs, a map of two entries, three samples, two changes |

Symmetry is used between values that are only compared (PIDs, threads,
scopes, processes) and in runs whose temporal properties are safety.

Six runs show a disagreement between the code and what the repository says:

| run | what the code does | what is said |
|---|---|---|
| JournalDemo | a `--demo` process that replays a live recording and returns with `live` shows a live frame until its next update; preview and apply then work on the host | "Demo mode ... does not change host controls" (`docs/REFERENCE.md:28`) |
| TraceOffCpu | the switch away from an exiting task comes after its exit event and leaves an off-CPU start that the next task of the PID ends | task exit and PID reuse are handled (`docs/SPEC.md:171`) |
| DisplayFreeze | Esc out of a view entered without a cursor seeks the end of time and shows the newest sample although the display is frozen | a freeze is an immutable view (`docs/SPEC.md:181`) |
| DiagnosisNoise | an IRQ's placement is observed once per affinity event of the last minute, so a single sample with three of them opens an issue; the first opening of a subject also counts samples before and after an absence (`src/diagnose.rs:125-145, 175`) | sustained deviations prevent single-sample noise from opening incidents (`docs/SPEC.md:185`) |
| DiagnosisLeak | a subject first missed by a sample of another scope leaves its streak or clear time in the saved state for good | a gone subject is forgotten, or the saved state grows (`src/diagnose.rs:208-213`) |
| BpfSeries | every sample is extended with the series of the newest result, however long those had no samples, so they never go | "Other series are kept until they go stale" (`src/enrich.rs:852`) |

Met while modelling, and true of the code, without a run of their own.

Actions, captures, display:

- `revert` of an entry that never was applied, or is rolled back already, replaces
  its outcome by "rollback failed" (`src/actions.rs:219`).
- `revert` takes the last entry only: an applied action behind a later entry
  cannot be rolled back (`src/app.rs:2609`).
- a wakeup of a task that still has its CPU leaves a start that the next dispatch
  takes for a wait (`src/tracing.rs:85`).
- `poll` reads the loss counter before it drains the ring; a drop in between is
  published as available once (`src/probes.rs:381`).
- an issue resolves after a minute between a first and a last normal sample, however
  few samples lie between them (`src/diagnose.rs:178`); `IssuesAreEarned` excepts
  this and what DiagnosisNoise shows, and says so.
- between `finish_trace` and `mark_trace_stopped` a sample may show the finished
  capture as current, once (`src/main_linux.rs:203`); `CurrentIsRunning` excepts it.
- in a replay, Esc out of a view goes to the recording's last frame
  (`src/app.rs:1277`); Esc restores a cursor whose frame may be gone
  (`src/app.rs:1292`); Right stops at a gap of more than a second (`src/app.rs:1430`).
- two tasks of one PID that start within a clock tick cannot be told apart
  (`src/probes.rs:868`); the models' start times are exact.
- after a demo recording was replayed in a live process, `live` leaves a demo frame
  displayed until the next update (`src/app.rs:463`).

Verification and settings:

- a second `v` overwrites the issue's verification, after which the threshold is
  the command's own and not the engine's (`src/app.rs`, `Threshold`).
- an action that does not address the issue is verified like one that does
  (`docs/TAB_FIXES.md:10` speaks of the match).
- an action's time of application is that of the displayed, maybe frozen, snapshot.
- `load` accepts views below 13 although there are 14 (`src/settings.rs:22`), so the
  last one is forgotten.
- a recording that would pass 512 MiB in replay is refused as a whole
  (`docs/VALIDATION.md:41`).

Collection:

- storage health is kept by name and numbers, so a device that takes over both
  inherits it (`src/enrichment.rs:154`; `docs/SPEC.md:155`).
- the window of tasks read per request is 32 while 33 can be demanded: `DemandIsServed`
  asks for what fits the window.
- `child.wait` has no deadline: a helper in uninterruptible sleep keeps its permit
  (`src/command.rs:134`); a woken waiter may be overtaken by a newcomer.
- a CPU whose counters did not advance reads as busy (`src/enrich.rs`, `total.max(1)`).
- a cgroup's graphs keep the history of the one it replaced; `open_subject` looks a task
  up without its start; the mark of a module's row is by name.
- the interval of a module event starts with the last poll, also when that failed, so
  the property is about the list that could be read.
- a BPF program is known by id and tag; a failed enumeration forgets helpers and
  readings of the programs behind the failure; eight inspections a round with a life
  of a minute leave some of more than 480 programs without helpers (`src/bpf.rs:76`).
- the first rate after statistics were switched on is of part of the interval.

Pairing, profiles, symbols:

- a request issued before the completion program is attached stays outstanding until
  its address is used again (`src/probes.rs:179`; `docs/TAB_IMPLEMENTATION_PLAN.md:112`);
  a thread that ended while programs were attached leaves a call to the next of its
  TID. `PairsAreTrue` excepts both.
- the weight of a profile in the middle of a capture may exceed the samples counted as
  attempted, since totals are read before counts.
- a flame cursor is a path of indices, and a live profile is sorted anew
  (`src/app.rs:2090`).
- a process that moves to another root between the look at a file and its reading
  has the image of one cached as the other's (`src/symbols.rs:275-301`); deleted or
  unreadable images of one path share an identity. `NamesAreExact` excepts the former.

Rows:

- issues and the memory view are selected by index, which a sample may move
  (`src/app.rs:517-603`, `docs/SPEC.md:43`); `SelectionIsKept` leaves those views out.
- `S` (reverse) stays across views, so that drilling into a CPU selects another row;
  Esc restores an index.

Deadlock is checked except where `CHECK_DEADLOCK FALSE` is said: the models stop
at their bounds of time. Every property has a mutant, a plausible bug in a
mapped definition that the property's run refutes; they stand beside what they
change, marked as mutants.

**Fairness.** `TraceCapture` assumes weak fairness of the tracer's steps only (`Polls`), for
`LossDegrades`: the thread runs a loop with a sleep of 20 ms and waits for nothing
but a short lock. `CaptureControl` assumes it of each thread and of the passing of a
capture's duration, for `CaptureEnds` and `QuitEnds`: the main thread waits at most
100 ms for a key, the sampler sleeps at most 50 ms at a time, requests are sent with
`try_send`, and no lock is held while another is waited for except the slot's, whose
holder takes the trace lock and never the reverse. No key, request or success
of a call is assumed to happen. The run Tracer assumes the same of each of its two parts
(`BothFairness`). Its liveness properties are conditions that recur or last: that a
capture is absent infinitely often says that each one ends (`CaptureEnds`), and a loss is
never taken back, so that it degrades once is that it degrades for good (`LossDegrades`). For `MetadataArrives` the
sampler, the clock and the worker go on (`List`, `Tick`, `Sample`, `Receive`, `WorkerReads`,
`Answer`): the sampler is a loop of a second, and what a worker reads or runs ends by
limits and timeouts; `WorkerDies` is possible at any time, and no subject is
assumed to be demanded. For `GoneTargetEndsCapture` the tracer goes on (`Poll`, `Fold`,
`ReadMappings`, and `Finish` once the sampler stopped). `Helpers` has safety only.

## 4. Proofs

A theorem is for every value of the constants that the named `ASSUME` of its
component allows; TLC evaluates those in every run. The bounds of a run (`MaxNow`,
`MaxEvents`, ...) are constants like others, so what is proved holds however far a
behaviour goes. Each proof module has the theorems of components that share a run or
a place in the code. In each, a preservation lemma has a step per action, and leaves
name the definitions they expand.

| module | theorem | what holds |
|---|---|---|
| ActionJournalProofs | `TypeCorrect` | `[]TypeOK` |
| | `WriteAhead` | `[]IntentOnDisk` |
| | `PlansAppliedOnce` | `[]AppliedOnce` |
| | `JournalTellsTruth` | `[]JournalIsTruthful` |
| | `ActionsOutstanding`, `ReplayReads` | `OutstandingUntilReverted`, `ReplayIsReadOnly` |
| CaptureControlProofs | `TypeCorrect`, `OneCapture`, `StatusCorrect` | `[]ControlTypeOK`, `[]HistoryOfOneCapture`, `[]StatusTells` |
| | `CurrentCorrect` | `CurrentIsRunning` |
| TraceCaptureProofs | `TraceTypeCorrect` | `[]TraceTypeOK`, with the limits of the ring and of the maps |
| | `LatenciesCorrect` | `[]LatenciesAreTrue` |
| TelemetryProofs | `RowsCorrect`, `InventoryCorrect`, `PairingCorrect` | `[]RowsAreOwn`, `[]SubjectsAreOwn`, `[]PairsAreTrue` |
| | `LogsCorrect` | `[]RecordsAreKept` |
| | `TimelineCorrect` | `[]TimelineIsKept` |
| | `TimelineKeepsNewest` | `KeepsNewest`: Timeline implements FrameHistory |
| | `VersionsCorrect` | `VersionsAreValues`: SampleChunks implements SampleHistory, and `IndexIsIteration` |
| DisplayProofs | `DisplayCorrect`, `EscCorrect` | `[]ShownIsDue`, `EscReturnsLive`: Esc out of what was opened on the live display shows its newest sample |
| | `BpfCorrect`, `NamesCorrect` | `[]BpfFiguresAreOwn`, `[]NamesAreExact` |
| | `BrowseCorrect` | `ChosenIsKept` |
| SessionProofs | `EngineCorrect` | `[]EngineIsOfScope` |
| | `EarnedCorrect` | `IssuesAreEarned`: an issue of a subject observed once a sample opens on no fewer anomalous samples than a streak takes, reopens on that many in a row, and resolves after normal samples only, over the time to clear |
| | `GoneCorrect` | `GoneIsForgotten` |
| | `VerdictCorrect` | `[]VerdictIsCharted` |
| | `RecordingCorrect` | `[]PrefixIsRecovered` |
| | `SettingsCorrect`, `ReportsCorrect` | `[]SettingsAreOfOneSession`, `[]ReportsAreWhole` |
| ServicesProofs | `HelpersCorrect` | `[]HelpersAreBounded` |
| | `MetadataCorrect` | `[]MetadataIsOwn`, for every kind but storage health |
| | `ProfileCorrect` | `[]ProfileIsAccounted` |

**Assumptions.** Limits are naturals, and positive where the code would otherwise keep
nothing or divide by it. PIDs are finite in number and none is the swapper's 0. Threads,
soft interrupt handlers and requests have keys of their own (`PairingAssumption`): the code
keeps them in maps of their own. Roots of processes are finite in number and
none is the value that stands for no root (`SymbolsAssumption`). A frame's
bytes are positive, and its shared profiles finite in number (`TimelineAssumption`), as are
the processes of a host and the names a view lists (`CpuProfileAssumption`,
`BrowseAssumption`); names are naturals, for their order. A serialized frame is never empty
(`RecordingAssumption`). A window has room for as many samples as `verify` asks for, a second
apart, and a series keeps more samples than a window has seconds (`VerificationAssumption`):
60 of 60 s, and 600.

**Why the invariants are what they are.**

- `ActionJournal`. What is on disk can be broken by a save, whose contents are those of
  memory, and memory by a crash, whose successor has only files. So `JournalInv`
  relates both: `OnDisk` (the property's strong form), `InMemory` (what the journal in
  memory tells of every control), `IntentFiled` (a running command's intent is in the file
  before the step that writes) and `PendingReviewed` (a plan that awaits its review
  has no outcome yet, so that filing it denies nothing). `PlansInv` adds that ids are unique
  and that a plan under review was not written; `TruthInv` that the last entry of a control
  agrees with the host as long as the plan was its last writer, and that a command that
  runs has told no result yet.
- `CaptureControl`. That capture ids stay below their bound is not inductive: every
  request, still a wish, in the queue or worked on, may take one id, so `TypeInv` counts
  them together. `StatusInv` and `CurrentInv` say at each step between the two locks what
  the one says that the other does not know yet.
- `TraceCapture`. An event changes the host at once, the ring in the same step, the
  correlator later. `TraceInv` speaks of the ring and the correlator together: as long
  as nothing is lost, a start the correlator holds, with the events of its PID still in
  the ring, leads to the state the kernel is in (`PathInv`). A dispatch in the ring names
  its own task and ends a wait there was (`RingTold`); what is true of the ring's first event is
  true of the correlator once it took it.
- `Pairing`. The same for three kinds of keys: while nothing was lost (`Clean`), the
  path from what the maps hold through the events still in the ring ends in agreement with
  the host (`Paths`), and each pair it finishes happened (`Measured`). A pair whose
  program was not attached when it began is excepted by the property and by the invariant.
- `Diagnosis`. `EngineInv`: the engine agrees with the history of its observations, and so
  does the file with the history saved beside it, since the next process starts from
  that; a streak is no longer than the anomalous samples behind it, unless one of them
  observed its subject more than once, and a clear time has normal samples only behind it; of the boot the engine is of, no observation lies ahead of the clock.
- `TaskRows`, `Inventory`. A cached value is of an incarnation not younger than its time
  says; a property of what is shown needs this of every cache a later sample may read.
- `Timeline`. `FramesInv` has the frames in order and never none; the lemmas on `Source`, where
  each frame that thinning keeps was, tell what it may cost. `BytesInv` has the running
  total as the sum over the frames and over the set of their profiles, which thinning
  recounts and the other steps keep; `ReachInv` is that of a host whose frames are affordable
  none is dropped but behind `MaxFrames` samples, since thinning alone gets below the budget.
- `KernelLogs`. `KmsgInv`: what was read ends right before the position to read next, with no
  gap, as long as no loss is told. `JournalInv`: what is kept rises and has every good record
  of the newest ones at the last answer, so that a call without its cursor brings records
  that are older than all kept or kept already.
- `SampleChunks`. What a version reads as is fixed by its numbers and where its samples
  are in the chunks: the j-th sample of the i-th chunk is at its `Spot`, and there is one
  sequence that has all of them (`Determined`). `ChunksInv` is that all chunks are full but
  the last and the numbers fit (`Sized`), and that no version has a chunk twice. Each
  operation is then shown to leave a version whose chunks have the abstract result at their
  spots, while it wrote to no chunk that another version refers to (`SetKeeps`).
- `Verification`. A series is in order, a second and the sampler's jitter apart unless it was
  late, and as long as what it retains (`VerificationInv`); then each second of the window has
  a sample `verify` counts and the chart draws, and the other way round.
- `Recording`. `RecordingInv`: each file is the units of a prefix of what was pushed,
  torn anywhere, and what the recorder still holds continues it (`RecorderIs`), so that
  every byte of a file is where the order of pushes has it; reading back is one round per
  frame.
- `Browse`. The view that is listed has each subject once, in any of its orders (`Ordered` is
  one-to-one), so that a subject found by name is the one that was selected if its
  generation and boot are; and events are numbered as they come.
- `Display`. `FreshInv`: after Esc from the past, what is at hand is the newest sample, in
  a replay what is kept aside. Routes that were pushed are positions there were.
- `BpfPrograms`. `BpfInv`: what the worker keeps of an id is of the program it last saw
  there and of its last collection, and so is each result on its way to the sampler.
- `Symbols`. While nothing of its process changes, what was read for a stack is of that
  process (`StackInv`), and a cached image is of the version it is recorded for, or of one
  that no root will have again (`ImageKept`, `ImageDue`).
- `CpuProfile`. `ProfileInv`: an exec that may have changed what a name means is in the map
  the sampler looks at before and after it reads names. `SamplesInv`: what the kernel
  attempted is the sum of its counts and the failures, no key is folded beyond its count, and
  after the last poll what is not folded yet is what is left to read.
- `Helpers`. `PermitsInv` counts the workers between `Acquire` and `Drop1`; `WakeInv` says that
  every waiter is notified, or for each free permit one is or will be.
- `Sources`. `SourcesInv` follows an incarnation's number through host, worker, answer and
  cache. Storage health is excepted: its devices are asked for by number and name
  alone (see section 3), which another device may take over.
- `Reports`. An export's own steps are ordered (`JobsInv`); `CompleteInv` and `KeptInv` say
  what is durable of a directory before its rename may be.

**Only model-checked**, and why:

- liveness (`LossDegrades`, `CaptureEnds`, `QuitEnds`, `MetadataArrives`,
  `GoneTargetEndsCapture`): the prover has no ENABLED;
- `FlamesAreHonest`: folding, layout and comparison are recursive functions of trees; the
  module has RECURSIVE operators and no theorem.

## 5. Not modelled

The components with status `not_modelled`, and of those with status `partly` what
their notes name. Parsing, decoding and formatting have no state; they are inputs of
the models. Rendering (`ui/views.rs`, `ui/widgets.rs`) draws a snapshot and keeps nothing:
the layout of the flame panel and the charts that a verdict is compared with are the
parts a property is about, and those are modelled. The fixture is constant data. Layout,
wording and logging are left out everywhere. Clock adjustments are not modelled: all
times compared are monotonic, and ids are taken to be unique.

A `part` of a run does not interact with the others because the code's parts share
nothing but the snapshot they are put into; the interleavings of the threads that
carry them are in `CaptureControl`, `TraceCapture` and `Sources`.

## 6. Plan

Every safety property of a passing run but one is a theorem. What is left to prove is
`FlamesAreHonest`, for which trees would be functions of paths, so that folding, layout and
comparison become sums over sets of paths.

Models to extend: `CaptureControl`'s data as what `TraceCapture` publishes, so that the
two compose; migration counts, off-CPU and cgroup windows of the correlator; the
palette and the settings of single views.
