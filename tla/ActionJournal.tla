--------------------------- MODULE ActionJournal ---------------------------
(***************************************************************************)
(* Reviewed host changes: preview, apply and revert of src/src/actions.rs  *)
(* as the commands of src/src/app.rs drive them.                           *)
(*                                                                         *)
(* The user previews a change of one host control (a task's affinity, an   *)
(* IRQ's or a cgroup's file), applies the reviewed plan by its id and may  *)
(* revert it.  Every command runs to its end on the main thread, but each  *)
(* host call is a step of its own here: other programs (irqbalance, a      *)
(* service manager) write the same controls, a cgroup may be recreated and *)
(* a task's PID reused between any two of them, each call may fail, and    *)
(* the process may die anywhere.  The journal is a file per process; a new *)
(* process starts a new file and never reads an old one.                   *)
(***************************************************************************)
EXTENDS Integers, Sequences

CONSTANTS
  Files,         \* controls that are files: identity() is the inode
  Tasks,         \* controls "task-affinity:pid:start": read/write check start
  Values,        \* configured values, up to the equivalence of CPU lists
  FixtureValue,  \* what the demo fixture displays for every control
  Modes,         \* modes of the processes and recordings: TRUE is a demo
  MaxPlans,      \* bound: plans previewed in a behaviour
  MaxForeign,    \* bound: changes other programs make
  MaxRuns        \* bound: processes started one after the other

Targets == Files \cup Tasks

ASSUME ConstantsAssumption ==
  /\ MaxPlans \in Nat /\ MaxForeign \in Nat /\ MaxRuns \in Nat
  /\ FixtureValue \in Values /\ Modes \subseteq BOOLEAN

Outcomes == {"reviewed", "applied", "apply failed",
             "rollback requested", "reverted", "rollback failed"}

Plan == [id       : Nat \ {0},
         demo     : BOOLEAN,   \* description starts with "DEMO SIMULATION:"
         target   : Targets,
         identity : Nat,       \* the inode, or the start time in a task's path
         before   : Values,
         after    : Values,
         applied  : BOOLEAN,
         verified : BOOLEAN,
         outcome  : Outcomes]

NoPlan == [id |-> 0]

VARIABLES
  val,        \* the configured value of every control of the host
  gen,        \* which inode or task incarnation a control is now
  writer,     \* history: the plan that last wrote a control, or Nobody
  demoVal,    \* DemoHost: the same controls in memory
  demoRun,    \* the process was started with --demo
  shownDemo,  \* App.snapshot.demo: the mode of the displayed frame
  replay,     \* App.replay is set
  held,       \* App.frozen, or a time cursor: updates do not reach the display
  pending,    \* App.pending_action
  journal,    \* App.action_journal
  disk,       \* contents of this process's journal file
  archive,    \* entries in the journal files of earlier processes
  pc,         \* the next step of the running command
  work,       \* the plan the running command works on
  issued,     \* plan ids handed out (recording::stamp)
  foreign,    \* changes made by other programs
  runs        \* processes started

host    == <<val, gen, writer, demoVal>>
display == <<demoRun, shownDemo, replay, held>>
records == <<pending, journal, disk, archive>>
command == <<pc, work, issued>>
bounds  == <<foreign, runs>>
vars    == <<host, display, records, command, bounds>>

Idle == "idle"
PCs  == {Idle, "review", "identity", "read", "write", "set", "readback", "finish"}

\* No plan wrote the control since another program did.
Nobody == [by |-> 0, restored |-> FALSE]

Entries(s) == {s[i] : i \in DOMAIN s}
Last(s)    == s[Len(s)]

-----------------------------------------------------------------------------
(* Starting: App::new. *)

Init ==
  /\ val \in [Targets -> Values]
  /\ gen = [t \in Targets |-> 0]
  /\ writer = [t \in Targets |-> Nobody]
  /\ demoVal = [t \in Targets |-> FixtureValue]
  /\ demoRun \in Modes /\ shownDemo = demoRun /\ replay = FALSE /\ held = FALSE
  /\ pending = NoPlan /\ journal = <<>> /\ disk = <<>> /\ archive = {}
  /\ pc = Idle /\ work = NoPlan /\ issued = 0
  /\ foreign = 0 /\ runs = 1

\* The process dies, inside a command or not, and another one is started: its
\* journal file is its own, and the memory of the first is gone.
Restart ==
  /\ runs < MaxRuns
  /\ runs' = runs + 1
  /\ demoVal' = [t \in Targets |-> FixtureValue]
  /\ demoRun' \in Modes /\ shownDemo' = demoRun' /\ replay' = FALSE /\ held' = FALSE
  /\ pending' = NoPlan /\ journal' = <<>> /\ disk' = <<>>
  /\ archive' = archive \cup Entries(disk)
  /\ pc' = Idle /\ work' = NoPlan
  /\ UNCHANGED <<val, gen, writer, issued, foreign>>

-----------------------------------------------------------------------------
(* The other programs of the host. *)

\* irqbalance, a service manager or an administrator writes a control; with
\* again, the control itself is replaced: a cgroup recreated, a PID reused.
ForeignWrite(t, v, again) ==
  /\ foreign < MaxForeign
  /\ foreign' = foreign + 1
  /\ val' = [val EXCEPT ![t] = v]
  /\ gen' = IF again THEN [gen EXCEPT ![t] = @ + 1] ELSE gen
  /\ writer' = [writer EXCEPT ![t] = Nobody]
  /\ UNCHANGED <<demoVal, display, records, command, runs>>

-----------------------------------------------------------------------------
(* What the display shows decides which host a command works on. *)

\* App::update: a frame of this process's own mode is shown unless held.
Update ==
  /\ pc = Idle /\ ~replay /\ ~held
  /\ shownDemo' = demoRun
  /\ UNCHANGED <<host, demoRun, replay, held, records, command, bounds>>

\* "f", the time cursor keys.
Hold(b) ==
  /\ pc = Idle
  /\ held' = b
  /\ UNCHANGED <<host, demoRun, shownDemo, replay, records, command, bounds>>

\* "replay FILE": the first frame of a live or a demo recording.
Replay(d) ==
  /\ pc = Idle
  /\ replay' = TRUE /\ held' = TRUE /\ shownDemo' = d
  /\ UNCHANGED <<host, demoRun, records, command, bounds>>

\* "live": the recorded frame stays displayed until the next update.
Live ==
  /\ pc = Idle
  /\ replay' = FALSE /\ held' = FALSE
  /\ UNCHANGED <<host, demoRun, shownDemo, records, command, bounds>>

-----------------------------------------------------------------------------
(* preview *)

\* The path of a task names one incarnation: validate_task.
SameTask == work.target \in Tasks /\ ~work.demo => gen[work.target] = work.identity

ShownValue(t) == IF shownDemo THEN demoVal[t] ELSE val[t]

\* Plan::preview: host.read.  A task's path holds the start time the display
\* shows, and read refuses another incarnation.
PreviewRead(t, v) ==
  /\ pc = Idle /\ ~replay /\ issued < MaxPlans
  /\ issued' = issued + 1
  /\ work' = [id |-> issued + 1, demo |-> shownDemo, target |-> t,
              identity |-> IF shownDemo THEN 0 ELSE gen[t],
              before |-> ShownValue(t), after |-> v,
              applied |-> FALSE, verified |-> FALSE, outcome |-> "reviewed"]
  /\ pc' = "review"
  /\ UNCHANGED <<host, display, records, bounds>>

\* Plan::preview: host.identity and host.effective, after the read; the plan
\* awaits its review.
PreviewIdentity ==
  /\ pc = "review" /\ SameTask
  /\ pending' = IF work.demo \/ work.target \in Tasks
                  THEN work ELSE [work EXCEPT !.identity = gen[work.target]]
  /\ pc' = Idle /\ work' = NoPlan
  /\ UNCHANGED <<host, display, journal, disk, archive, issued, bounds>>

\* A host call of preview fails: the earlier pending plan stays.
PreviewFails ==
  /\ pc = "review" /\ ~work.demo
  /\ pc' = Idle /\ work' = NoPlan
  /\ UNCHANGED <<host, display, records, issued, bounds>>

-----------------------------------------------------------------------------
(* The journal file *)

\* save_journal(plans): a temporary file, fsync, rename.  On success the file
\* holds plans.  A failure before the rename leaves the old file, a failure
\* of the directory's fsync leaves the new one.
SavedTo(plans) == disk' = plans
SaveFails(plans) == disk' \in {disk, plans}

-----------------------------------------------------------------------------
(* apply and revert, up to the first host call *)

\* Mutant: the host calls begin before the intent is journalled.
ApplyStartUnsaved ==
  /\ pc = Idle /\ ~replay
  /\ pending # NoPlan /\ pending.demo = shownDemo
  /\ journal' = Append(journal, pending)
  /\ work' = pending /\ pending' = NoPlan
  /\ pc' = "identity"
  /\ UNCHANGED <<host, display, disk, archive, issued, bounds>>

\* Mutant: apply does not ask whether a recording is replayed.
ApplyStartInReplay ==
  /\ pc = Idle
  /\ pending # NoPlan /\ pending.demo = shownDemo
  /\ journal' = Append(journal, pending)
  /\ SavedTo(journal')
  /\ work' = pending /\ pending' = NoPlan
  /\ pc' = "identity"
  /\ UNCHANGED <<host, display, archive, issued, bounds>>

\* "apply ID" of the pending plan, in the mode it was previewed in: the
\* reviewed intent is journalled, then the host calls begin.
ApplyStart ==
  /\ pc = Idle /\ ~replay
  /\ pending # NoPlan /\ pending.demo = shownDemo
  /\ journal' = Append(journal, pending)
  /\ SavedTo(journal')
  /\ work' = pending /\ pending' = NoPlan
  /\ pc' = "identity"
  /\ UNCHANGED <<host, display, archive, issued, bounds>>

\* Mutant: the entry stays in the journal when it could not be saved.
ApplyRefusedUnpopped ==
  /\ pc = Idle /\ ~replay
  /\ pending # NoPlan /\ pending.demo = shownDemo
  /\ journal' = Append(journal, pending)
  /\ SaveFails(journal')
  /\ UNCHANGED <<host, display, pending, archive, command, bounds>>

\* The intent cannot be saved: nothing is applied, the plan stays pending.
ApplyRefused ==
  /\ pc = Idle /\ ~replay
  /\ pending # NoPlan /\ pending.demo = shownDemo
  /\ SaveFails(Append(journal, pending))
  /\ UNCHANGED <<host, display, pending, journal, archive, command, bounds>>

\* journal with its last entry marked as being rolled back.
RollbackRequested ==
  [journal EXCEPT ![Len(journal)] = [@ EXCEPT !.outcome = "rollback requested"]]

\* "revert" takes the last entry of the journal, whatever became of it.
RevertStart ==
  /\ pc = Idle /\ ~replay
  /\ journal # <<>> /\ Last(journal).demo = shownDemo
  /\ journal' = RollbackRequested
  /\ SavedTo(journal')
  /\ work' = Last(journal')
  /\ pc' = "identity"
  /\ UNCHANGED <<host, display, pending, archive, issued, bounds>>

\* The request cannot be saved; the entry keeps its new outcome.
RevertRefused ==
  /\ pc = Idle /\ ~replay
  /\ journal # <<>> /\ Last(journal).demo = shownDemo
  /\ journal' = RollbackRequested
  /\ SaveFails(journal')
  /\ UNCHANGED <<host, display, pending, archive, command, bounds>>

\* "revert" with an empty journal saves it all the same.
RevertNothing ==
  /\ pc = Idle /\ ~replay
  /\ journal = <<>>
  /\ SavedTo(journal)
  /\ UNCHANGED <<host, display, pending, journal, archive, command, bounds>>

-----------------------------------------------------------------------------
(* apply_inner and revert_inner, one host call after the other *)

Reverting == work.outcome = "rollback requested"
Expected  == IF Reverting THEN work.after ELSE work.before
Wanted    == IF Reverting THEN work.before ELSE work.after

\* Mutant: a failed command is taken to have changed nothing.
FailedUndone(plan) ==
  [plan EXCEPT !.outcome = IF Reverting THEN "rollback failed" ELSE "apply failed",
               !.applied = FALSE]

\* The early return of an error: apply and revert record it as the outcome.
Failed(plan) ==
  [plan EXCEPT !.outcome = IF Reverting THEN "rollback failed" ELSE "apply failed"]

Step(from, to) ==
  /\ pc = from /\ pc' = to
  /\ UNCHANGED <<gen, display, records, issued, bounds>>

CheckIdentity ==
  /\ Step("identity", "read")
  /\ work.demo \/ work.target \in Tasks \/ gen[work.target] = work.identity
  /\ Reverting => work.applied
  /\ UNCHANGED <<val, writer, demoVal, work>>

CheckValue ==
  /\ Step("read", "write")
  /\ SameTask
  /\ Expected = IF work.demo THEN demoVal[work.target] ELSE val[work.target]
  /\ UNCHANGED <<val, writer, demoVal, work>>

\* LinuxHost::write to a task validates its start time before the system call.
ValidateTask ==
  /\ Step("write", "set")
  /\ work.target \in Tasks /\ ~work.demo /\ SameTask
  /\ UNCHANGED <<val, writer, demoVal, work>>

\* Mutant: the action counts as applied only once it was read back.
WriteHostUnmarked(taken) ==
  /\ \/ Step("write", "readback") /\ work.target \in Files
     \/ Step("set", "readback")
  /\ ~work.demo
  /\ IF taken
       THEN /\ val' = [val EXCEPT ![work.target] = Wanted]
            /\ writer' = [writer EXCEPT ![work.target] =
                            [by |-> work.id, restored |-> Reverting]]
       ELSE UNCHANGED <<val, writer>>
  /\ UNCHANGED <<demoVal, work>>

\* The control takes the value, or the kernel accepts the write and keeps its
\* own; either way the action counts as applied.
WriteHost(taken) ==
  /\ \/ Step("write", "readback") /\ work.target \in Files
     \/ Step("set", "readback")
  /\ ~work.demo
  /\ IF taken
       THEN /\ val' = [val EXCEPT ![work.target] = Wanted]
            /\ writer' = [writer EXCEPT ![work.target] =
                            [by |-> work.id, restored |-> Reverting]]
       ELSE UNCHANGED <<val, writer>>
  /\ work' = [work EXCEPT !.applied = TRUE]
  /\ UNCHANGED demoVal

WriteDemo ==
  /\ Step("write", "readback")
  /\ work.demo
  /\ demoVal' = [demoVal EXCEPT ![work.target] = Wanted]
  /\ work' = [work EXCEPT !.applied = TRUE]
  /\ UNCHANGED <<val, writer>>

\* Mutant: the value read back is not compared with the wanted one.
ReadbackUnchecked(allowed) ==
  /\ Step("readback", "finish")
  /\ SameTask
  /\ work' = IF Reverting
               THEN [work EXCEPT !.verified = allowed, !.applied = FALSE, !.outcome = "reverted"]
               ELSE [work EXCEPT !.verified = allowed, !.outcome = "applied"]
  /\ UNCHANGED <<val, writer, demoVal>>

\* effective() and read() after the write.  The effective CPUs of an IRQ or a
\* cgroup may exceed the request, so allowed is the environment's choice there.
Readback(allowed) ==
  /\ Step("readback", "finish")
  /\ SameTask
  /\ LET now      == IF work.demo THEN demoVal[work.target] ELSE val[work.target]
         verified == now = Wanted /\ allowed
         checked  == [work EXCEPT !.verified = verified]
     IN  /\ work.demo \/ work.target \in Tasks => allowed
         /\ work' = IF ~verified THEN Failed(checked)
                    ELSE IF Reverting
                    THEN [checked EXCEPT !.applied = FALSE, !.outcome = "reverted"]
                    ELSE [checked EXCEPT !.outcome = "applied"]
  /\ UNCHANGED <<val, writer, demoVal>>

\* A check that does not hold ends the command, and so does any failing call
\* of the host; calls of DemoHost do not fail.
CommandFails ==
  /\ \E from \in {"identity", "read", "write", "set", "readback"} : Step(from, "finish")
  /\ work.demo => \/ pc = "identity" /\ Reverting /\ ~work.applied
                  \/ pc = "read" /\ Expected # demoVal[work.target]
  /\ work' = Failed(work)
  /\ UNCHANGED <<val, writer, demoVal>>

\* Mutant: the plan of the finished command is kept.
FinishUncleared ==
  /\ pc = "finish"
  /\ journal' = [journal EXCEPT ![Len(journal)] = work]
  /\ SavedTo(journal') \/ SaveFails(journal')
  /\ pc' = Idle
  /\ UNCHANGED <<host, display, pending, archive, work, issued, bounds>>

\* The entry takes the outcome and the journal is saved; an error of this save
\* only shows in the status line.
Finish ==
  /\ pc = "finish"
  /\ journal' = [journal EXCEPT ![Len(journal)] = work]
  /\ SavedTo(journal') \/ SaveFails(journal')
  /\ pc' = Idle /\ work' = NoPlan
  /\ UNCHANGED <<host, display, pending, archive, issued, bounds>>

\* "verify" judges an applied plan (module Verification), saves the journal if
\* there is one and freezes the display, in a replay too.
Verify ==
  /\ pc = Idle
  /\ journal # <<>> /\ (SavedTo(journal) \/ SaveFails(journal))
  /\ held' = TRUE
  /\ UNCHANGED <<host, demoRun, shownDemo, replay, pending, journal, archive,
                 command, bounds>>

-----------------------------------------------------------------------------
Environment == \E t \in Targets, v \in Values, again \in BOOLEAN : ForeignWrite(t, v, again)

Display == Update \/ (\E b \in BOOLEAN : Hold(b)) \/ (\E d \in Modes : Replay(d)) \/ Live

Preview ==
  \/ \E t \in Targets, v \in Values : PreviewRead(t, v)
  \/ PreviewIdentity
  \/ PreviewFails

HostCalls ==
  \/ CheckIdentity
  \/ CheckValue
  \/ ValidateTask
  \/ \E taken \in BOOLEAN : WriteHost(taken)
  \/ WriteDemo
  \/ \E allowed \in BOOLEAN : Readback(allowed)
  \/ CommandFails

Commands ==
  \/ ApplyStart \/ ApplyRefused
  \/ RevertStart \/ RevertRefused \/ RevertNothing
  \/ Finish \/ Verify

Next == Environment \/ Restart \/ Display \/ Preview \/ HostCalls \/ Commands

Spec == Init /\ [][Next]_vars

-----------------------------------------------------------------------------
(* Properties *)

HostTypes ==
  /\ val \in [Targets -> Values] /\ demoVal \in [Targets -> Values]
  /\ gen \in [Targets -> Nat]
  /\ writer \in [Targets -> [by : Nat, restored : BOOLEAN]]

DisplayTypes ==
  /\ demoRun \in BOOLEAN /\ shownDemo \in BOOLEAN
  /\ replay \in BOOLEAN /\ held \in BOOLEAN

RecordTypes ==
  /\ pending \in Plan \cup {NoPlan}
  /\ journal \in Seq(Plan) /\ disk \in Seq(Plan)
  /\ archive \subseteq Plan

CommandTypes ==
  /\ pc \in PCs
  /\ IF pc = Idle THEN work = NoPlan ELSE work \in Plan
  /\ issued \in Nat

BoundTypes == foreign \in Nat /\ runs \in Nat

\* Every variable has its type, and a command works on the plan it should:
\* between commands there is none.
TypeOK == HostTypes /\ DisplayTypes /\ RecordTypes /\ CommandTypes /\ BoundTypes

\* What the journal files of this and of the earlier processes record.
Recorded == Entries(disk) \cup archive

\* A control whose last writer is this program has its reviewed plan in a
\* journal file on disk, for that very control, live and not simulated, and
\* that entry does not deny a change the control still shows: it is applied, or
\* still the intent.
\* So it is across failed saves, crashes in any step, replay and demo.
IntentOnDisk ==
  \A t \in Targets : writer[t].by # 0 =>
    \E e \in Recorded :
      /\ e.id = writer[t].by /\ e.target = t /\ ~e.demo
      /\ \/ writer[t].restored \/ val[t] = e.before
         \/ e.applied \/ e.outcome = "reviewed"

\* Between commands, a control that still holds the value a plan of this
\* process wrote belongs to an entry that is outstanding (applied), whichever
\* host call failed on the way: no change is left behind that revert would
\* refuse as "not applied".
NothingLeftBehind ==
  pc = Idle =>
    \A t \in Targets : \A i \in DOMAIN journal :
      /\ writer[t] = [by |-> journal[i].id, restored |-> FALSE]
      /\ val[t] # journal[i].before
      => journal[i].applied

\* The outcome the journal shows is what the host holds, as long as no other
\* program changed the control since: an applied value is there, a reverted
\* entry's original is back.
OutcomeMatchesHost ==
  pc = Idle =>
    \A t \in Targets : \A i \in DOMAIN journal :
      writer[t].by = journal[i].id =>
        /\ journal[i].outcome = "applied"  => val[t] = journal[i].after
        /\ journal[i].outcome = "reverted" => val[t] = journal[i].before

\* Between commands the journal neither denies a change it made nor claims one
\* the host does not hold.
JournalIsTruthful == NothingLeftBehind /\ OutcomeMatchesHost

\* A plan is applied once: it is never both pending and in the journal, and no
\* two entries are the same plan, however often saving its intent failed.
AppliedOnce ==
  /\ \A i, j \in DOMAIN journal : journal[i].id = journal[j].id => i = j
  /\ \A i \in DOMAIN journal : journal[i].id # pending.id

\* While a recording is replayed no command changes the host or the demo's.
ReplayIsReadOnly ==
  [][replay => /\ demoVal' = demoVal \/ runs' # runs
               /\ \A t \in Targets : writer'[t] # writer[t] => writer'[t] = Nobody
    ]_vars

\* An action is outstanding until it was rolled back: whatever fails in a
\* rollback, or in a second one, the entry stays applied (the test
\* failed_rollback_keeps_action_outstanding of actions.rs).
OutstandingUntilReverted ==
  [][\A i \in DOMAIN journal :
       i \in DOMAIN journal' /\ journal[i].applied /\ ~journal'[i].applied
       => journal'[i].outcome = "reverted"]_vars

\* Demo actions are simulated in memory: a process started with --demo leaves
\* the host alone.
DemoLeavesHost ==
  [][demoRun => \A t \in Targets : writer'[t] # writer[t] => writer'[t] = Nobody]_vars

=============================================================================
