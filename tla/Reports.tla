------------------------------ MODULE Reports ------------------------------
(***************************************************************************)
(* Incident reports: a directory of files built under a staging name and   *)
(* renamed to its final one (export_profiles and publish_directory of      *)
(* recording.rs), by several processes in one working directory.  A power  *)
(* failure may undo whatever was not synced.  Names are time stamps: those *)
(* of exports under way differ, an old one may come again.                 *)
(***************************************************************************)
EXTENDS Naturals, FiniteSets

CONSTANTS
  Process,      \* running instances
  Base,         \* files every report has
  Extra,        \* further files of a report with a flame baseline
  StagingName,  \* what staging directories can be called
  ReportName,   \* what reports can be called
  MaxExports    \* bound: exports begun

Manifest == "manifest.json"

ASSUME ReportsAssumption ==
  /\ MaxExports \in Nat /\ {Manifest, "none"} \cap (Base \cup Extra) = {}
  /\ StagingName \cap ReportName = {}

VARIABLES
  dirs,         \* the directory of each name, or NoDir
  job,          \* per process: the export under way
  exports,      \* exports begun
  moved,        \* renames that are not durable yet: <<from, to>>
  done          \* what export returned Ok for: <<name, files>> (history)

reportVars == <<dirs, job, exports, moved, done>>

(* A directory: its files, those whose data are complete, those whose data  *)
(* are durable, the entries that are durable, and what its manifest lists.  *)
Dir == [files: SUBSET (Base \cup Extra \cup {Manifest}),
        whole: SUBSET (Base \cup Extra \cup {Manifest}),
        synced: SUBSET (Base \cup Extra \cup {Manifest}),
        entries: SUBSET (Base \cup Extra \cup {Manifest}),
        lists: SUBSET (Base \cup Extra)]
NoDir == [files |-> {}]
EmptyDir == [files |-> {}, whole |-> {}, synced |-> {}, entries |-> {}, lists |-> {}]
Exists(n) == dirs[n] # NoDir
Idle == [step |-> "idle"]
At(p, step) == job[p].step = step
Goto(p, step) == job' = [job EXCEPT ![p].step = step]

ReportsInit ==
  /\ dirs = [n \in StagingName \cup ReportName |-> NoDir]
  /\ job = [p \in Process |-> Idle]
  /\ exports = 0 /\ moved = {} /\ done = {}
-----------------------------------------------------------------------------
(* Everything is serialised before anything is created, and a comparison    *)
(* that cannot be made ends the export there.  With the staging directory   *)
(* there is a guard that removes it however the export ends.                *)
Begin(p) ==
  /\ At(p, "idle") /\ exports < MaxExports
  /\ exports' = exports + 1
  /\ \E s \in StagingName, r \in ReportName, extra \in {{}, Extra} :
       /\ \A q \in Process : ~At(q, "idle") => job[q].staging # s
       /\ ~Exists(s)
       /\ dirs' = [dirs EXCEPT ![s] = EmptyDir]
       /\ job' = [job EXCEPT ![p] = [step |-> "write", staging |-> s, report |-> r,
                                     all |-> Base \cup extra, open |-> "none"]]
  /\ UNCHANGED <<moved, done>>

(* One file of those left, the manifest after all others.                   *)
OpenFile(p) ==
  /\ At(p, "write") /\ job[p].open = "none"
  /\ LET s == job[p].staging
         left == job[p].all \ dirs[s].files
     IN  \E f \in IF left = {} THEN {Manifest} \ dirs[s].files ELSE left :
           /\ dirs' = [dirs EXCEPT ![s].files = @ \cup {f}]
           /\ job' = [job EXCEPT ![p].open = f]
  /\ UNCHANGED <<exports, moved, done>>
WriteFile(p) ==
  /\ At(p, "write") /\ job[p].open # "none"
  /\ job[p].open \notin dirs[job[p].staging].whole
  /\ LET s == job[p].staging
     IN  dirs' = [dirs EXCEPT ![s] =
           [dirs[s] EXCEPT !.whole = @ \cup {job[p].open},
                           !.lists = IF job[p].open = Manifest THEN job[p].all ELSE @]]
  /\ UNCHANGED <<job, exports, moved, done>>

(* Mutant: a file is closed without fsync.                                  *)
SyncFileNot(p) ==
  /\ At(p, "write") /\ job[p].open \in dirs[job[p].staging].whole
  /\ job' = [job EXCEPT ![p].open = "none",
                        ![p].step = IF job[p].open = Manifest THEN "sync" ELSE @]
  /\ UNCHANGED <<dirs, exports, moved, done>>

SyncFile(p) ==
  /\ At(p, "write") /\ job[p].open \in dirs[job[p].staging].whole
  /\ dirs' = [dirs EXCEPT ![job[p].staging].synced = @ \cup {job[p].open}]
  /\ job' = [job EXCEPT ![p].open = "none",
                        ![p].step = IF job[p].open = Manifest THEN "sync" ELSE @]
  /\ UNCHANGED <<exports, moved, done>>

(* publish_directory: the entries are made durable, then the name changes,  *)
(* unless something has that name.                                          *)
SyncDir(p) ==
  /\ At(p, "sync")
  /\ dirs' = [dirs EXCEPT ![job[p].staging].entries = dirs[job[p].staging].files]
  /\ Goto(p, "rename")
  /\ UNCHANGED <<exports, moved, done>>
Rename(p) ==
  /\ At(p, "rename")
  /\ LET s == job[p].staging
         r == job[p].report
     IN  IF Exists(r)
         THEN Goto(p, "cleanup") /\ UNCHANGED <<dirs, moved>>
         ELSE /\ dirs' = [dirs EXCEPT ![s] = NoDir, ![r] = dirs[s]]
              /\ moved' = moved \cup {<<s, r>>}
              /\ Goto(p, "durable")
  /\ UNCHANGED <<exports, done>>

(* Mutant: the working directory is not synced.                             *)
SyncWorkingDirNot(p) ==
  /\ At(p, "durable")
  /\ done' = done \cup {<<job[p].report, job[p].all>>}
  /\ Goto(p, "cleanup")
  /\ UNCHANGED <<dirs, exports, moved>>

SyncWorkingDir(p) ==
  /\ At(p, "durable")
  /\ moved' = {}
  /\ done' = done \cup {<<job[p].report, job[p].all>>}
  /\ Goto(p, "cleanup")
  /\ UNCHANGED <<dirs, exports>>

(* Any of these calls may fail: export returns the error.                   *)
ExportFails(p) ==
  /\ job[p].step \in {"write", "sync", "rename", "durable"}
  /\ Goto(p, "cleanup")
  /\ UNCHANGED <<dirs, exports, moved, done>>

(* The guard is dropped: remove_dir_all, entry by entry; it may fail too.   *)
Cleanup(p) ==
  /\ At(p, "cleanup")
  /\ LET s == job[p].staging IN
     \/ /\ dirs[s].files # {}
        /\ \E f \in dirs[s].files :
             dirs' = [dirs EXCEPT ![s] =
               [dirs[s] EXCEPT !.files = @ \ {f}, !.whole = @ \ {f},
                               !.synced = @ \ {f}, !.entries = @ \ {f}]]
        /\ UNCHANGED job
     \/ /\ dirs[s].files = {}
        /\ dirs' = [dirs EXCEPT ![s] = NoDir]
        /\ job' = [job EXCEPT ![p] = Idle]
     \/ /\ job' = [job EXCEPT ![p] = Idle]
        /\ UNCHANGED dirs
  /\ UNCHANGED <<exports, moved, done>>

ProcessDies(p) ==
  /\ ~At(p, "idle")
  /\ job' = [job EXCEPT ![p] = Idle]
  /\ UNCHANGED <<dirs, exports, moved, done>>

(* The power fails: of each directory the durable entries are left and some *)
(* of the others, of each file the durable data and maybe the rest, and a   *)
(* rename that is not durable may be undone.                                *)
After(d, gone, torn) ==
  [d EXCEPT !.files = @ \ gone, !.whole = @ \ (gone \cup torn), !.synced = @ \ gone]
PowerFails ==
  /\ \E gone \in SUBSET {e \in (DOMAIN dirs) \X (Base \cup Extra \cup {Manifest}) :
                          Exists(e[1]) /\ e[2] \in dirs[e[1]].files \ dirs[e[1]].entries},
        torn \in SUBSET {e \in (DOMAIN dirs) \X (Base \cup Extra \cup {Manifest}) :
                          Exists(e[1]) /\ e[2] \in dirs[e[1]].whole \ dirs[e[1]].synced},
        undone \in SUBSET moved :
       LET of(pairs, n) == {e[2] : e \in {x \in pairs : x[1] = n}}
           left == [n \in DOMAIN dirs |->
                      IF Exists(n) THEN After(dirs[n], of(gone, n), of(torn, n)) ELSE NoDir]
           source(n) == CHOOSE m \in undone : n \in {m[1], m[2]}
       IN  dirs' = [n \in DOMAIN dirs |->
                      IF \A m \in undone : n \notin {m[1], m[2]} THEN left[n]
                      ELSE IF source(n)[1] = n THEN left[source(n)[2]] ELSE NoDir]
  /\ job' = [p \in Process |-> Idle]
  /\ moved' = {}
  /\ UNCHANGED <<exports, done>>

ReportsNext ==
  \/ \E p \in Process :
       \/ Begin(p) \/ OpenFile(p) \/ WriteFile(p) \/ SyncFile(p) \/ SyncDir(p)
       \/ Rename(p) \/ SyncWorkingDir(p) \/ ExportFails(p) \/ Cleanup(p) \/ ProcessDies(p)
  \/ PowerFails
-----------------------------------------------------------------------------
(* A directory with a report's name is a complete report: the manifest is   *)
(* there, it lists what is there, and every file has all of its data, also  *)
(* after a power failure at any step (docs/REFERENCE.md: published          *)
(* atomically).                                                             *)
ReportsAreComplete ==
  \A r \in ReportName : Exists(r) =>
    /\ dirs[r].files = dirs[r].lists \cup {Manifest}
    /\ dirs[r].files \subseteq dirs[r].whole

(* A report export answered Ok for is never lost or replaced: not by a      *)
(* power failure, nor by another report of that name.                       *)
ReportsAreKept ==
  \A d \in done : Exists(d[1]) /\ dirs[d[1]].lists = d[2]

(* What has a report's name is a complete report, and stays.                *)
ReportsAreWhole == ReportsAreComplete /\ ReportsAreKept
=============================================================================
