--------------------------- MODULE SessionProofs ---------------------------
(***************************************************************************)
(* Theorems about what sessions leave on the disk: the settings, for any   *)
(* number of instances, and incident reports, for any files, instances and *)
(* names, with the power failing at any step; recordings, for any frames   *)
(* and wherever a write ends; about the issues that are diagnosed, for any *)
(* subjects, scopes, times and number of processes and boots; and about    *)
(* the verdicts on what was done for them, for any samples and windows.    *)
(***************************************************************************)
EXTENDS Diagnosis, Verification, Recording, Settings, Reports, DataLemmas, SequenceTheorems

-----------------------------------------------------------------------------
(* Settings.  A temporary file is torn or what its session has, for a       *)
(* session that saves has no choices any more.                              *)

SettingsSpec == SettingsInit /\ [][SettingsNext]_settingsVars

\* What a process has in memory and in its temporary file.
Saved(j, temp) ==
  \/ j = Ended
  \/ \E st \in {"running", "saving"} : \E v, t :
       j = Session(st, v, t) /\ (st = "saving" => temp \in {Torn, Value(v, t)})

SettingsInv ==
  /\ session = [p \in Launch |-> session[p]] /\ temporary = [p \in Launch |-> temporary[p]]
  /\ \A p \in Launch : Saved(session[p], temporary[p])
  /\ SettingsAreOfOneSession

LEMMA SessionFields ==
  ASSUME NEW st, NEW v, NEW t
  PROVE  LET j == Session(st, v, t) IN j.step = st /\ j.view = v /\ j.theme = t
  BY DEF Session

\* A step of one process that leaves the file alone.
LEMMA ProcessStep ==
  ASSUME SettingsInv, NEW p \in Launch, NEW j, NEW temp, Saved(j, temp),
         session' = [session EXCEPT ![p] = j], temporary' = [temporary EXCEPT ![p] = temp],
         UNCHANGED <<settings, saves, outage>>
  PROVE  SettingsInv'
  <1>1. /\ session' = [q \in Launch |-> session'[q]] /\ temporary' = [q \in Launch |-> temporary'[q]]
        /\ session'[p] = j /\ temporary'[p] = temp
        /\ \A q \in Launch \ {p} : session'[q] = session[q] /\ temporary'[q] = temporary[q]
    BY DEF SettingsInv
  <1>2. \A q \in Launch : Saved(session'[q], temporary'[q])
    BY <1>1 DEF SettingsInv
  <1> QED BY <1>1, <1>2 DEF SettingsInv, SettingsAreOfOneSession

LEMMA SettingsStep == SettingsInv /\ [SettingsNext]_settingsVars => SettingsInv'
  <1> SUFFICES ASSUME SettingsInv, [SettingsNext]_settingsVars PROVE SettingsInv'
    OBVIOUS
  <1>0. \A p \in Launch : /\ temporary = [temporary EXCEPT ![p] = temporary[p]]
                          /\ session = [session EXCEPT ![p] = session[p]]
    BY DEF SettingsInv
  <1>1. ASSUME NEW p \in Launch, Start(p) PROVE SettingsInv'
    <2>1. Saved(Session("running", Load.view, Load.theme), temporary[p])
      BY DEF Saved
    <2> QED BY <1>0, <1>1, <2>1, ProcessStep DEF Start
  <1>2. ASSUME NEW p \in Launch, Choose(p) PROVE SettingsInv'
    <2>1. PICK v, t : session' = [session EXCEPT ![p] = Session("running", v, t)]
      BY <1>2 DEF Choose
    <2>2. Saved(Session("running", v, t), temporary[p])
      BY DEF Saved
    <2> QED BY <1>0, <1>2, <2>1, <2>2, ProcessStep DEF Choose
  <1>3. ASSUME NEW p \in Launch, SaveBegins(p) PROVE SettingsInv'
    <2>1. PICK v, t : session' = [session EXCEPT ![p] = Session("saving", v, t)]
      BY <1>3 DEF SaveBegins
    <2>2. Saved(Session("saving", v, t), Torn)
      BY DEF Saved
    <2> QED BY <1>3, <2>1, <2>2, ProcessStep DEF SaveBegins
  <1>4. ASSUME NEW p \in Launch, SaveWrites(p) PROVE SettingsInv'
    <2> DEFINE v == session[p].view
               t == session[p].theme
    <2>1. session[p] = Session("saving", v, t)
      <3>1. session[p] # Ended
        BY <1>4 DEF SaveWrites, Ended
      <3>2. PICK st, w, u : session[p] = Session(st, w, u)
        BY <3>1 DEF SettingsInv, Saved
      <3> QED BY <1>4, <3>2, SessionFields DEF SaveWrites
    <2>2. /\ session' = [session EXCEPT ![p] = Session("saving", v, t)]
          /\ temporary' = [temporary EXCEPT ![p] = Value(v, t)]
      BY <1>0, <1>4, <2>1 DEF SaveWrites
    <2>3. Saved(Session("saving", v, t), Value(v, t))
      BY DEF Saved
    <2> HIDE DEF v, t
    <2> QED BY <1>4, <2>2, <2>3, ProcessStep DEF SaveWrites
  <1>5. ASSUME NEW p \in Launch, SaveRenames(p) PROVE SettingsInv'
    <2>1. temporary[p] = Value(session[p].view, session[p].theme)
      <3>1. session[p] # Ended
        BY <1>5 DEF SaveRenames, Ended
      <3>2. PICK st, v, t : /\ session[p] = Session(st, v, t)
                            /\ st = "saving" => temporary[p] \in {Torn, Value(v, t)}
        BY <3>1 DEF SettingsInv, Saved
      <3> QED BY <1>5, <3>2, SessionFields DEF SaveRenames
    <2>2. SettingsAreOfOneSession'
      BY <1>5, <2>1 DEF SaveRenames, SettingsAreOfOneSession
    <2>3. \A q \in Launch : Saved(session'[q], temporary'[q])
      BY <1>5 DEF SaveRenames, SettingsInv, Saved
    <2>4. /\ session' = [q \in Launch |-> session'[q]]
          /\ temporary' = [q \in Launch |-> temporary'[q]]
      BY <1>5 DEF SaveRenames, SettingsInv
    <2> QED BY <2>2, <2>3, <2>4 DEF SettingsInv
  <1>6. ASSUME NEW p \in Launch, ProcessEnds(p) PROVE SettingsInv'
    BY <1>6, ProcessStep DEF ProcessEnds, Saved
  <1>7. CASE SettingsPowerFails
    BY <1>7 DEF SettingsPowerFails, SettingsInv, SettingsAreOfOneSession, Saved
  <1>8. CASE UNCHANGED settingsVars
    BY <1>8 DEF settingsVars, SettingsInv, SettingsAreOfOneSession
  <1> QED BY <1>1, <1>2, <1>3, <1>4, <1>5, <1>6, <1>7, <1>8 DEF SettingsNext

\* While the power holds the settings file is one that a session saved, whole,
\* whatever ends the others while they save (Settings::save).
THEOREM SettingsCorrect == SettingsSpec => []SettingsAreOfOneSession
  <1>1. SettingsInit => SettingsInv
    BY DEF SettingsInit, SettingsInv, SettingsAreOfOneSession, Saved
  <1>2. SettingsInv => SettingsAreOfOneSession
    BY DEF SettingsInv
  <1> QED BY <1>1, <1>2, SettingsStep, PTL DEF SettingsSpec

-----------------------------------------------------------------------------
(* Reports.  A directory is renamed to a report's name when every file of   *)
(* it is written, is durable and is listed, and so are the entries; a power *)
(* failure then takes all of it or nothing.                                 *)

ReportsSpec == ReportsInit /\ [][ReportsNext]_reportVars

File == Base \cup Extra \cup {Manifest}

Job == [step : {"write", "sync", "rename", "durable", "cleanup"}, staging : StagingName,
        report : ReportName, all : SUBSET (Base \cup Extra), open : File \cup {"none"}]

\* All files, listed in the manifest, have all of their data, durably.
Closed(d, all) ==
  /\ d.files = all \cup {Manifest} /\ d.lists = all
  /\ d.files \subseteq d.whole /\ d.files \subseteq d.synced

\* Files that are closed are whole and synced; the manifest comes last.
Growing(d, all, open) ==
  /\ d.files \subseteq all \cup {Manifest}
  /\ d.files \ {open} \subseteq d.whole /\ d.files \ {open} \subseteq d.synced
  /\ open # "none" => open \in d.files
  /\ Manifest \in d.files => open = Manifest /\ all \subseteq d.files
  /\ open = Manifest /\ Manifest \in d.whole => d.lists = all
  /\ d.whole \subseteq d.files

\* The staging directory d of a job.
Staged(j, d) ==
  /\ j.step = "write" => d \in Dir /\ Growing(d, j.all, j.open)
  /\ j.step = "sync" => d \in Dir /\ Closed(d, j.all)
  /\ j.step = "rename" => d \in Dir /\ Closed(d, j.all) /\ d.files \subseteq d.entries

\* A job that has renamed its directory to d.
Published(j, d) == j.step = "durable" => d # NoDir /\ d.lists = j.all

JobsInv ==
  /\ dirs = [n \in StagingName \cup ReportName |-> dirs[n]]
  /\ job = [p \in Process |-> job[p]]
  /\ \A p \in Process : job[p] # Idle =>
       /\ job[p] \in Job /\ Staged(job[p], dirs[job[p].staging])
       /\ Published(job[p], dirs[job[p].report])
  /\ \A p, q \in Process :
       p # q /\ job[p] # Idle /\ job[q] # Idle => job[p].staging # job[q].staging

\* A report is complete and durable; its name may not be.
CompleteInv ==
  \A r \in ReportName : Exists(r) =>
    dirs[r] \in Dir /\ Closed(dirs[r], dirs[r].lists) /\ dirs[r].files \subseteq dirs[r].entries

\* What an export answered Ok for has a durable name.
KeptInv ==
  /\ moved \subseteq StagingName \X ReportName
  /\ \A d \in done : /\ d[1] \in ReportName /\ Exists(d[1]) /\ dirs[d[1]].lists = d[2]
                     /\ \A m \in moved : m[2] # d[1]

ReportsInv == JobsInv /\ CompleteInv /\ KeptInv

\* A step that changes one job and one staging directory.
Changes(p, j, s, d) ==
  /\ job' = [job EXCEPT ![p] = j]
  /\ dirs' = [dirs EXCEPT ![s] = d]
  /\ UNCHANGED <<moved, done>>

StagingOnly(p, j, d) == Changes(p, j, job[p].staging, d)

LEMMA ChangesStep ==
  ASSUME ReportsInv, NEW p \in Process, NEW s \in StagingName, NEW j, NEW d, Changes(p, j, s, d),
         \A q \in Process : q # p /\ job[q] # Idle => job[q].staging # s,
         j # Idle => /\ j \in Job /\ Staged(j, d) /\ j.staging = s
                     /\ Published(j, dirs[j.report])
  PROVE  ReportsInv'
  <1>0. JobsInv /\ CompleteInv /\ KeptInv
    BY DEF ReportsInv
  <1>1. s \notin ReportName
    BY ReportsAssumption
  <1>2. /\ dirs' = [n \in StagingName \cup ReportName |-> dirs'[n]]
        /\ dirs'[s] = d /\ \A n \in StagingName \cup ReportName : n # s => dirs'[n] = dirs[n]
        /\ job' = [q \in Process |-> job'[q]] /\ job'[p] = j
        /\ \A q \in Process : q # p => job'[q] = job[q]
        /\ UNCHANGED <<moved, done>>
    BY <1>0 DEF Changes, JobsInv
  <1>3. \A r \in ReportName : dirs'[r] = dirs[r]
    BY <1>1, <1>2
  <1>4. \A q \in Process : q # p /\ job[q] # Idle => /\ job[q].staging \in StagingName
                                                  /\ job[q].report \in ReportName
    BY <1>0 DEF JobsInv, Job
  <1>6. \A q \in Process : job'[q] # Idle =>
          /\ job'[q] \in Job /\ Staged(job'[q], dirs'[job'[q].staging])
          /\ Published(job'[q], dirs'[job'[q].report])
    <2> TAKE q \in Process
    <2>1. CASE q = p
      BY <1>2, <1>3, <2>1 DEF Job
    <2>2. CASE q # p
      BY <1>0, <1>2, <1>3, <1>4, <2>2 DEF JobsInv
    <2> QED BY <2>1, <2>2
  <1>7. \A x, q \in Process :
          x # q /\ job'[x] # Idle /\ job'[q] # Idle => job'[x].staging # job'[q].staging
    BY <1>0, <1>2 DEF JobsInv
  <1>8. JobsInv'
    BY <1>2, <1>6, <1>7 DEF JobsInv
  <1>9. CompleteInv' /\ KeptInv'
    BY <1>0, <1>2, <1>3 DEF CompleteInv, KeptInv, Exists
  <1> QED BY <1>8, <1>9 DEF ReportsInv

LEMMA StagingStep ==
  ASSUME ReportsInv, NEW p \in Process, job[p] # Idle, NEW j, NEW d, StagingOnly(p, j, d),
         j # Idle => /\ j \in Job /\ Staged(j, d) /\ j.staging = job[p].staging
                     /\ Published(j, dirs[j.report])
  PROVE  ReportsInv'
  <1>1. /\ job[p].staging \in StagingName
        /\ \A q \in Process : q # p /\ job[q] # Idle => job[q].staging # job[p].staging
    BY DEF ReportsInv, JobsInv, Job
  <1> QED BY <1>1, ChangesStep DEF StagingOnly

\* A job that goes on to another step.
LEMMA JobSteps ==
  ASSUME NEW j \in Job, NEW st \in {"write", "sync", "rename", "durable", "cleanup"}
  PROVE  LET k == [j EXCEPT !.step = st]
         IN  /\ k \in Job /\ k # Idle /\ k.step = st
             /\ k.staging = j.staging /\ k.report = j.report /\ k.all = j.all /\ k.open = j.open
  <1> DEFINE k == [j EXCEPT !.step = st]
  <1>1. k \in Job
    BY DEF Job
  <1>2. k.step = st /\ k.staging = j.staging /\ k.report = j.report /\ k.all = j.all
        /\ k.open = j.open
    BY DEF Job
  <1>3. k # Idle
    BY <1>2 DEF Idle
  <1> QED BY <1>1, <1>2, <1>3

\* A job whose step is told by its name is not idle.
LEMMA NotIdle ==
  ASSUME JobsInv, NEW p \in Process,
         job[p].step \in {"write", "sync", "rename", "durable", "cleanup"}
  PROVE  /\ job[p] # Idle /\ job[p] \in Job /\ Staged(job[p], dirs[job[p].staging])
         /\ Published(job[p], dirs[job[p].report])
         /\ job[p].staging \in StagingName /\ job[p].report \in ReportName
         /\ job[p].staging \notin ReportName
  <1>1. job[p] # Idle
    BY DEF Idle
  <1> QED BY <1>1, ReportsAssumption DEF JobsInv, Job

\* Exports under way have staging directories of their own.
LEMMA OthersStage ==
  ASSUME JobsInv
  PROVE  \A x, q \in Process :
           x # q /\ job[x] # Idle /\ job[q] # Idle => job[x].staging # job[q].staging
  BY DEF JobsInv

\* Steps that open, write and close a file.
LEMMA OpenFileStep ==
  ASSUME ReportsInv, NEW p \in Process, OpenFile(p)
  PROVE  ReportsInv'
  <1> DEFINE s == job[p].staging
             all == job[p].all
  <1>0. /\ JobsInv /\ job[p].step = "write" /\ job[p].open = "none"
    BY DEF ReportsInv, OpenFile, At
  <1>1. /\ job[p] # Idle /\ job[p] \in Job /\ dirs[s] \in Dir /\ Growing(dirs[s], all, "none")
        /\ s \in StagingName /\ all \subseteq Base \cup Extra
    BY <1>0, NotIdle DEF Staged, Job
  <1>2. PICK f \in IF all \ dirs[s].files = {} THEN {Manifest} \ dirs[s].files
                   ELSE all \ dirs[s].files :
          /\ dirs' = [dirs EXCEPT ![s].files = @ \cup {f}]
          /\ job' = [job EXCEPT ![p].open = f]
    BY DEF OpenFile
  <1> DEFINE j == [job[p] EXCEPT !.open = f]
             d == [dirs[s] EXCEPT !.files = @ \cup {f}]
  <1>3. f \in File /\ f \notin dirs[s].files /\ f \in all \cup {Manifest} /\ f # "none"
        /\ (f = Manifest => all \subseteq dirs[s].files)
    BY <1>1, <1>2, ReportsAssumption DEF File, Manifest
  <1>4. StagingOnly(p, j, d)
    BY <1>0, <1>1, <1>2 DEF StagingOnly, Changes, OpenFile, JobsInv
  <1>5. /\ j \in Job /\ j # Idle /\ j.step = "write" /\ j.staging = s /\ j.all = all /\ j.open = f
    BY <1>0, <1>1, <1>3 DEF Job, Idle
  <1>6. /\ d \in Dir /\ d.files = dirs[s].files \cup {f} /\ d.whole = dirs[s].whole
        /\ d.synced = dirs[s].synced /\ d.lists = dirs[s].lists
    BY <1>1, <1>3 DEF Dir, File
  <1> HIDE DEF j, d
  <1>7. Growing(d, all, f)
    <2>1. Manifest # "none" /\ "none" \notin dirs[s].files /\ Manifest \notin dirs[s].files
      BY <1>1, ReportsAssumption DEF Growing, Manifest, Dir
    <2> HIDE DEF s, all
    <2> QED BY <1>1, <1>3, <1>6, <2>1 DEF Growing
  <1>8. Staged(j, d) /\ Published(j, dirs[j.report])
    BY <1>5, <1>6, <1>7 DEF Staged, Published
  <1> QED BY <1>1, <1>4, <1>5, <1>8, StagingStep

LEMMA WriteFileStep ==
  ASSUME ReportsInv, NEW p \in Process, WriteFile(p)
  PROVE  ReportsInv'
  <1> DEFINE s == job[p].staging
             all == job[p].all
             f == job[p].open
             lists == IF f = Manifest THEN all ELSE dirs[s].lists
             d == [dirs[s] EXCEPT !.whole = @ \cup {f}, !.lists = IF f = Manifest THEN all ELSE @]
  <1>0. JobsInv /\ job[p].step = "write" /\ f # "none"
    BY DEF ReportsInv, WriteFile, At
  <1>1. /\ job[p] # Idle /\ job[p] \in Job /\ dirs[s] \in Dir /\ Growing(dirs[s], all, f)
        /\ Published(job[p], dirs[job[p].report])
        /\ s \in StagingName /\ all \subseteq Base \cup Extra /\ f \in File
    BY <1>0, NotIdle DEF Staged, Job
  <1>2. /\ dirs' = [dirs EXCEPT ![s] = d]
        /\ UNCHANGED <<job, moved, done>>
    BY DEF WriteFile
  <1>3. /\ d \in Dir /\ d.files = dirs[s].files /\ d.whole = dirs[s].whole \cup {f}
        /\ d.synced = dirs[s].synced /\ d.lists = lists
    BY <1>1 DEF Dir, File
  <1> HIDE DEF d
  <1>4. StagingOnly(p, job[p], d)
    BY <1>0, <1>2 DEF StagingOnly, Changes, JobsInv
  <1>5. Growing(d, all, f)
    <2> HIDE DEF s, all, f
    <2> QED BY <1>0, <1>1, <1>3 DEF Growing
  <1>6. Staged(job[p], d)
    BY <1>0, <1>3, <1>5 DEF Staged
  <1> QED BY <1>1, <1>4, <1>6, StagingStep

LEMMA SyncFileStep ==
  ASSUME ReportsInv, NEW p \in Process, SyncFile(p)
  PROVE  ReportsInv'
  <1> DEFINE s == job[p].staging
             all == job[p].all
             f == job[p].open
             st == IF f = Manifest THEN "sync" ELSE "write"
             d == [dirs[s] EXCEPT !.synced = @ \cup {f}]
             j == [job[p] EXCEPT !.open = "none", !.step = st]
  <1>0. JobsInv /\ job[p].step = "write" /\ f \in dirs[s].whole
    BY DEF ReportsInv, SyncFile, At
  <1>1. /\ job[p] # Idle /\ job[p] \in Job /\ dirs[s] \in Dir /\ Growing(dirs[s], all, f)
        /\ s \in StagingName /\ all \subseteq Base \cup Extra /\ f \in File
    <2>1. /\ job[p] # Idle /\ job[p] \in Job /\ dirs[s] \in Dir /\ Growing(dirs[s], all, f)
          /\ s \in StagingName /\ all \subseteq Base \cup Extra
      BY <1>0, NotIdle DEF Staged, Job
    <2>2. f \in File
      BY <1>0, <2>1 DEF Dir, File
    <2> QED BY <2>1, <2>2
  <1>2. /\ dirs' = [dirs EXCEPT ![s] = d]
        /\ job' = [job EXCEPT ![p] = j]
        /\ UNCHANGED <<moved, done>>
    BY <1>0 DEF SyncFile
  <1>3. /\ d \in Dir /\ d.files = dirs[s].files /\ d.whole = dirs[s].whole
        /\ d.synced = dirs[s].synced \cup {f} /\ d.lists = dirs[s].lists
    BY <1>1 DEF Dir, File
  <1>4. j \in Job /\ j # Idle /\ j.step = st /\ j.staging = s /\ j.all = all /\ j.open = "none"
    BY <1>0, <1>1 DEF Job, Idle
  <1> HIDE DEF d, j
  <1>5. StagingOnly(p, j, d)
    BY <1>2 DEF StagingOnly, Changes
  <1>6. CASE f = Manifest
    <2>1. Closed(d, all)
      <3> HIDE DEF s, all, f
      <3> QED BY <1>0, <1>1, <1>3, <1>6 DEF Growing, Closed
    <2>2. Staged(j, d) /\ Published(j, dirs[j.report])
      BY <1>3, <1>4, <1>6, <2>1 DEF Staged, Published
    <2> QED BY <1>1, <1>4, <1>5, <2>2, StagingStep
  <1>7. CASE f # Manifest
    <2>1. Growing(d, all, "none")
      <3>1. Manifest # "none" /\ Manifest \notin dirs[s].files
        BY <1>1, <1>7 DEF Growing, Manifest
      <3> HIDE DEF s, all, f
      <3> QED BY <1>0, <1>1, <1>3, <3>1 DEF Growing
    <2>2. Staged(j, d) /\ Published(j, dirs[j.report])
      BY <1>3, <1>4, <1>7, <2>1 DEF Staged, Published
    <2> QED BY <1>1, <1>4, <1>5, <2>2, StagingStep
  <1> QED BY <1>6, <1>7

\* Steps that make the entries durable, fail, clean up, and the end of a process.
LEMMA SyncDirStep ==
  ASSUME ReportsInv, NEW p \in Process, SyncDir(p)
  PROVE  ReportsInv'
  <1> DEFINE s == job[p].staging
             d == [dirs[s] EXCEPT !.entries = dirs[s].files]
             j == [job[p] EXCEPT !.step = "rename"]
  <1>0. JobsInv /\ job[p].step = "sync"
    BY DEF ReportsInv, SyncDir, At
  <1>1. /\ job[p] # Idle /\ job[p] \in Job /\ dirs[s] \in Dir /\ Closed(dirs[s], job[p].all)
    BY <1>0, NotIdle DEF Staged
  <1>2. d \in Dir /\ Closed(d, job[p].all) /\ d.files \subseteq d.entries
    BY <1>1 DEF Dir, Closed
  <1>3. j \in Job /\ j # Idle /\ j.step = "rename" /\ j.staging = s /\ j.all = job[p].all
    BY <1>1, JobSteps
  <1>4. StagingOnly(p, j, d)
    BY DEF StagingOnly, Changes, SyncDir, Goto
  <1> HIDE DEF d, j
  <1>5. Staged(j, d) /\ Published(j, dirs[j.report])
    BY <1>2, <1>3 DEF Staged, Published
  <1> QED BY <1>1, <1>3, <1>4, <1>5, StagingStep

LEMMA EndSteps ==
  ASSUME ReportsInv, NEW p \in Process, ExportFails(p) \/ Cleanup(p) \/ ProcessDies(p)
  PROVE  ReportsInv'
  <1> DEFINE s == job[p].staging
             j == [job[p] EXCEPT !.step = "cleanup"]
  <1>0. JobsInv
    BY DEF ReportsInv
  <1>1. job[p] # Idle /\ job[p] \in Job /\ s \in StagingName
    <2>1. CASE job[p].step \in {"write", "sync", "rename", "durable", "cleanup"}
      BY <1>0, <2>1, NotIdle
    <2>2. CASE ProcessDies(p)
      BY <1>0, <2>2 DEF ProcessDies, At, Idle, JobsInv, Job
    <2> QED BY <2>1, <2>2 DEF ExportFails, Cleanup, At
  <1>2. dirs = [dirs EXCEPT ![s] = dirs[s]] /\ job = [job EXCEPT ![p] = job[p]]
    BY <1>0, <1>1 DEF JobsInv
  <1>3. CASE ExportFails(p)
    <2>1. StagingOnly(p, j, dirs[s])
      BY <1>2, <1>3 DEF StagingOnly, Changes, ExportFails, Goto
    <2>2. j \in Job /\ j # Idle /\ j.step = "cleanup" /\ j.staging = s
      BY <1>1, JobSteps
    <2> HIDE DEF j
    <2>3. Staged(j, dirs[s]) /\ Published(j, dirs[j.report])
      BY <2>2 DEF Staged, Published
    <2> QED BY <1>1, <2>1, <2>2, <2>3, StagingStep
  <1>4. CASE Cleanup(p)
    <2>1. \/ \E d : StagingOnly(p, job[p], d)
          \/ \E d : StagingOnly(p, Idle, d)
      <3>1. CASE \E f \in dirs[s].files :
                   /\ dirs' = [dirs EXCEPT ![s] =
                        [dirs[s] EXCEPT !.files = @ \ {f}, !.whole = @ \ {f},
                                        !.synced = @ \ {f}, !.entries = @ \ {f}]]
                   /\ UNCHANGED <<job, moved, done>>
        BY <1>2, <3>1 DEF StagingOnly, Changes
      <3>2. CASE /\ dirs' = [dirs EXCEPT ![s] = NoDir] /\ job' = [job EXCEPT ![p] = Idle]
                 /\ UNCHANGED <<moved, done>>
        BY <3>2 DEF StagingOnly, Changes
      <3>3. CASE job' = [job EXCEPT ![p] = Idle] /\ UNCHANGED <<dirs, moved, done>>
        BY <1>2, <3>3 DEF StagingOnly, Changes
      <3> QED BY <1>4, <3>1, <3>2, <3>3 DEF Cleanup
    <2>2. job[p].step = "cleanup"
      BY <1>4 DEF Cleanup, At
    <2>3. \A d : Staged(job[p], d) /\ Published(job[p], d)
      BY <2>2 DEF Staged, Published
    <2> QED BY <1>1, <2>1, <2>3, StagingStep
  <1>5. CASE ProcessDies(p)
    BY <1>1, <1>2, <1>5, StagingStep DEF ProcessDies, StagingOnly, Changes
  <1> QED BY <1>3, <1>4, <1>5

\* An export begins in a staging directory of its own.
LEMMA BeginStep ==
  ASSUME ReportsInv, NEW p \in Process, Begin(p)
  PROVE  ReportsInv'
  <1>1. PICK s \in StagingName, r \in ReportName, extra \in {{}, Extra} :
          /\ \A q \in Process : ~At(q, "idle") => job[q].staging # s
          /\ dirs' = [dirs EXCEPT ![s] = EmptyDir]
          /\ job' = [job EXCEPT ![p] = [step |-> "write", staging |-> s, report |-> r,
                                        all |-> Base \cup extra, open |-> "none"]]
    BY DEF Begin
  <1> DEFINE all == Base \cup extra
             j == [step |-> "write", staging |-> s, report |-> r, all |-> all, open |-> "none"]
  <1>2. /\ j \in Job /\ j # Idle /\ j.step = "write" /\ j.all = all /\ j.open = "none"
        /\ j.staging = s
    BY DEF Job, Idle
  <1>3. EmptyDir \in Dir /\ Growing(EmptyDir, all, "none")
    BY DEF Dir, EmptyDir, Growing
  <1>4. Changes(p, j, s, EmptyDir)
    BY <1>1 DEF Changes, Begin
  <1> HIDE DEF j
  <1>5. \A q \in Process : job[q] # Idle => ~At(q, "idle")
    BY DEF ReportsInv, JobsInv, Job, At
  <1>6. Staged(j, EmptyDir) /\ Published(j, dirs[j.report])
    BY <1>2, <1>3 DEF Staged, Published
  <1> QED BY <1>1, <1>2, <1>4, <1>5, <1>6, ChangesStep

\* A complete directory gets the report's name, which nothing has.
LEMMA RenameStep ==
  ASSUME ReportsInv, NEW p \in Process, Rename(p)
  PROVE  ReportsInv'
  <1> DEFINE s == job[p].staging
             r == job[p].report
             d == dirs[s]
             st == IF Exists(r) THEN "cleanup" ELSE "durable"
             j == [job[p] EXCEPT !.step = st]
  <1>0. JobsInv /\ CompleteInv /\ KeptInv /\ job[p].step = "rename"
    BY DEF ReportsInv, Rename, At
  <1>1. /\ job[p] # Idle /\ job[p] \in Job /\ s \in StagingName /\ r \in ReportName
        /\ s \notin ReportName
        /\ d \in Dir /\ Closed(d, job[p].all) /\ d.files \subseteq d.entries
    BY <1>0, NotIdle DEF Staged
  <1>2. j \in Job /\ j # Idle /\ j.step = st /\ j.staging = s /\ j.report = r /\ j.all = job[p].all
    <2>1. CASE Exists(r)
      <3>1. j = [job[p] EXCEPT !.step = "cleanup"] /\ st = "cleanup"
        BY <2>1
      <3> HIDE DEF j, st
      <3> QED BY <1>1, <3>1, JobSteps
    <2>2. CASE ~Exists(r)
      <3>1. j = [job[p] EXCEPT !.step = "durable"] /\ st = "durable"
        BY <2>2
      <3> HIDE DEF j, st
      <3> QED BY <1>1, <3>1, JobSteps
    <2> QED BY <2>1, <2>2
  <1>3. job' = [job EXCEPT ![p] = j]
    BY DEF Rename, Goto
  <1>4. CASE Exists(r)
    <2>1. StagingOnly(p, j, dirs[s])
      BY <1>0, <1>1, <1>3, <1>4 DEF StagingOnly, Changes, Rename, JobsInv
    <2> HIDE DEF j
    <2>2. Staged(j, dirs[s]) /\ Published(j, dirs[j.report])
      BY <1>2, <1>4 DEF Staged, Published
    <2> QED BY <1>1, <1>2, <2>1, <2>2, StagingStep
  <1>5. CASE ~Exists(r)
    <2>1. /\ dirs' = [dirs EXCEPT ![s] = NoDir, ![r] = d]
          /\ moved' = moved \cup {<<s, r>>} /\ done' = done
      BY <1>5 DEF Rename
    <2>2. /\ dirs' = [n \in StagingName \cup ReportName |-> dirs'[n]] /\ dirs'[r] = d
          /\ \A n \in StagingName \cup ReportName : n \notin {s, r} => dirs'[n] = dirs[n]
          /\ job' = [q \in Process |-> job'[q]] /\ job'[p] = j
          /\ \A q \in Process : q # p => job'[q] = job[q]
      BY <1>0, <1>1, <1>3, <2>1 DEF JobsInv
    <2>3. d # NoDir /\ d.lists = job[p].all
      BY <1>1 DEF Closed, NoDir
    <2>4. /\ j.step = "durable" /\ Staged(j, dirs'[s]) /\ Published(j, d)
      BY <1>2, <1>5, <2>3 DEF Staged, Published
    <2>5. \A q \in Process : q # p /\ job[q] # Idle =>
            /\ job[q] \in Job /\ job[q].staging \in StagingName /\ job[q].report \in ReportName
            /\ job[q].staging # s
            /\ Staged(job[q], dirs[job[q].staging]) /\ Published(job[q], dirs[job[q].report])
      BY <1>0, <1>1 DEF JobsInv, Job
    <2> HIDE DEF j, s, r, d
    <2>6. ASSUME NEW q \in Process, q # p, job[q] # Idle
          PROVE  /\ Staged(job[q], dirs'[job[q].staging])
                 /\ Published(job[q], dirs'[job[q].report])
      <3>1. job[q].staging # r /\ dirs'[job[q].staging] = dirs[job[q].staging]
        BY <1>1, <2>2, <2>5, <2>6, ReportsAssumption
      <3>2. Published(job[q], dirs'[job[q].report])
        <4>1. CASE job[q].report = r
          BY <1>5, <2>5, <2>6, <4>1 DEF Published, Exists
        <4>2. CASE job[q].report # r
          BY <1>1, <2>2, <2>5, <2>6, <4>2, ReportsAssumption
        <4> QED BY <4>1, <4>2
      <3> QED BY <2>5, <2>6, <3>1, <3>2
    <2>7. JobsInv'
      <3>1. \A q \in Process : job'[q] # Idle =>
              /\ job'[q] \in Job /\ Staged(job'[q], dirs'[job'[q].staging])
              /\ Published(job'[q], dirs'[job'[q].report])
        BY <1>2, <2>2, <2>4, <2>5, <2>6
      <3>2. \A x, q \in Process :
              x # q /\ job'[x] # Idle /\ job'[q] # Idle => job'[x].staging # job'[q].staging
        BY <1>0, <1>1, <1>2, <2>2, OthersStage DEF s
      <3> QED BY <2>2, <3>1, <3>2 DEF JobsInv
    <2>8. CompleteInv'
      <3>1. ASSUME NEW n \in ReportName
            PROVE  dirs'[n] = IF n = r THEN d ELSE dirs[n]
        BY <1>1, <2>2, ReportsAssumption
      <3>2. Closed(d, d.lists)
        BY <1>1 DEF Closed
      <3> QED BY <1>0, <1>1, <3>1, <3>2 DEF CompleteInv, Exists
    <2>9. KeptInv'
      <3>1. ASSUME NEW x \in done
            PROVE  x[1] # r /\ x[1] \in ReportName /\ dirs'[x[1]] = dirs[x[1]]
        BY <1>0, <1>1, <1>5, <2>2, <3>1, ReportsAssumption DEF KeptInv
      <3>2. moved' \subseteq StagingName \X ReportName
        BY <1>0, <1>1, <2>1 DEF KeptInv
      <3>3. \A m \in moved' : m \in moved \/ m[2] = r
        BY <2>1
      <3>4. \A x \in done : /\ Exists(x[1]) /\ dirs[x[1]].lists = x[2]
                            /\ \A m \in moved : m[2] # x[1]
        BY <1>0 DEF KeptInv
      <3>5. \A x \in done : /\ x[1] \in ReportName /\ dirs'[x[1]] # NoDir
                            /\ dirs'[x[1]].lists = x[2] /\ \A m \in moved' : m[2] # x[1]
        BY <3>1, <3>3, <3>4 DEF Exists
      <3> QED BY <2>1, <3>2, <3>5 DEF KeptInv, Exists
    <2> QED BY <2>7, <2>8, <2>9 DEF ReportsInv
  <1> QED BY <1>4, <1>5

\* The working directory is synced: every name is durable.
LEMMA SyncWorkingDirStep ==
  ASSUME ReportsInv, NEW p \in Process, SyncWorkingDir(p)
  PROVE  ReportsInv'
  <1> DEFINE j == [job[p] EXCEPT !.step = "cleanup"]
             r == job[p].report
             s == job[p].staging
  <1>0. JobsInv /\ CompleteInv /\ KeptInv /\ job[p].step = "durable"
    BY DEF ReportsInv, SyncWorkingDir, At
  <1>1. /\ job[p] # Idle /\ job[p] \in Job /\ r \in ReportName
        /\ Exists(r) /\ dirs[r].lists = job[p].all
    BY <1>0, NotIdle DEF Published, Exists
  <1>2. j \in Job /\ j # Idle /\ j.step = "cleanup" /\ j.staging = s
    BY <1>1, JobSteps
  <1>3. /\ job' = [job EXCEPT ![p] = j] /\ moved' = {}
        /\ done' = done \cup {<<r, job[p].all>>} /\ dirs' = dirs
    BY DEF SyncWorkingDir, Goto
  <1>4. /\ job' = [q \in Process |-> job'[q]] /\ job'[p] = j
        /\ \A q \in Process : q # p => job'[q] = job[q]
    BY <1>0, <1>3 DEF JobsInv
  <1> HIDE DEF j
  <1>5. Staged(j, dirs[s]) /\ \A d : Published(j, d)
    BY <1>2 DEF Staged, Published
  <1>6. JobsInv'
    <2>1. \A x, q \in Process :
            x # q /\ job'[x] # Idle /\ job'[q] # Idle => job'[x].staging # job'[q].staging
      BY <1>0, <1>1, <1>2, <1>4, OthersStage
    <2>2. \A q \in Process : job'[q] # Idle =>
            /\ job'[q] \in Job /\ Staged(job'[q], dirs'[job'[q].staging])
            /\ Published(job'[q], dirs'[job'[q].report])
      BY <1>0, <1>2, <1>3, <1>4, <1>5 DEF JobsInv
    <2> QED BY <1>0, <1>3, <1>4, <2>1, <2>2 DEF JobsInv
  <1>7. CompleteInv' /\ KeptInv'
    BY <1>0, <1>1, <1>3 DEF CompleteInv, KeptInv, Exists
  <1> QED BY <1>6, <1>7 DEF ReportsInv

\* A directory that is complete and durable.
Complete(d) == d \in Dir /\ Closed(d, d.lists) /\ d.files \subseteq d.entries

\* What a power failure leaves of such a directory is as complete.
LEMMA CompleteAfter ==
  ASSUME NEW d, Complete(d), NEW gone, gone \cap d.files = {}, NEW torn, torn \cap d.synced = {},
         NEW e, e = After(d, gone, torn)
  PROVE  Complete(e) /\ e # NoDir /\ e.lists = d.lists
  <1>0. d \in Dir /\ Closed(d, d.lists) /\ d.files \subseteq d.entries
    BY DEF Complete
  <1>1. /\ e \in Dir /\ e.files = d.files \ gone /\ e.whole = d.whole \ (gone \cup torn)
        /\ e.synced = d.synced \ gone /\ e.entries = d.entries /\ e.lists = d.lists
    BY <1>0 DEF After, Dir
  <1>2. e.files = d.files
    BY <1>1
  <1>3. Closed(e, e.lists)
    BY <1>0, <1>1, <1>2 DEF Closed
  <1>4. e # NoDir
    BY <1>3 DEF Closed, NoDir
  <1> QED BY <1>0, <1>1, <1>2, <1>3, <1>4 DEF Complete

\* A power failure undoes a rename or not; what is left of a report is complete.
LEMMA PowerFailsStep == ReportsInv /\ PowerFails => ReportsInv'
  <1> SUFFICES ASSUME ReportsInv, PowerFails PROVE ReportsInv'
    OBVIOUS
  <1>0. JobsInv /\ CompleteInv /\ KeptInv
    BY DEF ReportsInv
  <1> DEFINE of(pairs, n) == {e[2] : e \in {x \in pairs : x[1] = n}}
             left(gone, torn) == [n \in DOMAIN dirs |->
               IF Exists(n) THEN After(dirs[n], of(gone, n), of(torn, n)) ELSE NoDir]
             source(undone, n) == CHOOSE m \in undone : n \in {m[1], m[2]}
  <1>1. PICK gone \in SUBSET {e \in (DOMAIN dirs) \X File :
                               Exists(e[1]) /\ e[2] \in dirs[e[1]].files \ dirs[e[1]].entries},
             torn \in SUBSET {e \in (DOMAIN dirs) \X File :
                               Exists(e[1]) /\ e[2] \in dirs[e[1]].whole \ dirs[e[1]].synced},
             undone \in SUBSET moved :
          dirs' = [n \in DOMAIN dirs |->
                     IF \A m \in undone : n \notin {m[1], m[2]} THEN left(gone, torn)[n]
                     ELSE IF source(undone, n)[1] = n THEN left(gone, torn)[source(undone, n)[2]]
                     ELSE NoDir]
    BY DEF PowerFails, File
  <1>2. DOMAIN dirs = StagingName \cup ReportName
    BY <1>0 DEF JobsInv
  <1>3. /\ job' = [p \in Process |-> Idle] /\ moved' = {} /\ done' = done
    BY DEF PowerFails
  <1>4. ASSUME NEW r \in ReportName, Exists(r)
        PROVE  LET e == left(gone, torn)[r]
               IN  /\ e \in Dir /\ e # NoDir /\ e.lists = dirs[r].lists
                   /\ Closed(e, e.lists) /\ e.files \subseteq e.entries
    <2>1. /\ dirs[r] \in Dir /\ Closed(dirs[r], dirs[r].lists)
          /\ dirs[r].files \subseteq dirs[r].entries
      BY <1>0, <1>4 DEF CompleteInv
    <2> DEFINE entries == of(gone, r)
               data == of(torn, r)
               e == left(gone, torn)[r]
    <2>2. e = After(dirs[r], entries, data)
      BY <1>2, <1>4
    <2>3. entries \cap dirs[r].files = {}
      BY <2>1
    <2>4. data \cap dirs[r].synced = {}
      OBVIOUS
    <2> DEFINE d == dirs[r]
    <2>5. /\ Complete(d)
          /\ entries \cap d.files = {} /\ data \cap d.synced = {}
          /\ e = After(d, entries, data)
      BY <2>1, <2>2, <2>3, <2>4 DEF Complete
    <2> HIDE DEF entries, data, d, e
    <2>6. Complete(e) /\ e # NoDir /\ e.lists = d.lists
      BY <2>5, CompleteAfter
    <2> QED BY <2>6 DEF d, e, Complete
  <1>5. \A m \in undone : m[1] \in StagingName /\ m[2] \in ReportName
    BY <1>0 DEF KeptInv
  <1>6. ASSUME NEW r \in ReportName, \A m \in undone : m[2] # r
        PROVE  dirs'[r] = left(gone, torn)[r]
    <2>1. \A m \in undone : r \notin {m[1], m[2]}
      BY <1>5, <1>6, ReportsAssumption
    <2> HIDE DEF left, source
    <2> QED BY <1>1, <1>2, <2>1
  <1>7. ASSUME NEW r \in ReportName, NEW m \in undone, m[2] = r
        PROVE  dirs'[r] = NoDir
    <2>1. source(undone, r) \in undone
      BY <1>7
    <2>2. source(undone, r)[1] # r
      BY <1>5, <2>1, ReportsAssumption
    <2> HIDE DEF left, source
    <2> QED BY <1>1, <1>2, <1>7, <2>2
  <1>8. dirs' = [n \in StagingName \cup ReportName |-> dirs'[n]]
    <2> HIDE DEF left, source
    <2> QED BY <1>1, <1>2
  <1>9. ASSUME NEW r \in ReportName PROVE ~Exists(r) => left(gone, torn)[r] = NoDir
    BY <1>2
  <1> HIDE DEF left, source, of
  <1>10. JobsInv'
    BY <1>3, <1>8 DEF JobsInv
  <1>11. CompleteInv'
    <2> SUFFICES ASSUME NEW r \in ReportName, dirs'[r] # NoDir
                 PROVE  /\ dirs'[r] \in Dir /\ Closed(dirs'[r], dirs'[r].lists)
                        /\ dirs'[r].files \subseteq dirs'[r].entries
      BY DEF CompleteInv, Exists
    <2> QED BY <1>4, <1>6, <1>7, <1>9
  <1>12. KeptInv'
    <2>1. ASSUME NEW x \in done
          PROVE  x[1] \in ReportName /\ dirs'[x[1]] # NoDir /\ dirs'[x[1]].lists = x[2]
      <3>1. /\ x[1] \in ReportName /\ Exists(x[1]) /\ dirs[x[1]].lists = x[2]
            /\ \A m \in undone : m[2] # x[1]
        BY <1>0, <2>1 DEF KeptInv
      <3> QED BY <1>4, <1>6, <3>1
    <2> QED BY <1>3, <2>1 DEF KeptInv, Exists
  <1> QED BY <1>10, <1>11, <1>12 DEF ReportsInv

\* A report is complete whenever there is one, also after a power failure at any
\* step, and one that was answered Ok stays (export_profiles, publish_directory).
THEOREM ReportsCorrect == ReportsSpec => []ReportsAreWhole
  <1>1. ReportsInit => ReportsInv
    BY DEF ReportsInit, ReportsInv, JobsInv, CompleteInv, KeptInv, Exists
  <1>2. ReportsInv /\ [ReportsNext]_reportVars => ReportsInv'
    <2> SUFFICES ASSUME ReportsInv, [ReportsNext]_reportVars PROVE ReportsInv'
      OBVIOUS
    <2>1. CASE UNCHANGED reportVars
      BY <2>1 DEF reportVars, ReportsInv, JobsInv, CompleteInv, KeptInv, Exists
    <2> QED BY <2>1, BeginStep, OpenFileStep, WriteFileStep, SyncFileStep, SyncDirStep, RenameStep,
            SyncWorkingDirStep, EndSteps, PowerFailsStep DEF ReportsNext
  <1>3. ReportsInv => ReportsAreWhole
    BY DEF ReportsInv, CompleteInv, KeptInv, Closed, ReportsAreWhole, ReportsAreComplete,
       ReportsAreKept
  <1> QED BY <1>1, <1>2, <1>3, PTL DEF ReportsSpec

-----------------------------------------------------------------------------
(* Diagnosis: issues, their observations and their baselines. *)

LEMMA MinOfTwo ==
  ASSUME NEW a \in Int, NEW b \in Int
  PROVE  Min({a, b}) = IF a <= b THEN a ELSE b
  BY DEF Min

USE DEF NoTime

-----------------------------------------------------------------------------
(* What the engine holds of a subject agrees with what it was told of it:  *)
(* each count is one of observations that were made, and each time is that *)
(* of an observation or before.                                            *)

Past ==
  [some : 0..Sustained, row : 0..Sustained, many : BOOLEAN,
   clean : Seconds \cup {NoTime}, lost : Seconds \cup {NoTime}, normals : 0..ReadyCount]

\* Streaks are of anomalous samples that were taken, unless one of them observed
\* the subject more than once.  An issue that is resolved or unavailable began
\* its streak anew.
StreakAgrees(s, p) ==
  /\ s.streak = 0 \/ s.clear = NoTime
  /\ ~p.many => s.streak <= p.some \/ p.some = Sustained
  /\ ~p.many /\ s.issue \in {"resolved", "data unavailable"} =>
       s.streak <= p.row \/ p.row = Sustained

\* Since the subject of an issue is clear, every sample found it normal.  (A
\* subject without an issue stays clear while it is missed.)
ClearAgrees(s, p) ==
  s.issue # "none" /\ s.clear # NoTime => p.clean # NoTime /\ p.clean <= s.clear

\* What is kept of a subject that is missed is kept since it was missed first.
Held(s) == s.issue # "none" \/ s.baseline # NoBaseline

AbsenceAgrees(s, p) ==
  Held(s) => IF p.lost = NoTime THEN s.absent = NoTime
             ELSE s.absent # NoTime /\ s.absent <= p.lost

Agrees(s, p) ==
  /\ s \in Subject /\ p \in Past
  /\ s.baseline.count <= p.normals
  /\ StreakAgrees(s, p)
  /\ ClearAgrees(s, p)
  /\ AbsenceAgrees(s, p)

\* An unknown subject agrees with any past of it without normal observations.
LEMMA UnknownAgrees ==
  ASSUME NEW p \in Past
  PROVE  Agrees(Unknown, p)
  BY DiagnosisAssumption
     DEF Agrees, Unknown, Subject, NoBaseline, Issues, StreakAgrees, ClearAgrees, AbsenceAgrees,
         Held, Past

LEMMA NothingAgrees == NoPast \in Past /\ Agrees(Unknown, NoPast)
  <1>1. NoPast \in Past
    BY DiagnosisAssumption DEF NoPast, Past
  <1> QED BY <1>1, UnknownAgrees

\* Another boot or scope leaves a subject and its past in agreement.
LEMMA ComparedAgrees ==
  ASSUME NEW s, NEW p, Agrees(s, p), NEW measured
  PROVE  Agrees(Compared(s, measured), PastOf(p, measured))
  <1> DEFINE c == Compared(s, measured)
             q == PastOf(p, measured)
  <1>0. s \in Subject /\ p \in Past
    BY DEF Agrees
  <1>1. CASE engine.boot # boot
    <2>1. c \in {Rebooted(s), Rescoped(Rebooted(s))} /\ q = NoPast
      BY <1>1 DEF Compared, PastOf
    <2>2. /\ c \in Subject /\ c.baseline = NoBaseline /\ c.issue = "none"
          /\ c.streak = 0 /\ c.clear = NoTime
      <3> DEFINE r == Rebooted(s)
      <3>1. NoBaseline \in [count : 0..ReadyCount, since : Seconds \cup {NoTime}]
        BY DiagnosisAssumption DEF NoBaseline
      <3>2. /\ r \in Subject /\ r.baseline = NoBaseline /\ r.issue = "none"
            /\ r.streak = 0 /\ r.clear = NoTime
        BY <1>0, <3>1 DEF Rebooted, Subject, Issues
      <3> HIDE DEF r
      <3>3. LET x == Rescoped(r)
            IN  /\ x \in Subject /\ x.baseline = NoBaseline /\ x.issue = "none"
                /\ x.streak = 0 /\ x.clear = NoTime
        BY <3>1, <3>2 DEF Rescoped, Subject
      <3>4. c = r \/ c = Rescoped(r)
        BY <2>1 DEF r
      <3> HIDE DEF c
      <3> QED BY <3>2, <3>3, <3>4
    <2> HIDE DEF c, q
    <2>3. q \in Past
      BY <2>1, NothingAgrees
    <2>4. 0 <= q.normals /\ NoBaseline.count = 0
      BY <2>3 DEF Past, NoBaseline
    <2>5. StreakAgrees(c, q) /\ ClearAgrees(c, q) /\ AbsenceAgrees(c, q)
      <3>1. q.some \in Nat /\ q.row \in Nat
        BY <2>3, DiagnosisAssumption DEF Past
      <3> QED BY <2>2, <3>1 DEF StreakAgrees, ClearAgrees, AbsenceAgrees, Held
    <2>6. Agrees(c, q)
      BY <2>2, <2>3, <2>4, <2>5 DEF Agrees
    <2> QED BY <2>6 DEF c, q
  <1>2. CASE engine.boot = boot /\ engine.scope # measured
    <2>1. c = Rescoped(s) /\ q = [p EXCEPT !.normals = 0]
      BY <1>2 DEF Compared, PastOf
    <2>2. /\ c \in Subject /\ c.baseline = NoBaseline /\ c.issue = s.issue
          /\ c.streak = s.streak /\ c.clear = s.clear /\ c.absent = s.absent
      BY <1>0, <2>1, DiagnosisAssumption DEF Rescoped, Subject, NoBaseline
    <2>3. /\ q \in Past /\ q.normals = 0 /\ q.some = p.some /\ q.row = p.row
          /\ q.many = p.many /\ q.clean = p.clean /\ q.lost = p.lost
      BY <1>0, <2>1, DiagnosisAssumption DEF Past
    <2> HIDE DEF c, q
    <2>4. StreakAgrees(c, q) /\ ClearAgrees(c, q)
      BY <2>2, <2>3 DEF Agrees, StreakAgrees, ClearAgrees
    <2>5. AbsenceAgrees(c, q)
      BY <2>2, <2>3 DEF Agrees, AbsenceAgrees, Held
    <2>6. NoBaseline.count = 0
      BY DEF NoBaseline
    <2>7. Agrees(c, q)
      BY <2>2, <2>3, <2>4, <2>5, <2>6 DEF Agrees
    <2> QED BY <2>7 DEF c, q
  <1>3. CASE engine.boot = boot /\ engine.scope = measured
    BY <1>3 DEF Compared, PastOf
  <1> QED BY <1>1, <1>2, <1>3

-----------------------------------------------------------------------------
(* One observation of a subject keeps the agreement, and what it opens,    *)
(* resolves or forgets has its reason in the past.                         *)

\* A sample that misses the subject.
LEMMA MissedAgrees ==
  ASSUME NEW s, NEW p, Agrees(s, p), NEW at \in Seconds, NEW a, NEW times
  PROVE  LET t == Missed(s, at)
             q == Told(p, a, "missing", times, at)
         IN  /\ Agrees(t, q) /\ q.clean = NoTime
             /\ t.issue \in {s.issue, "none", "data unavailable"}
             /\ q.lost # NoTime /\ at - q.lost >= ForgetTime => ~Held(t)
  <1> DEFINE t == Missed(s, at)
             q == Told(p, a, "missing", times, at)
             gone == IF s.absent # NoTime THEN s.absent
                     ELSE IF s.issue # "none" \/ s.baseline # NoBaseline THEN at ELSE NoTime
  <1>0. s \in Subject /\ p \in Past /\ at \in Nat /\ ForgetTime \in Nat
    BY DiagnosisAssumption DEF Agrees, Seconds
  <1>1. q = [p EXCEPT !.row = 0, !.clean = NoTime, !.lost = IF @ = NoTime THEN at ELSE @]
    BY DEF Told
  <1>2. /\ q \in Past /\ q.normals = p.normals /\ q.some = p.some /\ q.row = 0 /\ q.many = p.many
        /\ q.clean = NoTime /\ q.lost = (IF p.lost = NoTime THEN at ELSE p.lost) /\ q.lost \in Nat /\ q.lost # NoTime
        /\ q.some \in Nat
    <2> DEFINE l == IF p.lost = NoTime THEN at ELSE p.lost
    <2>1. l \in Nat /\ l \in Seconds \cup {NoTime} /\ l # NoTime
      BY <1>0 DEF Past, Seconds
    <2>2. q = [p EXCEPT !.row = 0, !.clean = NoTime, !.lost = l]
      BY <1>1
    <2> HIDE DEF l, q
    <2>3. /\ q \in Past /\ q.normals = p.normals /\ q.some = p.some /\ q.row = 0 /\ q.many = p.many
          /\ q.clean = NoTime /\ q.lost = l /\ q.some \in Nat
      <3>1. 0 \in 0..Sustained /\ 0..Sustained \subseteq Nat
        BY DiagnosisAssumption
      <3>2. q \in Past
        BY <1>0, <2>1, <2>2, <3>1 DEF Past
      <3>3. /\ q.normals = p.normals /\ q.some = p.some /\ q.row = 0 /\ q.many = p.many
            /\ q.clean = NoTime /\ q.lost = l
        BY <1>0, <2>2 DEF Past
      <3> QED BY <3>1, <3>2, <3>3 DEF Past
    <2> QED BY <2>1, <2>3 DEF l
  <1>3. gone \in Seconds \cup {NoTime} /\ (Held(s) => gone # NoTime /\ gone <= q.lost)
    <2>1. gone \in Seconds \cup {NoTime}
      BY <1>0 DEF Subject
    <2>2. ASSUME Held(s) PROVE gone # NoTime /\ gone <= q.lost
      BY <1>0, <1>2, <2>2 DEF Agrees, AbsenceAgrees, Held, Seconds
    <2> QED BY <2>1, <2>2
  <1> HIDE DEF q
  <1>4. CASE gone # NoTime /\ at >= gone + ForgetTime
    <2>1. t = Unknown
      BY <1>4 DEF Missed
    <2>2. Unknown.issue = "none" /\ ~Held(Unknown)
      BY DEF Unknown, Held
    <2> HIDE DEF t, gone
    <2> QED BY <1>2, <2>1, <2>2, UnknownAgrees DEF t, q
  <1>5. CASE ~(gone # NoTime /\ at >= gone + ForgetTime)
    <2>1. CASE s.issue = "none"
      <3>1. t = [s EXCEPT !.absent = gone]
        BY <1>5, <2>1 DEF Missed
      <3>2. gone = s.absent \/ gone = at \/ gone = NoTime
        OBVIOUS
      <3> HIDE DEF t, gone
      <3>3. /\ t \in Subject /\ t.issue = "none" /\ t.baseline = s.baseline
            /\ t.streak = s.streak /\ t.clear = s.clear /\ t.absent = gone
        BY <1>0, <1>3, <2>1, <3>1 DEF Subject
      <3>4. StreakAgrees(t, q) /\ ClearAgrees(t, q)
        BY <1>2, <3>3 DEF Agrees, StreakAgrees, ClearAgrees
      <3>5. Held(t) <=> Held(s)
        BY <2>1, <3>3 DEF Held
      <3>6. AbsenceAgrees(t, q)
        BY <1>2, <1>3, <3>3, <3>5 DEF AbsenceAgrees
      <3>7. Agrees(t, q)
        BY <1>2, <3>3, <3>4, <3>6 DEF Agrees
      <3>8. at - q.lost >= ForgetTime => ~Held(t)
        BY <1>0, <1>2, <1>3, <1>5, <3>5 DEF Seconds
      <3> QED BY <1>2, <2>1, <3>3, <3>7, <3>8 DEF t, q
    <2>2. CASE s.issue # "none"
      <3>1. t = [[s EXCEPT !.issue = "data unavailable", !.clear = NoTime, !.streak = 0]
                   EXCEPT !.absent = gone]
        BY <1>5, <2>2 DEF Missed
      <3>2. Held(s)
        BY <2>2 DEF Held
      <3> HIDE DEF t, gone
      <3>3. /\ t \in Subject /\ t.issue = "data unavailable" /\ t.baseline = s.baseline
            /\ t.streak = 0 /\ t.clear = NoTime /\ t.absent = gone
        BY <1>0, <1>3, <3>1 DEF Subject, Issues
      <3>4. StreakAgrees(t, q) /\ ClearAgrees(t, q)
        <4>1. t.streak = 0 /\ q.some \in Nat /\ q.row = 0
          BY <1>2, <3>3
        <4>2. t.streak <= q.some /\ t.streak <= q.row
          BY <4>1
        <4> QED BY <3>3, <4>1, <4>2 DEF StreakAgrees, ClearAgrees
      <3>6. AbsenceAgrees(t, q)
        BY <1>2, <1>3, <3>2, <3>3 DEF AbsenceAgrees
      <3>7. Agrees(t, q)
        BY <1>2, <3>3, <3>4, <3>6 DEF Agrees
      <3>8. ~(at - q.lost >= ForgetTime)
        BY <1>0, <1>2, <1>3, <1>5, <3>2 DEF Seconds
      <3> QED BY <1>2, <3>3, <3>7, <3>8 DEF t, q
    <2> QED BY <2>1, <2>2
  <1> QED BY <1>4, <1>5

\* A subject that is observed has a baseline, perhaps an empty one.
LEMMA StartedType ==
  ASSUME NEW s \in Subject, NEW at \in Seconds
  PROVE  LET r == Started(s, at)
         IN  /\ r \in Subject /\ r.issue = s.issue /\ r.streak = s.streak /\ r.clear = s.clear
             /\ r.baseline.count = s.baseline.count
  <1>1. [count |-> 0, since |-> at] \in [count : 0..ReadyCount, since : Seconds \cup {NoTime}]
    BY DiagnosisAssumption
  <1>2. CASE s.baseline = NoBaseline
    BY <1>1, <1>2 DEF Started, Subject, NoBaseline
  <1>3. CASE s.baseline # NoBaseline
    BY <1>3 DEF Started
  <1> QED BY <1>2, <1>3

\* A count with a cap.
LEMMA Capped ==
  ASSUME NEW cap \in Nat, NEW n \in 0..cap, NEW m \in Nat
  PROVE  /\ Min({n + m, cap}) \in 0..cap
         /\ Min({n + m, cap}) = n + m \/ Min({n + m, cap}) = cap
  BY MinOfTwo

\* A streak that is covered by a capped count stays covered when both grow.
LEMMA Covered ==
  ASSUME NEW cap \in Nat, NEW streak \in Nat, NEW times \in Nat,
         NEW n \in 0..cap, NEW m \in 0..cap, m = n + times \/ m = cap,
         streak <= n \/ n = cap
  PROVE  /\ streak + times <= m \/ m = cap
         /\ streak + times >= cap => m = cap
  OBVIOUS

\* An anomalous observation, of any number.
ToldAnomalous(p, times, at) == Told(p, TRUE, "high", times, at)

LEMMA RaisedAgrees ==
  ASSUME NEW s, NEW p, Agrees(s, p), NEW at \in Seconds,
         NEW times \in Nat \ {0}
  PROVE  LET t == Raised(Started(s, at), times)
             q == ToldAnomalous(p, times, at)
         IN  /\ Agrees(t, q) /\ q.clean = NoTime /\ q.lost = NoTime
             /\ t.issue \in {s.issue, "open"}
             /\ t.issue = "open" /\ s.issue # "open" /\ ~q.many =>
                  q.some = Sustained /\ (s.issue # "none" => q.row = Sustained)
  <1> DEFINE r == Started(s, at)
             t == Raised(r, times)
             q == ToldAnomalous(p, times, at)
             some == Min({p.some + 1, Sustained})
             row  == Min({p.row + 1, Sustained})
             many == p.many \/ times > 1
             n    == s.streak + times
  <1>0. s \in Subject /\ p \in Past /\ at \in Nat /\ Sustained \in Nat \ {0}
    BY DiagnosisAssumption DEF Agrees, Seconds
  <1>1. q = [p EXCEPT !.some = some, !.row = row, !.many = many, !.clean = NoTime,
                      !.lost = NoTime]
    BY DEF ToldAnomalous, Told
  <1>2. /\ r \in Subject /\ r.issue = s.issue /\ r.streak = s.streak /\ r.clear = s.clear
        /\ r.baseline.count = s.baseline.count
    BY <1>0, StartedType
  <1>3. /\ p.some \in 0..Sustained /\ p.row \in 0..Sustained /\ s.streak \in Nat /\ n \in Nat
        /\ n = s.streak + times
    BY <1>0 DEF Past, Subject
  <1>4. /\ some \in 0..Sustained /\ (some = p.some + 1 \/ some = Sustained)
        /\ row \in 0..Sustained /\ (row = p.row + 1 \/ row = Sustained)
    BY <1>0, <1>3, Capped
  <1>5. t = [r EXCEPT !.streak = n, !.clear = NoTime, !.absent = NoTime,
                      !.issue = IF n >= Sustained THEN "open" ELSE @]
    BY <1>2 DEF Raised
  <1>5a. many \in BOOLEAN /\ (~many => ~p.many /\ times = 1)
    BY <1>0 DEF Past
  <1> HIDE DEF r, t, q, some, row, many, n
  <1>6. /\ q \in Past /\ q.normals = p.normals /\ q.some = some /\ q.row = row
        /\ q.many = many /\ q.clean = NoTime /\ q.lost = NoTime
    BY <1>0, <1>1, <1>4, <1>5a DEF Past
  <1>7. /\ t \in Subject /\ t.streak = n /\ t.clear = NoTime /\ t.absent = NoTime
        /\ t.issue = (IF n >= Sustained THEN "open" ELSE s.issue)
        /\ t.baseline.count = s.baseline.count
    BY <1>2, <1>3, <1>5 DEF Subject, Issues
  <1>8. ~many => (n <= some \/ some = Sustained) /\ (n >= Sustained => some = Sustained)
    <2> SUFFICES ASSUME ~many
                 PROVE  (n <= some \/ some = Sustained) /\ (n >= Sustained => some = Sustained)
      OBVIOUS
    <2>1. (s.streak <= p.some \/ p.some = Sustained) /\ times = 1
      BY <1>5a DEF Agrees, StreakAgrees
    <2> QED BY <1>0, <1>3, <1>4, <2>1, Covered
  <1>9. ~many /\ s.issue \in {"resolved", "data unavailable"} =>
          (n <= row \/ row = Sustained) /\ (n >= Sustained => row = Sustained)
    <2>1. ~many /\ s.issue \in {"resolved", "data unavailable"} =>
            (s.streak <= p.row \/ p.row = Sustained) /\ times = 1
      BY <1>5a DEF Agrees, StreakAgrees
    <2>2. ASSUME s.streak <= p.row \/ p.row = Sustained, times = 1
          PROVE  (n <= row \/ row = Sustained) /\ (n >= Sustained => row = Sustained)
      BY <1>0, <1>3, <1>4, <2>2, Covered
    <2> QED BY <2>1, <2>2
  <1>10. StreakAgrees(t, q)
    BY <1>6, <1>7, <1>8, <1>9 DEF StreakAgrees
  <1>11. ClearAgrees(t, q) /\ AbsenceAgrees(t, q)
    BY <1>6, <1>7 DEF ClearAgrees, AbsenceAgrees
  <1>12. Agrees(t, q)
    BY <1>6, <1>7, <1>10, <1>11 DEF Agrees
  <1>13. ASSUME t.issue = "open", s.issue # "open", ~q.many
         PROVE  q.some = Sustained /\ (s.issue # "none" => q.row = Sustained)
    <2>1. n >= Sustained /\ ~many
      BY <1>6, <1>7, <1>13
    <2>2. s.issue # "none" => s.issue \in {"resolved", "data unavailable"}
      BY <1>0, <1>13 DEF Subject, Issues
    <2>3. some = Sustained
      BY <1>8, <2>1
    <2>4. s.issue # "none" => row = Sustained
      BY <1>9, <2>1, <2>2
    <2> QED BY <1>6, <2>3, <2>4
  <1> QED BY <1>6, <1>7, <1>12, <1>13 DEF t, q, r

\* A normal observation.
LEMMA ClearedAgrees ==
  ASSUME NEW s, NEW p, Agrees(s, p), NEW at \in Seconds, p.clean <= at,
         NEW reading, reading # "missing", NEW times
  PROVE  LET t == Cleared(Started(s, at), at)
             q == Told(p, FALSE, reading, times, at)
         IN  /\ Agrees(t, q) /\ q.clean <= at /\ q.lost = NoTime
             /\ t.issue \in {s.issue, "resolved"}
             /\ t.issue = "resolved" /\ s.issue # "resolved" =>
                  q.clean # NoTime /\ at - q.clean >= ClearTime
  <1> DEFINE r == Started(s, at)
             t == Cleared(r, at)
             q == Told(p, FALSE, reading, times, at)
             normals == Min({p.normals + 1, ReadyCount})
             clean == IF p.clean = NoTime THEN at ELSE p.clean
             since == IF r.clear = NoTime THEN at ELSE r.clear
             learned == Learned(r.baseline, at)
             outcome == IF r.issue # "none" /\ at - since >= ClearTime THEN "resolved" ELSE r.issue
  <1>0. /\ s \in Subject /\ p \in Past /\ at \in Nat /\ Sustained \in Nat
        /\ ReadyCount \in Nat \ {0} /\ ClearTime \in Nat
    BY DiagnosisAssumption DEF Agrees, Seconds
  <1>1. q = [p EXCEPT !.some = 0, !.row = 0, !.many = FALSE, !.lost = NoTime,
                      !.clean = clean, !.normals = normals]
    BY DEF Told
  <1>2. /\ r \in Subject /\ r.issue = s.issue /\ r.streak = s.streak /\ r.clear = s.clear
        /\ r.baseline.count = s.baseline.count
    BY <1>0, StartedType
  <1>3. /\ p.normals \in 0..ReadyCount /\ s.baseline.count \in 0..ReadyCount
        /\ s.baseline.count <= p.normals /\ p.clean \in Int
    BY <1>0 DEF Past, Subject, Agrees, Seconds
  <1>4. normals \in 0..ReadyCount /\ (normals = p.normals + 1 \/ normals = ReadyCount)
    BY <1>0, <1>3, Capped
  <1>5. /\ learned \in [count : 0..ReadyCount, since : Seconds \cup {NoTime}]
        /\ learned.count <= normals
    <2> DEFINE b == r.baseline
               more == Min({b.count + 1, ReadyCount})
    <2>1. b \in [count : 0..ReadyCount, since : Seconds \cup {NoTime}] /\ b.count = s.baseline.count
      BY <1>2 DEF Subject
    <2>2. b.count \in 0..ReadyCount /\ more \in 0..ReadyCount
          /\ (more = b.count + 1 \/ more = ReadyCount) /\ more <= b.count + 1
      BY <1>0, <2>1, MinOfTwo
    <2>3. more <= normals
      BY <1>0, <1>3, <1>4, <2>1, <2>2
    <2>4. learned = IF b.count = 0 THEN [count |-> 1, since |-> at] ELSE [b EXCEPT !.count = more]
      BY DEF Learned
    <2>5. 1 \in 0..ReadyCount /\ 1 <= normals
      BY <1>0, <1>3, <1>4
    <2> HIDE DEF b, more, learned, normals
    <2> QED BY <2>1, <2>2, <2>3, <2>4, <2>5
  <1>6. /\ since \in Seconds /\ clean \in Seconds /\ clean # NoTime /\ clean <= at
        /\ s.issue # "none" => clean <= since
    BY <1>2, <1>0 DEF Agrees, ClearAgrees, Subject, Past, Seconds
  <1>7. t = [r EXCEPT !.streak = 0, !.clear = since, !.absent = NoTime,
                      !.baseline = learned, !.issue = outcome]
    BY DEF Cleared
  <1>8. outcome \in {s.issue, "resolved"} /\ outcome \in Issues
        /\ (s.issue = "none" => outcome = "none")
        /\ (outcome = "resolved" /\ s.issue # "resolved" =>
              s.issue # "none" /\ at - since >= ClearTime)
    BY <1>0, <1>2 DEF Issues, Subject
  <1> HIDE DEF r, t, q, normals, clean, since, learned, outcome
  <1>9. /\ q \in Past /\ q.normals = normals /\ q.some = 0 /\ q.row = 0 /\ q.many = FALSE
        /\ q.clean = clean /\ q.lost = NoTime
    <2>1. 0 \in 0..Sustained /\ NoTime \in Seconds \cup {NoTime}
      BY <1>0
    <2>2. q \in Past
      BY <1>0, <1>1, <1>4, <1>6, <2>1 DEF Past
    <2> QED BY <1>0, <1>1, <2>2 DEF Past
  <1>10. /\ t \in Subject /\ t.streak = 0 /\ t.clear = since /\ t.absent = NoTime
         /\ t.issue = outcome /\ t.baseline = learned
    BY <1>2, <1>5, <1>6, <1>7, <1>8 DEF Subject
  <1>11. StreakAgrees(t, q)
    BY <1>9, <1>10 DEF StreakAgrees
  <1>12. ClearAgrees(t, q) /\ AbsenceAgrees(t, q)
    BY <1>6, <1>8, <1>9, <1>10 DEF ClearAgrees, AbsenceAgrees
  <1>13. Agrees(t, q)
    BY <1>5, <1>9, <1>10, <1>11, <1>12 DEF Agrees
  <1>14. outcome = "resolved" /\ s.issue # "resolved" =>
           q.clean # NoTime /\ at - q.clean >= ClearTime
    BY <1>0, <1>3, <1>6, <1>8, <1>9 DEF Seconds
  <1> QED BY <1>6, <1>8, <1>9, <1>10, <1>13, <1>14 DEF t, q, r

\* A sample, whatever it says of the subject, and whatever boot and scope it is of.
LEMMA UpdatedAgrees ==
  ASSUME NEW s, NEW p, Agrees(s, p), NEW at \in Seconds, NEW measured,
         NEW reading \in Readings, NEW times \in Nat \ {0},
         engine.boot = boot => p.clean <= at
  PROVE  LET c == Compared(s, measured)
             a == Anomalous(c, reading, at)
             t == Updated(c, reading, times, at)
             q == Told(PastOf(p, measured), a, reading, times, at)
         IN  /\ Agrees(t, q) /\ q.clean <= at
             /\ t.issue = "open" /\ s.issue # "open" /\ ~q.many =>
                  /\ q.some >= Sustained
                  /\ s.issue # "none" /\ engine.boot = boot => q.row >= Sustained
             /\ t.issue = "resolved" /\ s.issue # "resolved" =>
                  q.clean # NoTime /\ at - q.clean >= ClearTime
             /\ q.lost # NoTime /\ at - q.lost >= ForgetTime => ~Held(t)
  <1> DEFINE c == Compared(s, measured)
             a == Anomalous(c, reading, at)
             t == Updated(c, reading, times, at)
             o == PastOf(p, measured)
             q == Told(o, a, reading, times, at)
  <1>0. at \in Nat /\ Sustained \in Nat
    BY DiagnosisAssumption DEF Seconds
  <1>1. Agrees(c, o)
    BY ComparedAgrees
  <1>2. /\ o.clean <= at
        /\ c.issue \in {s.issue, "none"}
        /\ engine.boot = boot => c.issue = s.issue
    <2>1. CASE engine.boot = boot
      <3>1. /\ o.clean = p.clean
            /\ c.issue = s.issue
        BY <2>1 DEF PastOf, Compared, Rescoped, Agrees, Past, Subject
      <3> QED BY <2>1, <3>1
    <2>2. CASE engine.boot # boot
      <3>1. o = NoPast /\ c \in {Rebooted(s), Rescoped(Rebooted(s))}
        BY <2>2 DEF PastOf, Compared
      <3>2. Rebooted(s).issue = "none" /\ Rescoped(Rebooted(s)).issue = "none"
        BY DEF Rebooted, Rescoped, Agrees, Subject
      <3>3. NoPast.clean <= at
        BY <1>0 DEF NoPast
      <3> QED BY <2>2, <3>1, <3>2, <3>3
    <2> QED BY <2>1, <2>2
  <1> HIDE DEF a, c, o
  <1>3. CASE reading = "missing"
    <2> DEFINE m == Missed(c, at)
               l == Told(o, a, "missing", times, at)
    <2>1. /\ Agrees(m, l) /\ l.clean = NoTime
          /\ m.issue \in {c.issue, "none", "data unavailable"}
          /\ l.lost # NoTime /\ at - l.lost >= ForgetTime => ~Held(m)
      BY <1>1, MissedAgrees
    <2>2. t = m /\ q = l
      BY <1>3 DEF Updated
    <2> HIDE DEF m, l, t, q
    <2>3. NoTime <= at
      BY <1>0
    <2> QED BY <1>2, <2>1, <2>3, <2>2 DEF t, q, a, c, o
  <1>4. CASE reading # "missing" /\ a
    <2> DEFINE m == Raised(Started(c, at), times)
               l == ToldAnomalous(o, times, at)
    <2>1. reading # "missing" /\ times \in Nat \ {0} /\ at \in Seconds
      BY <1>4
    <2>4. /\ Agrees(m, l) /\ l.clean = NoTime /\ l.lost = NoTime
          /\ m.issue \in {c.issue, "open"}
          /\ m.issue = "open" /\ c.issue # "open" /\ ~l.many =>
               l.some = Sustained /\ (c.issue # "none" => l.row = Sustained)
      <3> HIDE DEF m, l, t, q
      <3>1. LET x == Raised(Started(c, at), times)
                y == ToldAnomalous(o, times, at)
            IN  /\ Agrees(x, y) /\ y.clean = NoTime /\ y.lost = NoTime
                /\ x.issue \in {c.issue, "open"}
                /\ x.issue = "open" /\ c.issue # "open" /\ ~y.many =>
                     y.some = Sustained /\ (c.issue # "none" => y.row = Sustained)
        BY <1>1, <2>1, RaisedAgrees
      <3> QED BY <3>1 DEF m, l
    <2>2. t = m
      BY <1>4 DEF Updated, a
    <2>3. q = l
      BY <1>4 DEF ToldAnomalous, Told
    <2> HIDE DEF m, l, t, q
    <2> QED BY <1>0, <1>2, <2>2, <2>3, <2>4 DEF t, q, a, c, o
  <1>5. CASE reading # "missing" /\ ~a
    <2> DEFINE m == Cleared(Started(c, at), at)
               l == Told(o, FALSE, reading, times, at)
    <2>1. /\ Agrees(m, l) /\ l.clean <= at /\ l.lost = NoTime
          /\ m.issue \in {c.issue, "resolved"}
          /\ m.issue = "resolved" /\ c.issue # "resolved" =>
               l.clean # NoTime /\ at - l.clean >= ClearTime
      BY <1>1, <1>2, <1>5, ClearedAgrees
    <2>2. t = m
      BY <1>5 DEF Updated, a
    <2>3. q = l
      BY <1>5 DEF Told
    <2> HIDE DEF m, l, t, q
    <2> QED BY <1>2, <2>1, <2>2, <2>3 DEF t, q, a, c, o
  <1> QED BY <1>3, <1>4, <1>5

-----------------------------------------------------------------------------
(* The invariant: the engine of the running process, and the one in the    *)
(* file, agree with the past of each, and the times of an engine of this   *)
(* boot are not ahead of it.                                               *)

EngineAgrees(e, h, b, at) ==
  /\ e = [of |-> e.of, boot |-> e.boot, scope |-> e.scope]
  /\ e.of \in [Keys -> Subject] /\ h \in [Keys -> Past] /\ e.boot \in 0..b
  /\ \A k \in Keys : Agrees(e.of[k], h[k])
  /\ e.boot = b => \A k \in Keys : h[k].clean <= at

EngineInv ==
  /\ now \in Seconds /\ boot \in Nat \ {0} /\ starts \in Nat
  /\ EngineAgrees(engine, past, boot, now)
  /\ file = [engine |-> file.engine, past |-> file.past]
  /\ EngineAgrees(file.engine, file.past, boot, now)

LEMMA FreshAgrees ==
  ASSUME NEW b \in Nat \ {0}, NEW at
  PROVE  EngineAgrees(Fresh, NothingPast, b, at)
  <1> DEFINE of == [k \in Keys |-> Unknown]
  <1>1. Unknown \in Subject /\ NoPast \in Past /\ Agrees(Unknown, NoPast)
    BY NothingAgrees DEF Agrees
  <1>2. of \in [Keys -> Subject] /\ NothingPast \in [Keys -> Past]
        /\ \A k \in Keys : Agrees(of[k], NothingPast[k])
    BY <1>1 DEF NothingPast
  <1>3. Fresh = [of |-> of, boot |-> NoBoot, scope |-> NoBoot] /\ NoBoot = 0
    BY DEF Fresh, NoBoot
  <1> HIDE DEF of
  <1> QED BY <1>2, <1>3 DEF EngineAgrees

\* What agrees now does so later, and in a later boot.
LEMMA StillAgrees ==
  ASSUME NEW e, NEW h, NEW b \in Nat \ {0}, NEW at \in Seconds, EngineAgrees(e, h, b, at),
         NEW c \in Nat \ {0}, NEW later \in Seconds,
         (c = b /\ at <= later) \/ c = b + 1
  PROVE  EngineAgrees(e, h, c, later)
  <1>1. e.boot \in 0..c
    BY DEF EngineAgrees
  <1>2. e.boot = c => e.boot = b /\ at <= later
    BY DEF EngineAgrees
  <1>3. \A k \in Keys : h[k].clean \in Int
    BY DEF EngineAgrees, Past, Seconds
  <1>4. e.boot = c => \A k \in Keys : h[k].clean <= later
    BY <1>2, <1>3 DEF EngineAgrees, Seconds
  <1> QED BY <1>1, <1>4 DEF EngineAgrees

LEMMA InitInv == Init => EngineInv
  BY FreshAgrees, DiagnosisAssumption DEF Init, EngineInv, Seconds

-----------------------------------------------------------------------------
(* The steps *)

\* A sample at time at tells the engine of every subject.
LEMMA SampleTells ==
  ASSUME EngineInv, NEW gap \in Gaps, NEW measured \in Scopes,
         NEW reading \in [Keys -> Readings], NEW times \in Repeats, NEW saved \in BOOLEAN,
         Sample(gap, measured, reading, times, saved)
  PROVE  /\ now' \in Seconds /\ now <= now'
         /\ boot' = boot /\ starts' = starts
         /\ engine' = [of |-> engine'.of, boot |-> boot, scope |-> measured]
         /\ engine'.of \in [Keys -> Subject] /\ past' \in [Keys -> Past]
         /\ \A k \in Keys :
              LET s == engine.of[k]
                  t == engine'.of[k]
                  q == past'[k]
              IN  /\ Agrees(t, q) /\ q.clean <= now'
                  /\ t.issue = "open" /\ s.issue # "open" /\ ~q.many =>
                       /\ q.some >= Sustained
                       /\ s.issue # "none" /\ engine.boot = boot => q.row >= Sustained
                  /\ t.issue = "resolved" /\ s.issue # "resolved" =>
                       q.clean # NoTime /\ now' - q.clean >= ClearTime
                  /\ q.lost # NoTime /\ now' - q.lost >= ForgetTime => ~Held(t)
  <1> DEFINE at == now + gap
             of == [k \in Keys |-> Updated(Compared(engine.of[k], measured), reading[k], times, at)]
             told == [k \in Keys |->
                        Told(PastOf(past[k], measured),
                             Anomalous(Compared(engine.of[k], measured), reading[k], at),
                             reading[k], times, at)]
  <1>1. now' = at /\ boot' = boot /\ starts' = starts /\ past' = told
        /\ engine' = [of |-> of, boot |-> boot, scope |-> measured]
    BY DEF Sample
  <1>2. at \in Seconds /\ now <= at /\ times \in Nat \ {0}
    BY DiagnosisAssumption DEF Sample, EngineInv, Seconds
  <1>3. ASSUME NEW k \in Keys
        PROVE  LET s == engine.of[k]
                   t == of[k]
                   q == told[k]
               IN  /\ Agrees(t, q) /\ q.clean <= at
                   /\ t.issue = "open" /\ s.issue # "open" /\ ~q.many =>
                        /\ q.some >= Sustained
                        /\ s.issue # "none" /\ engine.boot = boot => q.row >= Sustained
                   /\ t.issue = "resolved" /\ s.issue # "resolved" =>
                        q.clean # NoTime /\ at - q.clean >= ClearTime
                   /\ q.lost # NoTime /\ at - q.lost >= ForgetTime => ~Held(t)
    <2> DEFINE s == engine.of[k]
               p == past[k]
    <2>1. Agrees(s, p) /\ reading[k] \in Readings
      BY DEF EngineInv, EngineAgrees
    <2>2. p.clean \in Int
      BY <2>1 DEF Agrees, Past, Seconds
    <2>3. engine.boot = boot => p.clean <= at
      BY <1>2, <2>2 DEF EngineInv, EngineAgrees, Seconds
    <2>4. /\ of[k] = Updated(Compared(s, measured), reading[k], times, at)
          /\ told[k] = Told(PastOf(p, measured),
                            Anomalous(Compared(s, measured), reading[k], at),
                            reading[k], times, at)
      OBVIOUS
    <2> HIDE DEF s, p, at, of, told
    <2>5. LET c == Compared(s, measured)
              a == Anomalous(c, reading[k], at)
              t == Updated(c, reading[k], times, at)
              q == Told(PastOf(p, measured), a, reading[k], times, at)
          IN  /\ Agrees(t, q) /\ q.clean <= at
              /\ t.issue = "open" /\ s.issue # "open" /\ ~q.many =>
                   /\ q.some >= Sustained
                   /\ s.issue # "none" /\ engine.boot = boot => q.row >= Sustained
              /\ t.issue = "resolved" /\ s.issue # "resolved" =>
                   q.clean # NoTime /\ at - q.clean >= ClearTime
              /\ q.lost # NoTime /\ at - q.lost >= ForgetTime => ~Held(t)
      BY <1>2, <2>1, <2>3, UpdatedAgrees
    <2> QED BY <2>4, <2>5 DEF s
  <1>4. of \in [Keys -> Subject] /\ told \in [Keys -> Past]
    <2> DEFINE OfOf(k) == of[k]
    <2>1. \A k \in Keys : of[k] \in Subject /\ told[k] \in Past
      BY <1>3 DEF Agrees
    <2>2. of = [k \in Keys |-> of[k]] /\ told = [k \in Keys |-> told[k]]
      OBVIOUS
    <2> HIDE DEF of, told
    <2> QED BY <2>1, <2>2
  <1> HIDE DEF at, of, told
  <1>5. engine'.of = of
    BY <1>1
  <1> QED BY <1>1, <1>2, <1>3, <1>4, <1>5

\* A sample keeps the invariant: the file is left alone, or it is what the
\* engine has become.
LEMMA SampleStep ==
  ASSUME EngineInv, NEW gap \in Gaps, NEW measured \in Scopes,
         NEW reading \in [Keys -> Readings], NEW times \in Repeats, NEW saved \in BOOLEAN,
         Sample(gap, measured, reading, times, saved)
  PROVE  EngineInv'
  <1>1. /\ now' \in Seconds /\ now <= now'
        /\ boot' = boot /\ starts' = starts
        /\ engine' = [of |-> engine'.of, boot |-> boot, scope |-> measured]
        /\ engine'.of \in [Keys -> Subject] /\ past' \in [Keys -> Past]
        /\ \A k \in Keys : Agrees(engine'.of[k], past'[k]) /\ past'[k].clean <= now'
    BY SampleTells
  <1>2. boot \in Nat \ {0} /\ starts \in Nat /\ now \in Seconds
        /\ file = [engine |-> file.engine, past |-> file.past]
        /\ EngineAgrees(file.engine, file.past, boot, now)
    BY DEF EngineInv
  <1>3. EngineAgrees(engine', past', boot', now')
    <2>1. engine'.boot = boot /\ engine'.scope = measured /\ boot \in 0..boot
      BY <1>1, <1>2
    <2> QED BY <1>1, <2>1 DEF EngineAgrees
  <1>4. EngineAgrees(file.engine, file.past, boot', now')
    BY <1>1, <1>2, StillAgrees
  <1>5. file' = file \/ file' = [engine |-> engine', past |-> past']
    BY DEF Sample
  <1>6. /\ file' = [engine |-> file'.engine, past |-> file'.past]
        /\ EngineAgrees(file'.engine, file'.past, boot', now')
    <2>1. CASE file' = file
      BY <1>2, <1>4, <2>1
    <2>2. CASE file' = [engine |-> engine', past |-> past']
      BY <1>3, <2>2
    <2> QED BY <1>5, <2>1, <2>2
  <1> QED BY <1>1, <1>2, <1>3, <1>6 DEF EngineInv

\* Another process has the engine in the file, or an empty one, and the file
\* is the one before or what the ended process saved.
LEMMA RestartStep ==
  ASSUME EngineInv, NEW clean \in BOOLEAN, NEW rebooted \in BOOLEAN, NEW readable \in BOOLEAN,
         Restart(clean, rebooted, readable)
  PROVE  EngineInv'
  <1>1. /\ boot \in Nat \ {0} /\ starts \in Nat /\ now \in Seconds
        /\ file = [engine |-> file.engine, past |-> file.past]
        /\ EngineAgrees(file.engine, file.past, boot, now)
        /\ EngineAgrees(engine, past, boot, now)
    BY DEF EngineInv
  <1>2. starts' \in Nat
    BY <1>1 DEF Restart
  <1>3. /\ boot' \in Nat \ {0} /\ now' \in Seconds
        /\ (boot' = boot /\ now <= now') \/ boot' = boot + 1
    <2>1. CASE rebooted
      <3>1. boot' = boot + 1 /\ now' = 0
        BY <2>1 DEF Restart
      <3>2. boot + 1 \in Nat \ {0} /\ 0 \in Seconds
        BY <1>1, DiagnosisAssumption DEF Seconds
      <3> QED BY <3>1, <3>2
    <2>2. CASE ~rebooted
      <3>1. boot' = boot /\ now' = now /\ now <= now
        BY <1>1, <2>2 DEF Restart, Seconds
      <3> QED BY <1>1, <3>1
    <2> QED BY <2>1, <2>2
  <1>4. /\ EngineAgrees(file.engine, file.past, boot', now')
        /\ EngineAgrees(engine, past, boot', now')
    BY <1>1, <1>3, StillAgrees
  <1>5. file' = file \/ file' = [engine |-> engine, past |-> past]
    BY DEF Restart
  <1>6. /\ file' = [engine |-> file'.engine, past |-> file'.past]
        /\ EngineAgrees(file'.engine, file'.past, boot', now')
    <2>1. CASE file' = file
      BY <1>1, <1>4, <2>1
    <2>2. CASE file' = [engine |-> engine, past |-> past]
      BY <1>4, <2>2
    <2> QED BY <1>5, <2>1, <2>2
  <1>7. EngineAgrees(engine', past', boot', now')
    <2>1. CASE readable
      <3>1. engine' = file'.engine /\ past' = file'.past
        BY <2>1 DEF Restart
      <3> QED BY <1>6, <3>1
    <2>2. CASE ~readable
      <3>1. engine' = Fresh /\ past' = NothingPast
        BY <2>2 DEF Restart
      <3>2. EngineAgrees(Fresh, NothingPast, boot', now')
        BY <1>3, FreshAgrees
      <3> QED BY <3>1, <3>2
    <2> QED BY <2>1, <2>2
  <1> QED BY <1>2, <1>3, <1>6, <1>7 DEF EngineInv

LEMMA StutterStep ==
  ASSUME EngineInv, UNCHANGED vars
  PROVE  EngineInv'
  BY DEF EngineInv, EngineAgrees, vars

LEMMA EngineInvariant == Spec => []EngineInv
  <1>1. ASSUME EngineInv, [Next]_vars PROVE EngineInv'
    <2>1. CASE \E gap \in Gaps, measured \in Scopes, reading \in [Keys -> Readings],
                  times \in Repeats, saved \in BOOLEAN :
                 Sample(gap, measured, reading, times, saved)
      BY <1>1, <2>1, SampleStep
    <2>2. CASE \E clean \in BOOLEAN, rebooted \in BOOLEAN, readable \in BOOLEAN :
                 Restart(clean, rebooted, readable)
      BY <1>1, <2>2, RestartStep
    <2>3. CASE UNCHANGED vars
      BY <1>1, <2>3, StutterStep
    <2> QED BY <1>1, <2>1, <2>2, <2>3 DEF Next
  <1> QED BY <1>1, InitInv, PTL DEF Spec

-----------------------------------------------------------------------------
(* The theorems *)

\* Whatever was loaded, measured or missed, the engine holds nothing of
\* another boot or scope, and no subject is counted clear and in a streak at once
\* (update and Baseline::add).
THEOREM EngineCorrect == Spec => []EngineIsOfScope
  <1>1. ASSUME EngineInv PROVE EngineIsOfScope
    <2>1. /\ \A k \in Keys : Agrees(engine.of[k], past[k])
          /\ engine.of \in [Keys -> Subject] /\ file.engine.of \in [Keys -> Subject]
          /\ engine.boot \in 0..boot /\ now \in Seconds /\ boot \in Nat /\ starts \in Nat
      BY <1>1 DEF EngineInv, EngineAgrees
    <2>2. TypeOK
      BY <2>1 DEF TypeOK, Agrees, StreakAgrees
    <2>3. BaselineOfScope
      BY <2>1 DEF BaselineOfScope, Agrees
    <2> QED BY <2>2, <2>3 DEF EngineIsOfScope
  <1> QED BY <1>1, EngineInvariant, PTL

\* For any times and limits, and whichever processes took the samples: a subject
\* that is observed once a sample has its issue opened by no fewer than Sustained
\* anomalous samples without a normal one between, and opened again by as many in
\* a row; and an issue is resolved only after ClearTime of nothing but normal
\* samples, if no more than the first and the last (the streaks and clear times
\* of update).  That several observations of one sample, or samples before and
\* after an absence, open a first issue is not excluded (OpensSustained).
THEOREM EarnedCorrect == Spec => IssuesAreEarned
  <1>1. ASSUME EngineInv, [Next]_vars PROVE [OpensOnStreak /\ ResolvesClear]_vars
    <2>1. ASSUME NEW gap \in Gaps, NEW measured \in Scopes,
                 NEW reading \in [Keys -> Readings], NEW times \in Repeats,
                 NEW saved \in BOOLEAN,
                 Sample(gap, measured, reading, times, saved)
          PROVE  OpensOnStreak /\ ResolvesClear
      BY <1>1, <2>1, SampleTells DEF OpensOnStreak, ResolvesClear, Opens, Resolves
    <2>2. ASSUME NEW clean \in BOOLEAN, NEW rebooted \in BOOLEAN,
                 NEW readable \in BOOLEAN, Restart(clean, rebooted, readable)
          PROVE  OpensOnStreak /\ ResolvesClear
      <3>1. ~Samples
        BY <1>1, <2>2 DEF Samples, Restart, EngineInv
      <3> QED BY <3>1 DEF OpensOnStreak, ResolvesClear, Opens, Resolves
    <2> QED BY <1>1, <2>1, <2>2 DEF Next
  <1> QED BY <1>1, EngineInvariant, PTL DEF Spec, IssuesAreEarned

\* A subject that the samples missed for ForgetTime has neither issue nor
\* baseline (the absent_since of update).
THEOREM GoneCorrect == Spec => GoneIsForgotten
  <1>1. ASSUME EngineInv, [Next]_vars
        PROVE  [\A k \in Keys :
                  Samples /\ GoneLong(k)' => engine'.of[k].issue = "none"
                                            /\ engine'.of[k].baseline = NoBaseline]_vars
    <2>1. ASSUME NEW gap \in Gaps, NEW measured \in Scopes,
                 NEW reading \in [Keys -> Readings], NEW times \in Repeats,
                 NEW saved \in BOOLEAN,
                 Sample(gap, measured, reading, times, saved), NEW k \in Keys, GoneLong(k)'
          PROVE  engine'.of[k].issue = "none" /\ engine'.of[k].baseline = NoBaseline
      BY <1>1, <2>1, SampleTells DEF GoneLong, Held
    <2>2. ASSUME NEW clean \in BOOLEAN, NEW rebooted \in BOOLEAN,
                 NEW readable \in BOOLEAN, Restart(clean, rebooted, readable)
          PROVE  ~Samples
      BY <1>1, <2>2 DEF Samples, Restart, EngineInv
    <2> QED BY <1>1, <2>1, <2>2 DEF Next
  <1> QED BY <1>1, EngineInvariant, PTL DEF Spec, GoneIsForgotten

-----------------------------------------------------------------------------
(* Verification.  A verdict is on the samples of a window; that they leave *)
(* no two seconds blank is that no gap is among them.                      *)

VerificationSpec == VerificationInit /\ [][VerificationNext]_verificationVars

Measured == [at : Nat, value : Nat]
Ordered(s) == \A i, j \in 1..Len(s) : i < j => s[i].at < s[j].at
IsSeries(s) == s \in Seq(Measured) /\ Ordered(s) /\ Len(s) <= Retained

\* One sample in every second, from the first or as many as are retained.
Steady(s) ==
  s # <<>> =>
    /\ \A j \in 1..Len(s) : s[j].at \div 2 = s[Len(s)].at \div 2 - (Len(s) - j)
    /\ Len(s) = Retained \/ Len(s) = s[Len(s)].at \div 2 + 1

LEMMA SampleIs ==
  ASSUME NEW s, IsSeries(s), NEW i \in 1..Len(s)
  PROVE  s[i].at \in Nat /\ s[i].value \in Nat /\ Len(s) \in Nat /\ DOMAIN s = 1..Len(s)
  <1>1. s[i] \in Measured /\ Len(s) \in Nat /\ DOMAIN s = 1..Len(s)
    BY DEF IsSeries
  <1> QED BY <1>1 DEF Measured

\* A later sample keeps the order, and one a second later the steadiness.
LEMMA PushedIs ==
  ASSUME NEW s, IsSeries(s), NEW at \in Nat, NEW value \in Nat,
         s # <<>> => s[Len(s)].at < at
  PROVE  /\ IsSeries(Pushed(s, at, value)) /\ Pushed(s, at, value) # <<>>
         /\ Pushed(s, at, value)[Len(Pushed(s, at, value))].at = at
         /\ /\ Steady(s)
            /\ s = <<>> => at \div 2 = 0
            /\ s # <<>> => at \div 2 = s[Len(s)].at \div 2 + 1
            => Steady(Pushed(s, at, value))
  <1> DEFINE x == [at |-> at, value |-> value]
             n == Len(s)
             all == Append(s, x)
             r == Pushed(s, at, value)
             tick == at \div 2
             ticks(i) == all[i].at \div 2
  <1>0. s \in Seq(Measured) /\ n \in Nat /\ Ordered(s) /\ n <= Retained /\ Retained \in Nat
        /\ Retained > 0
    BY VerificationAssumption DEF IsSeries, Second
  <1>1. x \in Measured /\ x.at = at
    BY DEF Measured
  <1>2. r = IF n + 1 > Retained THEN Tail(all) ELSE all
    <2>1. ~(s # <<>> /\ Last(s).at = at)
      <3> SUFFICES ASSUME s # <<>>, Last(s).at = at PROVE FALSE
        OBVIOUS
      <3>1. s[n].at \in Nat
        <4>1. n \in 1..n
          BY <1>0
        <4> QED BY <4>1, SampleIs
      <3> QED BY <3>1 DEF Last
    <2>2. Len(all) = n + 1
      BY <1>0, <1>1
    <2> QED BY <2>1, <2>2 DEF Pushed
  <1> HIDE DEF x
  <1>3. /\ all \in Seq(Measured) /\ Len(all) = n + 1 /\ all[n + 1] = x
        /\ \A i \in 1..n : all[i] = s[i]
    BY <1>0, <1>1
  <1> HIDE DEF all
  <1>4. Ordered(all)
    <2> SUFFICES ASSUME NEW i \in 1..n + 1, NEW j \in 1..n + 1, i < j
                 PROVE  all[i].at < all[j].at
      BY <1>3 DEF Ordered
    <2>1. i \in 1..n /\ (j \in 1..n \/ j = n + 1)
      BY <1>0
    <2>2. CASE j \in 1..n
      BY <1>0, <1>3, <2>1, <2>2 DEF Ordered
    <2>3. CASE j = n + 1
      <3>1. n \in 1..n /\ s # <<>> /\ s[i].at \in Nat /\ s[n].at \in Nat
        BY <1>0, <2>1, SampleIs
      <3>2. i = n \/ s[i].at < s[n].at
        BY <1>0, <2>1, <3>1 DEF Ordered
      <3>3. all[i].at = s[i].at /\ all[j].at = at /\ s[n].at < at
        BY <1>1, <1>3, <2>1, <2>3, <3>1
      <3> QED BY <3>1, <3>2, <3>3
    <2> QED BY <2>1, <2>2, <2>3
  <1>5. ASSUME Steady(s), s = <<>> => tick = 0, s # <<>> => tick = s[n].at \div 2 + 1
        PROVE  /\ \A j \in 1..n + 1 : ticks(j) = tick - (n + 1 - j)
               /\ n = Retained \/ n + 1 = tick + 1
    <2>1. CASE s = <<>>
      <3>1. n = 0 /\ tick = 0
        BY <1>5, <2>1
      <3>2. ticks(1) = tick
        BY <1>1, <1>3, <3>1
      <3>3. \A j \in 1..n + 1 : j = 1
        BY <3>1
      <3> QED BY <3>1, <3>2, <3>3
    <2>2. CASE s # <<>>
      <3> DEFINE last == s[n].at \div 2
      <3>1. tick = last + 1 /\ n \in 1..n
        BY <1>0, <1>5, <2>2
      <3>2. last \in Int
        <4>1. s[n].at \in Nat
          BY <3>1, SampleIs
        <4> QED BY <4>1
      <3>3. \A j \in 1..n : ticks(j) = last - (n - j)
        BY <1>3, <1>5, <2>2 DEF Steady
      <3>4. n = Retained \/ n = last + 1
        BY <1>5, <2>2 DEF Steady
      <3>5. ticks(n + 1) = tick
        BY <1>1, <1>3
      <3> HIDE DEF last, tick, ticks
      <3>6. ASSUME NEW j \in 1..n + 1 PROVE ticks(j) = tick - (n + 1 - j)
        <4>1. CASE j = n + 1
          BY <1>0, <3>1, <3>2, <3>5, <4>1
        <4>2. CASE j # n + 1
          <5>1. j \in 1..n
            BY <1>0, <4>2
          <5>2. ticks(j) = last - (n - j)
            BY <3>3, <5>1
          <5> QED BY <1>0, <3>1, <3>2, <5>2
        <4> QED BY <4>1, <4>2
      <3> QED BY <1>0, <3>1, <3>2, <3>4, <3>6
    <2> QED BY <2>1, <2>2
  <1>6. CASE n + 1 > Retained
    <2>1. n = Retained /\ r = Tail(all)
      BY <1>0, <1>2, <1>6
    <2> HIDE DEF r
    <2>2. /\ r \in Seq(Measured) /\ Len(r) = n
          /\ \A i \in 1..n : r[i] = all[i + 1]
      BY <1>0, <1>3, <2>1
    <2>3. \A i \in 1..n : i + 1 \in 1..n + 1
      BY <1>0
    <2>4. Ordered(r)
      <3> SUFFICES ASSUME NEW i \in 1..n, NEW j \in 1..n, i < j PROVE r[i].at < r[j].at
        BY <2>2 DEF Ordered
      <3>1. i + 1 \in 1..n + 1 /\ j + 1 \in 1..n + 1 /\ i + 1 < j + 1
        BY <1>0
      <3>2. all[i + 1].at < all[j + 1].at
        BY <1>3, <1>4, <3>1 DEF Ordered
      <3> QED BY <2>2, <3>2
    <2>5. r # <<>> /\ n \in 1..n /\ r[n] = all[n + 1]
      BY <1>0, <2>1, <2>2
    <2>6. IsSeries(r) /\ r[Len(r)].at = at
      BY <1>0, <1>1, <1>3, <2>2, <2>4, <2>5 DEF IsSeries
    <2>7. ASSUME Steady(s), s = <<>> => tick = 0, s # <<>> => tick = s[n].at \div 2 + 1
          PROVE  Steady(r)
      <3>1. tick \in Int /\ r[n].at \div 2 = tick
        BY <2>2, <2>6
      <3>2. ASSUME NEW j \in 1..n PROVE r[j].at \div 2 = tick - (n - j)
        <4>1. ticks(j + 1) = tick - (n + 1 - (j + 1))
          BY <1>5, <2>3, <2>7
        <4>2. r[j].at \div 2 = ticks(j + 1)
          BY <2>2
        <4> HIDE DEF tick, ticks
        <4> QED BY <1>0, <3>1, <4>1, <4>2
      <3> QED BY <2>1, <2>2, <3>1, <3>2 DEF Steady
    <2> QED BY <2>5, <2>6, <2>7 DEF r
  <1>7. CASE ~(n + 1 > Retained)
    <2>1. r = all /\ n # Retained /\ n + 1 <= Retained
      BY <1>0, <1>2, <1>7
    <2>2. IsSeries(r) /\ r # <<>> /\ Len(r) = n + 1 /\ r[Len(r)].at = at
      BY <1>0, <1>1, <1>3, <1>4, <2>1 DEF IsSeries
    <2>3. ASSUME Steady(s), s = <<>> => tick = 0, s # <<>> => tick = s[n].at \div 2 + 1
          PROVE  Steady(r)
      <3>1. /\ \A j \in 1..n + 1 : ticks(j) = tick - (n + 1 - j)
            /\ n = Retained \/ n + 1 = tick + 1
        BY <1>5, <2>3
      <3>2. all[n + 1].at \div 2 = tick
        BY <1>1, <1>3
      <3> HIDE DEF tick, r
      <3> QED BY <1>3, <2>1, <3>1, <3>2 DEF Steady
    <2> QED BY <2>2, <2>3
  <1> QED BY <1>6, <1>7

\* A chart's second is its last sample, and is blank when it has none.
LEMMA CellIs ==
  ASSUME NEW s, IsSeries(s), NEW start \in Nat, NEW stop \in Nat
  PROVE  \/ /\ SecondCell(s, start, stop) = 0
            /\ \A m \in 1..Len(s) : ~(start <= s[m].at /\ s[m].at <= stop)
         \/ \E m \in 1..Len(s) : /\ start <= s[m].at /\ s[m].at <= stop
                                 /\ SecondCell(s, start, stop) = s[m].value
  <1> DEFINE upto == {i \in DOMAIN s : s[i].at <= stop}
             last == CHOOSE i \in upto : \A j \in upto : j <= i
             n == Len(s)
  <1>0. n \in Nat /\ DOMAIN s = 1..n /\ \A m \in 1..n : s[m].at \in Nat
    BY SampleIs DEF IsSeries
  <1>1. CASE upto = {}
    <2>1. SecondCell(s, start, stop) = 0
      BY <1>1 DEF SecondCell, Missing
    <2> QED BY <1>0, <1>1, <2>1
  <1>2. CASE upto # {}
    <2>1. IsFiniteSet(upto) /\ upto \in SUBSET Int
      <3>1. upto \subseteq 1..n /\ IsFiniteSet(1..n)
        BY <1>0, IntervalIs
      <3> QED BY <3>1, FS_Subset
    <2>2. \E i \in upto : \A j \in upto : j <= i
      BY <1>2, <2>1, MaxIs
    <2>3. last \in upto /\ \A j \in upto : j <= last
      BY <2>2
    <2>4. SecondCell(s, start, stop) = IF s[last].at < start THEN 0 ELSE s[last].value
      BY <1>2 DEF SecondCell, Missing
    <2> HIDE DEF last
    <2>5. last \in 1..n /\ s[last].at <= stop /\ s[last].at \in Nat
      BY <1>0, <2>3
    <2>6. CASE s[last].at < start
      <3>1. ASSUME NEW m \in 1..n, start <= s[m].at, s[m].at <= stop PROVE FALSE
        <4>1. m \in upto
          BY <1>0, <3>1
        <4>2. m <= last
          BY <2>3, <4>1
        <4>3. m = last \/ s[m].at < s[last].at
          BY <2>5, <4>2 DEF IsSeries, Ordered
        <4> QED BY <1>0, <2>5, <2>6, <3>1, <4>3
      <3> QED BY <2>4, <2>6, <3>1
    <2>7. CASE ~(s[last].at < start)
      BY <2>4, <2>5, <2>7
    <2> QED BY <2>6, <2>7
  <1> QED BY <1>1, <1>2

\* A window without gaps has a sample in any two seconds.
LEMMA NoBlanks ==
  ASSUME NEW seen \in Seq(Measured), Ordered(seen), NEW end \in Nat, ~Uncovered(seen, end),
         \A i \in 1..Len(seen) : seen[i].at <= end,
         NEW t \in Nat, t > end - Window, t + 2 <= end
  PROVE  \E i \in 1..Len(seen) : t <= seen[i].at /\ (seen[i].at <= t + 3)
  <1> DEFINE n == Len(seen)
             S == {i \in 1..n : seen[i].at < t}
  <1>0. n \in Nat /\ (\A i \in 1..n : seen[i].at \in Nat) /\ Window \in Nat
    <2>1. \A i \in 1..n : seen[i] \in Measured
      OBVIOUS
    <2> QED BY <2>1, VerificationAssumption DEF Measured
  <1>1. n >= 1
    <2>1. ~(n < LeastSamples)
      BY DEF Uncovered
    <2> QED BY <1>0, <2>1, VerificationAssumption
  <1>2. /\ ~(seen[1].at > end - Window + 2) /\ ~(end - seen[n].at > 2)
        /\ \A i \in 1..n - 1 : ~(seen[i + 1].at - seen[i].at > 3)
    <2>1. Head(seen) = seen[1] /\ Last(seen) = seen[n]
      BY <1>0, <1>1 DEF Last
    <2> QED BY <2>1 DEF Uncovered, Second
  <1> SUFFICES ASSUME \A i \in 1..n : ~(t <= seen[i].at /\ seen[i].at <= t + 3)
               PROVE  FALSE
    OBVIOUS
  <1>3. 1 \in 1..n /\ n \in 1..n
    BY <1>0, <1>1
  <1>4. seen[1].at < t
    BY <1>0, <1>2, <1>3
  <1>5. IsFiniteSet(S) /\ S \in SUBSET Int /\ S # {}
    <2>1. IsFiniteSet(1..n) /\ S \subseteq 1..n
      BY <1>0, IntervalIs
    <2> QED BY <1>3, <1>4, <2>1, FS_Subset
  <1>6. PICK i \in S : \A j \in S : j <= i
    BY <1>5, MaxIs
  <1>7. i # n
    BY <1>0, <1>2, <1>3, <1>6
  <1>8. i \in 1..n - 1 /\ i + 1 \in 1..n
    BY <1>0, <1>6, <1>7
  <1>9. ~(seen[i + 1].at < t)
    <2>1. i + 1 \notin S
      BY <1>0, <1>6, <1>8
    <2> QED BY <1>8, <2>1
  <1>10. seen[i].at < t /\ seen[i].at \in Nat /\ seen[i + 1].at \in Nat
    BY <1>0, <1>6, <1>8
  <1>11. ~(t <= seen[i + 1].at /\ seen[i + 1].at <= t + 3)
    BY <1>8
  <1>12. ~(seen[i + 1].at - seen[i].at > 3)
    BY <1>2, <1>8
  <1> QED BY <1>9, <1>10, <1>11, <1>12

LEMMA HalfIs ==
  ASSUME NEW x \in Nat
  PROVE  x \div 2 \in Nat /\ 2 * (x \div 2) <= x /\ x <= 2 * (x \div 2) + 1
  OBVIOUS

\* The newest sample is the last one.
LEMMA LastIsNewest ==
  ASSUME NEW s, IsSeries(s), s # <<>>, NEW i \in 1..Len(s)
  PROVE  /\ Len(s) \in 1..Len(s) /\ s[i].at <= s[Len(s)].at
         /\ s[i].at \in Nat /\ s[Len(s)].at \in Nat
  <1>1. Len(s) \in Nat /\ Len(s) \in 1..Len(s)
    BY DEF IsSeries
  <1>2. s[i].at \in Nat /\ s[Len(s)].at \in Nat
    BY <1>1, SampleIs
  <1>3. i = Len(s) \/ s[i].at < s[Len(s)].at
    BY <1>1 DEF IsSeries, Ordered
  <1> QED BY <1>1, <1>2, <1>3

\* What a verdict considers of a series is its end, from some sample on.
LEMMA WindowIs ==
  ASSUME NEW s, IsSeries(s), s # <<>>, NEW end \in Nat, end >= Window, s[Len(s)].at <= end
  PROVE  \E lo \in 1..Len(s) + 1 :
           /\ \A m \in 1..Len(s) : s[m].at >= end - Window <=> m >= lo
           /\ Considered(s, end) \in Seq(Measured)
           /\ Len(Considered(s, end)) = Len(s) + 1 - lo
           /\ \A j \in 1..Len(s) + 1 - lo : Considered(s, end)[j] = s[lo + j - 1]
  <1> DEFINE n == Len(s)
             start == end - Window
             S == {x \in ToSet(s) : x.at >= start /\ x.at <= end}
             T == {m \in 1..n + 1 : m = n + 1 \/ s[m].at >= start}
  <1>0. s \in Seq(Measured) /\ n \in Nat /\ \A m \in 1..n : s[m].at \in Nat
    BY SampleIs DEF IsSeries
  <1>1. start \in Nat /\ ~(end < Window)
    BY VerificationAssumption
  <1>2. \A i \in 1..n : s[i].at <= end
    BY LastIsNewest
  <1>3. Considered(s, end) = Filtered(s, S)
    BY <1>1 DEF Considered
  <1> HIDE DEF start
  <1>4. T \in SUBSET Nat /\ T # {}
    <2>1. n + 1 \in T /\ 1..n + 1 \subseteq Nat
      BY <1>0
    <2> QED BY <2>1
  <1>5. PICK lo \in T : \A m \in T : lo <= m
    BY <1>4, Least
  <1>6. ASSUME NEW m \in 1..n PROVE s[m].at >= start <=> m >= lo
    <2>1. m \in 1..n + 1 /\ lo \in 1..n + 1
      BY <1>0
    <2>2. ASSUME s[m].at >= start PROVE m >= lo
      <3>1. m \in T
        BY <2>1, <2>2
      <3>2. lo <= m
        BY <1>5, <3>1
      <3> QED BY <2>1, <3>2
    <2>3. ASSUME m >= lo PROVE s[m].at >= start
      <3>1. lo \in 1..n /\ s[lo].at >= start
        BY <1>0, <2>1, <2>3
      <3>2. lo = m \/ s[lo].at < s[m].at
        BY <2>1, <2>3, <3>1 DEF IsSeries, Ordered
      <3> QED BY <1>0, <1>1, <3>1, <3>2
    <2> QED BY <2>2, <2>3
  <1>7. \A m \in 1..n : s[m] \in S <=> lo <= m /\ m <= n
    <2>1. \A m \in 1..n : s[m] \in ToSet(s)
      BY <1>0 DEF ToSet
    <2>2. \A m \in 1..n : s[m] \in S <=> s[m].at >= start
      BY <1>2, <2>1
    <2>3. \A m \in 1..n : m >= lo <=> lo <= m /\ m <= n
      BY <1>0
    <2> HIDE DEF S, T
    <2> QED BY <1>6, <2>2, <2>3
  <1>8. lo \in Nat /\ lo >= 1 /\ lo <= n + 1 /\ n <= Len(s)
    BY <1>0
  <1> HIDE DEF S, T
  <1>9. /\ Filtered(s, S) \in Seq(Measured) /\ Len(Filtered(s, S)) = n - lo + 1
        /\ \A j \in 1..n - lo + 1 : Filtered(s, S)[j] = s[lo + j - 1]
    <2> DEFINE hi == n
    <2>1. IsRun(s, S, lo, hi) /\ lo \in Nat /\ hi \in Nat
      BY <1>0, <1>7, <1>8 DEF IsRun
    <2> HIDE DEF hi
    <2>2. /\ Filtered(s, S) \in Seq(Measured) /\ Len(Filtered(s, S)) = hi - lo + 1
          /\ \A j \in 1..hi - lo + 1 : Filtered(s, S)[j] = s[lo + j - 1]
      BY <1>0, <2>1, FilteredRun
    <2> QED BY <2>2 DEF hi
  <1>10. n - lo + 1 = n + 1 - lo /\ lo \in 1..n + 1
    BY <1>0, <1>8
  <1> QED BY <1>6, <1>3, <1>9, <1>10 DEF start

\* Seconds in a row are at most three ticks apart.
LEMMA SteadyGap ==
  ASSUME NEW s, IsSeries(s), Steady(s), NEW i \in 1..Len(s) - 1
  PROVE  s[i + 1].at \div 2 = s[i].at \div 2 + 1 /\ s[i + 1].at - s[i].at <= 3
         /\ s[i].at \in Nat /\ s[i + 1].at \in Nat
  <1> DEFINE n == Len(s)
             k == s[n].at \div 2
  <1>1. n \in Nat /\ i \in 1..n /\ i + 1 \in 1..n /\ n \in 1..n /\ s # <<>>
    BY DEF IsSeries
  <1>2. s[i].at \in Nat /\ s[i + 1].at \in Nat /\ s[n].at \in Nat
    BY <1>1, SampleIs
  <1>3. s[i].at \div 2 = k - (n - i) /\ s[i + 1].at \div 2 = k - (n - (i + 1))
    BY <1>1 DEF Steady
  <1>4. k \in Nat
    BY <1>2, HalfIs
  <1> HIDE DEF k
  <1>5. s[i + 1].at \div 2 = s[i].at \div 2 + 1
    BY <1>1, <1>3, <1>4
  <1>6. /\ s[i].at \div 2 \in Nat /\ 2 * (s[i].at \div 2) <= s[i].at
        /\ s[i + 1].at <= 2 * (s[i + 1].at \div 2) + 1
    BY <1>2, HalfIs
  <1> DEFINE half == s[i].at \div 2
  <1>7. s[i + 1].at <= 2 * (half + 1) + 1 /\ half \in Nat /\ 2 * half <= s[i].at
    BY <1>5, <1>6
  <1> HIDE DEF half
  <1>8. s[i + 1].at - s[i].at <= 3
    <2> DEFINE x == s[i].at
               y == s[i + 1].at
    <2>1. y <= 2 * (half + 1) + 1 /\ half \in Nat /\ 2 * half <= x /\ x \in Nat /\ y \in Nat
      BY <1>2, <1>7
    <2> HIDE DEF x, y
    <2>2. y - x <= 3
      BY <2>1
    <2> QED BY <2>2 DEF x, y
  <1> QED BY <1>2, <1>5, <1>8

\* A steady series without missing values covers the window.
LEMMA SteadyIsCovered ==
  ASSUME NEW s, IsSeries(s), s # <<>>, Steady(s), NEW end \in Nat, end >= Window,
         s[Len(s)].at <= end, end < s[Len(s)].at + 2,
         \A i \in DOMAIN s : s[i].value # Missing
  PROVE  ~Uncovered(Considered(s, end), end)
  <1> DEFINE n == Len(s)
             k == s[n].at \div 2
             h == Window \div 2
             seen == Considered(s, end)
  <1>0. n \in Nat /\ n \in 1..n /\ DOMAIN s = 1..n /\ s[n].at \in Nat
    BY LastIsNewest, SampleIs DEF IsSeries
  <1>1. k \in Nat /\ 2 * k <= s[n].at /\ s[n].at <= 2 * k + 1
    BY <1>0, HalfIs
  <1>2. /\ Window \in Nat /\ LeastSamples \in Nat \ {0} /\ Retained \in Nat
        /\ LeastSamples * 2 <= Window /\ h < Retained
    BY VerificationAssumption DEF Second
  <1>3. h \in Nat /\ 2 * h <= Window /\ Window <= 2 * h + 1
    BY <1>2, HalfIs
  <1>4. h >= LeastSamples
    <2> HIDE DEF h
    <2> QED BY <1>2, <1>3
  <1>5. PICK lo \in 1..Len(s) + 1 :
           /\ \A m \in 1..Len(s) : s[m].at >= end - Window <=> m >= lo
           /\ Considered(s, end) \in Seq(Measured)
           /\ Len(Considered(s, end)) = Len(s) + 1 - lo
           /\ \A j \in 1..Len(s) + 1 - lo : Considered(s, end)[j] = s[lo + j - 1]
    BY WindowIs
  <1> DEFINE l == n + 1 - lo
  <1>6. \A j \in 1..n : s[j].at \in Nat /\ s[j].at \div 2 = k - (n - j)
    BY SampleIs DEF Steady
  <1>7. n = Retained \/ n = k + 1
    BY DEF Steady
  <1> HIDE DEF k, h
  <1>8. n >= h
    <2> DEFINE last == s[n].at
    <2>1. last \in Nat /\ 2 * k <= last /\ last <= 2 * k + 1 /\ end < last + 2
      BY <1>0, <1>1
    <2> HIDE DEF last
    <2>2. k + 1 >= h
      BY <1>1, <1>2, <1>3, <2>1
    <2>3. h \in Nat /\ Retained \in Nat /\ h < Retained
      BY <1>2, <1>3
    <2> HIDE DEF n
    <2> QED BY <1>1, <1>7, <2>2, <2>3
  <1>9. lo <= n - h + 1 /\ lo \in 1..n
    <2> DEFINE m == n - h + 1
    <2>1. m \in 1..n
      BY <1>0, <1>2, <1>3, <1>4, <1>8
    <2>2. s[m].at >= 2 * (k - (n - m)) /\ s[m].at \in Nat
      <3>1. s[m].at \in Nat /\ s[m].at \div 2 = k - (n - m)
        BY <1>6, <2>1
      <3>2. 2 * (s[m].at \div 2) <= s[m].at
        BY <3>1, HalfIs
      <3> HIDE DEF m
      <3> QED BY <3>1, <3>2
    <2>3. n - m = h - 1
      BY <1>0, <1>3
    <2>4. s[m].at >= end - Window
      <3> HIDE DEF m
      <3>1. s[m].at >= 2 * (k - (h - 1))
        BY <2>2, <2>3
      <3> DEFINE last == s[n].at
                 x == s[m].at
      <3>2. /\ last \in Nat /\ last <= 2 * k + 1 /\ end < last + 2
            /\ x >= 2 * (k - (h - 1)) /\ x \in Nat
        BY <1>0, <1>1, <2>2, <3>1
      <3> HIDE DEF last, x
      <3>3. x >= end - Window
        BY <1>1, <1>2, <1>3, <3>2
      <3> QED BY <3>3 DEF x
    <2>5. m >= lo
      BY <1>5, <2>1, <2>4
    <2> QED BY <1>0, <1>5, <2>1, <2>5
  <1>10. l \in 1..n /\ l >= LeastSamples /\ Len(seen) = l /\ lo \in Nat
    BY <1>0, <1>2, <1>3, <1>4, <1>5, <1>9
  <1>11. /\ \A j \in 1..l : seen[j] = s[lo + j - 1] /\ lo + j - 1 \in 1..n
         /\ seen \in Seq(Measured)
    BY <1>0, <1>5, <1>9
  <1>12. s[lo].at <= end - Window + 2
    <2>0. s[lo].at \in Nat /\ s[lo].at \div 2 = k - (n - lo)
      BY <1>6, <1>9
    <2>1. CASE lo = 1
      <3>1. s[1].at <= 2 * (k - (n - 1)) + 1 /\ s[1].at \in Nat
        <4>1. s[1].at <= 2 * (s[1].at \div 2) + 1
          BY <2>0, <2>1, HalfIs
        <4> QED BY <2>0, <2>1, <4>1
      <3>2. CASE n = k + 1
        BY <1>0, <1>1, <1>2, <2>1, <3>1, <3>2
      <3>3. CASE n = Retained
        BY <1>0, <1>1, <1>2, <1>3, <2>1, <3>1, <3>3
      <3> QED BY <1>7, <3>2, <3>3
    <2>2. CASE lo # 1
      <3> DEFINE i == lo - 1
      <3>1. i \in 1..n - 1 /\ i \in 1..n /\ i + 1 = lo /\ ~(i >= lo)
        BY <1>0, <1>9, <2>2
      <3>2. ~(s[i].at >= end - Window)
        BY <1>5, <3>1
      <3>3. s[i + 1].at - s[i].at <= 3 /\ s[i].at \in Nat
        BY <3>1, SteadyGap
      <3>4. s[lo].at \div 2 = s[i].at \div 2 + 1
        BY <3>1, SteadyGap
      <3>5. /\ s[i].at \div 2 \in Nat /\ 2 * (s[i].at \div 2) <= s[i].at
            /\ s[lo].at <= 2 * (s[lo].at \div 2) + 1
        BY <2>0, <3>3, HalfIs
      <3> DEFINE x == s[i].at
                 y == s[lo].at
                 z == x \div 2
      <3>6. /\ x \in Nat /\ y \in Nat /\ z \in Nat /\ 2 * z <= x /\ y <= 2 * (z + 1) + 1
            /\ ~(x >= end - Window)
        BY <2>0, <3>2, <3>3, <3>4, <3>5
      <3> HIDE DEF x, y, z
      <3>7. y <= end - Window + 2
        BY <1>2, <3>6
      <3> QED BY <3>7 DEF y
    <2> QED BY <2>1, <2>2
  <1> HIDE DEF l
  <1>13. Head(seen) = s[lo] /\ Last(seen) = s[n]
    <2>1. 1 \in 1..l /\ l \in 1..l
      BY <1>0, <1>10
    <2>2. seen[1] = s[lo + 1 - 1] /\ seen[l] = s[lo + l - 1]
      BY <1>11, <2>1
    <2>3. lo + 1 - 1 = lo /\ lo + l - 1 = n
      BY <1>0, <1>10 DEF l
    <2>4. Head(seen) = seen[1] /\ Last(seen) = seen[l]
      BY <1>10, <1>11, <2>1 DEF Last
    <2> QED BY <2>2, <2>3, <2>4
  <1>14. ASSUME NEW i \in 1..l - 1 PROVE ~(seen[i + 1].at - seen[i].at > 3)
    <2>1. i \in 1..l /\ i + 1 \in 1..l
      BY <1>0, <1>10
    <2>2. /\ seen[i] = s[lo + i - 1] /\ seen[i + 1] = s[lo + (i + 1) - 1]
      BY <1>11, <2>1
    <2>3. lo + (i + 1) - 1 = (lo + i - 1) + 1 /\ lo + i - 1 \in 1..n - 1
      BY <1>0, <1>9, <1>10 DEF l
    <2>4. /\ s[(lo + i - 1) + 1].at - s[lo + i - 1].at <= 3
          /\ s[(lo + i - 1) + 1].at \in Nat /\ s[lo + i - 1].at \in Nat
      BY <2>3, SteadyGap
    <2> DEFINE x == seen[i].at
               y == seen[i + 1].at
    <2>5. y - x <= 3 /\ x \in Nat /\ y \in Nat
      BY <2>2, <2>3, <2>4
    <2> HIDE DEF x, y
    <2>6. ~(y - x > 3)
      BY <2>5
    <2> QED BY <2>6 DEF x, y
  <1>15. DOMAIN seen = 1..l /\ \A i \in DOMAIN seen : seen[i].value # Missing
    <2>1. DOMAIN seen = 1..l
      BY <1>10, <1>11
    <2> QED BY <1>0, <1>11, <2>1
  <1>16. ~(s[lo].at > end - Window + 2) /\ ~(end - s[n].at > 2) /\ ~(end < Window) /\ ~(l < LeastSamples)
    <2>1. s[lo].at \in Nat
      BY <1>6, <1>9
    <2> QED BY <1>0, <1>2, <1>10, <1>12, <2>1
  <1> HIDE DEF seen
  <1>17. ~Uncovered(seen, end)
    BY <1>10, <1>13, <1>14, <1>15, <1>16 DEF Uncovered, Second
  <1> QED BY <1>17 DEF seen

\* What a second of the chart shows when the window is covered: a value that
\* was considered, or nothing for it has no sample.
LEMMA CellOfWindow ==
  ASSUME NEW s, IsSeries(s), s # <<>>, NEW end \in Nat, s[Len(s)].at <= end,
         NEW limit \in Nat, ~Uncovered(Considered(s, end), end),
         \A i \in DOMAIN Considered(s, end) : ~(Considered(s, end)[i].value > limit),
         NEW k \in 1..Window \div 2
  PROVE  LET cell == Chart(s, end, Window \div 2 - 1)[k]
             from == 2 * (end \div 2 - (Window \div 2 - k))
         IN  /\ cell <= limit
             /\ cell = 0 => \A m \in 1..Len(s) : ~(from <= s[m].at /\ s[m].at <= from + 1)
             /\ from \in Nat /\ from > end - Window
  <1> DEFINE n == Len(s)
             h == Window \div 2
             half == end \div 2
             second == half - (h - k)
             from == 2 * second
             stop == IF from + 1 < end THEN from + 1 ELSE end
             chart == Chart(s, end, h - 1)
             seen == Considered(s, end)
  <1>1. Window \in Nat /\ end >= Window
    BY VerificationAssumption DEF Uncovered
  <1>2. /\ h \in Nat /\ 2 * h <= Window /\ Window <= 2 * h + 1
        /\ half \in Nat /\ 2 * half <= end /\ end <= 2 * half + 1
    BY <1>1, HalfIs
  <1>3. chart[k] = IF second < 0 THEN 0 ELSE SecondCell(s, from, stop)
    <2>1. h - 1 + 1 = h
      BY <1>2
    <2>2. k \in 1..h - 1 + 1
      BY <2>1
    <2>3. second * 2 = from /\ second * 2 + 2 - 1 = from + 1
      <3> HIDE DEF h, half
      <3> QED BY <1>2
    <2>4. chart[k] = LET sec == half - (h - 1 + 1 - k)
                         st == IF sec * 2 + 2 - 1 < end THEN sec * 2 + 2 - 1 ELSE end
                     IN  IF sec < 0 THEN 0 ELSE SecondCell(s, sec * 2, st)
      BY <2>2 DEF Chart, Second, Missing
    <2>5. half - (h - 1 + 1 - k) = second
      <3>1. h \in Int /\ half \in Int /\ k \in Int
        BY <1>2
      <3> HIDE DEF half, h
      <3> QED BY <2>1, <3>1
    <2> HIDE DEF chart, second, half, h
    <2> QED BY <2>3, <2>4, <2>5
  <1> HIDE DEF h, half, chart
  <1>4. second \in Nat /\ from \in Nat /\ from > end - Window
    BY <1>1, <1>2
  <1> HIDE DEF second
  <1>5. stop \in Nat /\ chart[k] = SecondCell(s, from, stop)
    BY <1>3, <1>4
  <1>6. PICK lo \in 1..Len(s) + 1 :
           /\ \A m \in 1..Len(s) : s[m].at >= end - Window <=> m >= lo
           /\ Considered(s, end) \in Seq(Measured)
           /\ Len(Considered(s, end)) = Len(s) + 1 - lo
           /\ \A j \in 1..Len(s) + 1 - lo : Considered(s, end)[j] = s[lo + j - 1]
    BY <1>1, WindowIs
  <1>7. n \in Nat /\ \A m \in 1..n : s[m].at \in Nat /\ s[m].value \in Nat /\ s[m].at <= end
    BY SampleIs, LastIsNewest DEF IsSeries
  <1>8. ASSUME NEW m \in 1..n, from <= s[m].at
        PROVE  s[m].value <= limit /\ s[m].value # 0
    <2> DEFINE j == m - lo + 1
    <2>1. s[m].at >= end - Window
      BY <1>1, <1>4, <1>7, <1>8
    <2>2. m >= lo /\ lo \in Nat /\ lo >= 1
      BY <1>6, <2>1
    <2>3. j \in 1..Len(s) + 1 - lo /\ lo + j - 1 = m
      BY <1>7, <2>2
    <2>4. seen[j] = s[m] /\ j \in DOMAIN seen
      <3>1. Considered(s, end)[j] = s[lo + j - 1]
        BY <1>6, <2>3
      <3>2. DOMAIN Considered(s, end) = 1..Len(Considered(s, end))
        BY <1>6
      <3>3. j \in DOMAIN Considered(s, end)
        BY <1>6, <2>3, <3>2
      <3> QED BY <2>3, <3>1, <3>3
    <2> HIDE DEF j
    <2>5. ~(s[m].value > limit) /\ s[m].value # 0
      BY <2>4 DEF Uncovered, Missing
    <2> QED BY <1>7, <2>5
  <1> HIDE DEF stop
  <1>9. \/ /\ chart[k] = 0
           /\ \A m \in 1..n : ~(from <= s[m].at /\ s[m].at <= stop)
        \/ \E m \in 1..n : from <= s[m].at /\ s[m].at <= stop /\ chart[k] = s[m].value
    <2> HIDE DEF from
    <2>1. \/ /\ SecondCell(s, from, stop) = 0
             /\ \A m \in 1..n : ~(from <= s[m].at /\ s[m].at <= stop)
          \/ \E m \in 1..n : /\ from <= s[m].at /\ s[m].at <= stop
                              /\ SecondCell(s, from, stop) = s[m].value
      BY <1>4, <1>5, CellIs
    <2> QED BY <1>5, <2>1
  <1>10. \A m \in 1..n : s[m].at <= from + 1 => s[m].at <= stop
    BY <1>4, <1>7 DEF stop
  <1>11. chart[k] <= limit
    BY <1>8, <1>9
  <1>12. chart[k] = 0 => \A m \in 1..n : ~(from <= s[m].at /\ s[m].at <= from + 1)
    BY <1>8, <1>9, <1>10
  <1> QED BY <1>4, <1>11, <1>12 DEF chart, second, half, h

LEMMA LengthIs ==
  ASSUME NEW s, NEW n \in Nat, DOMAIN s = 1..n
  PROVE  Len(s) = n
  OBVIOUS

\* A verdict passed on a covered window is that of the chart.
LEMMA PassedIsCharted ==
  ASSUME NEW s, IsSeries(s), s # <<>>, NEW end \in Nat, s[Len(s)].at <= end,
         NEW limit \in Nat, ~Uncovered(Considered(s, end), end),
         \A i \in DOMAIN Considered(s, end) : ~(Considered(s, end)[i].value > limit)
  PROVE  LET chart == Chart(s, end, Window \div Second - 1)
         IN  /\ \A k \in DOMAIN chart : chart[k] <= limit
             /\ \A k \in 1..(Len(chart) - 1) : chart[k] # Missing \/ chart[k + 1] # Missing
  <1> DEFINE n == Len(s)
             h == Window \div 2
             half == end \div 2
             chart == Chart(s, end, h - 1)
             from(k) == 2 * (half - (h - k))
             seen == Considered(s, end)
  <1>1. Window \in Nat /\ end >= Window
    BY VerificationAssumption DEF Uncovered
  <1>2. /\ h \in Nat /\ 2 * h <= Window /\ Window <= 2 * h + 1
        /\ half \in Nat /\ 2 * half <= end /\ end <= 2 * half + 1
    BY <1>1, HalfIs
  <1>3. DOMAIN chart = 1..h /\ Len(chart) = h
    <2>1. h - 1 + 1 = h
      BY <1>2
    <2>2. DOMAIN chart = 1..h - 1 + 1
      BY DEF Chart
    <2>3. DOMAIN chart = 1..h
      BY <2>1, <2>2
    <2> HIDE DEF chart, h
    <2> QED BY <1>2, <2>3, LengthIs
  <1>4. ASSUME NEW k \in 1..h
        PROVE  /\ chart[k] <= limit
               /\ chart[k] = 0 => \A m \in 1..n : ~(from(k) <= s[m].at /\ s[m].at <= from(k) + 1)
               /\ from(k) \in Nat /\ from(k) > end - Window
    BY CellOfWindow
  <1> HIDE DEF chart, h, half
  <1>5. ASSUME NEW k \in 1..h - 1, chart[k] = 0, chart[k + 1] = 0 PROVE FALSE
    <2> DEFINE t == from(k)
    <2>1. k \in 1..h /\ k + 1 \in 1..h
      BY <1>2
    <2>2. from(k + 1) = t + 2
      BY <1>2
    <2>3. t \in Nat /\ t > end - Window
      BY <1>4, <2>1
    <2>4. t + 2 <= end
      <3>1. half - (h - (k + 1)) <= half
        BY <1>2, <2>1
      <3> QED BY <1>2, <2>1, <2>2, <3>1
    <2>5. /\ \A m \in 1..n : ~(t <= s[m].at /\ s[m].at <= t + 1)
          /\ \A m \in 1..n : ~(from(k + 1) <= s[m].at /\ s[m].at <= from(k + 1) + 1)
      BY <1>4, <1>5, <2>1
    <2> HIDE DEF from
    <2>6. PICK lo \in 1..Len(s) + 1 :
             /\ \A m \in 1..Len(s) : s[m].at >= end - Window <=> m >= lo
             /\ Considered(s, end) \in Seq(Measured)
             /\ Len(Considered(s, end)) = Len(s) + 1 - lo
             /\ \A j \in 1..Len(s) + 1 - lo : Considered(s, end)[j] = s[lo + j - 1]
      BY <1>1, WindowIs
    <2>7. n \in Nat /\ \A m \in 1..n : s[m].at \in Nat /\ s[m].at <= end
      BY SampleIs, LastIsNewest DEF IsSeries
    <2>8. \A j \in 1..Len(seen) : lo + j - 1 \in 1..n /\ seen[j] = s[lo + j - 1]
      BY <2>6, <2>7
    <2>9. Ordered(seen) /\ \A i \in 1..Len(seen) : seen[i].at <= end
      <3>1. \A i \in 1..Len(seen) : seen[i].at <= end
        BY <2>7, <2>8
      <3>2. ASSUME NEW i \in 1..Len(seen), NEW j \in 1..Len(seen), i < j
            PROVE  seen[i].at < seen[j].at
        <4>1. lo + i - 1 < lo + j - 1
          BY <2>6, <3>2
        <4>2. s[lo + i - 1].at < s[lo + j - 1].at
          BY <2>8, <4>1 DEF IsSeries, Ordered
        <4> QED BY <2>8, <4>2
      <3> QED BY <3>1, <3>2 DEF Ordered
    <2> HIDE DEF t
    <2>10. PICK i \in 1..Len(seen) : t <= seen[i].at /\ seen[i].at <= t + 3
      BY <2>3, <2>4, <2>6, <2>9, NoBlanks
    <2> DEFINE m == lo + i - 1
    <2>11. m \in 1..n /\ t <= s[m].at /\ s[m].at <= t + 3 /\ s[m].at \in Nat
      BY <2>7, <2>8, <2>10
    <2>12. ~(t <= s[m].at /\ s[m].at <= t + 1) /\ ~(t + 2 <= s[m].at /\ s[m].at <= t + 2 + 1)
      BY <2>2, <2>5, <2>11
    <2> HIDE DEF m
    <2> QED BY <2>3, <2>11, <2>12
  <1>6. /\ \A k \in DOMAIN chart : chart[k] <= limit
        /\ \A k \in 1..(Len(chart) - 1) : chart[k] # Missing \/ chart[k + 1] # Missing
    BY <1>3, <1>4, <1>5 DEF Missing
  <1> QED BY <1>6 DEF chart, h, Second

-----------------------------------------------------------------------------
(* Every series that is kept, shown or judged is the sampler's: its last    *)
(* sample is of the time of its snapshot, and of every second there is one  *)
(* until the sampler is late.                                               *)

\* A snapshot, and whether the series was kept up to it.
IsShown(snap, lag) ==
  /\ snap = [at |-> snap.at, series |-> snap.series, issue |-> snap.issue]
  /\ snap.issue = [open |-> snap.issue.open, subject |-> snap.issue.subject,
                   rule |-> snap.issue.rule]
  /\ IsSeries(snap.series) /\ snap.at \in Nat
  /\ snap.series # <<>> => snap.series[Len(snap.series)].at = snap.at
  /\ snap.issue.open => snap.series # <<>>
  /\ lag \/ Steady(snap.series)

\* What the sampler has, and when its next deadline is.
IsSampled ==
  /\ clock \in Nat /\ due \in Nat /\ late \in BOOLEAN
  /\ IsSeries(series)
  /\ series # <<>> => series[Len(series)].at < due /\ series[Len(series)].at <= clock
  /\ issue.open => series # <<>>
  /\ issue = [open |-> issue.open, subject |-> issue.subject, rule |-> issue.rule]
  /\ ~late => /\ Steady(series)
              /\ series = <<>> => due = 0
              /\ series # <<>> => due = 2 * (series[Len(series)].at \div 2) + 2

\* A verdict is of the series that was shown, ending within a second of it.
IsJudged(v, lag) ==
  v.result # "none" =>
    /\ IsSeries(v.seen) /\ v.seen # <<>> /\ v.end \in Nat /\ v.threshold \in Nat
    /\ v.seen[Len(v.seen)].at <= v.end /\ v.end < v.seen[Len(v.seen)].at + 2
    /\ lag \/ Steady(v.seen)
    /\ \/ v.result = Verdict(v.seen, v.end, v.threshold)
       \/ v.result = "Inconclusive" /\ v.bound

VerificationInv ==
  /\ IsSampled /\ IsShown(displayed, late) /\ IsShown(latest, late)
  /\ action = [id |-> action.id, subject |-> action.subject, threshold |-> action.threshold,
               at |-> action.at, applied |-> action.applied]
  /\ action.threshold \in Nat
  /\ IsJudged(verdict, late)

\* A verdict that is judged as VerificationInv says is that of the chart.
LEMMA JudgedIsCharted ==
  ASSUME VerificationInv
  PROVE  VerdictIsCharted
  <1> DEFINE s == verdict.seen
             end == verdict.end
             seen == Considered(s, end)
  <1> SUFFICES ASSUME verdict.result # "none" PROVE VerdictIsCharted
    BY DEF VerdictIsCharted, PassedAsCharted, SteadyIsConclusive
  <1>1. /\ IsSeries(s) /\ s # <<>> /\ end \in Nat /\ verdict.threshold \in Nat
        /\ s[Len(s)].at <= end /\ end < s[Len(s)].at + 2
        /\ late \/ Steady(s)
        /\ \/ verdict.result = Verdict(s, end, verdict.threshold)
           \/ verdict.result = "Inconclusive" /\ verdict.bound
    BY DEF VerificationInv, IsJudged
  <1> HIDE DEF s, end
  <1>2. PassedAsCharted
    <2> SUFFICES ASSUME verdict.result = "Passed" PROVE PassedAsCharted
      BY DEF PassedAsCharted
    <2>1. verdict.result = Verdict(s, end, verdict.threshold)
      BY <1>1
    <2>2. /\ ~Uncovered(seen, end)
          /\ \A i \in DOMAIN seen : ~(seen[i].value > verdict.threshold)
      BY <2>1 DEF Verdict
    <2> DEFINE chart == Chart(s, end, Window \div Second - 1)
    <2>3. /\ \A k \in DOMAIN chart : chart[k] <= verdict.threshold
          /\ \A k \in 1..(Len(chart) - 1) : chart[k] # Missing \/ chart[k + 1] # Missing
      BY <1>1, <2>2, PassedIsCharted
    <2> QED BY <2>3 DEF PassedAsCharted, s, end
  <1>3. SteadyIsConclusive
    <2> SUFFICES ASSUME verdict.result = "Inconclusive", ~verdict.bound, ~late,
                        ~(end < Window), \A i \in DOMAIN s : s[i].value # Missing
                 PROVE  FALSE
      BY DEF SteadyIsConclusive, s, end
    <2>1. verdict.result = Verdict(s, end, verdict.threshold) /\ Steady(s)
      BY <1>1
    <2>2. end >= Window
      BY <1>1, VerificationAssumption
    <2>3. ~Uncovered(seen, end)
      BY <1>1, <2>1, <2>2, SteadyIsCovered
    <2> QED BY <2>1, <2>3 DEF Verdict
  <1> QED BY <1>2, <1>3 DEF VerdictIsCharted

LEMMA NextDueIs ==
  ASSUME IsSampled, clock >= due
  PROVE  /\ NextDue(due) \in Nat /\ clock < NextDue(due)
         /\ ~late /\ ~(clock - due >= Second) =>
              /\ series = <<>> => clock \div 2 = 0
              /\ series # <<>> => clock \div 2 = series[Len(series)].at \div 2 + 1
              /\ NextDue(due) = 2 * (clock \div 2) + 2
  <1>1. clock \in Nat /\ due \in Nat
    BY DEF IsSampled
  <1>2. /\ clock \div 2 \in Nat /\ 2 * (clock \div 2) <= clock /\ clock <= 2 * (clock \div 2) + 1
    BY <1>1, HalfIs
  <1>3. NextDue(due) = IF due + 2 <= clock THEN clock + 2 ELSE due + 2
    BY DEF NextDue, Second
  <1>4. ASSUME ~late, ~(clock - due >= 2)
        PROVE  /\ series = <<>> => clock \div 2 = 0
               /\ series # <<>> => clock \div 2 = series[Len(series)].at \div 2 + 1
               /\ NextDue(due) = 2 * (clock \div 2) + 2
    <2> DEFINE tick == clock \div 2
               half == series[Len(series)].at \div 2
    <2>1. NextDue(due) = due + 2
      BY <1>1, <1>3, <1>4
    <2>2. CASE series = <<>>
      <3>1. due = 0
        BY <1>4, <2>2 DEF IsSampled
      <3> HIDE DEF tick
      <3>2. tick = 0
        BY <1>1, <1>2, <1>4, <3>1 DEF tick
      <3> QED BY <2>1, <2>2, <3>1, <3>2 DEF tick
    <2>3. CASE series # <<>>
      <3>1. due = 2 * half + 2
        BY <1>4, <2>3 DEF IsSampled
      <3>2. half \in Nat
        <4>1. series[Len(series)].at \in Nat
          BY <2>3, LastIsNewest, Len(series) \in 1..Len(series) DEF IsSampled, IsSeries
        <4> QED BY <4>1, HalfIs
      <3>3. tick \in Nat /\ 2 * tick <= clock /\ clock <= 2 * tick + 1
        BY <1>2
      <3> HIDE DEF tick, half
      <3>4. tick = half + 1
        BY <1>1, <1>4, <3>1, <3>2, <3>3
      <3>5. NextDue(due) = 2 * tick + 2
        BY <2>1, <3>1, <3>2, <3>4
      <3> QED BY <2>3, <3>4, <3>5 DEF tick, half
    <2> QED BY <2>2, <2>3
  <1>5. NextDue(due) \in Nat /\ clock < NextDue(due)
    BY <1>1, <1>3
  <1> QED BY <1>4, <1>5 DEF Second

\* A sample, on time or late, is the newest of the series and of its snapshot.
LEMMA TakeSampleKeeps ==
  ASSUME VerificationInv, NEW value \in Measures, TakeSample(value)
  PROVE  VerificationInv'
  <1> DEFINE s == Pushed(series, clock, value)
  <1>0. IsSampled /\ clock >= due /\ value \in Nat
    BY VerificationAssumption DEF VerificationInv, TakeSample
  <1>1. clock \in Nat /\ due \in Nat /\ IsSeries(series) /\ late \in BOOLEAN
        /\ (series # <<>> => series[Len(series)].at < clock)
    <2>1. clock \in Nat /\ due \in Nat /\ IsSeries(series) /\ late \in BOOLEAN
          /\ (series # <<>> => series[Len(series)].at < due)
      BY <1>0 DEF IsSampled
    <2>2. ASSUME series # <<>> PROVE series[Len(series)].at < clock
      <3>1. series[Len(series)].at \in Nat
        BY <2>1, <2>2, LastIsNewest, Len(series) \in 1..Len(series) DEF IsSeries
      <3>2. series[Len(series)].at < due
        BY <2>1, <2>2
      <3> QED BY <1>0, <2>1, <3>1, <3>2
    <2> QED BY <2>1, <2>2
  <1>2. /\ IsSeries(s) /\ s # <<>> /\ s[Len(s)].at = clock
        /\ /\ Steady(series)
           /\ series = <<>> => clock \div 2 = 0
           /\ series # <<>> => clock \div 2 = series[Len(series)].at \div 2 + 1
           => Steady(s)
    BY <1>0, <1>1, PushedIs
  <1>3. /\ NextDue(due) \in Nat /\ clock < NextDue(due)
        /\ ~late /\ ~(clock - due >= Second) =>
             /\ Steady(s)
             /\ NextDue(due) = 2 * (clock \div 2) + 2
    <2>1. ~late => Steady(series)
      BY <1>0 DEF IsSampled
    <2> QED BY <1>0, <1>2, <2>1, NextDueIs
  <1> HIDE DEF s
  <1>4. /\ due' = NextDue(due) /\ series' = s /\ clock' = clock /\ issue' = Observed(value)
        /\ late' = (late \/ clock - due >= Second)
        /\ latest' = Snapshot(clock, s, issue')
        /\ displayed' = IF frozen THEN displayed ELSE latest'
        /\ UNCHANGED <<frozen, action, verdict>>
    BY DEF TakeSample, s
  <1>5. /\ late' \in BOOLEAN /\ (~late' => Steady(s) /\ NextDue(due) = 2 * (clock \div 2) + 2)
        /\ (~late' => ~late)
    BY <1>1, <1>3, <1>4
  <1>6. issue' = [open |-> issue'.open, subject |-> issue'.subject, rule |-> issue'.rule]
    BY <1>0, <1>4 DEF Observed, NoIssue, IsSampled
  <1>7. IsSampled'
    <2> HIDE DEF NextDue
    <2>1. /\ clock' \in Nat /\ due' \in Nat /\ IsSeries(series')
          /\ series'[Len(series')].at < due' /\ series'[Len(series')].at <= clock'
          /\ series' # <<>>
      BY <1>1, <1>2, <1>3, <1>4
    <2>2. ~late' => Steady(series') /\ due' = 2 * (series'[Len(series')].at \div 2) + 2
      BY <1>2, <1>4, <1>5
    <2> QED BY <1>5, <1>6, <2>1, <2>2 DEF IsSampled
  <1>8. IsShown(latest', late')
    <2>1. /\ latest'.at = clock /\ latest'.series = s /\ latest'.issue = issue'
          /\ latest' = [at |-> latest'.at, series |-> latest'.series, issue |-> latest'.issue]
      BY <1>4 DEF Snapshot
    <2>2. late' \/ Steady(s)
      BY <1>5
    <2> QED BY <1>1, <1>2, <1>6, <2>1, <2>2 DEF IsShown
  <1>9. IsShown(displayed', late')
    <2>1. IsShown(displayed, late)
      BY DEF VerificationInv
    <2>2. IsShown(displayed, late')
      BY <1>5, <2>1 DEF IsShown
    <2> QED BY <1>4, <1>8, <2>2
  <1>10. IsJudged(verdict, late')
    <2>1. IsJudged(verdict, late)
      BY DEF VerificationInv
    <2> QED BY <1>5, <2>1 DEF IsJudged
  <1> QED BY <1>4, <1>7, <1>8, <1>9, <1>10 DEF VerificationInv, IsShown, IsJudged

\* A verdict is of what is shown.
LEMMA VerifyKeeps ==
  ASSUME VerificationInv, NEW end \in Nat, Verify(end)
  PROVE  VerificationInv'
  <1>1. IsSampled /\ IsShown(displayed, late) /\ IsShown(latest, late) /\ action.threshold \in Nat
    BY DEF VerificationInv
  <1>2. /\ displayed.issue.open /\ end >= displayed.at /\ end < displayed.at + 2
        /\ displayed' = [displayed EXCEPT !.issue.rule = FALSE]
        /\ UNCHANGED <<clock, due, late, series, issue, latest, action>>
    BY DEF Verify, Second
  <1>3. /\ verdict'.seen = displayed.series /\ verdict'.end = end
        /\ verdict'.threshold = Threshold /\ verdict'.bound = Bound
        /\ verdict'.result = IF Bound /\ end < action.at + Window THEN "Inconclusive"
                             ELSE Verdict(displayed.series, end, Threshold)
    BY DEF Verify
  <1>4. Threshold \in Nat
    BY <1>1, VerificationAssumption DEF Threshold
  <1>5. /\ displayed.series # <<>> /\ IsSeries(displayed.series)
        /\ displayed.series[Len(displayed.series)].at = displayed.at
        /\ late \/ Steady(displayed.series)
    BY <1>1, <1>2 DEF IsShown
  <1>6. IsJudged(verdict', late)
    <2> HIDE DEF Threshold, Bound
    <2> QED BY <1>2, <1>3, <1>4, <1>5 DEF IsJudged
  <1>7. IsShown(displayed', late)
    <2>1. /\ displayed'.at = displayed.at /\ displayed'.series = displayed.series
          /\ displayed'.issue.open = displayed.issue.open
          /\ displayed' = [at |-> displayed'.at, series |-> displayed'.series, issue |-> displayed'.issue]
          /\ displayed'.issue = [open |-> displayed'.issue.open, subject |-> displayed'.issue.subject,
                                 rule |-> displayed'.issue.rule]
      BY <1>1, <1>2 DEF IsShown
    <2> QED BY <1>1, <2>1 DEF IsShown
  <1>8. IsSampled' /\ late' = late
    BY <1>1, <1>2 DEF IsSampled
  <1> QED BY <1>1, <1>2, <1>6, <1>7, <1>8 DEF VerificationInv, IsShown, IsJudged

LEMMA VerificationStep ==
  ASSUME VerificationInv, [VerificationNext]_verificationVars
  PROVE  VerificationInv'
  <1>1. CASE UNCHANGED verificationVars
    BY <1>1 DEF verificationVars, VerificationInv, IsSampled, IsShown, IsJudged
  <1>2. CASE Wait
    <2>1. clock \in Nat /\ clock' = clock + 1
      BY <1>2 DEF VerificationInv, IsSampled, Wait
    <2> DEFINE tick == clock'
    <2>2. IsSampled'
      <3>1. /\ due' = due /\ late' = late /\ series' = series /\ issue' = issue
        BY <1>2 DEF Wait
      <3>2. tick \in Nat /\ clock <= tick
        BY <2>1
      <3>3. series # <<>> => series[Len(series)].at <= tick
        <4> SUFFICES ASSUME series # <<>> PROVE series[Len(series)].at <= tick
          OBVIOUS
        <4>1. IsSeries(series) /\ series[Len(series)].at <= clock
          BY DEF VerificationInv, IsSampled
        <4>2. series[Len(series)].at \in Nat
          BY <4>1, LastIsNewest, Len(series) \in 1..Len(series) DEF IsSeries
        <4> HIDE DEF tick
        <4> QED BY <2>1, <3>2, <4>1, <4>2
      <3> QED BY <3>1, <3>2, <3>3 DEF IsSampled, VerificationInv
    <2> QED BY <1>2, <2>2 DEF VerificationInv, IsShown, IsJudged, Wait
  <1>3. ASSUME NEW value \in Measures, TakeSample(value) PROVE VerificationInv'
    BY <1>3, TakeSampleKeeps
  <1>4. CASE Freeze
    <2>1. IsShown(displayed', late)
      BY <1>4 DEF VerificationInv, Freeze
    <2>2. UNCHANGED <<clock, due, late, series, issue, latest, action, verdict>>
      BY <1>4 DEF Freeze
    <2> QED BY <2>1, <2>2 DEF VerificationInv, IsSampled, IsShown, IsJudged
  <1>5. CASE Preview
    <2>1. /\ action' = [id |-> action'.id, subject |-> action'.subject, threshold |-> action'.threshold,
                        at |-> action'.at, applied |-> action'.applied]
          /\ action'.threshold \in Nat
      BY <1>5, VerificationAssumption DEF Preview, NoAction, Missing
    <2>2. UNCHANGED <<clock, due, late, series, issue, displayed, latest, frozen, verdict>>
      BY <1>5 DEF Preview
    <2> QED BY <2>1, <2>2 DEF VerificationInv, IsSampled, IsShown, IsJudged
  <1>6. CASE Apply
    <2>1. /\ action' = [id |-> action'.id, subject |-> action'.subject, threshold |-> action'.threshold,
                        at |-> action'.at, applied |-> action'.applied]
          /\ action'.threshold \in Nat
      <3>1. /\ action = [id |-> action.id, subject |-> action.subject, threshold |-> action.threshold,
                         at |-> action.at, applied |-> action.applied]
            /\ action.threshold \in Nat
            /\ action' = [action EXCEPT !.id = "applied", !.at = displayed.at, !.applied = clock]
        BY <1>6 DEF Apply, VerificationInv
      <3> QED BY <3>1
    <2>2. UNCHANGED <<clock, due, late, series, issue, displayed, latest, frozen, verdict>>
      BY <1>6 DEF Apply
    <2> QED BY <2>1, <2>2 DEF VerificationInv, IsSampled, IsShown, IsJudged
  <1>7. ASSUME NEW end \in 0..MaxTicks, Verify(end) PROVE VerificationInv'
    <2>1. end \in Nat
      BY VerificationAssumption
    <2> QED BY <1>7, <2>1, VerifyKeeps
  <1> QED BY <1>1, <1>2, <1>3, <1>4, <1>5, <1>6, <1>7 DEF VerificationNext

\* Verification: a change that is said to have helped left no value above the
\* threshold, and no two seconds blank, on the chart of the same window; and a
\* sampler that was never a second late leaves a verdict to give on every
\* window without missing values (verify of diagnose.rs, Series of domain.rs).
THEOREM VerdictCorrect == VerificationSpec => []VerdictIsCharted
  <1>1. VerificationInit => VerificationInv
    <2> SUFFICES ASSUME VerificationInit PROVE VerificationInv
      OBVIOUS
    <2>1. IsSeries(<<>>) /\ Steady(<<>>)
      <3>1. Retained \in Nat
        BY VerificationAssumption
      <3> QED BY <3>1 DEF IsSeries, Ordered, Steady
    <2>2. IsSampled
      BY <2>1 DEF VerificationInit, IsSampled, NoIssue
    <2>3. IsShown(displayed, late) /\ IsShown(latest, late)
      BY <2>1 DEF VerificationInit, IsShown, NoIssue, Snapshot
    <2> QED BY <2>2, <2>3, VerificationAssumption
            DEF VerificationInit, VerificationInv, NoAction, NoVerdict, IsJudged
  <1>2. VerificationInv /\ [VerificationNext]_verificationVars => VerificationInv'
    BY VerificationStep
  <1>3. VerificationInv => VerdictIsCharted
    BY JudgedIsCharted
  <1> QED BY <1>1, <1>2, <1>3, PTL DEF VerificationSpec

-----------------------------------------------------------------------------
(* Recordings.  What is in a file is the beginning of what its frames are   *)
(* encoded as, each at the place the lengths before it give; reading goes   *)
(* from one such place to the next.                                         *)

Units == {"magic", "size", "data"} \X Nat \X Nat

\* The o-th unit of a frame.
UnitOf(f, o) == IF o <= 2 THEN <<"size", f, o>> ELSE <<"data", f, o - 2>>

\* What frames a recording can have, and those it can be asked to have.
Known == DOMAIN Size
Fits(fs) == fs \in Seq(Frames) /\ \A m \in 1..Len(fs) : Size[fs[m]] <= MaxFrame

LEMMA KnownAre ==
  /\ Known = 1..Len(Size) /\ Len(Size) \in Nat /\ Frames \subseteq Known /\ Known \subseteq Nat \ {0}
  /\ \A f \in Known : Size[f] \in Nat \ {0}
  /\ MaxFrame \in Nat /\ MaxReplay \in Nat
  BY RecordingAssumption DEF Known, Frames

RunningTotal(fs, s) ==
  s = [i \in 0..Len(fs) |-> IF i = 0 THEN 0 ELSE s[i - 1] + Size[fs[i]]]

LEMMA TotalsAre ==
  ASSUME NEW fs
  PROVE  Totals(fs) = CHOOSE s : RunningTotal(fs, s)
  BY DEF Totals, RunningTotal

LEMMA TotalsExist ==
  ASSUME NEW fs, Len(fs) \in Nat
  PROVE  \E s : RunningTotal(fs, s)
  <1> DEFINE Step(k, i) == IF i = 0 THEN 0 ELSE k[i - 1] + Size[fs[i]]
             Has(n) == \E k : \A i \in 0..n : k[i] = Step(k, i)
             Have == {n \in Nat : Has(n)}
  <1>1. 0 \in Have
    <2> DEFINE k == [i \in 0..0 |-> 0]
    <2>1. \A i \in 0..0 : k[i] = Step(k, i)
      OBVIOUS
    <2>2. Has(0)
      BY <2>1
    <2> QED BY <2>2
  <1>2. ASSUME NEW n \in Nat, n \in Have PROVE n + 1 \in Have
    <2>1. PICK k : \A i \in 0..n : k[i] = Step(k, i)
      BY <1>2
    <2> DEFINE h == [i \in 0..n + 1 |-> IF i <= n THEN k[i] ELSE Step(k, i)]
    <2>2. ASSUME NEW i \in 0..n + 1 PROVE h[i] = Step(h, i)
      <3>1. CASE i = 0
        BY <2>1, <3>1
      <3>2. CASE i # 0
        <4>1. i - 1 \in 0..n /\ h[i - 1] = k[i - 1]
          BY <3>2
        <4>2. h[i] = Step(k, i)
          BY <2>1
        <4> QED BY <3>2, <4>1, <4>2
      <3> QED BY <3>1, <3>2
    <2> HIDE DEF h
    <2>3. \A i \in 0..n + 1 : h[i] = Step(h, i)
      BY <2>2
    <2>4. Has(n + 1)
      BY <2>3
    <2> HIDE DEF Has
    <2> QED BY <2>4
  <1> HIDE DEF Have
  <1>3. Len(fs) \in Have
    BY <1>1, <1>2, Naturals
  <1>4. PICK k : \A i \in 0..Len(fs) : k[i] = Step(k, i)
    BY <1>3 DEF Have
  <1> DEFINE h == [i \in 0..Len(fs) |-> k[i]]
  <1>5. ASSUME NEW i \in 0..Len(fs) PROVE h[i] = Step(h, i)
    <2>1. i # 0 => i - 1 \in 0..Len(fs) /\ h[i - 1] = k[i - 1]
      OBVIOUS
    <2> QED BY <1>4, <2>1
  <1>6. h = [i \in 0..Len(fs) |-> Step(h, i)]
    BY <1>5
  <1> QED BY <1>6 DEF RunningTotal

\* The totals are sums of lengths, one frame at a time.
LEMMA TotalsAdd ==
  ASSUME NEW fs \in Seq(Known)
  PROVE  /\ Totals(fs)[0] = 0
         /\ \A i \in 1..Len(fs) : /\ Totals(fs)[i] = Totals(fs)[i - 1] + Size[fs[i]]
                                  /\ fs[i] \in Known /\ Size[fs[i]] \in Nat \ {0}
         /\ \A i \in 0..Len(fs) : Totals(fs)[i] \in Nat
  <1> DEFINE s == CHOOSE t : RunningTotal(fs, t)
             n == Len(fs)
  <1>0. n \in Nat /\ \A i \in 1..n : fs[i] \in Known /\ Size[fs[i]] \in Nat \ {0}
    BY KnownAre
  <1>1. RunningTotal(fs, s) /\ Totals(fs) = s
    BY <1>0, TotalsExist, TotalsAre
  <1> HIDE DEF s
  <1>2. \A i \in 0..n : s[i] = IF i = 0 THEN 0 ELSE s[i - 1] + Size[fs[i]]
    <2> DEFINE next(i) == IF i = 0 THEN 0 ELSE s[i - 1] + Size[fs[i]]
    <2>1. s = [i \in 0..n |-> next(i)]
      BY <1>1 DEF RunningTotal
    <2> HIDE DEF next
    <2>2. \A i \in 0..n : s[i] = next(i)
      BY <2>1
    <2> QED BY <2>2 DEF next
  <1>3. s[0] = 0
    BY <1>0, <1>2
  <1>4. ASSUME NEW i \in 1..n PROVE s[i] = s[i - 1] + Size[fs[i]]
    BY <1>0, <1>2
  <1> DEFINE Have == {i \in Nat : i <= n => s[i] \in Nat}
  <1>5. 0 \in Have
    BY <1>3
  <1>6. ASSUME NEW i \in Nat, i \in Have PROVE i + 1 \in Have
    <2> SUFFICES ASSUME i + 1 <= n PROVE s[i + 1] \in Nat
      OBVIOUS
    <2>1. i + 1 \in 1..n /\ (i + 1) - 1 = i /\ s[i] \in Nat
      BY <1>0, <1>6
    <2>2. s[i + 1] = s[i] + Size[fs[i + 1]]
      BY <1>4, <2>1
    <2> QED BY <1>0, <2>1, <2>2
  <1> HIDE DEF Have
  <1>7. ASSUME NEW i \in 0..n PROVE s[i] \in Nat
    <2>1. i \in Have
      BY <1>0, <1>5, <1>6, Naturals
    <2> QED BY <1>0, <2>1 DEF Have
  <1> QED BY <1>0, <1>1, <1>3, <1>4, <1>7

\* They only grow, and more frames leave those before as they were.
LEMMA TotalsGrow ==
  ASSUME NEW fs \in Seq(Known), NEW i \in 0..Len(fs), NEW j \in 0..Len(fs), i <= j
  PROVE  Totals(fs)[i] <= Totals(fs)[j]
  <1> DEFINE s == Totals(fs)
             n == Len(fs)
             Have == {k \in Nat : i + k <= n => s[i] <= s[i + k]}
  <1>0. /\ n \in Nat /\ \A k \in 0..n : s[k] \in Nat
        /\ \A k \in 1..n : s[k] = s[k - 1] + Size[fs[k]] /\ Size[fs[k]] \in Nat
    BY TotalsAdd
  <1> HIDE DEF s
  <1>1. 0 \in Have
    <2>1. i + 0 = i /\ s[i] \in Nat
      BY <1>0
    <2> QED BY <2>1
  <1>2. ASSUME NEW k \in Nat, k \in Have PROVE k + 1 \in Have
    <2> SUFFICES ASSUME i + (k + 1) <= n PROVE s[i] <= s[i + (k + 1)]
      OBVIOUS
    <2>1. i + (k + 1) \in 1..n /\ (i + (k + 1)) - 1 = i + k /\ i + k \in 0..n /\ i + k <= n
      BY <1>0
    <2>2. s[i + (k + 1)] = s[i + k] + Size[fs[i + (k + 1)]] /\ Size[fs[i + (k + 1)]] \in Nat
      BY <1>0, <2>1
    <2>3. s[i] <= s[i + k]
      BY <1>2, <2>1
    <2> DEFINE x == s[i]
               y == s[i + k]
               z == Size[fs[i + (k + 1)]]
    <2>4. x \in Nat /\ y \in Nat /\ z \in Nat /\ x <= y
      BY <1>0, <2>1, <2>2, <2>3
    <2> HIDE DEF x, y, z
    <2>5. x <= y + z
      BY <2>4
    <2> QED BY <2>2, <2>5 DEF x, y, z
  <1> HIDE DEF Have
  <1>3. j - i \in Have
    <2>1. j - i \in Nat
      BY <1>0
    <2> QED BY <1>1, <1>2, <2>1, Naturals
  <1>4. i + (j - i) = j
    OBVIOUS
  <1> QED BY <1>0, <1>3, <1>4 DEF Have, s

LEMMA TotalsOfMore ==
  ASSUME NEW fs \in Seq(Known), NEW f \in Known
  PROVE  /\ \A i \in 0..Len(fs) : Totals(Append(fs, f))[i] = Totals(fs)[i]
         /\ Totals(Append(fs, f))[Len(fs) + 1] = Totals(fs)[Len(fs)] + Size[f]
  <1> DEFINE gs == Append(fs, f)
             s == Totals(fs)
             t == Totals(gs)
             n == Len(fs)
             Have == {k \in Nat : k <= n => t[k] = s[k]}
  <1>0. /\ n \in Nat /\ gs \in Seq(Known) /\ Len(gs) = n + 1 /\ gs[n + 1] = f
        /\ \A i \in 1..n : gs[i] = fs[i]
    OBVIOUS
  <1> HIDE DEF gs
  <1>1. s[0] = 0 /\ \A k \in 1..n : s[k] = s[k - 1] + Size[fs[k]]
    BY TotalsAdd
  <1>2. t[0] = 0 /\ \A k \in 1..n + 1 : t[k] = t[k - 1] + Size[gs[k]]
    BY <1>0, TotalsAdd
  <1> HIDE DEF s, t
  <1>3. 0 \in Have
    BY <1>1, <1>2
  <1>4. ASSUME NEW k \in Nat, k \in Have PROVE k + 1 \in Have
    <2> SUFFICES ASSUME k + 1 <= n PROVE t[k + 1] = s[k + 1]
      OBVIOUS
    <2>1. k + 1 \in 1..n /\ k + 1 \in 1..n + 1 /\ (k + 1) - 1 = k /\ k <= n
      BY <1>0
    <2>2. t[k + 1] = t[k] + Size[gs[k + 1]] /\ s[k + 1] = s[k] + Size[fs[k + 1]]
      BY <1>1, <1>2, <2>1
    <2> QED BY <1>0, <1>4, <2>1, <2>2
  <1> HIDE DEF Have
  <1>5. ASSUME NEW k \in 0..n PROVE t[k] = s[k]
    <2>1. k \in Have
      BY <1>0, <1>3, <1>4, Naturals
    <2> QED BY <1>0, <2>1 DEF Have
  <1>6. t[n + 1] = s[n] + Size[f]
    <2>1. n + 1 \in 1..n + 1 /\ (n + 1) - 1 = n /\ n \in 0..n
      BY <1>0
    <2>2. t[n + 1] = t[n] + Size[gs[n + 1]]
      BY <1>2, <2>1
    <2> QED BY <1>0, <1>5, <2>1, <2>2
  <1> QED BY <1>5, <1>6 DEF s, t, gs

-----------------------------------------------------------------------------
(* Files.  The end of the first n frames of fs, and the place of units of   *)
(* the m-th frame, follow from the totals.                                  *)

EndOf(fs, n) == 1 + 2 * n + Totals(fs)[n]

\* u is the encoding of fs, or some of it from the beginning.
IsImage(u, fs) ==
  /\ u \in Seq(Units) /\ Len(u) <= EndOf(fs, Len(fs))
  /\ u # <<>> => u[1] = Magic
  /\ \A m \in 1..Len(fs) : \A o \in 1..2 + Size[fs[m]] :
       EndOf(fs, m - 1) + o <= Len(u) => u[EndOf(fs, m - 1) + o] = UnitOf(fs[m], o)

LEMMA EndOfIs ==
  ASSUME NEW fs \in Seq(Known)
  PROVE  /\ \A n \in 0..Len(fs) : EndOf(fs, n) \in Nat /\ EndOf(fs, n) >= 1 + 2 * n
         /\ \A n \in 1..Len(fs) : EndOf(fs, n) = EndOf(fs, n - 1) + 2 + Size[fs[n]]
         /\ EndOf(fs, 0) = 1
         /\ \A i, j \in 0..Len(fs) : i <= j => EndOf(fs, i) <= EndOf(fs, j)
  <1> DEFINE s == Totals(fs)
             l == Len(fs)
  <1>0. /\ l \in Nat /\ s[0] = 0 /\ \A i \in 0..l : s[i] \in Nat
        /\ \A i \in 1..l : s[i] = s[i - 1] + Size[fs[i]] /\ Size[fs[i]] \in Nat
    BY TotalsAdd
  <1>1. \A i, j \in 0..l : i <= j => s[i] <= s[j]
    BY TotalsGrow
  <1>2. \A n : EndOf(fs, n) = 1 + 2 * n + s[n]
    BY DEF EndOf
  <1> HIDE DEF s, l
  <1>3. ASSUME NEW n \in 0..l PROVE EndOf(fs, n) \in Nat /\ EndOf(fs, n) >= 1 + 2 * n
    <2>1. s[n] \in Nat
      BY <1>0
    <2>2. n \in Nat
      BY <1>0
    <2>3. EndOf(fs, n) = 1 + 2 * n + s[n]
      BY <1>2
    <2> QED BY <2>1, <2>2, <2>3
  <1>4. ASSUME NEW n \in 1..l PROVE EndOf(fs, n) = EndOf(fs, n - 1) + 2 + Size[fs[n]]
    <2>1. n - 1 \in 0..l /\ s[n - 1] \in Nat /\ Size[fs[n]] \in Nat
      BY <1>0
    <2>2. /\ s[n] = s[n - 1] + Size[fs[n]] /\ EndOf(fs, n) = 1 + 2 * n + s[n]
          /\ EndOf(fs, n - 1) = 1 + 2 * (n - 1) + s[n - 1]
      BY <1>0, <1>2
    <2> QED BY <1>0, <2>1, <2>2
  <1>5. EndOf(fs, 0) = 1
    BY <1>0, <1>2
  <1>6. ASSUME NEW i \in 0..l, NEW j \in 0..l, i <= j PROVE EndOf(fs, i) <= EndOf(fs, j)
    <2>1. s[i] \in Nat /\ s[j] \in Nat /\ s[i] <= s[j] /\ i \in Nat /\ j \in Nat
      BY <1>0, <1>1, <1>6
    <2> QED BY <1>2, <1>6, <2>1
  <1> QED BY <1>3, <1>4, <1>5, <1>6 DEF l

\* The beginning of an image is one.
LEMMA ImageIsCut ==
  ASSUME NEW fs \in Seq(Known), NEW u, IsImage(u, fs), NEW n \in 0..Len(u)
  PROVE  IsImage(SubSeq(u, 1, n), fs) /\ Len(SubSeq(u, 1, n)) = n
  <1> DEFINE v == SubSeq(u, 1, n)
  <1>0. u \in Seq(Units) /\ Len(u) \in Nat /\ n \in Nat /\ n <= Len(u)
        /\ EndOf(fs, Len(fs)) \in Nat /\ Len(u) <= EndOf(fs, Len(fs))
    <2>1. Len(fs) \in 0..Len(fs)
      OBVIOUS
    <2> QED BY <2>1, EndOfIs DEF IsImage
  <1>1. \A i \in 1..n : u[i] \in Units
    BY <1>0
  <1>2. /\ v \in Seq(Units) /\ Len(v) = IF 1 <= n THEN n - 1 + 1 ELSE 0
        /\ \A i \in 1..n - 1 + 1 : v[i] = u[1 + i - 1]
    BY <1>0, <1>1, SubSeqProperties
  <1> HIDE DEF v
  <1>3. v \in Seq(Units) /\ Len(v) = n /\ \A i \in 1..n : v[i] = u[i]
    BY <1>0, <1>2
  <1>4. ASSUME NEW m \in 1..Len(fs), NEW o \in 1..2 + Size[fs[m]], EndOf(fs, m - 1) + o <= n
        PROVE  v[EndOf(fs, m - 1) + o] = UnitOf(fs[m], o)
    <2>1. m - 1 \in 0..Len(fs) /\ EndOf(fs, m - 1) \in Nat /\ o >= 1 /\ o \in Int
      <3>1. m - 1 \in 0..Len(fs)
        OBVIOUS
      <3>2. Size[fs[m]] \in Nat
        BY TotalsAdd
      <3> QED BY <3>1, <3>2, EndOfIs
    <2>2. EndOf(fs, m - 1) + o \in 1..n /\ EndOf(fs, m - 1) + o <= Len(u)
      BY <1>0, <1>4, <2>1
    <2>3. u[EndOf(fs, m - 1) + o] = UnitOf(fs[m], o)
      BY <2>2 DEF IsImage
    <2> QED BY <1>3, <2>2, <2>3
  <1>5. v # <<>> => v[1] = Magic
    <2> SUFFICES ASSUME v # <<>> PROVE v[1] = Magic
      OBVIOUS
    <2>1. 1 \in 1..n /\ u # <<>>
      BY <1>0, <1>3
    <2> QED BY <1>3, <2>1 DEF IsImage
  <1>6. Len(v) <= EndOf(fs, Len(fs))
    BY <1>0, <1>3
  <1>7. IsImage(v, fs)
    BY <1>3, <1>4, <1>5, <1>6 DEF IsImage
  <1> QED BY <1>3, <1>7 DEF v

\* A frame's units, and what a file has of them when it has its length.
LEMMA EncodedIs ==
  ASSUME NEW f \in Known
  PROVE  /\ Header(f) \in Seq(Units) /\ Data(f) \in Seq(Units)
         /\ Len(Header(f)) = 2 /\ Len(Data(f)) = Size[f]
         /\ \A o \in 1..2 : Header(f)[o] = UnitOf(f, o)
         /\ \A o \in 1..Size[f] : Data(f)[o] = UnitOf(f, 2 + o)
         /\ <<Magic>> \in Seq(Units) /\ Len(<<Magic>>) = 1 /\ <<Magic>>[1] = Magic
  <1>0. f \in Nat \ {0} /\ Size[f] \in Nat \ {0}
    BY KnownAre
  <1>1. /\ Header(f) \in Seq(Units) /\ Len(Header(f)) = 2
        /\ \A o \in 1..2 : Header(f)[o] = UnitOf(f, o)
    <2>1. <<"size", f, 1>> \in Units /\ <<"size", f, 2>> \in Units
      BY <1>0 DEF Units
    <2>2. Header(f) = << <<"size", f, 1>>, <<"size", f, 2>> >>
      BY DEF Header
    <2>3. Header(f)[1] = <<"size", f, 1>> /\ Header(f)[2] = <<"size", f, 2>> /\ Len(Header(f)) = 2
      BY <2>2
    <2>4. Header(f) \in Seq(Units)
      BY <2>1, <2>2
    <2>5. \A o \in 1..2 : o = 1 \/ o = 2
      OBVIOUS
    <2>6. UnitOf(f, 1) = <<"size", f, 1>> /\ UnitOf(f, 2) = <<"size", f, 2>>
      BY DEF UnitOf
    <2> QED BY <2>3, <2>4, <2>5, <2>6
  <1>2. /\ Data(f) \in Seq(Units) /\ Len(Data(f)) = Size[f]
        /\ \A o \in 1..Size[f] : Data(f)[o] = UnitOf(f, 2 + o)
    <2> DEFINE d == Data(f)
               n == Size[f]
    <2>1. d = [i \in 1..n |-> <<"data", f, i>>]
      BY DEF Data
    <2>2. \A i \in 1..n : d[i] = <<"data", f, i>> /\ d[i] \in Units
      BY <1>0, <2>1 DEF Units
    <2>3. d \in Seq(Units) /\ Len(d) = n
      <3> HIDE DEF d, n
      <3>1. d \in [1..n -> Units]
        BY <2>1, <2>2
      <3>2. n \in Nat
        BY <1>0 DEF n
      <3> QED BY <2>1, <3>1, <3>2
    <2>4. ASSUME NEW o \in 1..n PROVE UnitOf(f, 2 + o) = <<"data", f, o>>
      <3>1. ~(2 + o <= 2) /\ 2 + o - 2 = o
        OBVIOUS
      <3> QED BY <3>1 DEF UnitOf
    <2> QED BY <2>2, <2>3, <2>4
  <1>3. <<Magic>> \in Seq(Units) /\ Len(<<Magic>>) = 1 /\ <<Magic>>[1] = Magic
    <2>1. Magic \in Units
      BY DEF Magic, Units
    <2> QED BY <2>1
  <1> QED BY <1>1, <1>2, <1>3

\* u is all of what fs are encoded as.
WholeImage(u, fs) == IsImage(u, fs) /\ Len(u) = EndOf(fs, Len(fs))

LEMMA MagicIsComplete ==
  WholeImage(<<Magic>>, <<>>) /\ IsImage(<<>>, <<>>)
  <1>1. Magic \in Units
    BY DEF Magic, Units
  <1>2. <<>> \in Seq(Known) /\ Len(<<>>) = 0
    OBVIOUS
  <1>3. EndOf(<<>>, 0) = 1
    BY <1>2, EndOfIs
  <1> QED BY <1>1, <1>2, <1>3 DEF WholeImage, IsImage

\* One more frame after those there are.
LEMMA CompleteMore ==
  ASSUME NEW fs \in Seq(Known), NEW u, WholeImage(u, fs), NEW f \in Known
  PROVE  /\ WholeImage(u \o (Header(f) \o Data(f)), Append(fs, f))
         /\ \A n \in 0..Len(fs) : EndOf(Append(fs, f), n) = EndOf(fs, n)
         /\ IsImage(u, Append(fs, f))
  <1> DEFINE gs == Append(fs, f)
             h == Header(f) \o Data(f)
             v == u \o h
             n == Len(fs)
             l == EndOf(fs, n)
             z == Size[f]
  <1>0. /\ n \in Nat /\ gs \in Seq(Known) /\ Len(gs) = n + 1 /\ gs[n + 1] = f
        /\ \A i \in 1..n : gs[i] = fs[i] /\ fs[i] \in Known /\ Size[fs[i]] \in Nat
        /\ z \in Nat \ {0}
    BY KnownAre
  <1>1. /\ u \in Seq(Units) /\ Len(u) = l /\ l \in Nat /\ l >= 1
        /\ u # <<>> /\ u[1] = Magic
    <2>1. u \in Seq(Units) /\ Len(u) = l /\ (u # <<>> => u[1] = Magic)
      BY DEF WholeImage, IsImage
    <2>2. l \in Nat /\ l >= 1
      <3>1. n \in 0..n /\ l >= 1 + 2 * n /\ l \in Nat
        BY <1>0, EndOfIs
      <3> HIDE DEF l
      <3> QED BY <1>0, <3>1
    <2> QED BY <2>1, <2>2
  <1>2. /\ h \in Seq(Units) /\ Len(h) = 2 + z /\ \A o \in 1..2 + z : h[o] = UnitOf(f, o)
    <2>1. /\ Header(f) \in Seq(Units) /\ Data(f) \in Seq(Units)
          /\ Len(Header(f)) = 2 /\ Len(Data(f)) = z
          /\ \A o \in 1..2 : Header(f)[o] = UnitOf(f, o)
          /\ \A o \in 1..z : Data(f)[o] = UnitOf(f, 2 + o)
      BY EncodedIs
    <2>2. /\ h \in Seq(Units) /\ Len(h) = 2 + z
          /\ \A o \in 1..2 + z : h[o] = IF o <= 2 THEN Header(f)[o] ELSE Data(f)[o - 2]
      <3> DEFINE a == Header(f)
                 b == Data(f)
      <3>1. a \in Seq(Units) /\ b \in Seq(Units) /\ Len(a) = 2 /\ Len(b) = z
        BY <2>1
      <3>2. h = a \o b
        OBVIOUS
      <3> HIDE DEF a, b, h, z
      <3>3. /\ a \o b \in Seq(Units) /\ Len(a \o b) = Len(a) + Len(b)
            /\ \A i \in 1..Len(a) + Len(b) :
                 (a \o b)[i] = IF i <= Len(a) THEN a[i] ELSE b[i - Len(a)]
        BY <3>1, ConcatProperties
      <3>4. /\ h \in Seq(Units) /\ Len(h) = 2 + z
            /\ \A o \in 1..2 + z : h[o] = IF o <= 2 THEN a[o] ELSE b[o - 2]
        BY <3>1, <3>2, <3>3
      <3> QED BY <3>4 DEF a, b
    <2> HIDE DEF h, z
    <2>3. ASSUME NEW o \in 1..2 + z PROVE h[o] = UnitOf(f, o)
      <3>1. CASE o <= 2
        <4>1. o \in 1..2
          BY <3>1
        <4> QED BY <2>1, <2>2, <3>1, <4>1
      <3>2. CASE ~(o <= 2)
        <4>1. o - 2 \in 1..z /\ 2 + (o - 2) = o
          BY <1>0, <3>2
        <4> QED BY <2>1, <2>2, <3>2, <4>1
      <3> QED BY <3>1, <3>2
    <2> QED BY <2>2, <2>3
  <1> HIDE DEF h
  <1>3. /\ v \in Seq(Units) /\ Len(v) = l + (2 + z)
        /\ \A i \in 1..l : v[i] = u[i]
        /\ \A o \in 1..2 + z : v[l + o] = h[o]
    <2>1. /\ v \in Seq(Units) /\ Len(v) = Len(u) + Len(h)
          /\ \A i \in 1..Len(u) + Len(h) : v[i] = IF i <= Len(u) THEN u[i] ELSE h[i - Len(u)]
      BY <1>1, <1>2, ConcatProperties
    <2> HIDE DEF v, l, z
    <2>2. ASSUME NEW o \in 1..2 + z PROVE v[l + o] = h[o]
      <3>1. l + o \in 1..l + (2 + z) /\ ~(l + o <= l) /\ (l + o) - l = o
        BY <1>0, <1>1
      <3> QED BY <1>1, <1>2, <2>1, <3>1
    <2>3. ASSUME NEW i \in 1..l PROVE v[i] = u[i]
      <3>1. i \in 1..l + (2 + z) /\ i <= l
        BY <1>0, <1>1
      <3> QED BY <1>1, <1>2, <2>1, <3>1
    <2> QED BY <1>1, <1>2, <2>1, <2>2, <2>3
  <1> HIDE DEF v
  <1>4. \A i \in 0..n : EndOf(gs, i) = EndOf(fs, i)
    BY TotalsOfMore DEF EndOf
  <1>5. EndOf(gs, n + 1) = l + (2 + z)
    <2>1. n + 1 \in 1..n + 1 /\ (n + 1) - 1 = n /\ n \in 0..n
      BY <1>0
    <2>2. EndOf(gs, n + 1) = EndOf(gs, n) + 2 + Size[gs[n + 1]]
      BY <1>0, <2>1, EndOfIs
    <2>3. EndOf(gs, n + 1) = l + 2 + z
      BY <1>0, <1>4, <2>1, <2>2
    <2> HIDE DEF l, z
    <2> QED BY <1>0, <1>1, <2>3
  <1>6. ASSUME NEW w, NEW k \in Nat, w \in Seq(Units), Len(w) = k, l <= k, k <= l + (2 + z),
               \A i \in 1..l : w[i] = u[i],
               \A o \in 1..2 + z : l + o <= k => w[l + o] = UnitOf(f, o)
        PROVE  IsImage(w, gs)
    <2>1. w[1] = Magic
      <3>1. 1 \in 1..l
        BY <1>1
      <3> QED BY <1>1, <1>6, <3>1
    <2>2. Len(w) <= EndOf(gs, Len(gs))
      BY <1>0, <1>5, <1>6
    <2>3. ASSUME NEW m \in 1..Len(gs), NEW o \in 1..2 + Size[gs[m]], EndOf(gs, m - 1) + o <= Len(w)
          PROVE  w[EndOf(gs, m - 1) + o] = UnitOf(gs[m], o)
      <3>1. CASE m = n + 1
        <4>1. EndOf(gs, m - 1) = l /\ gs[m] = f
          <5>1. m - 1 = n /\ n \in 0..n
            BY <1>0, <3>1
          <5> QED BY <1>0, <1>4, <3>1, <5>1
        <4> QED BY <1>6, <2>3, <4>1
      <3>2. CASE m # n + 1
        <4>1. m \in 1..n /\ m - 1 \in 0..n /\ m \in 0..n /\ n \in 0..n /\ m <= n
          BY <1>0, <3>2
        <4>2. EndOf(gs, m - 1) = EndOf(fs, m - 1) /\ gs[m] = fs[m]
          BY <1>0, <1>4, <4>1
        <4> DEFINE p == EndOf(fs, m - 1)
        <4>3. /\ p \in Nat /\ EndOf(fs, m) = p + 2 + Size[fs[m]] /\ EndOf(fs, m) <= l
              /\ Size[fs[m]] \in Nat
          BY <1>0, <4>1, EndOfIs
        <4>4. p + o \in 1..l
          <5> DEFINE y == Size[fs[m]]
                     e == EndOf(fs, m)
          <5>1. p \in Nat /\ e = p + 2 + y /\ e <= l /\ y \in Nat /\ o \in 1..2 + y
            BY <4>2, <4>3
          <5> HIDE DEF p, y, e, l
          <5> QED BY <1>1, <5>1
        <4>5. u[p + o] = UnitOf(fs[m], o)
          <5>1. p + o <= Len(u)
            <6> HIDE DEF p, l
            <6> QED BY <1>1, <4>4
          <5>2. o \in 1..2 + Size[fs[m]]
            BY <4>2
          <5> QED BY <4>1, <5>1, <5>2 DEF WholeImage, IsImage
        <4>6. w[p + o] = u[p + o]
          BY <1>6, <4>4
        <4> QED BY <4>2, <4>5, <4>6
      <3> QED BY <3>1, <3>2
    <2> QED BY <1>6, <2>1, <2>2, <2>3 DEF IsImage
  <1>7. IsImage(v, gs)
    <2> DEFINE k == l + (2 + z)
    <2>1. k \in Nat /\ l <= k /\ k <= l + (2 + z)
      BY <1>0, <1>1
    <2>2. \A o \in 1..2 + z : v[l + o] = UnitOf(f, o)
      BY <1>2, <1>3
    <2> HIDE DEF k
    <2>3. Len(v) = k
      BY <1>3 DEF k
    <2> QED BY <1>3, <1>6, <2>1, <2>2, <2>3
  <1>8. IsImage(u, gs)
    <2>1. \A o \in 1..2 + z : ~(l + o <= l)
      BY <1>0, <1>1
    <2>2. l <= l /\ l <= l + (2 + z)
      BY <1>0, <1>1
    <2> QED BY <1>1, <1>6, <2>1, <2>2
  <1>9. WholeImage(v, gs)
    BY <1>0, <1>3, <1>5, <1>7 DEF WholeImage
  <1> QED BY <1>4, <1>8, <1>9 DEF gs, v, h

-----------------------------------------------------------------------------
(* Reading. *)

Joins(x, y, z) == (x \o y) \o z = x \o (y \o z)

LEMMA JoinUnits == \A x, y, z \in Seq(Units) : Joins(x, y, z)
  BY ConcatAssociative DEF Joins

\* Writing n units of what is held moves them from there to the file.
Splits(a, b, c, n) ==
  /\ a \o SubSeq(b, 1, n) \in Seq(Units) /\ SubSeq(b, n + 1, Len(b)) \in Seq(Units)
  /\ (a \o SubSeq(b, 1, n)) \o (SubSeq(b, n + 1, Len(b)) \o c) = a \o (b \o c)
  /\ Len(a \o SubSeq(b, 1, n)) >= Len(a)

LEMMA SplitKeeps ==
  ASSUME NEW a \in Seq(Units), NEW b \in Seq(Units), NEW c \in Seq(Units), NEW n \in 0..Len(b)
  PROVE  Splits(a, b, c, n)
  <1> DEFINE l == Len(b)
             p == n + 1
             s == SubSeq(b, 1, n)
             t == SubSeq(b, p, l)
  <1>0. /\ l \in Nat /\ n \in Nat /\ n <= l /\ \A i \in 1..l : b[i] \in Units
        /\ p \in Nat /\ 1 <= p
    OBVIOUS
  <1>1. s \o t = b
    <2>1. 1 \in 1..l + 1 /\ n \in 1 - 1..l /\ l \in n..l
      BY <1>0
    <2>2. SubSeq(b, 1, n) \o SubSeq(b, n + 1, l) = SubSeq(b, 1, l)
      BY <2>1, ConcatAdjacentSubSeq, Zenon
    <2>3. SubSeq(b, 1, l) = b
      BY SubSeqFull
    <2> QED BY <2>2, <2>3, Zenon
  <1>2. s \in Seq(Units) /\ t \in Seq(Units)
    <2> HIDE DEF l, p
    <2>1. (\A i \in 1..n : b[i] \in Units) /\ (\A i \in p..l : b[i] \in Units)
      BY <1>0
    <2>2. n \in Int /\ l \in Int /\ 1 \in Int /\ p \in Int
      BY <1>0
    <2>3. SubSeq(b, 1, n) \in Seq(Units)
      BY <2>1, <2>2, SubSeqProperties
    <2>4. SubSeq(b, p, l) \in Seq(Units)
      BY <2>1, <2>2, SubSeqProperties
    <2> QED BY <2>3, <2>4
  <1> HIDE DEF s, t
  <1>3. (a \o s) \o (t \o c) = a \o (b \o c)
    <2> DEFINE d == t \o c
    <2>1. d \in Seq(Units)
      BY <1>2
    <2> HIDE DEF d
    <2>2. Joins(a, s, d) /\ Joins(s, t, c)
      BY <1>2, <2>1, JoinUnits
    <2>3. (a \o s) \o d = a \o (s \o d)
      BY <2>2, Zenon DEF Joins
    <2>4. (s \o t) \o c = s \o d
      BY <2>2, Zenon DEF Joins, d
    <2>5. (a \o s) \o d = a \o (b \o c)
      BY <1>1, <2>3, <2>4, Zenon
    <2> QED BY <2>5 DEF d
  <1>4. a \o s \in Seq(Units) /\ Len(a \o s) >= Len(a)
    BY <1>2
  <1> QED BY <1>2, <1>3, <1>4, Zenon DEF Splits, s, t, p, l

\* What is written of a complete image is an image.
LEMMA WrittenIsImage ==
  ASSUME NEW fs \in Seq(Known), NEW a \in Seq(Units), NEW b \in Seq(Units), WholeImage(a \o b, fs)
  PROVE  IsImage(a, fs)
  <1> DEFINE u == a \o b
  <1>1. u \in Seq(Units) /\ Len(u) = Len(a) + Len(b) /\ Len(a) \in 0..Len(u) /\ IsImage(u, fs)
    BY DEF WholeImage
  <1>2. SubSeq(u, 1, Len(a)) = a
    <2>1. CASE a = <<>>
      BY <1>1, <2>1, SubSeqEmpty
    <2>2. CASE a # <<>>
      <3>1. 1 \in 1..Len(a) /\ Len(a) \in 1..Len(a)
        BY <2>2
      <3>2. SubSeq(a \o b, 1, Len(a)) = SubSeq(a, 1, Len(a))
        BY <3>1, SubSeqOfConcat1
      <3> QED BY <3>2, SubSeqFull
    <2> QED BY <2>1, <2>2
  <1> DEFINE k == Len(a)
             w == SubSeq(u, 1, k)
  <1> HIDE DEF u, k
  <1>3. k \in 0..Len(u)
    BY <1>1 DEF k
  <1>4. IsImage(w, fs)
    BY <1>1, <1>3, ImageIsCut
  <1> QED BY <1>2, <1>4 DEF k

Readable(fs) == Fits(fs) /\ Total(fs) <= MaxReplay

\* The units a frame is read from.
LEMMA FrameIsThere ==
  ASSUME NEW fs \in Seq(Known), NEW u, IsImage(u, fs), NEW m \in 1..Len(fs)
  PROVE  LET p == EndOf(fs, m - 1) + 1
             f == fs[m]
         IN  /\ p + 1 <= Len(u) => u[p][2] = f /\ SubSeq(u, p, p + 1) = Header(f)
             /\ p + 1 + Size[f] <= Len(u) => SubSeq(u, p + 2, p + 1 + Size[f]) = Data(f)
  <1> DEFINE e == EndOf(fs, m - 1)
             p == e + 1
             f == fs[m]
             z == Size[f]
             h == SubSeq(u, p, p + 1)
             d == SubSeq(u, p + 2, p + 1 + z)
  <1>1. e \in Nat /\ f \in Known /\ z \in Nat \ {0} /\ u \in Seq(Units) /\ Len(u) \in Nat
    <2>1. m - 1 \in 0..Len(fs)
      OBVIOUS
    <2>2. e \in Nat
      BY <2>1, EndOfIs
    <2>3. f \in Known /\ z \in Nat \ {0}
      BY TotalsAdd
    <2> QED BY <2>2, <2>3 DEF IsImage
  <1>2. \A o \in 1..2 + z : e + o <= Len(u) => u[e + o] = UnitOf(f, o)
    BY DEF IsImage
  <1>3. /\ Header(f) \in Seq(Units) /\ Data(f) \in Seq(Units)
        /\ Len(Header(f)) = 2 /\ Len(Data(f)) = z
        /\ \A o \in 1..2 : Header(f)[o] = UnitOf(f, o)
        /\ \A o \in 1..z : Data(f)[o] = UnitOf(f, 2 + o)
    BY <1>1, EncodedIs
  <1>4. \A i \in 1..Len(u) : u[i] \in Units
    BY <1>1
  <1>5. ASSUME p + 1 <= Len(u) PROVE u[p][2] = f /\ h = Header(f)
    <2> HIDE DEF e, z
    <2>1. 1 \in 1..2 + z /\ 2 \in 1..2 + z /\ e + 1 <= Len(u) /\ e + 2 <= Len(u)
      BY <1>1, <1>5
    <2>2. u[e + 1] = UnitOf(f, 1) /\ u[e + 2] = UnitOf(f, 2)
      BY <1>2, <2>1
    <2>3. UnitOf(f, 1) = <<"size", f, 1>>
      BY DEF UnitOf
    <2>4. u[p][2] = f
      BY <2>2, <2>3
    <2>5. \A i \in p..p + 1 : u[i] \in Units
      BY <1>1, <1>4, <1>5
    <2>6. p \in Int /\ p + 1 \in Int /\ p <= p + 1 /\ (p + 1) - p + 1 = 2
      BY <1>1
    <2> DEFINE q == p + 1
    <2>0. h = SubSeq(u, p, q)
      OBVIOUS
    <2> HIDE DEF p, q, h
    <2>7. h \in Seq(Units) /\ Len(h) = 2 /\ \A i \in 1..2 : h[i] = u[p + i - 1]
      <3>1. p \in Int /\ q \in Int /\ p <= q /\ q - p + 1 = 2 /\ \A i \in p..q : u[i] \in Units
        BY <2>5, <2>6 DEF q
      <3>2. /\ SubSeq(u, p, q) \in Seq(Units)
            /\ Len(SubSeq(u, p, q)) = IF p <= q THEN q - p + 1 ELSE 0
            /\ \A i \in 1..q - p + 1 : SubSeq(u, p, q)[i] = u[p + i - 1]
        BY <3>1, SubSeqProperties
      <3> QED BY <2>0, <3>1, <3>2
    <2> USE DEF p
    <2>8. ASSUME NEW i \in 1..2 PROVE h[i] = Header(f)[i]
      <3>1. h[i] = u[p + i - 1] /\ p + i - 1 = e + i
        BY <1>1, <2>7
      <3>2. i = 1 \/ i = 2
        OBVIOUS
      <3>3. u[e + i] = UnitOf(f, i)
        BY <2>2, <3>2
      <3> QED BY <1>3, <3>1, <3>3
    <2>9. h = Header(f)
      BY <1>3, <2>7, <2>8, SeqEqual
    <2> QED BY <2>4, <2>9
  <1>6. ASSUME p + 1 + z <= Len(u) PROVE d = Data(f)
    <2> HIDE DEF e, z
    <2>1. \A i \in p + 2..p + 1 + z : u[i] \in Units
      BY <1>1, <1>4, <1>6
    <2>2. /\ p + 2 \in Int /\ p + 1 + z \in Int /\ p + 2 <= p + 1 + z
          /\ (p + 1 + z) - (p + 2) + 1 = z
      BY <1>1
    <2>3. d \in Seq(Units) /\ Len(d) = z /\ \A i \in 1..z : d[i] = u[p + 2 + i - 1]
      BY <2>1, <2>2, SubSeqProperties
    <2> HIDE DEF d
    <2>4. ASSUME NEW i \in 1..z PROVE d[i] = Data(f)[i]
      <3>1. /\ p + 2 + i - 1 = e + (2 + i) /\ 2 + i \in 1..2 + z
            /\ e + (2 + i) <= Len(u)
        BY <1>1, <1>6
      <3>2. u[e + (2 + i)] = UnitOf(f, 2 + i)
        BY <1>2, <3>1
      <3> QED BY <1>3, <2>3, <3>1, <3>2
    <2> QED BY <1>3, <2>3, <2>4, SeqEqual
  <1> HIDE DEF h, d
  <1>7. /\ p + 1 <= Len(u) => u[p][2] = f /\ h = Header(f)
        /\ p + 1 + z <= Len(u) => d = Data(f)
    BY <1>5, <1>6
  <1> QED BY <1>7 DEF h, d

\* What read meets at the end of the first m frames.
LEMMA FrameAtIs ==
  ASSUME NEW fs \in Seq(Known), NEW u, IsImage(u, fs), NEW m \in 0..Len(fs),
         EndOf(fs, m) <= Len(u)
  PROVE  LET p == EndOf(fs, m) + 1
             met == FrameAt(u, p, Totals(fs)[m])
             f == fs[m + 1]
         IN  /\ met \in {"end", "error", "frame"}
             /\ m = Len(fs) => met = "end"
             /\ m < Len(fs) => /\ met = "end" => Len(u) < EndOf(fs, m + 1)
                               /\ met = "frame" => /\ u[p][2] = f /\ f \in Frames
                                                   /\ EndOf(fs, m + 1) <= Len(u)
                               /\ Readable(fs) => met # "error"
  <1> DEFINE e == EndOf(fs, m)
             p == e + 1
             t == Totals(fs)[m]
             met == FrameAt(u, p, t)
             g == u[p][2]
             size == IF g > 0 /\ SubSeq(u, p, p + 1) = Header(g) THEN Size[g] ELSE MaxReplay + 1
             l == Len(u)
             left == l + 1 - p
             large == size > MaxFrame \/ t + size > MaxReplay
             torn == left < 2 \/ (~large /\ left < 2 + size)
             whole == ~large /\ SubSeq(u, p + 2, p + 1 + size) = Data(g) /\ g \notin Newer
  <1>0. /\ e \in Nat /\ t \in Nat /\ l \in Nat /\ left = l - e /\ left \in Int
        /\ MaxFrame \in Nat /\ MaxReplay \in Nat
    <2>1. e \in Nat
      BY EndOfIs
    <2>2. t \in Nat
      BY TotalsAdd
    <2>3. l \in Nat
      BY DEF IsImage
    <2> HIDE DEF e, t, l
    <2>4. l + 1 - (e + 1) = l - e /\ l - e \in Int
      BY <2>1, <2>3
    <2> QED BY <2>1, <2>2, <2>3, <2>4, KnownAre
  <1>1. met = IF torn THEN "end" ELSE IF whole THEN "frame" ELSE "error"
    BY DEF FrameAt
  <1> HIDE DEF met, whole
  <1>2. CASE m = Len(fs)
    <2>1. l <= e
      BY <1>2 DEF IsImage
    <2>2. left < 2
      <3> HIDE DEF e, l, left
      <3> QED BY <1>0, <2>1
    <2>3. met = "end"
      <3>1. torn
        BY <2>2
      <3> HIDE DEF torn
      <3> QED BY <1>1, <3>1
    <2> QED BY <1>2, <2>3 DEF met
  <1>3. CASE m < Len(fs)
    <2> DEFINE f == fs[m + 1]
               z == Size[f]
    <2>1. m + 1 \in 1..Len(fs) /\ (m + 1) - 1 = m /\ m + 1 \in 0..Len(fs) /\ Len(fs) \in 0..Len(fs)
      BY <1>3
    <2>2. /\ f \in Known /\ z \in Nat \ {0} /\ Totals(fs)[m + 1] = t + z
          /\ EndOf(fs, m + 1) = e + 2 + z
      <3> DEFINE i == m + 1
      <3>1. i \in 1..Len(fs) /\ i - 1 = m
        BY <2>1
      <3> HIDE DEF i
      <3>2. /\ Totals(fs)[i] = Totals(fs)[i - 1] + Size[fs[i]]
            /\ fs[i] \in Known /\ Size[fs[i]] \in Nat \ {0}
        BY <3>1, TotalsAdd
      <3>3. EndOf(fs, i) = EndOf(fs, i - 1) + 2 + Size[fs[i]]
        BY <3>1, EndOfIs
      <3> QED BY <3>1, <3>2, <3>3 DEF i
    <2>3. Readable(fs) => z <= MaxFrame /\ t + z <= MaxReplay /\ f \in Frames
      <3> SUFFICES ASSUME Readable(fs) PROVE z <= MaxFrame /\ t + z <= MaxReplay /\ f \in Frames
        OBVIOUS
      <3>1. z <= MaxFrame /\ f \in Frames
        BY <2>1 DEF Readable, Fits
      <3>2. Totals(fs)[m + 1] <= Totals(fs)[Len(fs)]
        BY <2>1, TotalsGrow
      <3>3. Totals(fs)[Len(fs)] <= MaxReplay
        BY DEF Readable, Total
      <3>4. Totals(fs)[m + 1] \in Nat /\ Totals(fs)[Len(fs)] \in Nat
        BY <2>1, TotalsAdd
      <3>5. Totals(fs)[m + 1] <= MaxReplay
        BY <1>0, <3>2, <3>3, <3>4
      <3> QED BY <2>2, <3>1, <3>5
    <2> HIDE DEF left
    <2>4. CASE left < 2
      <3>1. met = "end"
        <4>1. torn
          BY <2>4
        <4> HIDE DEF torn
        <4> QED BY <1>1, <4>1
      <3>2. l < e + 2 + z
        <4> HIDE DEF e, l, z
        <4> QED BY <1>0, <2>2, <2>4
      <3> QED BY <1>3, <2>2, <3>1, <3>2 DEF met
    <2>5. CASE ~(left < 2)
      <3>1. g = f /\ SubSeq(u, p, p + 1) = Header(f)
        <4>1. p + 1 <= l
          <5> HIDE DEF e, l
          <5> QED BY <1>0, <2>5
        <4>2. LET q == EndOf(fs, (m + 1) - 1) + 1
              IN  q + 1 <= Len(u) => u[q][2] = fs[m + 1] /\ SubSeq(u, q, q + 1) = Header(fs[m + 1])
          BY <2>1, FrameIsThere
        <4> QED BY <2>1, <4>1, <4>2
      <3>2. size = z
        <4>1. f > 0
          BY <2>2, KnownAre
        <4> QED BY <3>1, <4>1
      <3>3. large <=> z > MaxFrame \/ t + z > MaxReplay
        <4> HIDE DEF size, z, t
        <4> QED BY <3>2
      <3>4. torn <=> ~large /\ left < 2 + z
        <4> HIDE DEF size, z, large
        <4> QED BY <2>5, <3>2
      <3>5. whole <=> ~large /\ SubSeq(u, p + 2, p + 1 + z) = Data(f) /\ f \notin Newer
        <4>1. whole <=> ~large /\ SubSeq(u, p + 2, p + 1 + size) = Data(g) /\ g \notin Newer
          BY DEF whole
        <4> HIDE DEF size, z, large, p
        <4>2. g = f
          BY <3>1
        <4> HIDE DEF g, f
        <4> QED BY <3>2, <4>1, <4>2
      <3> HIDE DEF size, torn, large
      <3>6. CASE large
        <4>1. met = "error"
          BY <1>1, <3>4, <3>5, <3>6
        <4>2. ~Readable(fs)
          <5>1. z > MaxFrame \/ t + z > MaxReplay
            BY <3>3, <3>6
          <5> HIDE DEF z, t
          <5> QED BY <1>0, <2>2, <2>3, <5>1
        <4> QED BY <1>3, <4>1, <4>2 DEF met
      <3>7. CASE ~large /\ left < 2 + z
        <4>1. met = "end"
          <5>1. torn
            BY <3>4, <3>7
          <5> QED BY <1>1, <5>1
        <4>2. l < e + 2 + z
          <5> HIDE DEF e, l, z
          <5> QED BY <1>0, <2>2, <3>7
        <4> QED BY <1>3, <2>2, <4>1, <4>2 DEF met
      <3>8. CASE ~large /\ ~(left < 2 + z)
        <4>1. e + 2 + z <= l /\ p + 1 + z <= l
          <5> HIDE DEF e, l, z
          <5> QED BY <1>0, <2>2, <3>8
        <4>2. SubSeq(u, p + 2, p + 1 + z) = Data(f)
          <5>1. LET q == EndOf(fs, (m + 1) - 1) + 1
                IN  q + 1 + Size[fs[m + 1]] <= Len(u) =>
                      SubSeq(u, q + 2, q + 1 + Size[fs[m + 1]]) = Data(fs[m + 1])
            BY <2>1, FrameIsThere
          <5> QED BY <2>1, <4>1, <5>1
        <4>3. ~torn /\ (whole <=> f \notin Newer)
          <5>1. ~torn
            BY <3>4, <3>8
          <5>2. whole <=> f \notin Newer
            <6> HIDE DEF z, f, p
            <6> QED BY <3>5, <3>8, <4>2
          <5> QED BY <5>1, <5>2
        <4>4. met = IF f \notin Newer THEN "frame" ELSE "error"
          <5> HIDE DEF f
          <5> QED BY <1>1, <4>3
        <4>5. f \in Frames <=> f \notin Newer
          BY <2>2 DEF Frames, Known
        <4> QED BY <1>3, <2>2, <2>3, <3>1, <4>1, <4>4, <4>5 DEF met
      <3> QED BY <3>6, <3>7, <3>8
    <2> QED BY <2>4, <2>5
  <1> QED BY <1>2, <1>3

\* Where read's loop is in a file after i rounds.
ReadTo(u, fs, at, i) ==
  LET m == Len(at.frames) IN
  /\ \E n, t, g, o, x : at = [unit |-> n, total |-> t, frames |-> g, ok |-> o, more |-> x]
  /\ at.frames \in Seq(Frames) /\ m <= Len(fs) /\ \A j \in 1..m : at.frames[j] = fs[j]
  /\ at.unit = EndOf(fs, m) + 1 /\ EndOf(fs, m) <= Len(u)
  /\ at.total = Totals(fs)[m]
  /\ at.more \in BOOLEAN /\ (at.more => m = i)
  /\ Readable(fs) => /\ at.ok
                     /\ ~at.more => m = Len(fs) \/ Len(u) < EndOf(fs, m + 1)

LEMMA ReadFrameKeeps ==
  ASSUME NEW fs \in Seq(Known), NEW u, IsImage(u, fs), NEW at, NEW i \in Nat, ReadTo(u, fs, at, i)
  PROVE  ReadTo(u, fs, ReadFrame(u, at), i + 1)
  <1> DEFINE m == Len(at.frames)
             e == EndOf(fs, m)
             f == fs[m + 1]
             g == u[at.unit][2]
             met == FrameAt(u, at.unit, at.total)
             r == ReadFrame(u, at)
  <1>0. /\ at.frames \in Seq(Frames) /\ m <= Len(fs) /\ \A j \in 1..m : at.frames[j] = fs[j]
        /\ at.unit = e + 1 /\ e <= Len(u) /\ at.total = Totals(fs)[m]
        /\ at.more \in BOOLEAN /\ (at.more => m = i)
        /\ Readable(fs) => at.ok /\ (~at.more => m = Len(fs) \/ Len(u) < EndOf(fs, m + 1))
    BY DEF ReadTo
  <1>1. PICK nx, tx, gx, ox, xx :
             at = [unit |-> nx, total |-> tx, frames |-> gx, ok |-> ox, more |-> xx]
    BY DEF ReadTo
  <1>2. m \in 0..Len(fs)
    BY <1>0
  <1>3. /\ met \in {"end", "error", "frame"}
        /\ m = Len(fs) => met = "end"
        /\ m < Len(fs) => /\ met = "end" => Len(u) < EndOf(fs, m + 1)
                          /\ met = "frame" => g = f /\ f \in Frames /\ EndOf(fs, m + 1) <= Len(u)
                          /\ Readable(fs) => met # "error"
    BY <1>0, <1>2, FrameAtIs
  <1>4. r = CASE ~at.more \/ met = "end" -> [at EXCEPT !.more = FALSE]
              [] at.more /\ met = "error" -> [at EXCEPT !.more = FALSE, !.ok = FALSE]
              [] OTHER -> [at EXCEPT !.unit = @ + 2 + Size[g], !.total = @ + Size[g],
                                     !.frames = Append(@, g)]
    BY DEF ReadFrame
  <1> HIDE DEF r, met, g, f
  <1>5. CASE ~at.more \/ met = "end"
    <2>1. r = [at EXCEPT !.more = FALSE]
      BY <1>3, <1>4, <1>5
    <2>2. /\ r.unit = at.unit /\ r.total = at.total /\ r.frames = at.frames /\ r.ok = at.ok
          /\ r.more = FALSE
      BY <1>1, <2>1
    <2>3. \E n, t, h, o, x : r = [unit |-> n, total |-> t, frames |-> h, ok |-> o, more |-> x]
      BY <1>1, <2>1
    <2>4. Readable(fs) => m = Len(fs) \/ Len(u) < EndOf(fs, m + 1)
      <3>1. CASE ~at.more
        BY <1>0, <3>1
      <3>2. CASE met = "end"
        <4>1. m = Len(fs) \/ m < Len(fs)
          BY <1>2
        <4> QED BY <1>3, <3>2, <4>1
      <3> QED BY <1>5, <3>1, <3>2
    <2> QED BY <1>0, <2>2, <2>3, <2>4 DEF ReadTo, r
  <1>6. CASE at.more /\ met = "error"
    <2>1. r = [at EXCEPT !.more = FALSE, !.ok = FALSE]
      BY <1>4, <1>6
    <2>2. /\ r.unit = at.unit /\ r.total = at.total /\ r.frames = at.frames
          /\ r.more = FALSE
      BY <1>1, <2>1
    <2>3. \E n, t, h, o, x : r = [unit |-> n, total |-> t, frames |-> h, ok |-> o, more |-> x]
      BY <1>1, <2>1
    <2>4. ~Readable(fs)
      <3>1. m = Len(fs) \/ m < Len(fs)
        BY <1>2
      <3> QED BY <1>3, <1>6, <3>1
    <2> QED BY <1>0, <2>2, <2>3, <2>4 DEF ReadTo, r
  <1>7. CASE at.more /\ met = "frame"
    <2>1. m < Len(fs)
      BY <1>2, <1>3, <1>7
    <2>2. g = f /\ f \in Frames /\ EndOf(fs, m + 1) <= Len(u)
      BY <1>3, <1>7, <2>1
    <2>3. r = [at EXCEPT !.unit = @ + 2 + Size[f], !.total = @ + Size[f],
                         !.frames = Append(@, f)]
      BY <1>4, <1>7, <2>2
    <2>4. /\ r.unit = at.unit + 2 + Size[f] /\ r.total = at.total + Size[f]
          /\ r.frames = Append(at.frames, f) /\ r.ok = at.ok /\ r.more = at.more
      BY <1>1, <2>3
    <2>5. \E n, t, h, o, x : r = [unit |-> n, total |-> t, frames |-> h, ok |-> o, more |-> x]
      BY <1>1, <2>3
    <2>6. /\ r.frames \in Seq(Frames) /\ Len(r.frames) = m + 1 /\ m + 1 <= Len(fs)
          /\ r.frames[m + 1] = f /\ \A j \in 1..m : r.frames[j] = at.frames[j]
      BY <1>0, <1>2, <2>1, <2>2, <2>4
    <2>7. \A j \in 1..m + 1 : r.frames[j] = fs[j]
      <3> TAKE j \in 1..m + 1
      <3>1. CASE j = m + 1
        BY <2>6, <3>1 DEF f
      <3>2. CASE j # m + 1
        <4>1. j \in 1..m
          BY <1>2, <3>2
        <4> QED BY <1>0, <2>6, <4>1
      <3> QED BY <3>1, <3>2
    <2>8. m + 1 \in 1..Len(fs) /\ (m + 1) - 1 = m
      BY <1>2, <2>1
    <2>9. r.total = Totals(fs)[m + 1]
      <3> DEFINE k == m + 1
      <3>1. k \in 1..Len(fs) /\ k - 1 = m
        BY <2>8
      <3> HIDE DEF k
      <3>2. Totals(fs)[k] = Totals(fs)[k - 1] + Size[fs[k]]
        BY <3>1, TotalsAdd
      <3> QED BY <1>0, <2>4, <3>1, <3>2 DEF f, k
    <2>10. r.unit = EndOf(fs, m + 1) + 1
      <3>1. EndOf(fs, m + 1) = e + 2 + Size[f] /\ e \in Nat /\ Size[f] \in Nat
        <4> DEFINE k == m + 1
        <4>1. k \in 1..Len(fs) /\ k - 1 = m
          BY <2>8
        <4> HIDE DEF k
        <4>2. EndOf(fs, k) = EndOf(fs, k - 1) + 2 + Size[fs[k]] /\ EndOf(fs, m) \in Nat
          BY <1>2, <4>1, EndOfIs
        <4>3. Size[fs[k]] \in Nat
          BY <4>1, TotalsAdd
        <4> QED BY <4>1, <4>2, <4>3 DEF f, k
      <3> DEFINE z == Size[f]
      <3>2. r.unit = e + 1 + 2 + z
        BY <1>0, <2>4
      <3> HIDE DEF e, z
      <3> QED BY <3>1, <3>2 DEF z
    <2>11. m = i
      BY <1>0, <1>7
    <2>12. r.more = TRUE
      BY <1>0, <1>7, <2>4
    <2> QED BY <1>0, <2>2, <2>4, <2>5, <2>6, <2>7, <2>9, <2>10, <2>11, <2>12 DEF ReadTo, r
  <1> QED BY <1>0, <1>3, <1>5, <1>6, <1>7 DEF r

ReadStart == [unit |-> 2, total |-> 0, frames |-> <<>>, ok |-> TRUE, more |-> TRUE]
Reading(u, s) == s = [i \in 0..Len(u) |-> IF i = 0 THEN ReadStart ELSE ReadFrame(u, s[i - 1])]

LEMMA ReadBackIs ==
  ASSUME NEW u
  PROVE  ReadBack(u) =
           LET end == (CHOOSE s : Reading(u, s))[Len(u)]
           IN  IF u = <<>> \/ u[1] # Magic
               THEN [ok |-> FALSE, frames |-> <<>>]
               ELSE [ok |-> end.ok, frames |-> IF end.ok THEN end.frames ELSE <<>>]
  BY DEF ReadBack, Reading, ReadStart

LEMMA ReadingsExist ==
  ASSUME NEW u, Len(u) \in Nat
  PROVE  \E s : Reading(u, s)
  <1> DEFINE Step(k, i) == IF i = 0 THEN ReadStart ELSE ReadFrame(u, k[i - 1])
             Has(n) == \E k : \A i \in 0..n : k[i] = Step(k, i)
             Have == {n \in Nat : Has(n)}
  <1>1. 0 \in Have
    <2> DEFINE k == [i \in 0..0 |-> ReadStart]
    <2>1. \A i \in 0..0 : k[i] = Step(k, i)
      OBVIOUS
    <2>2. Has(0)
      BY <2>1
    <2> QED BY <2>2
  <1>2. ASSUME NEW n \in Nat, n \in Have PROVE n + 1 \in Have
    <2>1. PICK k : \A i \in 0..n : k[i] = Step(k, i)
      BY <1>2
    <2> DEFINE h == [i \in 0..n + 1 |-> IF i <= n THEN k[i] ELSE Step(k, i)]
    <2>2. ASSUME NEW i \in 0..n + 1 PROVE h[i] = Step(h, i)
      <3>1. CASE i = 0
        BY <2>1, <3>1
      <3>2. CASE i # 0
        <4>1. i - 1 \in 0..n /\ h[i - 1] = k[i - 1]
          BY <3>2
        <4>2. h[i] = Step(k, i)
          BY <2>1
        <4> QED BY <3>2, <4>1, <4>2
      <3> QED BY <3>1, <3>2
    <2> HIDE DEF h
    <2>3. \A i \in 0..n + 1 : h[i] = Step(h, i)
      BY <2>2
    <2>4. Has(n + 1)
      BY <2>3
    <2> HIDE DEF Has
    <2> QED BY <2>4
  <1> HIDE DEF Have
  <1>3. Len(u) \in Have
    BY <1>1, <1>2, Naturals
  <1>4. PICK k : \A i \in 0..Len(u) : k[i] = Step(k, i)
    BY <1>3 DEF Have
  <1> DEFINE h == [i \in 0..Len(u) |-> k[i]]
  <1>5. ASSUME NEW i \in 0..Len(u) PROVE h[i] = Step(h, i)
    <2>1. i # 0 => i - 1 \in 0..Len(u) /\ h[i - 1] = k[i - 1]
      OBVIOUS
    <2> QED BY <1>4, <2>1
  <1>6. h = [i \in 0..Len(u) |-> Step(h, i)]
    BY <1>5
  <1> QED BY <1>6 DEF Reading

\* What is read of an image: nothing but what it is an image of, and, when
\* that can be read, every frame the file holds whole.
LEMMA ImageIsRead ==
  ASSUME NEW fs \in Seq(Known), NEW u, IsImage(u, fs)
  PROVE  LET r == ReadBack(u)
         IN  /\ r.frames \in Seq(Frames)
             /\ u # <<>> /\ Readable(fs) =>
                  /\ r.ok /\ IsPrefix(r.frames, fs)
                  /\ \A a \in 0..Len(fs) : EndOf(fs, a) <= Len(u) => Len(r.frames) >= a
  <1> DEFINE s == CHOOSE t : Reading(u, t)
             l == Len(u)
             end == s[l]
             r == ReadBack(u)
  <1>1. u \in Seq(Units) /\ l \in Nat /\ (u # <<>> => u[1] = Magic)
    BY DEF IsImage
  <1>2. Reading(u, s)
    BY <1>1, ReadingsExist
  <1>3. r = IF u = <<>> \/ u[1] # Magic
            THEN [ok |-> FALSE, frames |-> <<>>]
            ELSE [ok |-> end.ok, frames |-> IF end.ok THEN end.frames ELSE <<>>]
    BY ReadBackIs
  <1> HIDE DEF s, r
  <1>4. \A i \in 0..l : s[i] = IF i = 0 THEN ReadStart ELSE ReadFrame(u, s[i - 1])
    <2> DEFINE next(i) == IF i = 0 THEN ReadStart ELSE ReadFrame(u, s[i - 1])
    <2>1. s = [i \in 0..l |-> next(i)]
      BY <1>2 DEF Reading
    <2> HIDE DEF next
    <2>2. \A i \in 0..l : s[i] = next(i)
      BY <2>1
    <2> QED BY <2>2 DEF next
  <1>5. CASE u = <<>>
    <2>1. r.frames = <<>>
      BY <1>3, <1>5
    <2>2. r.frames \in Seq(Frames)
      BY <2>1
    <2> QED BY <1>5, <2>2 DEF r
  <1>6. CASE u # <<>>
    <2> DEFINE Have == {i \in Nat : i <= l => ReadTo(u, fs, s[i], i)}
    <2>1. 0 \in Have
      <3>1. s[0] = ReadStart
        BY <1>1, <1>4
      <3>2. ReadStart.frames = <<>> /\ ReadStart.unit = 2 /\ ReadStart.total = 0 /\ ReadStart.more = TRUE
        BY DEF ReadStart
      <3>6. ReadStart.ok
        BY Zenon DEF ReadStart
      <3>7. \E n, t, g, o, x :
              ReadStart = [unit |-> n, total |-> t, frames |-> g, ok |-> o, more |-> x]
        BY Zenon DEF ReadStart
      <3>3. EndOf(fs, 0) = 1 /\ Totals(fs)[0] = 0 /\ Len(fs) \in Nat
        BY EndOfIs, TotalsAdd
      <3>4. 1 <= l
        BY <1>1, <1>6
      <3>5. ReadTo(u, fs, ReadStart, 0)
        <4> DEFINE g == ReadStart.frames
                   o == ReadStart.ok
        <4>1. g = <<>> /\ Len(g) = 0 /\ g \in Seq(Frames) /\ \A j \in 1..Len(g) : g[j] = fs[j]
          BY <3>2
        <4>2. Len(g) <= Len(fs) /\ 2 = EndOf(fs, Len(g)) + 1 /\ EndOf(fs, Len(g)) <= l
              /\ 0 = Totals(fs)[Len(g)]
          BY <3>3, <3>4, <4>1
        <4>3. ReadStart.more = TRUE /\ ReadStart.unit = 2 /\ ReadStart.total = 0 /\ o
          BY <3>2, <3>6, Zenon
        <4> HIDE DEF g, o, l
        <4> QED BY <3>7, <4>1, <4>2, <4>3, Zenon DEF ReadTo, g, o, l
      <3> QED BY <3>1, <3>5
    <2>2. ASSUME NEW i \in Nat, i \in Have PROVE i + 1 \in Have
      <3> SUFFICES ASSUME i + 1 <= l PROVE ReadTo(u, fs, s[i + 1], i + 1)
        OBVIOUS
      <3>1. i + 1 \in 0..l /\ i + 1 # 0 /\ (i + 1) - 1 = i /\ ReadTo(u, fs, s[i], i)
        BY <1>1, <2>2
      <3>2. s[i + 1] = ReadFrame(u, s[i])
        BY <1>4, <3>1
      <3> QED BY <3>1, <3>2, ReadFrameKeeps
    <2> HIDE DEF Have
    <2>3. ReadTo(u, fs, end, l)
      <3>1. l \in Have
        BY <1>1, <2>1, <2>2, Naturals
      <3> QED BY <1>1, <3>1 DEF Have
    <2> HIDE DEF end
    <2> DEFINE m == Len(end.frames)
    <2>4. /\ end.frames \in Seq(Frames) /\ m <= Len(fs) /\ \A j \in 1..m : end.frames[j] = fs[j]
          /\ EndOf(fs, m) <= l /\ (end.more => m = l)
          /\ Readable(fs) => end.ok /\ (~end.more => m = Len(fs) \/ l < EndOf(fs, m + 1))
      BY <2>3 DEF ReadTo
    <2>5. /\ u # <<>> /\ u[1] = Magic
          /\ r = [ok |-> end.ok, frames |-> IF end.ok THEN end.frames ELSE <<>>]
      BY <1>1, <1>3, <1>6
    <2>6. r.frames \in Seq(Frames)
      BY <2>4, <2>5
    <2>7. ASSUME Readable(fs)
          PROVE  /\ r.ok /\ IsPrefix(r.frames, fs)
                 /\ \A a \in 0..Len(fs) : EndOf(fs, a) <= l => Len(r.frames) >= a
      <3>1. r.ok /\ r.frames = end.frames
        BY <2>4, <2>5, <2>7
      <3>2. m \in 0..Len(fs)
        BY <2>4
      <3>3. ~end.more
        <4> SUFFICES ASSUME m = l PROVE FALSE
          BY <2>4
        <4>1. EndOf(fs, m) \in Nat /\ EndOf(fs, m) >= 1 + 2 * m
          BY <3>2, EndOfIs
        <4> DEFINE e == EndOf(fs, m)
        <4>2. e \in Nat /\ e >= 1 + 2 * m /\ e <= m /\ m \in Nat
          BY <2>4, <3>2, <4>1
        <4> HIDE DEF e, m
        <4> QED BY <4>2
      <3>4. m = Len(fs) \/ l < EndOf(fs, m + 1)
        BY <2>4, <2>7, <3>3
      <3>5. ASSUME NEW a \in 0..Len(fs), EndOf(fs, a) <= l PROVE m >= a
        <4> SUFFICES ASSUME ~(m >= a) PROVE FALSE
          OBVIOUS
        <4>1. m + 1 \in 0..Len(fs) /\ m + 1 <= a /\ m # Len(fs)
          BY <3>2
        <4>2. EndOf(fs, m + 1) <= EndOf(fs, a) /\ EndOf(fs, m + 1) \in Nat /\ EndOf(fs, a) \in Nat
          BY <4>1, EndOfIs
        <4>3. l < EndOf(fs, m + 1)
          BY <3>4, <4>1
        <4> QED BY <1>1, <3>5, <4>2, <4>3
      <3>6. IsPrefix(end.frames, fs)
        <4> DEFINE g == end.frames
        <4>1. /\ g \in Seq(Known) /\ m \in Nat /\ m <= Len(fs) /\ \A j \in 1..m : g[j] = fs[j]
          <5>1. g \in Seq(Known)
            BY <2>4, KnownAre, SeqMonotonic
          <5> QED BY <2>4, <3>2, <5>1
        <4>2. \A j \in 1..m : g[j] \in Known /\ fs[j] \in Known
          BY <4>1
        <4> HIDE DEF g
        <4> HIDE DEF m
        <4>3. /\ SubSeq(g, 1, m) \in Seq(Known)
              /\ Len(SubSeq(g, 1, m)) = (IF 1 <= m THEN m - 1 + 1 ELSE 0)
              /\ \A j \in 1..m - 1 + 1 : SubSeq(g, 1, m)[j] = g[1 + j - 1]
          BY <4>1, <4>2, SubSeqProperties
        <4>4. /\ SubSeq(fs, 1, m) \in Seq(Known)
              /\ Len(SubSeq(fs, 1, m)) = (IF 1 <= m THEN m - 1 + 1 ELSE 0)
              /\ \A j \in 1..m - 1 + 1 : SubSeq(fs, 1, m)[j] = fs[1 + j - 1]
          BY <4>1, <4>2, SubSeqProperties
        <4> DEFINE v == SubSeq(g, 1, m)
                   w == SubSeq(fs, 1, m)
        <4> HIDE DEF v, w
        <4>5. v \in Seq(Known) /\ w \in Seq(Known) /\ Len(v) = m /\ Len(w) = m
          BY <4>1, <4>3, <4>4 DEF v, w
        <4>6. \A j \in 1..m : v[j] = w[j]
          BY <4>1, <4>3, <4>4 DEF v, w
        <4>7. v = w
          BY <4>5, <4>6, SeqEqual
        <4>8. SubSeq(g, 1, Len(g)) = SubSeq(fs, 1, Len(g)) /\ Len(g) <= Len(fs)
          BY <4>1, <4>7 DEF v, w, g, m
        <4> QED BY <4>8 DEF IsPrefix, g
      <3> QED BY <3>1, <3>5, <3>6
    <2> QED BY <2>6, <2>7 DEF r
  <1> QED BY <1>5, <1>6
-----------------------------------------------------------------------------
(* The recordings at any moment: each file is the beginning of its frames,  *)
(* and what a recorder holds is all of the rest.                            *)

\* A file, the frames offered to it, how many were accepted, and whether the
\* power failed.
FileIs(u, fs, n, l) ==
  /\ u \in Seq(Units) /\ fs \in Seq(Frames) /\ n \in Nat /\ n <= Len(fs)
  /\ \E gs \in Seq(Known) : IsImage(u, gs)
  /\ fs # <<>> => IsImage(u, fs) /\ Fits(fs)
  /\ ~l /\ n > 0 => Len(u) >= EndOf(fs, n)

FilesAre(us, os, ns, l) ==
  /\ us \in Seq(Seq(Units)) /\ os \in Seq(Seq(Frames)) /\ ns \in Seq(Nat)
  /\ Len(os) = Len(us) /\ Len(ns) = Len(us)
  /\ \A k \in 1..Len(us) : FileIs(us[k], os[k], ns[k], l)

\* A recorder with b buffered and d on its way past the buffer.
Holds(u, fs, n, b, d) ==
  /\ fs # <<>> /\ WholeImage(u \o (b \o d), fs)
  /\ n = IF b # <<>> \/ d # <<>> THEN Len(fs) - 1 ELSE Len(fs)

RecorderIs(r, b, d, us, os, ns) ==
  /\ b \in Seq(Units) /\ d \in Seq(Units)
  /\ \/ r = None /\ b = <<>> /\ d = <<>>
     \/ /\ r = [file |-> r.file, count |-> r.count] /\ r.file \in 1..Len(us)
        /\ Holds(us[r.file], os[r.file], ns[r.file], b, d)

RecordingInv ==
  /\ FilesAre(files, offered, accepted, lost)
  /\ RecorderIs(recording, buffer, direct, files, offered, accepted)
  /\ shown \in Frames \cup {0} /\ replay \in Seq(Frames)

\* The k-th file, or one more file.
Put(us, os, ns, k, u, fs, n, vs, ps, ms) ==
  vs = [us EXCEPT ![k] = u] /\ ps = [os EXCEPT ![k] = fs] /\ ms = [ns EXCEPT ![k] = n]
Added(us, os, ns, u, fs, n, vs, ps, ms) ==
  vs = Append(us, u) /\ ps = Append(os, fs) /\ ms = Append(ns, n)

LEMMA FilePut ==
  ASSUME NEW us, NEW os, NEW ns, NEW l, FilesAre(us, os, ns, l), NEW k \in 1..Len(us),
         NEW u, NEW fs, NEW n, FileIs(u, fs, n, l),
         NEW vs, NEW ps, NEW ms, Put(us, os, ns, k, u, fs, n, vs, ps, ms)
  PROVE  /\ FilesAre(vs, ps, ms, l)
         /\ Len(vs) = Len(us) /\ vs[k] = u /\ ps[k] = fs /\ ms[k] = n
  <1>1. /\ us \in Seq(Seq(Units)) /\ os \in Seq(Seq(Frames)) /\ ns \in Seq(Nat)
        /\ Len(os) = Len(us) /\ Len(ns) = Len(us)
        /\ \A j \in 1..Len(us) : FileIs(us[j], os[j], ns[j], l)
        /\ u \in Seq(Units) /\ fs \in Seq(Frames) /\ n \in Nat
    BY DEF FilesAre, FileIs
  <1>2. /\ vs \in Seq(Seq(Units)) /\ Len(vs) = Len(us) /\ vs[k] = u
        /\ \A j \in 1..Len(us) : j # k => vs[j] = us[j]
    BY <1>1 DEF Put
  <1>3. /\ ps \in Seq(Seq(Frames)) /\ Len(ps) = Len(us) /\ ps[k] = fs
        /\ \A j \in 1..Len(us) : j # k => ps[j] = os[j]
    BY <1>1 DEF Put
  <1>4. /\ ms \in Seq(Nat) /\ Len(ms) = Len(us) /\ ms[k] = n
        /\ \A j \in 1..Len(us) : j # k => ms[j] = ns[j]
    BY <1>1 DEF Put
  <1>5. \A j \in 1..Len(us) : FileIs(vs[j], ps[j], ms[j], l)
    <2> TAKE j \in 1..Len(us)
    <2>1. CASE j = k
      BY <1>2, <1>3, <1>4, <2>1
    <2>2. CASE j # k
      BY <1>1, <1>2, <1>3, <1>4, <2>2
    <2> QED BY <2>1, <2>2
  <1>6. FilesAre(vs, ps, ms, l)
    BY <1>2, <1>3, <1>4, <1>5 DEF FilesAre
  <1> QED BY <1>2, <1>3, <1>4, <1>6

LEMMA FileAdded ==
  ASSUME NEW us, NEW os, NEW ns, NEW l, FilesAre(us, os, ns, l),
         NEW u, NEW fs, NEW n, FileIs(u, fs, n, l),
         NEW vs, NEW ps, NEW ms, Added(us, os, ns, u, fs, n, vs, ps, ms)
  PROVE  /\ FilesAre(vs, ps, ms, l) /\ Len(us) + 1 \in 1..Len(vs)
         /\ vs[Len(us) + 1] = u /\ ps[Len(us) + 1] = fs /\ ms[Len(us) + 1] = n
  <1> DEFINE m == Len(us)
  <1>1. /\ us \in Seq(Seq(Units)) /\ os \in Seq(Seq(Frames)) /\ ns \in Seq(Nat) /\ m \in Nat
        /\ Len(os) = m /\ Len(ns) = m
        /\ \A j \in 1..m : FileIs(us[j], os[j], ns[j], l)
        /\ u \in Seq(Units) /\ fs \in Seq(Frames) /\ n \in Nat
    BY DEF FilesAre, FileIs
  <1>2. /\ vs \in Seq(Seq(Units)) /\ Len(vs) = m + 1 /\ vs[m + 1] = u
        /\ \A j \in 1..m : vs[j] = us[j]
    BY <1>1, AppendProperties DEF Added
  <1>3. /\ ps \in Seq(Seq(Frames)) /\ Len(ps) = m + 1 /\ ps[m + 1] = fs
        /\ \A j \in 1..m : ps[j] = os[j]
    BY <1>1, AppendProperties DEF Added
  <1>4. /\ ms \in Seq(Nat) /\ Len(ms) = m + 1 /\ ms[m + 1] = n
        /\ \A j \in 1..m : ms[j] = ns[j]
    BY <1>1, AppendProperties DEF Added
  <1> HIDE DEF m
  <1>5. \A j \in 1..m + 1 : FileIs(vs[j], ps[j], ms[j], l)
    <2> TAKE j \in 1..m + 1
    <2>1. CASE j = m + 1
      BY <1>2, <1>3, <1>4, <2>1
    <2>2. CASE j # m + 1
      <3>1. j \in 1..m
        BY <1>1, <2>2
      <3> QED BY <1>1, <1>2, <1>3, <1>4, <3>1
    <2> QED BY <2>1, <2>2
  <1>6. FilesAre(vs, ps, ms, l)
    BY <1>2, <1>3, <1>4, <1>5 DEF FilesAre
  <1>7. m + 1 \in 1..m + 1
    BY <1>1
  <1> QED BY <1>2, <1>3, <1>4, <1>6, <1>7 DEF m

\* What push puts in the buffer and past it is the frame.
LEMMA PushIs ==
  ASSUME NEW f \in Known, NEW before \in Seq(Units)
  PROVE  LET b == before \o Header(f) \o (IF Size[f] < BufferCap THEN Data(f) ELSE <<>>)
             d == IF Size[f] < BufferCap THEN <<>> ELSE Data(f)
         IN  /\ b \in Seq(Units) /\ d \in Seq(Units) /\ b # <<>>
             /\ b \o d = before \o (Header(f) \o Data(f))
  <1> DEFINE h == Header(f)
             t == Data(f)
  <1>1. h \in Seq(Units) /\ t \in Seq(Units) /\ Len(h) = 2 /\ <<>> \in Seq(Units)
    BY EncodedIs
  <1> HIDE DEF h, t
  <1>2. before \o h \in Seq(Units) /\ before \o h # <<>> /\ (before \o h) \o t \in Seq(Units)
        /\ (before \o h) \o t # <<>>
    <2> DEFINE a == before \o h
    <2>1. a \in Seq(Units) /\ Len(a) = Len(before) + 2
      <3>1. before \in Seq(Units) /\ h \in Seq(Units)
        BY <1>1
      <3>2. a \in Seq(Units)
        BY <3>1
      <3>3. Len(a) = Len(before) + Len(h)
        BY <3>1
      <3> QED BY <1>1, <3>2, <3>3
    <2>2. Len(before) \in Nat
      OBVIOUS
    <2> HIDE DEF a
    <2>3. a # <<>>
      BY <2>1, <2>2
    <2>4. a \o t \in Seq(Units) /\ a \o t # <<>>
      BY <1>1, <2>1, <2>3, ConcatEqualIffEmpty
    <2> QED BY <2>1, <2>3, <2>4 DEF a
  <1>3. (before \o h) \o t = before \o (h \o t)
    <2>1. before \in Seq(Units) /\ h \in Seq(Units) /\ t \in Seq(Units)
      BY <1>1
    <2>2. Joins(before, h, t)
      BY <2>1, JoinUnits
    <2> QED BY <2>2, Zenon DEF Joins
  <1>4. CASE Size[f] < BufferCap
    <2>1. ((before \o h) \o t) \o <<>> = (before \o h) \o t
      BY <1>2, ConcatEmptySeq
    <2> QED BY <1>1, <1>2, <1>3, <1>4, <2>1 DEF h, t
  <1>5. CASE ~(Size[f] < BufferCap)
    <2>1. (before \o h) \o <<>> = before \o h
      BY <1>2, ConcatEmptySeq
    <2> QED BY <1>1, <1>2, <1>3, <1>5, <2>1 DEF h, t
  <1> QED BY <1>4, <1>5

\* A file with the recorder that writes it.
LEMMA HeldIsImage ==
  ASSUME NEW fs \in Seq(Frames), NEW u \in Seq(Units), NEW b \in Seq(Units), NEW d \in Seq(Units),
         NEW n, Holds(u, fs, n, b, d)
  PROVE  fs \in Seq(Known) /\ IsImage(u, fs) /\ n \in Nat /\ n <= Len(fs)
  <1>1. fs \in Seq(Known)
    BY KnownAre, SeqMonotonic
  <1>2. b \o d \in Seq(Units)
    OBVIOUS
  <1>3. IsImage(u, fs)
    BY <1>1, <1>2, WrittenIsImage DEF Holds
  <1>4. n \in Nat /\ n <= Len(fs)
    <2>1. Len(fs) \in Nat /\ Len(fs) > 0
      BY DEF Holds
    <2>2. n = Len(fs) - 1 \/ n = Len(fs)
      BY DEF Holds
    <2> QED BY <2>1, <2>2
  <1> QED BY <1>1, <1>3, <1>4

\* With nothing held, a file is complete.
LEMMA NothingHeld ==
  ASSUME NEW u \in Seq(Units), NEW fs, NEW n, Holds(u, fs, n, <<>>, <<>>)
  PROVE  WholeImage(u, fs) /\ n = Len(fs) /\ fs # <<>>
  <1>1. u \o (<<>> \o <<>>) = u
    BY ConcatEmptySeq
  <1> QED BY <1>1 DEF Holds
-----------------------------------------------------------------------------
(* The steps. *)

RecordingSpec == RecordingInit /\ [][RecordingNext]_recordingVars

\* A file nothing was accepted to.
LEMMA FileOfNothing ==
  ASSUME NEW gs \in Seq(Known), NEW u, IsImage(u, gs), NEW l,
         NEW fs \in Seq(Frames), fs # <<>> => IsImage(u, fs) /\ Fits(fs)
  PROVE  FileIs(u, fs, 0, l)
  <1>1. Len(fs) \in Nat /\ 0 <= Len(fs) /\ ~(0 > 0) /\ 0 \in Nat
    OBVIOUS
  <1> QED BY <1>1 DEF FileIs, IsImage

\* One frame after a complete file.
LEMMA FrameAfter ==
  ASSUME NEW u \in Seq(Units), NEW fs \in Seq(Frames), WholeImage(u, fs),
         fs # <<>> => Fits(fs), NEW f \in Frames, Size[f] <= MaxFrame
  PROVE  /\ Append(fs, f) \in Seq(Frames) /\ Append(fs, f) # <<>> /\ Fits(Append(fs, f))
         /\ Len(Append(fs, f)) = Len(fs) + 1
         /\ WholeImage(u \o (Header(f) \o Data(f)), Append(fs, f)) /\ IsImage(u, Append(fs, f))
         /\ \A n \in 0..Len(fs) : EndOf(Append(fs, f), n) = EndOf(fs, n)
  <1> DEFINE gs == Append(fs, f)
  <1>1. fs \in Seq(Known) /\ f \in Known
    BY KnownAre, SeqMonotonic
  <1>2. /\ WholeImage(u \o (Header(f) \o Data(f)), gs) /\ IsImage(u, gs)
        /\ \A n \in 0..Len(fs) : EndOf(gs, n) = EndOf(fs, n)
    BY <1>1, CompleteMore
  <1>3. /\ gs \in Seq(Frames) /\ gs # <<>> /\ Len(gs) = Len(fs) + 1 /\ gs[Len(fs) + 1] = f
        /\ \A m \in 1..Len(fs) : gs[m] = fs[m]
    BY AppendProperties
  <1> HIDE DEF gs
  <1>4. ASSUME NEW m \in 1..Len(gs) PROVE Size[gs[m]] <= MaxFrame
    <2>1. CASE m = Len(fs) + 1
      BY <1>3, <2>1
    <2>2. CASE m # Len(fs) + 1
      <3>1. m \in 1..Len(fs) /\ fs # <<>>
        BY <1>3, <2>2
      <3> QED BY <1>3, <3>1 DEF Fits
    <2> QED BY <2>1, <2>2
  <1>5. Fits(gs)
    BY <1>3, <1>4 DEF Fits
  <1> QED BY <1>2, <1>3, <1>5 DEF gs

LEMMA RecordingStarts == RecordingInit => RecordingInv
  <1> SUFFICES ASSUME RecordingInit PROVE RecordingInv
    OBVIOUS
  <1>1. PICK us \in {<<>>} \cup {<< <<Magic>> \o Header(f) \o Data(f) >> : f \in Newer} :
          /\ files = us /\ offered = [k \in DOMAIN us |-> <<>>]
          /\ accepted = [k \in DOMAIN us |-> 0]
    BY DEF RecordingInit
  <1>2. FilesAre(us, [k \in DOMAIN us |-> <<>>], [k \in DOMAIN us |-> 0], lost)
    <2>1. CASE us = <<>>
      <3>1. /\ us \in Seq(Seq(Units)) /\ Len(us) = 0
            /\ [k \in DOMAIN us |-> <<>>] = <<>> /\ [k \in DOMAIN us |-> 0] = <<>>
        BY <2>1
      <3> QED BY <3>1 DEF FilesAre
    <2>2. ASSUME NEW f \in Newer, us = << <<Magic>> \o Header(f) \o Data(f) >>
          PROVE  FilesAre(us, [k \in DOMAIN us |-> <<>>], [k \in DOMAIN us |-> 0], lost)
      <3> DEFINE h == Header(f)
                 d == Data(f)
                 m == <<Magic>>
                 u == m \o h \o d
      <3>1. f \in Known
        BY RecordingAssumption DEF Known
      <3>2. m \in Seq(Units) /\ h \in Seq(Units) /\ d \in Seq(Units)
        BY <3>1, EncodedIs
      <3>3. u = m \o (h \o d)
        <4> HIDE DEF m, h, d
        <4>1. Joins(m, h, d)
          BY <3>2, JoinUnits
        <4> QED BY <4>1, Zenon DEF Joins
      <3>4. WholeImage(m, <<>>) /\ <<>> \in Seq(Known) /\ Append(<<>>, f) \in Seq(Known)
        BY <3>1, MagicIsComplete
      <3>5. WholeImage(u, Append(<<>>, f))
        BY <3>1, <3>3, <3>4, CompleteMore
      <3> HIDE DEF u
      <3>6. IsImage(u, Append(<<>>, f))
        BY <3>5 DEF WholeImage
      <3>7. FileIs(u, <<>>, 0, lost) /\ u \in Seq(Units)
        <4>1. <<>> \in Seq(Frames)
          OBVIOUS
        <4> QED BY <3>4, <3>6, <4>1, FileOfNothing DEF FileIs
      <3>8. us = <<u>>
        BY <2>2 DEF u
      <3>9. /\ us \in Seq(Seq(Units)) /\ Len(us) = 1 /\ us[1] = u /\ DOMAIN us = {1}
        BY <3>7, <3>8
      <3> DEFINE os == [k \in DOMAIN us |-> <<>>]
                 ns == [k \in DOMAIN us |-> 0]
      <3>10. os = << <<>> >> /\ ns = <<0>>
        BY <3>9
      <3> HIDE DEF os, ns
      <3>11. /\ os \in Seq(Seq(Frames)) /\ Len(os) = 1 /\ os[1] = <<>>
             /\ ns \in Seq(Nat) /\ Len(ns) = 1 /\ ns[1] = 0
        BY <3>10
      <3>12. \A k \in 1..1 : k = 1
        OBVIOUS
      <3>13. \A k \in 1..Len(us) : FileIs(us[k], os[k], ns[k], lost)
        BY <3>7, <3>9, <3>11, <3>12
      <3>14. FilesAre(us, os, ns, lost)
        BY <3>9, <3>11, <3>13 DEF FilesAre
      <3> QED BY <3>14 DEF os, ns
    <2> QED BY <1>1, <2>1, <2>2
  <1>3. RecorderIs(recording, buffer, direct, files, offered, accepted)
    BY DEF RecordingInit, RecorderIs
  <1>4. shown \in Frames \cup {0} /\ replay \in Seq(Frames)
    BY DEF RecordingInit
  <1> QED BY <1>1, <1>2, <1>3, <1>4 DEF RecordingInv

LEMMA StartRecordingKeeps ==
  ASSUME RecordingInv, StartRecording
  PROVE  RecordingInv'
  <1>0. /\ FilesAre(files, offered, accepted, lost) /\ lost' = lost
        /\ recording = None /\ buffer = <<>> /\ direct = <<>>
        /\ shown \in Frames /\ shown' = shown /\ replay' = replay /\ replay \in Seq(Frames)
    BY DEF RecordingInv, StartRecording, Pushing, RecorderIs
  <1>1. <<>> \in Seq(Known) /\ <<>> \in Seq(Frames) /\ WholeImage(<<Magic>>, <<>>)
        /\ IsImage(<<Magic>>, <<>>) /\ <<Magic>> \in Seq(Units) /\ IsImage(<<>>, <<>>)
    BY MagicIsComplete DEF WholeImage, IsImage
  <1>2. CASE Size[shown] > MaxFrame
    <2>1. /\ files' = Append(files, <<Magic>>) /\ offered' = Append(offered, <<>>)
          /\ accepted' = Append(accepted, 0)
          /\ recording' = recording /\ buffer' = buffer /\ direct' = direct
      BY <1>2 DEF StartRecording
    <2>2. FileIs(<<Magic>>, <<>>, 0, lost)
      BY <1>1, FileOfNothing
    <2>3. FilesAre(files', offered', accepted', lost')
      <3>1. Added(files, offered, accepted, <<Magic>>, <<>>, 0, files', offered', accepted')
        BY <2>1 DEF Added
      <3> QED BY <1>0, <2>2, <3>1, FileAdded
    <2>4. RecorderIs(recording', buffer', direct', files', offered', accepted')
      BY <1>0, <2>1 DEF RecorderIs
    <2> QED BY <1>0, <2>3, <2>4 DEF RecordingInv
  <1>3. CASE ~(Size[shown] > MaxFrame)
    <2> DEFINE k == Len(files) + 1
               fs == Append(<<>>, shown)
    <2>1. /\ files' = Append(files, <<>>) /\ offered' = Append(offered, <<shown>>)
          /\ accepted' = Append(accepted, 0)
          /\ recording' = [file |-> k, count |-> 0]
          /\ Push(k, shown, <<Magic>>)
      BY <1>3 DEF StartRecording
    <2>2. shown \in Known /\ Size[shown] <= MaxFrame /\ fs = <<shown>>
      BY <1>0, <1>3, KnownAre
    <2>3. /\ fs \in Seq(Frames) /\ fs # <<>> /\ Fits(fs) /\ Len(fs) = 1
          /\ WholeImage(<<Magic>> \o (Header(shown) \o Data(shown)), fs)
      <3>1. Len(<<>>) + 1 = 1
        OBVIOUS
      <3> QED BY <1>0, <1>1, <2>2, <3>1, FrameAfter
    <2>4. /\ buffer' \in Seq(Units) /\ direct' \in Seq(Units) /\ buffer' # <<>>
          /\ buffer' \o direct' = <<Magic>> \o (Header(shown) \o Data(shown))
      BY <1>1, <2>1, <2>2, PushIs DEF Push
    <2> DEFINE b == buffer'
               d == direct'
    <2> HIDE DEF fs, b, d
    <2>5. <<>> \o (b \o d) = b \o d
      <3>1. b \in Seq(Units) /\ d \in Seq(Units)
        BY <2>4 DEF b, d
      <3>2. b \o d \in Seq(Units)
        BY <3>1
      <3> QED BY <3>2, ConcatEmptySeq
    <2>6. Holds(<<>>, fs, 0, b, d)
      <3>1. b # <<>> /\ b \o d = <<Magic>> \o (Header(shown) \o Data(shown))
        BY <2>4 DEF b, d
      <3>2. 0 = Len(fs) - 1
        BY <2>3
      <3> QED BY <2>3, <2>5, <3>1, <3>2 DEF Holds
    <2>7. IsImage(<<>>, fs)
      <3>1. b \in Seq(Units) /\ d \in Seq(Units) /\ <<>> \in Seq(Units)
        BY <2>4 DEF b, d
      <3> QED BY <2>3, <2>6, <3>1, HeldIsImage
    <2>8. FileIs(<<>>, fs, 0, lost)
      BY <1>1, <2>3, <2>7, FileOfNothing
    <2>9. /\ FilesAre(files', offered', accepted', lost') /\ k \in 1..Len(files')
          /\ files'[k] = <<>> /\ offered'[k] = fs /\ accepted'[k] = 0
      <3>1. Added(files, offered, accepted, <<>>, fs, 0, files', offered', accepted')
        BY <2>1, <2>2 DEF Added
      <3> QED BY <1>0, <2>8, <3>1, FileAdded
    <2> HIDE DEF k
    <2>10. recording' = [file |-> recording'.file, count |-> recording'.count] /\ recording'.file = k
      BY <2>1
    <2>11. RecorderIs(recording', buffer', direct', files', offered', accepted')
      BY <2>4, <2>6, <2>9, <2>10 DEF RecorderIs, b, d
    <2> QED BY <1>0, <2>9, <2>11 DEF RecordingInv
  <1> QED BY <1>2, <1>3

LEMMA UpdateKeeps ==
  ASSUME RecordingInv, Update
  PROVE  RecordingInv'
  <1> DEFINE k == recording.file
  <1>0. /\ FilesAre(files, offered, accepted, lost) /\ lost' = lost /\ files' = files
        /\ accepted' = accepted /\ buffer = <<>> /\ direct = <<>>
        /\ replay' = replay /\ replay \in Seq(Frames) /\ shown' \in Frames \cup {0}
        /\ recording # None =>
             /\ recording = [file |-> recording.file, count |-> recording.count] /\ k \in 1..Len(files)
             /\ Holds(files[k], offered[k], accepted[k], <<>>, <<>>)
    BY DEF RecordingInv, Update, Pushing, RecorderIs
  <1>1. PICK f \in Frames :
          CASE recording = None -> UNCHANGED <<recording, buffer, direct, offered>>
            [] recording # None /\ Size[f] > MaxFrame ->
                 recording' = None /\ UNCHANGED <<buffer, direct, offered>>
            [] OTHER -> /\ Push(recording.file, f, <<>>)
                        /\ offered' = [offered EXCEPT ![recording.file] = Append(@, f)]
                        /\ UNCHANGED recording
    BY DEF Update
  <1>2. CASE recording = None
    <2>1. UNCHANGED <<recording, buffer, direct, offered>>
      BY <1>1, <1>2
    <2> QED BY <1>0, <1>2, <2>1 DEF RecordingInv, RecorderIs
  <1>3. CASE recording # None /\ Size[f] > MaxFrame
    <2>1. recording' = None /\ UNCHANGED <<buffer, direct, offered>>
      BY <1>1, <1>3
    <2> QED BY <1>0, <2>1 DEF RecordingInv, RecorderIs
  <1>4. CASE recording # None /\ ~(Size[f] > MaxFrame)
    <2>1. /\ Push(k, f, <<>>) /\ recording' = recording
          /\ offered' = [offered EXCEPT ![k] = Append(@, f)]
      BY <1>1, <1>4
    <2> DEFINE u == files[k]
               fs == offered[k]
               n == accepted[k]
               gs == Append(fs, f)
    <2>2. /\ k \in 1..Len(files) /\ FileIs(u, fs, n, lost) /\ Holds(u, fs, n, <<>>, <<>>)
          /\ files \in Seq(Seq(Units)) /\ offered \in Seq(Seq(Frames)) /\ accepted \in Seq(Nat)
          /\ Len(offered) = Len(files) /\ Len(accepted) = Len(files)
      BY <1>0, <1>4 DEF FilesAre
    <2>3. u \in Seq(Units) /\ fs \in Seq(Frames) /\ n \in Nat
          /\ (fs # <<>> => Fits(fs)) /\ (~lost /\ n > 0 => Len(u) >= EndOf(fs, n))
          /\ \E hs \in Seq(Known) : IsImage(u, hs)
      BY <2>2 DEF FileIs
    <2>4. files' = [files EXCEPT ![k] = u] /\ accepted' = [accepted EXCEPT ![k] = n]
          /\ offered' = [offered EXCEPT ![k] = gs]
      BY <1>0, <2>1, <2>2
    <2>5. WholeImage(u, fs) /\ n = Len(fs)
      <3> HIDE DEF u, fs, n
      <3> QED BY <2>2, <2>3, NothingHeld
    <2>6. f \in Known /\ Size[f] <= MaxFrame
      BY <1>4, KnownAre
    <2>7. /\ gs \in Seq(Frames) /\ gs # <<>> /\ Fits(gs) /\ Len(gs) = Len(fs) + 1
          /\ WholeImage(u \o (Header(f) \o Data(f)), gs) /\ IsImage(u, gs)
          /\ \A i \in 0..Len(fs) : EndOf(gs, i) = EndOf(fs, i)
      <3> HIDE DEF u, fs, n
      <3> QED BY <2>3, <2>5, <2>6, FrameAfter
    <2>8. /\ buffer' \in Seq(Units) /\ direct' \in Seq(Units) /\ buffer' # <<>>
          /\ buffer' \o direct' = Header(f) \o Data(f)
      <3>1. /\ buffer' \in Seq(Units) /\ direct' \in Seq(Units) /\ buffer' # <<>>
            /\ buffer' \o direct' = <<>> \o (Header(f) \o Data(f))
        <4>1. <<>> \in Seq(Units)
          OBVIOUS
        <4> QED BY <2>1, <2>6, <4>1, PushIs DEF Push
      <3>2. Header(f) \o Data(f) \in Seq(Units)
        BY <2>6, EncodedIs
      <3> QED BY <3>1, <3>2, ConcatEmptySeq
    <2> HIDE DEF gs
    <2>9. n = Len(gs) - 1 /\ n <= Len(gs) /\ EndOf(gs, n) = EndOf(fs, n)
      <3>1. n \in 0..Len(fs) /\ Len(fs) \in Nat
        BY <2>3, <2>5
      <3> HIDE DEF n, fs
      <3> QED BY <2>5, <2>7, <3>1
    <2>10. Holds(u, gs, n, buffer', direct')
      BY <2>7, <2>8, <2>9 DEF Holds
    <2>11. FileIs(u, gs, n, lost)
      BY <2>3, <2>7, <2>9 DEF FileIs
    <2> HIDE DEF u, fs, n
    <2>12. /\ FilesAre(files', offered', accepted', lost') /\ Len(files') = Len(files)
           /\ files'[k] = u /\ offered'[k] = gs /\ accepted'[k] = n
      <3> HIDE DEF k
      <3>1. Put(files, offered, accepted, k, u, gs, n, files', offered', accepted')
        BY <2>4 DEF Put
      <3> QED BY <1>0, <2>2, <2>11, <3>1, FilePut
    <2>13. recording' = [file |-> recording'.file, count |-> recording'.count]
           /\ recording'.file = k /\ k \in 1..Len(files')
      BY <1>0, <1>4, <2>1, <2>12
    <2>14. RecorderIs(recording', buffer', direct', files', offered', accepted')
      BY <2>8, <2>10, <2>12, <2>13 DEF RecorderIs
    <2> QED BY <1>0, <2>12, <2>14 DEF RecordingInv
  <1> QED BY <1>2, <1>3, <1>4

\* What a write leaves of what is held.
WriteOf(u, b, d, v, c, e) ==
  \/ \E i \in 1..Len(b) : v = u \o SubSeq(b, 1, i) /\ c = SubSeq(b, i + 1, Len(b)) /\ e = d
  \/ \E i \in 1..Len(d) : /\ b = <<>> /\ c = <<>>
                          /\ v = u \o SubSeq(d, 1, i) /\ e = SubSeq(d, i + 1, Len(d))

LEMMA WriteOfKeeps ==
  ASSUME NEW u \in Seq(Units), NEW b \in Seq(Units), NEW d \in Seq(Units),
         NEW v, NEW c, NEW e, WriteOf(u, b, d, v, c, e)
  PROVE  /\ v \in Seq(Units) /\ c \in Seq(Units) /\ e \in Seq(Units)
         /\ v \o (c \o e) = u \o (b \o d) /\ Len(v) >= Len(u)
  <1>1. ASSUME NEW i \in 1..Len(b),
               v = u \o SubSeq(b, 1, i), c = SubSeq(b, i + 1, Len(b)), e = d
        PROVE  /\ v \in Seq(Units) /\ c \in Seq(Units) /\ e \in Seq(Units)
               /\ v \o (c \o e) = u \o (b \o d) /\ Len(v) >= Len(u)
    <2>1. i \in 0..Len(b)
      OBVIOUS
    <2>2. Splits(u, b, d, i)
      BY <2>1, SplitKeeps
    <2> QED BY <1>1, <2>2, Zenon DEF Splits
  <1>2. ASSUME NEW i \in 1..Len(d), b = <<>>, c = <<>>,
               v = u \o SubSeq(d, 1, i), e = SubSeq(d, i + 1, Len(d))
        PROVE  /\ v \in Seq(Units) /\ c \in Seq(Units) /\ e \in Seq(Units)
               /\ v \o (c \o e) = u \o (b \o d) /\ Len(v) >= Len(u)
    <2>1. i \in 0..Len(d) /\ <<>> \in Seq(Units)
      OBVIOUS
    <2>2. Splits(u, d, <<>>, i)
      BY <2>1, SplitKeeps
    <2>3. v \in Seq(Units) /\ c \in Seq(Units) /\ e \in Seq(Units) /\ Len(v) >= Len(u)
      BY <1>2, <2>1, <2>2, Zenon DEF Splits
    <2>4. c \o e = e /\ e \o <<>> = e /\ b \o d = d /\ d \o <<>> = d
      BY <1>2, <2>3, ConcatEmptySeq
    <2>5. v \o (e \o <<>>) = u \o (d \o <<>>)
      BY <1>2, <2>2, Zenon DEF Splits
    <2> QED BY <2>3, <2>4, <2>5
  <1> QED BY <1>1, <1>2 DEF WriteOf

\* A file and its recorder across a write, of which some is kept or all is done.
LEMMA HoldsAfterWrite ==
  ASSUME NEW u \in Seq(Units), NEW b \in Seq(Units), NEW d \in Seq(Units),
         NEW v, NEW c, NEW e, WriteOf(u, b, d, v, c, e),
         NEW fs, NEW n, NEW l, FileIs(u, fs, n, l), Holds(u, fs, n, b, d),
         b # <<>> \/ d # <<>>
  PROVE  LET m == IF c = <<>> /\ e = <<>> THEN n + 1 ELSE n
         IN  FileIs(v, fs, m, l) /\ Holds(v, fs, m, c, e)
  <1> DEFINE m == IF c = <<>> /\ e = <<>> THEN n + 1 ELSE n
  <1>1. /\ v \in Seq(Units) /\ c \in Seq(Units) /\ e \in Seq(Units)
        /\ v \o (c \o e) = u \o (b \o d) /\ Len(v) >= Len(u)
    BY WriteOfKeeps
  <1>2. fs \in Seq(Frames) /\ n \in Nat /\ Fits(fs) /\ fs # <<>> /\ n = Len(fs) - 1
        /\ Len(fs) \in Nat /\ (~l /\ n > 0 => Len(u) >= EndOf(fs, n))
    BY DEF FileIs, Holds
  <1>3. m = IF c # <<>> \/ e # <<>> THEN Len(fs) - 1 ELSE Len(fs)
    <2>1. CASE c = <<>> /\ e = <<>>
      BY <1>2, <2>1
    <2>2. CASE ~(c = <<>> /\ e = <<>>)
      BY <1>2, <2>2
    <2> QED BY <2>1, <2>2
  <1>4. Holds(v, fs, m, c, e)
    <2>1. WholeImage(v \o (c \o e), fs)
      BY <1>1 DEF Holds
    <2> HIDE DEF m
    <2> QED BY <1>2, <1>3, <2>1 DEF Holds
  <1>5. fs \in Seq(Known) /\ IsImage(v, fs) /\ m \in Nat /\ m <= Len(fs)
    <2> HIDE DEF m
    <2> QED BY <1>1, <1>2, <1>4, HeldIsImage
  <1>6. ~l /\ m > 0 => Len(v) >= EndOf(fs, m)
    <2>1. CASE c = <<>> /\ e = <<>>
      <3>1. m = Len(fs)
        BY <1>3, <2>1
      <3>2. v \o (c \o e) = v
        BY <1>1, <2>1, ConcatEmptySeq
      <3>3. Len(v) = EndOf(fs, Len(fs))
        BY <1>4, <3>2 DEF Holds, WholeImage
      <3>4. Len(v) \in Nat
        BY <1>1
      <3> HIDE DEF m
      <3> QED BY <3>1, <3>3, <3>4
    <2>2. CASE ~(c = <<>> /\ e = <<>>)
      <3>1. m = n
        BY <2>2
      <3>2. EndOf(fs, n) \in Nat /\ Len(u) \in Nat /\ Len(v) \in Nat
        <4>1. n \in 0..Len(fs)
          BY <1>2
        <4> QED BY <1>1, <1>5, <4>1, EndOfIs
      <3> HIDE DEF m
      <3> QED BY <1>1, <1>2, <3>1, <3>2
    <2> QED BY <2>1, <2>2
  <1> HIDE DEF m
  <1>7. FileIs(v, fs, m, l)
    BY <1>1, <1>2, <1>5, <1>6 DEF FileIs
  <1> QED BY <1>4, <1>7 DEF m

LEMMA WriteKeeps ==
  ASSUME RecordingInv, Write
  PROVE  RecordingInv'
  <1> DEFINE k == recording.file
             u == files[k]
             fs == offered[k]
             n == accepted[k]
             v == files'[k]
             m == IF buffer' = <<>> /\ direct' = <<>> THEN n + 1 ELSE n
  <1>0. /\ FilesAre(files, offered, accepted, lost) /\ lost' = lost /\ offered' = offered
        /\ buffer # <<>> \/ direct # <<>>
        /\ buffer \in Seq(Units) /\ direct \in Seq(Units)
        /\ recording = [file |-> recording.file, count |-> recording.count]
        /\ k \in 1..Len(files) /\ Holds(u, fs, n, buffer, direct)
        /\ shown' = shown /\ replay' = replay
        /\ shown \in Frames \cup {0} /\ replay \in Seq(Frames)
    BY DEF RecordingInv, Write, Pushing, RecorderIs
  <1>1. /\ FileIs(u, fs, n, lost) /\ u \in Seq(Units)
        /\ files \in Seq(Seq(Units)) /\ offered \in Seq(Seq(Frames)) /\ accepted \in Seq(Nat)
        /\ Len(offered) = Len(files) /\ Len(accepted) = Len(files)
    BY <1>0 DEF FilesAre
  <1>2. WriteOf(u, buffer, direct, v, buffer', direct') /\ files' = [files EXCEPT ![k] = v]
    <2>1. WriteSome
      BY DEF Write
    <2>2. ASSUME NEW i \in 1..Len(buffer), Written(buffer, i),
                 buffer' = SubSeq(buffer, i + 1, Len(buffer)), direct' = direct
          PROVE  WriteOf(u, buffer, direct, v, buffer', direct') /\ files' = [files EXCEPT ![k] = v]
      <3>1. files' = [files EXCEPT ![k] = @ \o SubSeq(buffer, 1, i)]
        BY <2>2 DEF Written
      <3>2. v = u \o SubSeq(buffer, 1, i)
        <4> DEFINE w == u \o SubSeq(buffer, 1, i)
        <4>1. files' = [files EXCEPT ![k] = w]
          BY <3>1
        <4>2. k \in DOMAIN files
          BY <1>0, <1>1
        <4> HIDE DEF w, k
        <4>3. files'[k] = w
          BY <4>1, <4>2
        <4> QED BY <4>3 DEF w
      <3> QED BY <2>2, <3>1, <3>2 DEF WriteOf
    <2>3. ASSUME buffer = <<>>, NEW i \in 1..Len(direct), Written(direct, i),
                 direct' = SubSeq(direct, i + 1, Len(direct)), buffer' = buffer
          PROVE  WriteOf(u, buffer, direct, v, buffer', direct') /\ files' = [files EXCEPT ![k] = v]
      <3>1. files' = [files EXCEPT ![k] = @ \o SubSeq(direct, 1, i)]
        BY <2>3 DEF Written
      <3>2. v = u \o SubSeq(direct, 1, i)
        <4> DEFINE w == u \o SubSeq(direct, 1, i)
        <4>1. files' = [files EXCEPT ![k] = w]
          BY <3>1
        <4>2. k \in DOMAIN files
          BY <1>0, <1>1
        <4> HIDE DEF w, k
        <4>3. files'[k] = w
          BY <4>1, <4>2
        <4> QED BY <4>3 DEF w
      <3> QED BY <2>3, <3>1, <3>2 DEF WriteOf
    <2> QED BY <2>1, <2>2, <2>3 DEF WriteSome
  <1>3. /\ accepted' = [accepted EXCEPT ![k] = m]
        /\ recording' = [file |-> recording'.file, count |-> recording'.count] /\ recording'.file = k
    <2>1. CASE buffer' = <<>> /\ direct' = <<>>
      <3>1. /\ recording' = [recording EXCEPT !.count = @ + 1]
            /\ accepted' = [accepted EXCEPT ![k] = @ + 1]
        BY <2>1 DEF Write
      <3>2. recording' = [file |-> recording.file, count |-> recording.count + 1]
        BY <1>0, <3>1
      <3>3. accepted' = [accepted EXCEPT ![k] = n + 1]
        BY <3>1
      <3> QED BY <2>1, <3>2, <3>3
    <2>2. CASE ~(buffer' = <<>> /\ direct' = <<>>)
      <3>1. recording' = recording /\ accepted' = accepted
        BY <2>2 DEF Write
      <3>2. accepted = [accepted EXCEPT ![k] = n]
        BY <1>0, <1>1
      <3> QED BY <1>0, <2>2, <3>1, <3>2
    <2> QED BY <2>1, <2>2
  <1> DEFINE b == buffer'
             d == direct'
  <1>4. b \in Seq(Units) /\ d \in Seq(Units) /\ v \in Seq(Units)
    <2> HIDE DEF u, v, b, d
    <2>1. WriteOf(u, buffer, direct, v, b, d)
      BY <1>2 DEF b, d
    <2> QED BY <1>0, <1>1, <2>1, WriteOfKeeps
  <1>5. FileIs(v, fs, m, lost) /\ Holds(v, fs, m, b, d)
    <2>1. WriteOf(u, buffer, direct, v, b, d)
      BY <1>2
    <2>2. m = IF b = <<>> /\ d = <<>> THEN n + 1 ELSE n
      OBVIOUS
    <2> HIDE DEF u, v, b, d, m, fs, n
    <2> QED BY <1>0, <1>1, <2>1, <2>2, HoldsAfterWrite
  <1>6. offered' = [offered EXCEPT ![k] = fs]
    BY <1>0, <1>1
  <1>7. Put(files, offered, accepted, k, v, fs, m, files', offered', accepted')
    BY <1>2, <1>3, <1>6 DEF Put
  <1> HIDE DEF m, fs, v
  <1>8. /\ FilesAre(files', offered', accepted', lost') /\ Len(files') = Len(files)
        /\ files'[k] = v /\ offered'[k] = fs /\ accepted'[k] = m
    <2> HIDE DEF k
    <2> QED BY <1>0, <1>5, <1>7, FilePut
  <1>9. RecorderIs(recording', buffer', direct', files', offered', accepted')
    BY <1>0, <1>3, <1>4, <1>5, <1>8 DEF RecorderIs
  <1> QED BY <1>0, <1>8, <1>9 DEF RecordingInv

LEMMA WriteFailsKeeps ==
  ASSUME RecordingInv, WriteFails
  PROVE  RecordingInv'
  <1> DEFINE k == recording.file
             u == files[k]
             fs == offered[k]
             n == accepted[k]
  <1>0. /\ FilesAre(files, offered, accepted, lost) /\ lost' = lost
        /\ offered' = offered /\ accepted' = accepted
        /\ buffer \in Seq(Units) /\ direct \in Seq(Units)
        /\ k \in 1..Len(files) /\ Holds(u, fs, n, buffer, direct)
        /\ shown' = shown /\ replay' = replay
        /\ shown \in Frames \cup {0} /\ replay \in Seq(Frames)
        /\ recording' = None /\ buffer' = <<>> /\ direct' = <<>>
    BY DEF RecordingInv, WriteFails, Pushing, RecorderIs
  <1>1. /\ FileIs(u, fs, n, lost) /\ u \in Seq(Units) /\ fs \in Seq(Frames)
        /\ files \in Seq(Seq(Units)) /\ offered \in Seq(Seq(Frames)) /\ accepted \in Seq(Nat)
        /\ Len(offered) = Len(files) /\ Len(accepted) = Len(files)
    BY <1>0 DEF FilesAre, FileIs
  <1>2. PICK i \in 0..Len(buffer) : Written(buffer, i)
    BY DEF WriteFails
  <1> DEFINE v == u \o SubSeq(buffer, 1, i)
             c == SubSeq(buffer, i + 1, Len(buffer))
  <1>3. /\ v \in Seq(Units) /\ c \in Seq(Units) /\ Len(v) >= Len(u)
        /\ v \o (c \o direct) = u \o (buffer \o direct)
    <2> HIDE DEF u
    <2>1. Splits(u, buffer, direct, i)
      BY <1>0, <1>1, SplitKeeps
    <2> QED BY <2>1, Zenon DEF Splits
  <1>4. files' = [files EXCEPT ![k] = v]
    BY <1>2 DEF Written
  <1> HIDE DEF v, c
  <1>5. IsImage(v, fs) /\ fs \in Seq(Known)
    <2> HIDE DEF u, fs, n
    <2>1. fs \in Seq(Known) /\ c \o direct \in Seq(Units)
      <3>1. fs \in Seq(Known)
        BY <1>1, KnownAre, SeqMonotonic
      <3> QED BY <1>0, <1>3, <3>1
    <2>2. WholeImage(v \o (c \o direct), fs)
      BY <1>0, <1>3 DEF Holds
    <2> QED BY <1>3, <2>1, <2>2, WrittenIsImage
  <1>6. FileIs(v, fs, n, lost)
    <2> HIDE DEF u, fs, n, k
    <2>1. n \in Nat /\ n <= Len(fs) /\ fs # <<>> /\ Fits(fs)
          /\ (~lost /\ n > 0 => Len(u) >= EndOf(fs, n))
      BY <1>0, <1>1 DEF FileIs, Holds
    <2>2. ~lost /\ n > 0 => Len(v) >= EndOf(fs, n)
      <3>1. n \in 0..Len(fs)
        BY <1>5, <2>1
      <3>2. EndOf(fs, n) \in Nat
        BY <1>5, <3>1, EndOfIs
      <3>3. Len(u) \in Nat /\ Len(v) \in Nat
        BY <1>1, <1>3
      <3> QED BY <1>3, <2>1, <3>2, <3>3
    <2> QED BY <1>1, <1>3, <1>5, <2>1, <2>2 DEF FileIs
  <1>7. offered' = [offered EXCEPT ![k] = fs] /\ accepted' = [accepted EXCEPT ![k] = n]
    BY <1>0, <1>1
  <1>8. Put(files, offered, accepted, k, v, fs, n, files', offered', accepted')
    BY <1>4, <1>7 DEF Put
  <1>9. FilesAre(files', offered', accepted', lost')
    <2> HIDE DEF k, fs, n
    <2> QED BY <1>0, <1>6, <1>8, FilePut
  <1>10. RecorderIs(recording', buffer', direct', files', offered', accepted')
    BY <1>0 DEF RecorderIs
  <1> QED BY <1>0, <1>9, <1>10 DEF RecordingInv

LEMMA ReplayKeeps ==
  ASSUME RecordingInv, NEW k \in DOMAIN files, Replay(k)
  PROVE  RecordingInv'
  <1>0. /\ FilesAre(files, offered, accepted, lost)
        /\ RecorderIs(recording, buffer, direct, files, offered, accepted)
        /\ UNCHANGED <<files, recording, buffer, direct, offered, accepted, lost>>
    BY DEF RecordingInv, Replay
  <1> DEFINE fs == ReadBack(files[k]).frames
  <1>1. fs # <<>> /\ replay' = fs /\ shown' = fs[1]
    BY DEF Replay
  <1>2. fs \in Seq(Frames)
    <2>1. FileIs(files[k], offered[k], accepted[k], lost)
      <3>1. files \in Seq(Seq(Units))
        BY <1>0 DEF FilesAre
      <3>2. k \in 1..Len(files)
        BY <3>1
      <3> QED BY <1>0, <3>2 DEF FilesAre
    <2>2. PICK gs \in Seq(Known) : IsImage(files[k], gs)
      BY <2>1 DEF FileIs
    <2> QED BY <2>2, ImageIsRead
  <1> HIDE DEF fs
  <1>3. replay' \in Seq(Frames) /\ shown' \in Frames \cup {0}
    <2>1. 1 \in 1..Len(fs)
      BY <1>1, <1>2
    <2> QED BY <1>1, <1>2, <2>1
  <1> QED BY <1>0, <1>3 DEF RecordingInv

LEMMA PowerLossKeeps ==
  ASSUME RecordingInv, PowerLoss
  PROVE  RecordingInv'
  <1>0. /\ FilesAre(files, offered, accepted, lost) /\ lost' = TRUE
        /\ recording' = None /\ buffer' = <<>> /\ direct' = <<>>
        /\ shown' = 0 /\ replay' = <<>> /\ offered' = offered /\ accepted' = accepted
    BY DEF RecordingInv, PowerLoss, Restarted
  <1>1. /\ files \in Seq(Seq(Units)) /\ DOMAIN files = 1..Len(files) /\ Len(files) \in Nat
        /\ \A k \in 1..Len(files) : FileIs(files[k], offered[k], accepted[k], lost)
        /\ offered \in Seq(Seq(Frames)) /\ accepted \in Seq(Nat)
        /\ Len(offered) = Len(files) /\ Len(accepted) = Len(files)
    BY <1>0 DEF FilesAre
  <1> DEFINE m == Len(files)
  <1>2. PICK cut :
          /\ \A k \in DOMAIN files : cut[k] \in Nat /\ cut[k] <= Len(files[k])
          /\ files' = [k \in DOMAIN files |-> SubSeq(files[k], 1, cut[k])]
    <2> DEFINE top == Max({Len(files[k]) : k \in DOMAIN files} \cup {0})
    <2>1. PICK cut \in [DOMAIN files -> 0..top] :
             /\ \A k \in DOMAIN files : cut[k] <= Len(files[k])
             /\ files' = [k \in DOMAIN files |-> SubSeq(files[k], 1, cut[k])]
      BY DEF PowerLoss
    <2> HIDE DEF top
    <2>2. \A k \in DOMAIN files : cut[k] \in Nat
      BY <2>1
    <2> QED BY <2>1, <2>2
  <1>3. ASSUME NEW k \in 1..m
        PROVE  files'[k] \in Seq(Units) /\ FileIs(files'[k], offered[k], accepted[k], TRUE)
    <2> DEFINE u == files[k]
               v == SubSeq(u, 1, cut[k])
               fs == offered[k]
    <2>1. files'[k] = v
      BY <1>1, <1>2
    <2>2. FileIs(u, fs, accepted[k], lost)
      BY <1>1
    <2>3. u \in Seq(Units) /\ cut[k] \in 0..Len(u)
      <3>1. u \in Seq(Units)
        BY <2>2 DEF FileIs
      <3>2. Len(u) \in Nat /\ cut[k] \in Nat /\ cut[k] <= Len(u)
        <4>1. k \in DOMAIN files
          BY <1>1, Zenon
        <4>2. cut[k] \in Nat /\ cut[k] <= Len(u)
          BY <1>2, <4>1, Zenon
        <4>3. Len(u) \in Nat
          BY <3>1
        <4> QED BY <4>2, <4>3
      <3> HIDE DEF u
      <3> QED BY <3>1, <3>2
    <2>4. PICK gs \in Seq(Known) : IsImage(u, gs)
      BY <2>2 DEF FileIs
    <2> HIDE DEF u
    <2> DEFINE c == cut[k]
               w == SubSeq(u, 1, c)
    <2> HIDE DEF c
    <2>5. c \in 0..Len(u)
      BY <2>3 DEF c
    <2>6. IsImage(w, gs)
      BY <2>4, <2>5, ImageIsCut
    <2>7. fs # <<>> => IsImage(w, fs) /\ Fits(fs)
      <3> SUFFICES ASSUME fs # <<>> PROVE IsImage(w, fs) /\ Fits(fs)
        OBVIOUS
      <3>1. IsImage(u, fs) /\ Fits(fs) /\ fs \in Seq(Known)
        <4>1. IsImage(u, fs) /\ Fits(fs) /\ fs \in Seq(Frames)
          BY <2>2 DEF FileIs
        <4> QED BY <4>1, KnownAre, SeqMonotonic
      <3> HIDE DEF fs
      <3> QED BY <2>5, <3>1, ImageIsCut
    <2> HIDE DEF w
    <2>8. w \in Seq(Units)
      BY <2>6 DEF IsImage
    <2>9. FileIs(w, fs, accepted[k], TRUE)
      BY <2>2, <2>6, <2>7, <2>8 DEF FileIs
    <2> QED BY <2>1, <2>8, <2>9 DEF w, c
  <1>4. files' \in Seq(Seq(Units)) /\ Len(files') = m
    <2> DEFINE g == files'
    <2>1. g = [k \in 1..m |-> g[k]] /\ \A k \in 1..m : g[k] \in Seq(Units)
      BY <1>1, <1>2, <1>3
    <2>2. m \in Nat
      BY <1>1
    <2> HIDE DEF g, m
    <2>3. g \in [1..m -> Seq(Units)]
      BY <2>1
    <2>4. g \in Seq(Seq(Units)) /\ Len(g) = m
      BY <2>1, <2>2, <2>3
    <2> QED BY <2>4 DEF g
  <1>5. \A k \in 1..Len(files') : FileIs(files'[k], offered'[k], accepted'[k], lost')
    <2> HIDE DEF m
    <2> QED BY <1>0, <1>3, <1>4
  <1>6. FilesAre(files', offered', accepted', lost')
    <2>1. Len(offered') = m /\ Len(accepted') = m
      BY <1>0, <1>1
    <2> QED BY <1>0, <1>1, <1>4, <1>5, <2>1 DEF FilesAre
  <1>7. RecorderIs(recording', buffer', direct', files', offered', accepted')
    BY <1>0 DEF RecorderIs
  <1> QED BY <1>0, <1>6, <1>7 DEF RecordingInv

LEMMA RecordingStep ==
  ASSUME RecordingInv, [RecordingNext]_recordingVars
  PROVE  RecordingInv'
  <1>1. CASE UNCHANGED recordingVars
    BY <1>1 DEF RecordingInv, recordingVars
  <1>2. CASE StopRecording
    <2>1. /\ UNCHANGED <<files, buffer, direct, shown, replay, offered, accepted, lost>>
          /\ recording' = None /\ buffer = <<>> /\ direct = <<>>
      BY <1>2 DEF StopRecording, Pushing
    <2>2. RecorderIs(recording', buffer', direct', files', offered', accepted')
      BY <2>1 DEF RecorderIs
    <2> QED BY <2>1, <2>2 DEF RecordingInv
  <1>3. CASE Seek
    <2>1. /\ UNCHANGED <<files, recording, buffer, direct, replay, offered, accepted, lost>>
          /\ shown' \in ToSet(replay)
      BY <1>3 DEF Seek
    <2>2. replay \in Seq(Frames)
      BY DEF RecordingInv
    <2>3. shown' \in Frames
      BY <2>1, <2>2 DEF ToSet
    <2> QED BY <2>1, <2>3 DEF RecordingInv
  <1>4. CASE Live
    <2>1. /\ UNCHANGED <<files, recording, buffer, direct, shown, offered, accepted, lost>>
          /\ replay' = <<>>
      BY <1>4 DEF Live
    <2>2. replay' \in Seq(Frames)
      BY <2>1
    <2> QED BY <2>1, <2>2 DEF RecordingInv
  <1>5. CASE Crash
    <2>1. /\ UNCHANGED <<files, offered, accepted, lost>> /\ recording' = None
          /\ buffer' = <<>> /\ direct' = <<>> /\ shown' = 0 /\ replay' = <<>>
      BY <1>5 DEF Crash, Restarted
    <2>2. RecorderIs(recording', buffer', direct', files', offered', accepted')
      BY <2>1 DEF RecorderIs
    <2>3. replay' \in Seq(Frames)
      BY <2>1
    <2> QED BY <2>1, <2>2, <2>3 DEF RecordingInv
  <1> QED BY <1>1, <1>2, <1>3, <1>4, <1>5, StartRecordingKeeps, UpdateKeeps, WriteKeeps,
             WriteFailsKeeps, ReplayKeeps, PowerLossKeeps DEF RecordingNext

LEMMA RecordingRecovers == RecordingInv => PrefixIsRecovered
  <1> SUFFICES ASSUME RecordingInv, NEW k \in Ours,
                      files[k] # <<>>, Total(offered[k]) <= MaxReplay
               PROVE  LET r == ReadBack(files[k]) IN
                      /\ r.ok /\ IsPrefix(r.frames, offered[k])
                      /\ ~lost => Len(r.frames) >= accepted[k]
    BY DEF PrefixIsRecovered
  <1> DEFINE u == files[k]
             fs == offered[k]
             n == accepted[k]
             r == ReadBack(u)
  <1>1. FileIs(u, fs, n, lost) /\ fs # <<>>
    <2>1. FilesAre(files, offered, accepted, lost)
      BY DEF RecordingInv
    <2>2. files \in Seq(Seq(Units))
      BY <2>1 DEF FilesAre
    <2>3. k \in 1..Len(files) /\ fs # <<>>
      BY <2>2 DEF Ours
    <2> QED BY <2>1, <2>3 DEF FilesAre
  <1>2. fs \in Seq(Known) /\ IsImage(u, fs) /\ Readable(fs) /\ u # <<>>
    <2>1. fs \in Seq(Frames) /\ IsImage(u, fs) /\ Fits(fs)
      BY <1>1 DEF FileIs
    <2>2. fs \in Seq(Known)
      BY <2>1, KnownAre, SeqMonotonic
    <2> QED BY <2>1, <2>2 DEF Readable
  <1>3. /\ n \in 0..Len(fs) /\ u \in Seq(Units)
        /\ ~lost /\ n > 0 => Len(u) >= EndOf(fs, n)
    BY <1>1 DEF FileIs
  <1> HIDE DEF u, fs, n
  <1>4. /\ r.ok /\ IsPrefix(r.frames, fs) /\ r.frames \in Seq(Frames)
        /\ \A a \in 0..Len(fs) : EndOf(fs, a) <= Len(u) => Len(r.frames) >= a
    BY <1>2, ImageIsRead
  <1> HIDE DEF r
  <1>5. ASSUME ~lost PROVE Len(r.frames) >= n
    <2>1. CASE n = 0
      <3>1. Len(r.frames) \in Nat
        BY <1>4
      <3> QED BY <2>1, <3>1
    <2>2. CASE n # 0
      <3>1. EndOf(fs, n) \in Nat /\ Len(u) \in Nat /\ Len(u) >= EndOf(fs, n)
        <4>1. n > 0
          BY <1>3, <2>2
        <4> QED BY <1>2, <1>3, <1>5, <4>1, EndOfIs
      <3>2. EndOf(fs, n) <= Len(u)
        BY <3>1
      <3> QED BY <1>3, <1>4, <3>2
    <2> QED BY <2>1, <2>2
  <1> QED BY <1>4, <1>5 DEF u, fs, n, r

\* Whatever is offered to recordings, however a write fails and the machine
\* stops, a file of this build whose frames fit a replay is read back as a
\* prefix of what was pushed, with every frame a push answered Ok for unless
\* the power failed (recording.rs, Recorder::push and read).
THEOREM RecordingCorrect == RecordingSpec => []PrefixIsRecovered
  <1>1. RecordingInv /\ [RecordingNext]_recordingVars => RecordingInv'
    BY RecordingStep
  <1> QED BY <1>1, RecordingStarts, RecordingRecovers, PTL DEF RecordingSpec

=============================================================================
