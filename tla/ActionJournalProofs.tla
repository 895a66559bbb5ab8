------------------------ MODULE ActionJournalProofs ------------------------
(***************************************************************************)
(* Theorems about ActionJournal, for any controls, values and bounds.      *)
(***************************************************************************)
EXTENDS ActionJournal, TLAPS

\* The steps between the saved intent and the final save.
CommandPCs == {"identity", "read", "write", "set", "readback", "finish"}

\* The entries of a sequence over S are members of S.
LEMMA EntriesType == ASSUME NEW S, NEW s \in Seq(S) PROVE Entries(s) \subseteq S
  BY DEF Entries

\* An appended entry is the last one and the others stay.
LEMMA AppendedEntries ==
  ASSUME NEW S, NEW s \in Seq(S), NEW e \in S
  PROVE  /\ Append(s, e) \in Seq(S) /\ Append(s, e) # <<>>
         /\ Last(Append(s, e)) = e
         /\ Entries(s) \subseteq Entries(Append(s, e))
  BY DEF Entries, Last

\* Replacing the last entry keeps a sequence's type and makes it the last.
LEMMA ReplacedLast ==
  ASSUME NEW S, NEW s \in Seq(S), s # <<>>, NEW e \in S
  PROVE  /\ [s EXCEPT ![Len(s)] = e] \in Seq(S)
         /\ [s EXCEPT ![Len(s)] = e] # <<>>
         /\ Last([s EXCEPT ![Len(s)] = e]) = e
         /\ Last(s) \in S
  BY DEF Last

\* A command is past its saved intent only with an entry in the journal.
CommandHasEntry == pc \in CommandPCs => journal # <<>>

TypeInv == TypeOK /\ CommandHasEntry

USE DEF host, display, records, command, bounds

\* A new process starts well typed, and outside a command.
LEMMA TypeInit == Init => TypeInv
  <1> SUFFICES ASSUME Init PROVE TypeInv
    OBVIOUS
  <1> USE ConstantsAssumption DEF Init
  <1>1. HostTypes
    BY DEF HostTypes, Nobody
  <1>2. DisplayTypes
    BY Zenon DEF DisplayTypes
  <1>3. RecordTypes
    BY DEF RecordTypes
  <1>4. CommandTypes
    BY DEF CommandTypes, PCs, Idle
  <1>5. BoundTypes /\ CommandHasEntry
    BY DEF BoundTypes, CommandHasEntry, CommandPCs, Idle
  <1> QED BY <1>1, <1>2, <1>3, <1>4, <1>5 DEF TypeInv, TypeOK

\* Every step keeps the types of the host's controls.
LEMMA HostTypesStep == TypeOK /\ [Next]_vars => HostTypes'
  <1> SUFFICES ASSUME TypeOK, [Next]_vars PROVE HostTypes'
    OBVIOUS
  <1> USE ConstantsAssumption DEF TypeOK, HostTypes
  <1>1. ASSUME NEW t \in Targets, NEW v \in Values, NEW again \in BOOLEAN,
               ForeignWrite(t, v, again)
        PROVE  HostTypes'
    BY <1>1 DEF ForeignWrite, Nobody
  <1>2. CASE Restart
    BY <1>2 DEF Restart
  <1>3. ASSUME NEW taken \in BOOLEAN, WriteHost(taken) PROVE HostTypes'
    <2>1. work \in Plan
      BY <1>3 DEF WriteHost, Step, CommandTypes, Idle
    <2>2. Wanted \in Values /\ Reverting \in BOOLEAN /\ work.id \in Nat
      BY <2>1 DEF Wanted, Reverting, Plan
    <2>3. [by |-> work.id, restored |-> Reverting] \in [by : Nat, restored : BOOLEAN]
      BY <2>2
    <2>4. val' \in [Targets -> Values]
      BY <1>3, <2>2 DEF WriteHost
    <2>5. writer' \in [Targets -> [by : Nat, restored : BOOLEAN]]
      BY <1>3, <2>3 DEF WriteHost
    <2> QED BY <1>3, <2>4, <2>5 DEF WriteHost, Step
  <1>4. CASE WriteDemo
    <2>1. work \in Plan
      BY <1>4 DEF WriteDemo, Step, CommandTypes, Idle
    <2> QED BY <1>4, <2>1 DEF WriteDemo, Step, Wanted, Plan
  <1>5. CASE UNCHANGED host
    BY <1>5
  <1> QED BY <1>1, <1>2, <1>3, <1>4, <1>5
    DEF Next, Environment, Display, Update, Hold, Replay, Live, Preview, PreviewRead,
        PreviewIdentity, PreviewFails, HostCalls, CheckIdentity, CheckValue,
        ValidateTask, Readback, CommandFails, Step, Commands, ApplyStart,
        ApplyRefused, RevertStart, RevertRefused, RevertNothing, Finish, Verify, vars

\* Every step keeps the types of what is displayed.
LEMMA DisplayTypesStep == TypeOK /\ [Next]_vars => DisplayTypes'
  <1> SUFFICES ASSUME TypeOK, [Next]_vars PROVE DisplayTypes'
    OBVIOUS
  <1> USE DEF TypeOK, DisplayTypes
  <1>1. CASE Restart
    BY <1>1, ConstantsAssumption, Zenon DEF Restart
  <1>2. CASE Update
    BY <1>2, Zenon DEF Update
  <1>3. ASSUME NEW b \in BOOLEAN, Hold(b) PROVE DisplayTypes'
    BY <1>3, Zenon DEF Hold
  <1>4. ASSUME NEW d \in Modes, Replay(d) PROVE DisplayTypes'
    BY <1>4, ConstantsAssumption, Zenon DEF Replay
  <1>5. CASE Live
    BY <1>5, Zenon DEF Live
  <1>6. CASE Verify
    BY <1>6, Zenon DEF Verify
  <1>7. CASE UNCHANGED display
    BY <1>7, Zenon
  <1> QED BY <1>1, <1>2, <1>3, <1>4, <1>5, <1>6, <1>7
    DEF Next, Environment, ForeignWrite, Display, Preview, PreviewRead, PreviewIdentity,
        PreviewFails, HostCalls, CheckIdentity, CheckValue, ValidateTask, WriteHost,
        WriteDemo, Readback, CommandFails, Step, Commands, ApplyStart, ApplyRefused,
        RevertStart, RevertRefused, RevertNothing, Finish, vars

\* Marking the last entry as being rolled back keeps the journal's type.
LEMMA RequestedType ==
  ASSUME RecordTypes, journal # <<>>
  PROVE  /\ RollbackRequested \in Seq(Plan) /\ RollbackRequested # <<>>
         /\ Last(RollbackRequested) \in Plan
  <1> DEFINE e == [journal[Len(journal)] EXCEPT !.outcome = "rollback requested"]
  <1>1. journal \in Seq(Plan) /\ Len(journal) \in DOMAIN journal
    BY DEF RecordTypes
  <1>2. journal[Len(journal)] \in Plan
    BY <1>1
  <1>3. e \in Plan
    BY <1>2 DEF Plan, Outcomes
  <1>4. RollbackRequested = [journal EXCEPT ![Len(journal)] = e]
    BY DEF RollbackRequested
  <1> HIDE DEF e
  <1> QED BY <1>1, <1>3, <1>4, ReplacedLast

\* Every step keeps the type of the running command's plan.
LEMMA CommandTypesStep == TypeOK /\ [Next]_vars => CommandTypes'
  <1> SUFFICES ASSUME TypeOK, [Next]_vars PROVE CommandTypes'
    OBVIOUS
  <1> USE DEF TypeOK, CommandTypes, PCs, Idle
  <1>1. CASE Restart
    BY <1>1 DEF Restart
  <1>2. ASSUME NEW t \in Targets, NEW v \in Values, PreviewRead(t, v)
        PROVE  CommandTypes'
    <2>1. /\ ShownValue(t) \in Values
          /\ (IF shownDemo THEN 0 ELSE gen[t]) \in Nat
          /\ shownDemo \in BOOLEAN
      BY DEF HostTypes, DisplayTypes, ShownValue
    <2>2. work' \in Plan
      BY <1>2, <2>1 DEF PreviewRead, Plan, Outcomes
    <2> QED BY <1>2, <2>2 DEF PreviewRead
  <1>3. CASE PreviewIdentity \/ PreviewFails
    BY <1>3 DEF PreviewIdentity, PreviewFails
  <1>4. CASE ApplyStart
    BY <1>4 DEF ApplyStart, RecordTypes
  <1>5. CASE RevertStart
    BY <1>5, RequestedType DEF RevertStart
  <1>6. CASE CheckIdentity \/ CheckValue \/ ValidateTask
    BY <1>6 DEF CheckIdentity, CheckValue, ValidateTask, Step
  <1>7. ASSUME NEW taken \in BOOLEAN, WriteHost(taken) PROVE CommandTypes'
    BY <1>7 DEF WriteHost, Step, Plan
  <1>8. CASE WriteDemo
    BY <1>8 DEF WriteDemo, Step, Plan
  <1>9. ASSUME NEW allowed \in BOOLEAN, Readback(allowed) PROVE CommandTypes'
    <2>1. work \in Plan /\ pc' = "finish" /\ issued' = issued
      BY <1>9 DEF Readback, Step
    <2>2. work' \in Plan
      BY <1>9, <2>1 DEF Readback, Failed, Plan, Outcomes
    <2> QED BY <2>1, <2>2
  <1>10. CASE CommandFails
    <2>1. work \in Plan /\ pc' = "finish" /\ issued' = issued
      BY <1>10 DEF CommandFails, Step
    <2>2. work' \in Plan
      BY <1>10, <2>1 DEF CommandFails, Failed, Plan, Outcomes
    <2> QED BY <2>1, <2>2
  <1>11. CASE Finish
    BY <1>11 DEF Finish
  <1>12. CASE UNCHANGED command
    BY <1>12
  <1> QED BY <1>1, <1>2, <1>3, <1>4, <1>5, <1>6, <1>7, <1>8, <1>9, <1>10, <1>11, <1>12
    DEF Next, Environment, ForeignWrite, Display, Update, Hold, Replay, Live, Preview,
        HostCalls, Commands, ApplyRefused, RevertRefused, RevertNothing, Verify, vars

\* Every step keeps the types of the pending plan and the journals, and a
\* running command has an entry.
LEMMA RecordTypesStep == TypeInv /\ [Next]_vars => RecordTypes' /\ CommandHasEntry'
  <1> SUFFICES ASSUME TypeInv, [Next]_vars PROVE RecordTypes' /\ CommandHasEntry'
    OBVIOUS
  <1> USE DEF TypeInv, TypeOK, RecordTypes, CommandHasEntry, CommandPCs, Idle
  <1>1. CASE Restart
    BY <1>1, EntriesType DEF Restart
  <1>2. CASE PreviewIdentity
    BY <1>2 DEF PreviewIdentity, CommandTypes, HostTypes, Plan
  <1>3. CASE ApplyStart
    BY <1>3, AppendedEntries DEF ApplyStart, SavedTo
  <1>4. CASE ApplyRefused
    BY <1>4, AppendedEntries DEF ApplyRefused, SaveFails
  <1>5. CASE RevertStart
    BY <1>5, RequestedType DEF RevertStart, SavedTo
  <1>6. CASE RevertRefused
    BY <1>6, RequestedType DEF RevertRefused, SaveFails
  <1>7. CASE RevertNothing
    BY <1>7 DEF RevertNothing, SavedTo
  <1>8. CASE Finish
    BY <1>8, ReplacedLast DEF Finish, SavedTo, SaveFails, CommandTypes
  <1>9. CASE Verify
    BY <1>9 DEF Verify, SavedTo, SaveFails
  <1>10. CASE UNCHANGED records /\ (pc' \in CommandPCs => pc \in CommandPCs)
    BY <1>10
  <1> QED BY <1>1, <1>2, <1>3, <1>4, <1>5, <1>6, <1>7, <1>8, <1>9, <1>10
    DEF Next, Environment, ForeignWrite, Display, Update, Hold, Replay, Live, Preview,
        PreviewRead, PreviewFails, HostCalls, CheckIdentity, CheckValue, ValidateTask,
        WriteHost, WriteDemo, Readback, CommandFails, Step, Commands, vars

\* Every step keeps the counters natural numbers.
LEMMA BoundTypesStep == TypeOK /\ [Next]_vars => BoundTypes'
  <1> SUFFICES ASSUME TypeOK, [Next]_vars PROVE BoundTypes'
    OBVIOUS
  <1> USE DEF TypeOK, BoundTypes
  <1>1. CASE Environment
    BY <1>1 DEF Environment, ForeignWrite
  <1>2. CASE Restart
    BY <1>2 DEF Restart
  <1>3. CASE UNCHANGED bounds
    BY <1>3
  <1> QED BY <1>1, <1>2, <1>3 DEF Next, Display, Update,
     Hold, Replay, Live, Preview, PreviewRead, PreviewIdentity, PreviewFails, HostCalls,
     CheckIdentity, CheckValue, ValidateTask, WriteHost, WriteDemo, Readback,
     CommandFails, Step, Commands, ApplyStart, ApplyRefused, RevertStart, RevertRefused,
     RevertNothing, Finish, Verify, vars

\* Every variable always has its type.
THEOREM TypeCorrect == Spec => []TypeOK
  <1>1. TypeInv /\ [Next]_vars => TypeInv'
    BY HostTypesStep, DisplayTypesStep, RecordTypesStep, CommandTypesStep, BoundTypesStep
       DEF TypeInv, TypeOK
  <1>2. Spec => []TypeInv
    BY <1>1, TypeInit, PTL DEF Spec
  <1> QED BY <1>2, PTL DEF TypeInv

-----------------------------------------------------------------------------
(***************************************************************************)
(* The write-ahead property.  IntentOnDisk is not inductive: a save         *)
(* replaces the whole file by the journal in memory, so the induction also *)
(* says that memory (with the running command's plan as the last entry)    *)
(* knows every change the files of earlier processes do not (InMemory),    *)
(* and that a running command has its plan on disk (IntentFiled).          *)
(***************************************************************************)

\* The entry of plan w.by for control t, of a plan of the live host.
Names(e, t, w) == e.id = w.by /\ e.target = t /\ ~e.demo

\* Some entry of S names the last write w of control t and admits the change.
Told(S, t, w, v) ==
  \E e \in S : Names(e, t, w) /\ (w.restored \/ v = e.before \/ e.applied)

\* The same, or the entry is still the intent.
Filed(S, t, w, v) ==
  \E e \in S :
    /\ Names(e, t, w)
    /\ w.restored \/ v = e.before \/ e.applied \/ e.outcome = "reviewed"

Earlier(s) == {s[i] : i \in 1..(Len(s) - 1)}

\* The journal in memory, with the running command's plan in its place.
Latest == IF pc \in CommandPCs THEN Earlier(journal) \cup {work} ELSE Entries(journal)

InMemory ==
  \A t \in Targets : writer[t].by # 0 =>
    \/ Filed(archive, t, writer[t], val[t])
    \/ Told(Latest, t, writer[t], val[t])

OnDisk ==
  \A t \in Targets : writer[t].by # 0 => Filed(Recorded, t, writer[t], val[t])

IntentFiled ==
  pc \in CommandPCs \ {"finish"} /\ ~work.demo =>
    \E e \in Entries(disk) :
      /\ e.id = work.id /\ e.target = work.target /\ ~e.demo
      /\ Reverting \/ e.outcome = "reviewed"

PendingReviewed ==
  /\ pending # NoPlan => pending.outcome = "reviewed"
  /\ pc = "review" => work.outcome = "reviewed"

JournalInv == TypeInv /\ OnDisk /\ InMemory /\ IntentFiled /\ PendingReviewed

\* Told implies Filed, and both are monotone in the set of entries.
LEMMA ToldIsFiled ==
  ASSUME NEW S, NEW T, S \subseteq T, NEW t, NEW w, NEW v
  PROVE  /\ Told(S, t, w, v) => Told(T, t, w, v) /\ Filed(T, t, w, v)
         /\ Filed(S, t, w, v) => Filed(T, t, w, v)
  BY DEF Told, Filed, Names

\* The indices below the last are indices other than the last.
LEMMA BelowLast == \A n \in Nat : \A i \in 1..(n - 1) : i \in 1..n /\ i # n
  OBVIOUS

\* The entries of a journal are the earlier ones and the last.
LEMMA EntriesSplit ==
  ASSUME NEW S, NEW s \in Seq(S), s # <<>>
  PROVE  Entries(s) = Earlier(s) \cup {Last(s)}
  <1>1. DOMAIN s = 1..Len(s) /\ Len(s) \in Nat /\ Len(s) # 0
    OBVIOUS
  <1>2. 1..Len(s) = 1..(Len(s) - 1) \cup {Len(s)}
    BY <1>1
  <1> QED BY <1>1, <1>2 DEF Entries, Earlier, Last

\* Appending makes every entry of before an earlier one.
LEMMA AppendedSplit ==
  ASSUME NEW S, NEW s \in Seq(S), NEW e \in S
  PROVE  /\ Entries(Append(s, e)) = Entries(s) \cup {e}
         /\ Earlier(Append(s, e)) = Entries(s)
  <1> DEFINE a == Append(s, e)
  <1>1. /\ DOMAIN a = DOMAIN s \cup {Len(s) + 1} /\ Len(a) = Len(s) + 1
        /\ \A i \in DOMAIN s : a[i] = s[i]
        /\ a[Len(s) + 1] = e /\ DOMAIN s = 1..Len(s)
    OBVIOUS
  <1> HIDE DEF a
  <1>2. Entries(a) = Entries(s) \cup {e}
    BY <1>1 DEF Entries
  <1>3. Earlier(a) = Entries(s)
    BY <1>1 DEF Entries, Earlier
  <1> QED BY <1>2, <1>3 DEF a

\* Replacing the last entry keeps the earlier ones.
LEMMA ReplacedSplit ==
  ASSUME NEW S, NEW s \in Seq(S), s # <<>>, NEW e \in S
  PROVE  /\ Entries([s EXCEPT ![Len(s)] = e]) = Earlier(s) \cup {e}
         /\ Earlier([s EXCEPT ![Len(s)] = e]) = Earlier(s)
  <1> DEFINE a == [s EXCEPT ![Len(s)] = e]
  <1>1. DOMAIN s = 1..Len(s) /\ Len(s) \in Nat /\ Len(s) # 0
    OBVIOUS
  <1>2. a \in Seq(S) /\ a # <<>> /\ Last(a) = e
    BY ReplacedLast
  <1>3. DOMAIN a = 1..Len(s)
    BY <1>1
  <1>4. ASSUME NEW i \in 1..(Len(s) - 1) PROVE a[i] = s[i]
    <2>1. i \in DOMAIN s /\ i # Len(s)
      BY <1>1, BelowLast
    <2> QED BY <2>1
  <1> HIDE DEF a
  <1>5. Len(a) = Len(s)
    <2>1. Len(a) \in Nat /\ DOMAIN a = 1..Len(a)
      BY <1>2
    <2> QED BY <1>1, <1>3, <2>1
  <1>6. Earlier(a) = Earlier(s)
    BY <1>4, <1>5 DEF Earlier
  <1>7. Entries(a) = Earlier(a) \cup {e}
    BY <1>2, EntriesSplit
  <1> QED BY <1>6, <1>7 DEF a

\* Marking the last entry as being rolled back changes its outcome only.
LEMMA RequestedEntries ==
  ASSUME RecordTypes, journal # <<>>
  PROVE  LET e == [Last(journal) EXCEPT !.outcome = "rollback requested"]
         IN  /\ e \in Plan /\ Last(journal) \in Plan
             /\ Entries(journal) = Earlier(journal) \cup {Last(journal)}
             /\ Entries(RollbackRequested) = Earlier(journal) \cup {e}
             /\ Earlier(RollbackRequested) = Earlier(journal)
             /\ Last(RollbackRequested) = e
  <1> DEFINE e == [journal[Len(journal)] EXCEPT !.outcome = "rollback requested"]
  <1>0. e = [Last(journal) EXCEPT !.outcome = "rollback requested"]
    BY DEF Last
  <1>1. journal \in Seq(Plan) /\ Last(journal) \in Plan
    BY ReplacedLast DEF RecordTypes
  <1>a. journal[Len(journal)] \in Plan
    BY <1>1 DEF Last
  <1>2. e \in Plan
    BY <1>a DEF Plan, Outcomes
  <1>3. RollbackRequested = [journal EXCEPT ![Len(journal)] = e]
    BY DEF RollbackRequested
  <1> HIDE DEF e
  <1>4. Entries(journal) = Earlier(journal) \cup {Last(journal)}
    BY <1>1, EntriesSplit
  <1>b. /\ Entries([journal EXCEPT ![Len(journal)] = e]) = Earlier(journal) \cup {e}
        /\ Earlier([journal EXCEPT ![Len(journal)] = e]) = Earlier(journal)
    BY <1>1, <1>2, ReplacedSplit
  <1>c. /\ Entries(RollbackRequested) = Earlier(journal) \cup {e}
        /\ Earlier(RollbackRequested) = Earlier(journal)
    BY <1>3, <1>b
  <1>5. Last(RollbackRequested) = e
    BY <1>1, <1>2, <1>3, ReplacedLast
  <1> QED BY <1>0, <1>1, <1>2, <1>4, <1>c, <1>5

\* A pending plan keeps the outcome of its review.
LEMMA PendingReviewedStep ==
  TypeInv /\ PendingReviewed /\ [Next]_vars => PendingReviewed'
  <1> SUFFICES ASSUME TypeInv, PendingReviewed, [Next]_vars PROVE PendingReviewed'
    OBVIOUS
  <1> USE DEF PendingReviewed, Idle, NoPlan
  <1>1. CASE Restart
    BY <1>1 DEF Restart
  <1>2. ASSUME NEW t \in Targets, NEW v \in Values, PreviewRead(t, v)
        PROVE  PendingReviewed'
    BY <1>2 DEF PreviewRead
  <1>3. CASE PreviewIdentity
    <2>1. work \in Plan
      BY <1>3 DEF PreviewIdentity, TypeInv, TypeOK, CommandTypes
    <2> QED BY <1>3, <2>1 DEF PreviewIdentity, Plan
  <1>4. CASE PreviewFails
    BY <1>4 DEF PreviewFails
  <1>5. CASE ApplyStart \/ RevertStart
    BY <1>5 DEF ApplyStart, RevertStart
  <1>6. CASE HostCalls
    BY <1>6 DEF HostCalls, CheckIdentity, CheckValue, ValidateTask, WriteHost, WriteDemo,
         Readback, CommandFails, Step
  <1>7. CASE Finish
    BY <1>7 DEF Finish
  <1>8. CASE UNCHANGED <<pending, pc, work>>
    BY <1>8
  <1> QED BY <1>1, <1>2, <1>3, <1>4, <1>5, <1>6, <1>7, <1>8
    DEF Next, Environment, ForeignWrite, Display, Update, Hold, Replay, Live, Preview,
        Commands, ApplyRefused, RevertRefused, RevertNothing, Verify, vars

\* A running command keeps its plan on disk until it finishes.
LEMMA IntentFiledStep ==
  TypeInv /\ PendingReviewed /\ IntentFiled /\ [Next]_vars => IntentFiled'
  <1> SUFFICES ASSUME TypeInv, PendingReviewed, IntentFiled, [Next]_vars
               PROVE  IntentFiled'
    OBVIOUS
  <1> USE DEF IntentFiled, CommandPCs, Idle
  <1>1. CASE ApplyStart
    <2>1. /\ pending \in Plan /\ journal \in Seq(Plan)
          /\ work' = pending /\ disk' = Append(journal, pending)
          /\ pending.outcome = "reviewed"
      BY <1>1 DEF ApplyStart, SavedTo, TypeInv, TypeOK, RecordTypes, PendingReviewed
    <2>2. pending \in Entries(disk')
      BY <2>1, AppendedSplit
    <2> QED BY <2>1, <2>2
  <1>2. CASE RevertStart
    <2>1. /\ RecordTypes /\ journal # <<>> /\ disk' = RollbackRequested
          /\ work' = Last(RollbackRequested)
      BY <1>2 DEF RevertStart, SavedTo, TypeInv, TypeOK
    <2>2. /\ work' \in Entries(disk')
          /\ work'.outcome = "rollback requested"
      BY <2>1, RequestedEntries DEF Plan
    <2> QED BY <2>2 DEF Reverting
  <1>3. CASE CheckIdentity \/ CheckValue \/ ValidateTask
    BY <1>3 DEF CheckIdentity, CheckValue, ValidateTask, Step, Reverting
  <1>4. CASE WriteDemo \/ \E taken \in BOOLEAN : WriteHost(taken)
    <2>1. work \in Plan /\ work' = [work EXCEPT !.applied = TRUE]
      BY <1>4 DEF WriteDemo, WriteHost, Step, TypeInv, TypeOK, CommandTypes
    <2>2. /\ work'.id = work.id /\ work'.target = work.target
          /\ work'.demo = work.demo /\ work'.outcome = work.outcome
      BY <2>1 DEF Plan
    <2>3. disk' = disk /\ pc \in {"write", "set"}
      BY <1>4 DEF WriteDemo, WriteHost, Step
    <2> QED BY <2>2, <2>3 DEF Reverting
  <1>5. CASE CommandFails \/ \E allowed \in BOOLEAN : Readback(allowed)
    BY <1>5 DEF CommandFails, Readback, Step
  <1>6. CASE pc' \in {"idle", "review"}
    BY <1>6
  <1>7. CASE UNCHANGED <<disk, pc, work>>
    BY <1>7 DEF Reverting
  <1>8. CASE ApplyRefused \/ RevertRefused \/ RevertNothing \/ Verify
    BY <1>6, <1>8 DEF ApplyRefused, RevertRefused, RevertNothing, Verify
  <1> QED BY <1>1, <1>2, <1>3, <1>4, <1>5, <1>6, <1>7, <1>8
    DEF Next, Environment, ForeignWrite, Restart, Display, Update, Hold, Replay, Live,
        Preview, PreviewRead, PreviewIdentity, PreviewFails, HostCalls, Commands, Finish,
        vars

\* A step that keeps val and writer, and every entry of Latest up to its
\* outcome, keeps InMemory.
LEMMA InMemoryKept ==
  ASSUME InMemory, UNCHANGED <<val, writer, archive>>,
         \A e \in Latest : \E f \in Latest' :
           /\ f.id = e.id /\ f.target = e.target /\ f.demo = e.demo
           /\ f.before = e.before /\ (e.applied => f.applied)
  PROVE  InMemory'
  <1>1. ASSUME NEW t \in Targets, Told(Latest, t, writer[t], val[t])
        PROVE  Told(Latest', t, writer[t], val[t])
    BY <1>1 DEF Told, Names
  <1> QED BY <1>1 DEF InMemory

\* The host calls replace the running plan, the last of Latest, by work'.
LEMMA LatestInCommand ==
  ASSUME TypeInv, pc \in CommandPCs, pc' \in CommandPCs, journal' = journal
  PROVE  /\ Latest = Earlier(journal) \cup {work}
         /\ Latest' = Earlier(journal) \cup {work'}
         /\ work \in Plan
  BY DEF Latest, CommandPCs, Idle, TypeInv, TypeOK, CommandTypes

\* Every step keeps InMemory.
LEMMA InMemoryStep ==
  TypeInv /\ OnDisk /\ InMemory /\ [Next]_vars => InMemory'
  <1> SUFFICES ASSUME TypeInv, OnDisk, InMemory, [Next]_vars PROVE InMemory'
    OBVIOUS
  <1>0. TypeOK /\ RecordTypes /\ HostTypes /\ CommandTypes
    BY DEF TypeInv, TypeOK
  <1>1. ASSUME NEW u \in Targets, NEW v \in Values, NEW again \in BOOLEAN,
               ForeignWrite(u, v, again)
        PROVE  InMemory'
    <2>1. Latest' = Latest /\ archive' = archive
      BY <1>1 DEF ForeignWrite, Latest
    <2>2. ASSUME NEW t \in Targets, writer'[t].by # 0
          PROVE  writer'[t] = writer[t] /\ val'[t] = val[t]
      BY <1>0, <1>1, <2>2 DEF ForeignWrite, HostTypes, Nobody
    <2> QED BY <2>1, <2>2 DEF InMemory
  <1>2. CASE Restart
    BY <1>2 DEF Restart, OnDisk, InMemory, Recorded
  <1>3. CASE ApplyStart
    <2>1. Latest = Entries(journal)
      BY <1>3 DEF ApplyStart, Latest, CommandPCs, Idle
    <2>2. Latest' = Entries(journal) \cup {pending}
      BY <1>0, <1>3, AppendedSplit DEF ApplyStart, Latest, CommandPCs, RecordTypes
    <2>3. Latest \subseteq Latest'
      BY <2>1, <2>2
    <2> QED BY <1>3, <2>3, InMemoryKept DEF ApplyStart
  <1>4. ASSUME journal # <<>>, journal' = RollbackRequested, UNCHANGED <<val, writer, archive>>,
               pc = Idle, pc' = Idle \/ (pc' = "identity" /\ work' = Last(journal'))
        PROVE  InMemory'
    <2> DEFINE e == [Last(journal) EXCEPT !.outcome = "rollback requested"]
    <2>1. /\ Latest = Earlier(journal) \cup {Last(journal)}
          /\ e \in Plan /\ Last(journal) \in Plan
      BY <1>0, <1>4, RequestedEntries DEF Latest, CommandPCs, Idle
    <2>2. Latest' = Earlier(journal) \cup {e}
      BY <1>0, <1>4, RequestedEntries DEF Latest, CommandPCs, Idle
    <2>3. /\ e.id = Last(journal).id /\ e.target = Last(journal).target
          /\ e.demo = Last(journal).demo /\ e.before = Last(journal).before
          /\ e.applied = Last(journal).applied
      BY <2>1 DEF Plan
    <2> HIDE DEF e
    <2> QED BY <1>4, <2>1, <2>2, <2>3, InMemoryKept
  <1>5. CASE CheckIdentity \/ CheckValue \/ ValidateTask
    BY <1>5, InMemoryKept
       DEF CheckIdentity, CheckValue, ValidateTask, Step, Latest, CommandPCs
  <1>6. ASSUME NEW taken \in BOOLEAN, WriteHost(taken) PROVE InMemory'
    <2>1. /\ Latest = Earlier(journal) \cup {work}
          /\ Latest' = Earlier(journal) \cup {work'}
          /\ work \in Plan /\ archive' = archive
      BY <1>6, LatestInCommand DEF WriteHost, Step, CommandPCs
    <2>2. /\ work'.id = work.id /\ work'.target = work.target /\ ~work'.demo
          /\ work'.before = work.before /\ work'.applied
      BY <1>6, <2>1 DEF WriteHost, Plan
    <2>3. ASSUME NEW t \in Targets, writer'[t].by # 0,
                 writer'[t] = writer[t], val'[t] = val[t]
          PROVE  \/ Filed(archive', t, writer'[t], val'[t])
                 \/ Told(Latest', t, writer'[t], val'[t])
      <3>1. CASE Filed(archive, t, writer[t], val[t])
        BY <2>1, <2>3, <3>1
      <3>2. CASE Told(Latest, t, writer[t], val[t])
        BY <2>1, <2>2, <2>3, <3>2 DEF Told, Names
      <3> QED BY <2>3, <3>1, <3>2 DEF InMemory
    <2>4. ASSUME NEW t \in Targets, t = work.target, writer'[t].by = work.id
          PROVE  Told(Latest', t, writer'[t], val'[t])
      BY <2>1, <2>2, <2>4 DEF Told, Names
    <2>5. ASSUME NEW t \in Targets
          PROVE  \/ writer'[t] = writer[t] /\ val'[t] = val[t]
                 \/ t = work.target /\ writer'[t].by = work.id
      BY <1>0, <1>6 DEF WriteHost, HostTypes
    <2> QED BY <2>3, <2>4, <2>5 DEF InMemory
  <1>7. CASE WriteDemo
    <2>1. /\ Latest = Earlier(journal) \cup {work}
          /\ Latest' = Earlier(journal) \cup {work'}
          /\ work \in Plan
      BY <1>7, LatestInCommand DEF WriteDemo, Step, CommandPCs
    <2>2. /\ work'.id = work.id /\ work'.target = work.target /\ work'.demo = work.demo
          /\ work'.before = work.before /\ work'.applied
      BY <1>7, <2>1 DEF WriteDemo, Plan
    <2> QED BY <1>7, <2>1, <2>2, InMemoryKept DEF WriteDemo, Step
  <1>8. ASSUME NEW allowed \in BOOLEAN, Readback(allowed) PROVE InMemory'
    <2>1. /\ Latest = Earlier(journal) \cup {work}
          /\ Latest' = Earlier(journal) \cup {work'}
          /\ work \in Plan /\ UNCHANGED <<val, writer, archive>>
      BY <1>8, LatestInCommand DEF Readback, Step, CommandPCs
    <2>2. /\ work'.id = work.id /\ work'.target = work.target /\ work'.demo = work.demo
          /\ work'.before = work.before
      BY <1>8, <2>1 DEF Readback, Failed, Plan
    <2>3. work.applied /\ ~work.demo => work'.applied \/ val[work.target] = work.before
      <3> DEFINE now      == IF work.demo THEN demoVal[work.target] ELSE val[work.target]
                 verified == now = Wanted /\ allowed
      <3>1. CASE verified /\ Reverting
        BY <1>8, <3>1 DEF Wanted
      <3>2. CASE verified /\ ~Reverting
        <4>1. work' = [[work EXCEPT !.verified = verified] EXCEPT !.outcome = "applied"]
          BY <1>8, <3>2 DEF Readback
        <4> QED BY <2>1, <4>1 DEF Plan
      <3>3. CASE ~verified
        <4>1. work' = Failed([work EXCEPT !.verified = verified])
          BY <1>8, <3>3 DEF Readback
        <4> QED BY <2>1, <4>1 DEF Plan, Failed
      <3> QED BY <3>1, <3>2, <3>3
    <2>4. ASSUME NEW t \in Targets, writer[t].by # 0,
                 Told(Latest, t, writer[t], val[t])
          PROVE  Told(Latest', t, writer[t], val[t])
      BY <2>1, <2>2, <2>3, <2>4 DEF Told, Names
    <2> QED BY <2>1, <2>4 DEF InMemory
  <1>9. CASE CommandFails
    <2>1. /\ Latest = Earlier(journal) \cup {work}
          /\ Latest' = Earlier(journal) \cup {work'}
          /\ work \in Plan
      BY <1>9, LatestInCommand DEF CommandFails, Step, CommandPCs
    <2>2. /\ work'.id = work.id /\ work'.target = work.target /\ work'.demo = work.demo
          /\ work'.before = work.before /\ work'.applied = work.applied
      BY <1>9, <2>1 DEF CommandFails, Failed, Plan
    <2> QED BY <1>9, <2>1, <2>2, InMemoryKept DEF CommandFails, Step
  <1>10. CASE Finish
    <2>1. work \in Plan /\ journal \in Seq(Plan) /\ journal # <<>>
      BY <1>0, <1>10 DEF Finish, CommandTypes, RecordTypes, Idle, TypeInv,
         CommandHasEntry, CommandPCs
    <2>2. Latest = Earlier(journal) \cup {work}
      BY <1>10 DEF Finish, Latest, CommandPCs
    <2>3. Latest' = Earlier(journal) \cup {work}
      BY <1>10, <2>1, ReplacedSplit DEF Finish, Latest, CommandPCs, Idle
    <2> QED BY <1>10, <2>2, <2>3, InMemoryKept DEF Finish
  <1>11. CASE /\ UNCHANGED <<val, writer, archive, journal>>
              /\ pc \notin CommandPCs /\ pc' \notin CommandPCs
    BY <1>11, InMemoryKept DEF Latest
  <1>12. CASE UNCHANGED <<val, writer, archive, journal, pc, work>>
    BY <1>12, InMemoryKept DEF Latest
  <1>13. CASE Preview
    <2>1. UNCHANGED <<val, writer, archive, journal>>
      BY <1>13 DEF Preview, PreviewRead, PreviewIdentity, PreviewFails
    <2>2. pc \in {Idle, "review"} /\ pc' \in {Idle, "review"}
      BY <1>13 DEF Preview, PreviewRead, PreviewIdentity, PreviewFails
    <2> QED BY <1>11, <2>1, <2>2 DEF CommandPCs, Idle
  <1>14. CASE RevertStart \/ RevertRefused
    <2>1. journal # <<>> /\ journal' = RollbackRequested /\ pc = Idle
      BY <1>14 DEF RevertStart, RevertRefused
    <2>2. UNCHANGED <<val, writer, archive>>
      BY <1>14 DEF RevertStart, RevertRefused
    <2>3. pc' = Idle \/ (pc' = "identity" /\ work' = Last(journal'))
      BY <1>14 DEF RevertStart, RevertRefused
    <2> QED BY <1>4, <2>1, <2>2, <2>3
  <1>15. CASE Display \/ ApplyRefused \/ RevertNothing \/ Verify \/ UNCHANGED vars
    BY <1>12, <1>15 DEF Display, Update, Hold, Replay, Live, ApplyRefused,
       RevertNothing, Verify, vars
  <1>16. CASE HostCalls
    BY <1>5, <1>6, <1>7, <1>8, <1>9, <1>16 DEF HostCalls
  <1> QED BY <1>1, <1>2, <1>3, <1>10, <1>13, <1>14, <1>15, <1>16
    DEF Next, Environment, Commands

\* Every save writes Latest or more, so what memory knows is on disk after it.
LEMMA OnDiskStep ==
  JournalInv /\ [Next]_vars => OnDisk'
  <1> SUFFICES ASSUME JournalInv, [Next]_vars PROVE OnDisk'
    OBVIOUS
  <1>0. /\ TypeInv /\ TypeOK /\ RecordTypes /\ HostTypes /\ CommandTypes
        /\ OnDisk /\ InMemory /\ IntentFiled
    BY DEF JournalInv, TypeInv, TypeOK
  <1>1. ASSUME NEW u \in Targets, NEW v \in Values, NEW again \in BOOLEAN,
               ForeignWrite(u, v, again)
        PROVE  OnDisk'
    <2>1. Recorded' = Recorded
      BY <1>1 DEF ForeignWrite, Recorded
    <2>2. ASSUME NEW t \in Targets, writer'[t].by # 0
          PROVE  writer'[t] = writer[t] /\ val'[t] = val[t]
      BY <1>0, <1>1, <2>2 DEF ForeignWrite, HostTypes, Nobody
    <2> QED BY <1>0, <2>1, <2>2 DEF OnDisk
  <1>2. ASSUME UNCHANGED <<val, writer>>, Recorded \subseteq Recorded'
        PROVE  OnDisk'
    BY <1>0, <1>2, ToldIsFiled DEF OnDisk
  <1>3. ASSUME UNCHANGED <<val, writer, archive>>, Latest \subseteq Entries(disk')
        PROVE  OnDisk'
    BY <1>0, <1>3, ToldIsFiled DEF OnDisk, InMemory, Recorded
  <1>4. CASE Restart
    BY <1>2, <1>4 DEF Restart, Recorded
  <1>5. ASSUME NEW taken \in BOOLEAN, WriteHost(taken) PROVE OnDisk'
    <2>1. /\ Recorded' = Recorded /\ work \in Plan /\ ~work.demo
          /\ pc \in CommandPCs \ {"finish"}
      BY <1>0, <1>5 DEF WriteHost, Step, Recorded, CommandTypes, Idle, CommandPCs
    <2>2. PICK e \in Entries(disk) :
            /\ e.id = work.id /\ e.target = work.target /\ ~e.demo
            /\ Reverting \/ e.outcome = "reviewed"
      BY <1>0, <2>1 DEF IntentFiled
    <2>3. ASSUME NEW t \in Targets, t = work.target,
                 writer'[t] = [by |-> work.id, restored |-> Reverting]
          PROVE  Filed(Recorded', t, writer'[t], val'[t])
      BY <2>1, <2>2, <2>3 DEF Filed, Names, Recorded
    <2>4. ASSUME NEW t \in Targets
          PROVE  \/ writer'[t] = writer[t] /\ val'[t] = val[t]
                 \/ t = work.target /\ writer'[t] = [by |-> work.id, restored |-> Reverting]
      BY <1>0, <1>5 DEF WriteHost, HostTypes
    <2> QED BY <1>0, <2>1, <2>3, <2>4 DEF OnDisk
  <1>6. CASE ApplyStart \/ ApplyRefused
    <2>1. disk' = Append(journal, pending) \/ disk' = disk
      BY <1>6 DEF ApplyStart, ApplyRefused, SavedTo, SaveFails
    <2>2. Latest = Entries(journal) /\ pending \in Plan /\ UNCHANGED <<val, writer, archive>>
      BY <1>0, <1>6 DEF ApplyStart, ApplyRefused, Latest, RecordTypes, CommandPCs, Idle
    <2>3. CASE disk' = Append(journal, pending)
      BY <1>0, <1>3, <2>2, <2>3, AppendedSplit DEF RecordTypes
    <2> QED BY <1>2, <2>1, <2>2, <2>3 DEF Recorded
  <1>7. CASE RevertStart \/ RevertRefused
    <2> DEFINE e == [Last(journal) EXCEPT !.outcome = "rollback requested"]
    <2>1. disk' = RollbackRequested \/ disk' = disk
      BY <1>7 DEF RevertStart, RevertRefused, SavedTo, SaveFails
    <2>2. /\ Latest = Earlier(journal) \cup {Last(journal)}
          /\ UNCHANGED <<val, writer, archive>>
          /\ e \in Plan /\ Last(journal) \in Plan
          /\ Entries(RollbackRequested) = Earlier(journal) \cup {e}
      BY <1>0, <1>7, RequestedEntries
         DEF RevertStart, RevertRefused, Latest, CommandPCs, Idle
    <2>3. /\ e.id = Last(journal).id /\ e.target = Last(journal).target
          /\ e.demo = Last(journal).demo /\ e.before = Last(journal).before
          /\ e.applied = Last(journal).applied
      BY <2>2 DEF Plan
    <2> HIDE DEF e
    <2>4. CASE disk' = RollbackRequested
      <3>1. ASSUME NEW t \in Targets, Told(Latest, t, writer[t], val[t])
            PROVE  Filed(Recorded', t, writer[t], val[t])
        BY <2>2, <2>3, <2>4, <3>1 DEF Told, Filed, Names, Recorded
      <3>2. ASSUME NEW t \in Targets, Filed(archive, t, writer[t], val[t])
            PROVE  Filed(Recorded', t, writer[t], val[t])
        BY <2>2, <3>2, ToldIsFiled DEF Recorded
      <3> QED BY <1>0, <2>2, <3>1, <3>2 DEF OnDisk, InMemory
    <2> QED BY <1>2, <2>1, <2>2, <2>4 DEF Recorded
  <1>8. CASE RevertNothing \/ Verify
    <2>1. (disk' = journal \/ disk' = disk) /\ UNCHANGED <<val, writer, archive>>
      BY <1>8 DEF RevertNothing, Verify, SavedTo, SaveFails
    <2>2. Latest = Entries(journal)
      BY <1>8 DEF RevertNothing, Verify, Latest, CommandPCs, Idle
    <2> QED BY <1>2, <1>3, <2>1, <2>2 DEF Recorded
  <1>9. CASE Finish
    <2>1. work \in Plan /\ journal \in Seq(Plan) /\ journal # <<>>
      BY <1>0, <1>9 DEF Finish, CommandTypes, RecordTypes, Idle, TypeInv,
         CommandHasEntry, CommandPCs
    <2>2. Latest = Earlier(journal) \cup {work}
      BY <1>9 DEF Finish, Latest, CommandPCs
    <2>3. Entries(journal') = Latest
      BY <1>9, <2>1, <2>2, ReplacedSplit DEF Finish
    <2>4. (disk' = journal' \/ disk' = disk) /\ UNCHANGED <<val, writer, archive>>
      BY <1>9 DEF Finish, SavedTo, SaveFails
    <2> QED BY <1>2, <1>3, <2>3, <2>4 DEF Recorded
  <1>10. CASE UNCHANGED <<val, writer, disk, archive>>
    BY <1>2, <1>10 DEF Recorded
  <1>11. CASE Display \/ Preview \/ UNCHANGED vars
    BY <1>10, <1>11 DEF Display, Update, Hold, Replay, Live, Preview, PreviewRead,
       PreviewIdentity, PreviewFails, vars
  <1>12. CASE HostCalls
    BY <1>5, <1>10, <1>12 DEF HostCalls, CheckIdentity, CheckValue, ValidateTask, WriteDemo,
       Readback, CommandFails, Step
  <1> QED BY <1>1, <1>4, <1>6, <1>7, <1>8, <1>9, <1>11, <1>12
    DEF Next, Environment, Commands

\* A new process starts with the journal invariant.
LEMMA JournalInit == Init => JournalInv
  <1> SUFFICES ASSUME Init PROVE JournalInv
    OBVIOUS
  <1>1. \A t \in Targets : writer[t].by = 0
    BY DEF Init, Nobody
  <1>2. IntentFiled /\ PendingReviewed
    BY DEF Init, IntentFiled, PendingReviewed, CommandPCs, Idle
  <1> QED BY <1>1, <1>2, TypeInit DEF JournalInv, OnDisk, InMemory

\* Every step keeps the journal invariant.
LEMMA JournalStep == JournalInv /\ [Next]_vars => JournalInv'
  <1>1. TypeInv /\ [Next]_vars => TypeInv'
    BY HostTypesStep, DisplayTypesStep, RecordTypesStep, CommandTypesStep, BoundTypesStep
       DEF TypeInv, TypeOK
  <1> QED BY <1>1, OnDiskStep, InMemoryStep, IntentFiledStep, PendingReviewedStep
          DEF JournalInv

\* A control this program wrote last has its reviewed plan in a journal file on
\* disk, across failed saves, crashes, replay and demo, for any number of
\* controls, plans, other writers and processes.
THEOREM WriteAhead == Spec => []IntentOnDisk
  <1>1. JournalInv => IntentOnDisk
    BY DEF JournalInv, OnDisk, IntentOnDisk, Filed, Names
  <1> QED BY <1>1, JournalInit, JournalStep, PTL DEF Spec

-----------------------------------------------------------------------------
(***************************************************************************)
(* A plan is applied once.  Ids are handed out once, a plan moves from the *)
(* review to pending and from there to the journal, and only the plan of a *)
(* running command, the journal's last, ever becomes a writer.             *)
(***************************************************************************)

UniqueIds ==
  /\ \A i, j \in DOMAIN journal : journal[i].id = journal[j].id => i = j
  /\ \A i \in DOMAIN journal : journal[i].id \in 1..issued /\ journal[i].id # pending.id
  /\ pending.id \in 0..issued

\* The plan under review is the newest, and not elsewhere.
ReviewedAnew ==
  pc = "review" =>
    /\ work.id = issued /\ pending.id # issued
    /\ \A i \in DOMAIN journal : journal[i].id # issued
    /\ \A t \in Targets : writer[t].by # issued

Unwritten ==
  /\ \A t \in Targets : writer[t].by \in 0..issued
  /\ pending # NoPlan => \A t \in Targets : writer[t].by # pending.id

RunningIsLast == pc \in CommandPCs => work.id = Last(journal).id

PlansInv == UniqueIds /\ ReviewedAnew /\ Unwritten /\ RunningIsLast

\* A new id is none of those handed out.
LEMMA NewId ==
  ASSUME NEW n \in Nat
  PROVE  /\ 1..n \subseteq 1..(n + 1) /\ 0..n \subseteq 0..(n + 1)
         /\ n + 1 \notin 0..n /\ n + 1 \notin 1..n /\ 1..n \subseteq 0..n
  OBVIOUS

\* Appending and replacing an entry, index by index.
LEMMA AppendedIds ==
  ASSUME NEW S, NEW s \in Seq(S), NEW e \in S
  PROVE  LET a == Append(s, e)
         IN  /\ DOMAIN a = DOMAIN s \cup {Len(s) + 1} /\ Len(s) + 1 \notin DOMAIN s
             /\ a[Len(s) + 1] = e
             /\ \A i \in DOMAIN s : a[i] = s[i]
             /\ Last(a) = e
  BY DEF Last

LEMMA ReplacedIds ==
  ASSUME NEW S, NEW s \in Seq(S), s # <<>>, NEW e \in S
  PROVE  LET a == [s EXCEPT ![Len(s)] = e]
         IN  /\ DOMAIN a = DOMAIN s /\ Len(s) \in DOMAIN s
             /\ a[Len(s)] = e
             /\ \A i \in DOMAIN s : i # Len(s) => a[i] = s[i]
             /\ Last(a) = e /\ Last(s) = s[Len(s)]
  <1> DEFINE a == [s EXCEPT ![Len(s)] = e]
  <1>1. DOMAIN a = DOMAIN s /\ Len(s) \in DOMAIN s /\ a[Len(s)] = e
    OBVIOUS
  <1>2. Last(a) = e
    BY ReplacedLast
  <1> QED BY <1>1, <1>2 DEF Last

\* The entry that replaces the last one when a revert is requested or a
\* command ends has that one's id.
LEMMA SameIds ==
  ASSUME NEW s \in Seq(Plan), s # <<>>, NEW e \in Plan, e.id = Last(s).id
  PROVE  LET a == [s EXCEPT ![Len(s)] = e]
         IN  /\ DOMAIN a = DOMAIN s
             /\ \A i \in DOMAIN s : a[i].id = s[i].id
             /\ Last(a).id = Last(s).id
  BY ReplacedIds

\* A step that keeps the ids of the journal and hands out none keeps them unique.
LEMMA IdsKept ==
  ASSUME UniqueIds, pending' = pending \/ pending' = NoPlan, issued' = issued,
         issued \in Nat, DOMAIN journal' = DOMAIN journal,
         \A i \in DOMAIN journal : journal'[i].id = journal[i].id
  PROVE  UniqueIds'
  <1>1. NoPlan.id = 0 /\ 0 \in 0..issued /\ 0 \notin 1..issued
    BY DEF NoPlan
  <1> QED BY <1>1 DEF UniqueIds

LEMMA PlansInit == Init => PlansInv
  <1> SUFFICES ASSUME Init PROVE PlansInv
    OBVIOUS
  <1>1. journal = <<>> /\ pending.id = 0 /\ issued = 0 /\ pc = Idle
        /\ \A t \in Targets : writer[t].by = 0
    BY DEF Init, NoPlan, Nobody
  <1>2. DOMAIN journal = {} /\ 0 \in 0..issued /\ pending = NoPlan
    BY <1>1 DEF Init
  <1> QED BY <1>1, <1>2 DEF PlansInv, UniqueIds, ReviewedAnew, Unwritten, RunningIsLast,
       CommandPCs, Idle

\* The host calls leave the ids alone, and the plan they work on is the writer.
LEMMA HostCallIds ==
  ASSUME TypeInv, HostCalls
  PROVE  /\ UNCHANGED <<journal, pending, issued>>
         /\ pc \in CommandPCs /\ pc' \in CommandPCs
         /\ work \in Plan /\ work'.id = work.id
         /\ \A t \in Targets : writer'[t] = writer[t] \/ writer'[t].by = work.id
  <1>1. /\ UNCHANGED <<journal, pending, issued>>
        /\ pc \in CommandPCs /\ pc' \in CommandPCs
    BY DEF HostCalls, CheckIdentity, CheckValue, ValidateTask, WriteHost, WriteDemo,
         Readback, CommandFails, Step, CommandPCs
  <1>2. work \in Plan
    BY <1>1 DEF TypeInv, TypeOK, CommandTypes, CommandPCs, Idle
  <1>3. work'.id = work.id
    <2>1. CASE CheckIdentity \/ CheckValue \/ ValidateTask
      BY <2>1 DEF CheckIdentity, CheckValue, ValidateTask
    <2>2. CASE WriteDemo \/ \E taken \in BOOLEAN : WriteHost(taken)
      BY <1>2, <2>2 DEF WriteDemo, WriteHost, Plan
    <2>3. CASE CommandFails
      BY <1>2, <2>3 DEF CommandFails, Failed, Plan
    <2>4. ASSUME NEW allowed \in BOOLEAN, Readback(allowed) PROVE work'.id = work.id
      BY <1>2, <2>4 DEF Readback, Failed, Plan
    <2> QED BY <2>1, <2>2, <2>3, <2>4 DEF HostCalls
  <1>4. ASSUME NEW t \in Targets PROVE writer'[t] = writer[t] \/ writer'[t].by = work.id
    <2>1. ASSUME NEW taken \in BOOLEAN, WriteHost(taken)
          PROVE  writer'[t] = writer[t] \/ writer'[t].by = work.id
      BY <2>1 DEF WriteHost, TypeInv, TypeOK, HostTypes
    <2> QED BY <2>1 DEF HostCalls, CheckIdentity, CheckValue, ValidateTask, WriteDemo,
              Readback, CommandFails
  <1> QED BY <1>1, <1>2, <1>3, <1>4

LEMMA PlansStep == TypeInv /\ PlansInv /\ [Next]_vars => PlansInv'
  <1> SUFFICES ASSUME TypeInv, PlansInv, [Next]_vars PROVE PlansInv'
    OBVIOUS
  <1> USE DEF PlansInv
  <1>0. /\ TypeOK /\ RecordTypes /\ HostTypes /\ CommandTypes /\ issued \in Nat
        /\ journal \in Seq(Plan)
        /\ NoPlan.id = 0 /\ 0 \in 0..issued /\ 0 \notin 1..issued /\ 1..issued \subseteq 0..issued
    BY DEF TypeInv, TypeOK, CommandTypes, RecordTypes, NoPlan
  <1>1. ASSUME NEW u \in Targets, NEW v \in Values, NEW again \in BOOLEAN,
               ForeignWrite(u, v, again)
        PROVE  PlansInv'
    <2>1. UNCHANGED <<journal, pending, issued, pc, work>>
      BY <1>1 DEF ForeignWrite
    <2>2. \A t \in Targets : writer'[t] = writer[t] \/ writer'[t].by = 0
      BY <1>0, <1>1 DEF ForeignWrite, HostTypes, Nobody
    <2>3. pending # NoPlan => pending.id # 0
      BY <1>0 DEF RecordTypes, Plan
    <2>4. pc = "review" => issued # 0
      BY <1>0 DEF CommandTypes, Plan, Idle, ReviewedAnew
    <2> QED BY <1>0, <2>1, <2>2, <2>3, <2>4 DEF UniqueIds, ReviewedAnew, Unwritten, RunningIsLast
  <1>2. CASE Restart
    <2>1. DOMAIN journal' = {} /\ pending' = NoPlan /\ pc' = Idle
          /\ issued' = issued /\ writer' = writer
      BY <1>2 DEF Restart
    <2> QED BY <1>0, <2>1 DEF UniqueIds, ReviewedAnew, Unwritten, RunningIsLast, CommandPCs, Idle
  <1>3. ASSUME NEW t \in Targets, NEW v \in Values, PreviewRead(t, v) PROVE PlansInv'
    <2>1. UNCHANGED <<journal, pending, writer>> /\ issued' = issued + 1
          /\ pc' = "review" /\ work'.id = issued + 1
      BY <1>3 DEF PreviewRead
    <2>2. /\ 1..issued \subseteq 1..(issued + 1) /\ 0..issued \subseteq 0..(issued + 1)
          /\ issued + 1 \notin 0..issued /\ issued + 1 \notin 1..issued
      BY <1>0, NewId
    <2> QED BY <2>1, <2>2 DEF UniqueIds, ReviewedAnew, Unwritten, RunningIsLast, CommandPCs
  <1>4. CASE PreviewIdentity
    <2>1. UNCHANGED <<journal, issued, writer>> /\ pc = "review" /\ pc' = Idle
      BY <1>4 DEF PreviewIdentity
    <2>2. pending'.id = work.id
      BY <1>0, <1>4 DEF PreviewIdentity, CommandTypes, Plan, Idle
    <2>3. issued \in 0..issued
      BY <1>0
    <2> QED BY <2>1, <2>2, <2>3 DEF UniqueIds, ReviewedAnew, Unwritten, RunningIsLast, CommandPCs,
             Idle
  <1>5. CASE PreviewFails
    BY <1>5 DEF PreviewFails, UniqueIds, ReviewedAnew, Unwritten, RunningIsLast, CommandPCs, Idle
  <1>6. CASE ApplyStart
    <2>1. /\ pending # NoPlan /\ pending \in Plan /\ journal' = Append(journal, pending)
          /\ work' = pending /\ pending' = NoPlan /\ pc' = "identity"
          /\ issued' = issued /\ writer' = writer
      BY <1>0, <1>6 DEF ApplyStart, RecordTypes
    <2>2. pending.id \in 1..issued
      BY <1>0, <2>1 DEF UniqueIds, Plan
    <2>3. UniqueIds'
      <3>1. /\ DOMAIN journal' = DOMAIN journal \cup {Len(journal) + 1}
            /\ journal'[Len(journal) + 1] = pending
            /\ \A i \in DOMAIN journal : journal'[i] = journal[i]
        BY <1>0, <2>1, AppendedIds
      <3>2. ASSUME NEW i \in DOMAIN journal'
            PROVE  journal'[i].id \in 1..issued /\ journal'[i].id # 0
        BY <1>0, <2>2, <3>1 DEF UniqueIds
      <3>3. ASSUME NEW i \in DOMAIN journal', NEW j \in DOMAIN journal',
                   journal'[i].id = journal'[j].id
            PROVE  i = j
        BY <3>1, <3>3 DEF UniqueIds
      <3> QED BY <1>0, <2>1, <3>2, <3>3 DEF UniqueIds
    <2>4. Last(journal').id = work'.id
      BY <1>0, <2>1, AppendedIds
    <2> QED BY <2>1, <2>3, <2>4 DEF ReviewedAnew, Unwritten, RunningIsLast
  <1>7. CASE RevertStart \/ RevertRefused
    <2> DEFINE e == [Last(journal) EXCEPT !.outcome = "rollback requested"]
    <2>1. /\ journal # <<>> /\ journal' = RollbackRequested /\ pc = Idle
          /\ pc' = Idle \/ (pc' = "identity" /\ work' = Last(journal'))
          /\ UNCHANGED <<pending, issued, writer>>
      BY <1>7 DEF RevertStart, RevertRefused
    <2>2. e \in Plan /\ Last(journal) \in Plan
      BY <1>0, <2>1, RequestedEntries
    <2>3. journal' = [journal EXCEPT ![Len(journal)] = e] /\ e.id = Last(journal).id
      BY <2>1, <2>2 DEF RollbackRequested, Last, Plan
    <2> HIDE DEF e
    <2>4. /\ DOMAIN journal' = DOMAIN journal
          /\ \A i \in DOMAIN journal : journal'[i].id = journal[i].id
      BY <1>0, <2>1, <2>2, <2>3, SameIds
    <2>5. UniqueIds'
      BY <1>0, <2>1, <2>4, IdsKept
    <2> QED BY <2>1, <2>5 DEF ReviewedAnew, Unwritten, RunningIsLast, CommandPCs, Idle
  <1>8. CASE HostCalls
    <2>1. /\ UNCHANGED <<journal, pending, issued>>
          /\ pc \in CommandPCs /\ pc' \in CommandPCs
          /\ work \in Plan /\ work'.id = work.id
          /\ \A t \in Targets : writer'[t] = writer[t] \/ writer'[t].by = work.id
      BY <1>8, HostCallIds
    <2>2. journal # <<>> /\ Len(journal) \in DOMAIN journal
      BY <1>0, <2>1 DEF TypeInv, CommandHasEntry
    <2>3. work.id \in 1..issued /\ work.id # pending.id
      BY <2>1, <2>2 DEF RunningIsLast, Last, UniqueIds
    <2> QED BY <1>0, <2>1, <2>3
            DEF UniqueIds, ReviewedAnew, Unwritten, RunningIsLast, CommandPCs
  <1>9. CASE Finish
    <2>1. work \in Plan /\ journal # <<>> /\ pc' = Idle
          /\ journal' = [journal EXCEPT ![Len(journal)] = work]
          /\ work.id = Last(journal).id /\ UNCHANGED <<pending, issued, writer>>
      BY <1>0, <1>9 DEF Finish, CommandTypes, Idle, TypeInv, CommandHasEntry, CommandPCs,
         RunningIsLast
    <2>2. /\ DOMAIN journal' = DOMAIN journal
          /\ \A i \in DOMAIN journal : journal'[i].id = journal[i].id
      BY <1>0, <2>1, SameIds
    <2>3. UniqueIds'
      BY <1>0, <2>1, <2>2, IdsKept
    <2> QED BY <2>1, <2>3 DEF ReviewedAnew, Unwritten, RunningIsLast, CommandPCs, Idle
  <1>10. CASE UNCHANGED <<journal, pending, issued, writer, pc, work>>
    BY <1>10 DEF UniqueIds, ReviewedAnew, Unwritten, RunningIsLast
  <1> QED BY <1>1, <1>2, <1>3, <1>4, <1>5, <1>6, <1>7, <1>8, <1>9, <1>10
    DEF Next, Environment, Display, Update, Hold, Replay, Live, Preview, Commands,
        ApplyRefused, RevertNothing, Verify, vars

LEMMA PlansInvariant == Spec => [](JournalInv /\ PlansInv)
  <1>1. JournalInv => TypeInv
    BY DEF JournalInv
  <1> QED BY <1>1, JournalInit, JournalStep, PlansInit, PlansStep, PTL DEF Spec

\* No plan is both pending and in the journal, or there twice: what the user
\* reviewed once is applied once (the ids of apply_action and its pop of an
\* entry that could not be saved).
THEOREM PlansAppliedOnce == Spec => []AppliedOnce
  <1>1. PlansInv => AppliedOnce
    BY DEF PlansInv, UniqueIds, AppliedOnce
  <1> QED BY <1>1, PlansInvariant, PTL

-----------------------------------------------------------------------------
(***************************************************************************)
(* The journal is truthful.  What it says between commands is said of      *)
(* Latest at every step, of the running command's plan too, and with it    *)
(* that a plan writes no control but its own.                              *)
(***************************************************************************)

\* What entry e says of control t, which w wrote last and which holds v.
Truthful(e, t, w, v) ==
  w.by = e.id =>
    /\ t = e.target /\ ~e.demo
    /\ ~w.restored /\ v # e.before => e.applied
    /\ e.outcome = "applied" => v = e.after
    /\ e.outcome = "reverted" => v = e.before

LatestTruthful ==
  \A t \in Targets : \A e \in Latest : Truthful(e, t, writer[t], val[t])

\* Until its last host call a command has no result.
NoResultYet ==
  pc \in CommandPCs \ {"finish"} => work.outcome \in {"reviewed", "rollback requested"}

\* A running command has not lost what its entry says was applied, unless it
\* reverted it.
StillOutstanding ==
  pc \in CommandPCs /\ Last(journal).applied => work.applied \/ work.outcome = "reverted"

TruthInv == LatestTruthful /\ NoResultYet /\ StillOutstanding

\* Outside a command Latest is the journal, inside it the plan replaces the last.
LEMMA LatestEntries ==
  ASSUME TypeInv
  PROVE  /\ Latest \subseteq Plan
         /\ pc \notin CommandPCs => Latest = Entries(journal)
         /\ pc \in CommandPCs =>
              /\ Latest = Earlier(journal) \cup {work} /\ work \in Plan
              /\ journal # <<>> /\ Earlier(journal) \subseteq Plan
  <1>1. journal \in Seq(Plan)
    BY DEF TypeInv, TypeOK, RecordTypes
  <1>2. CASE pc \notin CommandPCs
    BY <1>1, <1>2, EntriesType DEF Latest
  <1>3. CASE pc \in CommandPCs
    <2>1. work \in Plan /\ journal # <<>>
      BY <1>3 DEF TypeInv, TypeOK, CommandTypes, CommandHasEntry, CommandPCs, Idle
    <2>2. Earlier(journal) \subseteq Plan
      <3>1. Entries(journal) = Earlier(journal) \cup {Last(journal)}
        BY <1>1, <2>1, EntriesSplit
      <3> QED BY <1>1, <3>1, EntriesType
    <2> QED BY <1>3, <2>1, <2>2 DEF Latest
  <1> QED BY <1>2, <1>3

\* The running command's plan is not an earlier entry.
LEMMA EarlierIds ==
  ASSUME TypeInv, PlansInv, pc \in CommandPCs
  PROVE  \A e \in Earlier(journal) : e.id # work.id
  <1>1. journal \in Seq(Plan) /\ journal # <<>> /\ work.id = journal[Len(journal)].id
    BY DEF TypeInv, TypeOK, RecordTypes, CommandHasEntry, PlansInv, RunningIsLast, Last
  <1>2. ASSUME NEW i \in 1..(Len(journal) - 1)
        PROVE  i \in DOMAIN journal /\ Len(journal) \in DOMAIN journal /\ i # Len(journal)
    BY <1>1, BelowLast
  <1> QED BY <1>1, <1>2 DEF Earlier, PlansInv, UniqueIds

\* A step that writes no control and changes entries only in what they do not
\* say keeps them truthful.
LEMMA TruthKept ==
  ASSUME LatestTruthful, UNCHANGED <<val, writer>>,
         \A f \in Latest' : \E e \in Latest :
           /\ f.id = e.id /\ f.target = e.target /\ f.demo = e.demo
           /\ f.before = e.before /\ f.after = e.after /\ (e.applied => f.applied)
           /\ f.outcome = e.outcome \/ f.outcome \notin {"applied", "reverted"}
  PROVE  LatestTruthful'
  <1>1. ASSUME NEW t \in Targets, NEW f \in Latest'
        PROVE  Truthful(f, t, writer[t], val[t])
    BY DEF LatestTruthful, Truthful
  <1> QED BY <1>1 DEF LatestTruthful

LEMMA TruthInit == Init => TruthInv
  <1> SUFFICES ASSUME Init PROVE TruthInv
    OBVIOUS
  <1>1. journal = <<>> /\ pc \notin CommandPCs
    BY DEF Init, CommandPCs, Idle
  <1>2. Latest = {}
    BY <1>1 DEF Latest, Entries
  <1> QED BY <1>1, <1>2 DEF TruthInv, LatestTruthful, NoResultYet, StillOutstanding

\* The write makes the running plan the writer of its control, and applied.
LEMMA WriteTruth ==
  ASSUME TypeInv, PlansInv, TruthInv, NEW taken \in BOOLEAN, WriteHost(taken)
  PROVE  TruthInv'
  <1>1. /\ pc \in CommandPCs \ {"finish"} /\ pc' \in CommandPCs /\ journal' = journal
        /\ ~work.demo /\ work' = [work EXCEPT !.applied = TRUE]
    BY DEF WriteHost, Step, CommandPCs
  <1>2. /\ work \in Plan /\ Latest = Earlier(journal) \cup {work}
        /\ Latest' = Earlier(journal) \cup {work'}
    BY <1>1, LatestInCommand
  <1>3. /\ work'.id = work.id /\ work'.target = work.target /\ ~work'.demo
        /\ work'.before = work.before /\ work'.after = work.after /\ work'.applied
        /\ work'.outcome = work.outcome /\ work.outcome \in {"reviewed", "rollback requested"}
    BY <1>1, <1>2 DEF Plan, TruthInv, NoResultYet
  <1>4. ASSUME NEW t \in Targets
        PROVE  \/ writer'[t] = writer[t] /\ val'[t] = val[t]
               \/ t = work.target /\ writer'[t].by = work.id
    BY DEF WriteHost, TypeInv, TypeOK, HostTypes
  <1>5. ASSUME NEW t \in Targets, NEW e \in Earlier(journal)
        PROVE  Truthful(e, t, writer'[t], val'[t])
    <2>1. e.id # work.id
      BY <1>1, EarlierIds
    <2>2. Truthful(e, t, writer[t], val[t])
      BY <1>2 DEF TruthInv, LatestTruthful
    <2> QED BY <1>4, <2>1, <2>2 DEF Truthful
  <1>6. ASSUME NEW t \in Targets PROVE Truthful(work', t, writer'[t], val'[t])
    <2>1. Truthful(work, t, writer[t], val[t])
      BY <1>2 DEF TruthInv, LatestTruthful
    <2> QED BY <1>3, <1>4, <2>1 DEF Truthful
  <1>7. LatestTruthful'
    BY <1>2, <1>5, <1>6 DEF LatestTruthful
  <1> QED BY <1>1, <1>3, <1>7 DEF TruthInv, NoResultYet, StillOutstanding

\* What is read back is what the control holds.
LEMMA ReadbackTruth ==
  ASSUME TypeInv, PlansInv, TruthInv, NEW allowed \in BOOLEAN, Readback(allowed)
  PROVE  TruthInv'
  <1> DEFINE now      == IF work.demo THEN demoVal[work.target] ELSE val[work.target]
             verified == now = Wanted /\ allowed
             checked  == [work EXCEPT !.verified = verified]
  <1>1. /\ pc = "readback" /\ pc' = "finish" /\ journal' = journal /\ UNCHANGED <<val, writer>>
        /\ pc \in CommandPCs \ {"finish"} /\ pc' \in CommandPCs
    BY DEF Readback, Step, CommandPCs
  <1>2. /\ work \in Plan /\ Latest = Earlier(journal) \cup {work}
        /\ Latest' = Earlier(journal) \cup {work'}
    BY <1>1, LatestInCommand
  <1>3. work.outcome \in {"reviewed", "rollback requested"}
    BY <1>1 DEF TruthInv, NoResultYet
  <1>4. Last(journal).applied => work.applied
    BY <1>1, <1>3 DEF TruthInv, StillOutstanding
  <1>5. /\ work'.id = work.id /\ work'.target = work.target /\ work'.demo = work.demo
        /\ work'.before = work.before /\ work'.after = work.after
    BY <1>2 DEF Readback, Failed, Plan
  <1>6. \/ work'.applied = work.applied /\ work'.outcome \notin {"applied", "reverted"}
        \/ /\ work'.applied = work.applied /\ work'.outcome = "applied"
           /\ work.demo \/ val[work.target] = work.after
        \/ /\ work'.outcome = "reverted"
           /\ work.demo \/ val[work.target] = work.before
    <2>1. CASE ~verified
      <3>1. work' = Failed(checked)
        BY <2>1 DEF Readback
      <3> QED BY <1>2, <3>1 DEF Failed, Plan
    <2>2. CASE verified /\ Reverting
      <3>1. work' = [checked EXCEPT !.applied = FALSE, !.outcome = "reverted"]
        BY <2>2 DEF Readback
      <3> QED BY <1>2, <2>2, <3>1 DEF Plan, Wanted
    <2>3. CASE verified /\ ~Reverting
      <3>1. work' = [checked EXCEPT !.outcome = "applied"]
        BY <2>3 DEF Readback
      <3> QED BY <1>2, <2>3, <3>1 DEF Plan, Wanted
    <2> QED BY <2>1, <2>2, <2>3
  <1> HIDE DEF now, verified, checked
  <1>7. ASSUME NEW t \in Targets PROVE Truthful(work', t, writer[t], val[t])
    <2>1. Truthful(work, t, writer[t], val[t])
      BY <1>2 DEF TruthInv, LatestTruthful
    <2> QED BY <1>5, <1>6, <2>1 DEF Truthful
  <1>8. LatestTruthful'
    BY <1>1, <1>2, <1>7 DEF TruthInv, LatestTruthful
  <1> QED BY <1>1, <1>4, <1>6, <1>8 DEF TruthInv, NoResultYet, StillOutstanding

LEMMA TruthStep == JournalInv /\ PlansInv /\ TruthInv /\ [Next]_vars => TruthInv'
  <1> SUFFICES ASSUME JournalInv, PlansInv, TruthInv, [Next]_vars PROVE TruthInv'
    OBVIOUS
  <1>0. /\ TypeInv /\ TypeOK /\ RecordTypes /\ HostTypes /\ PendingReviewed
        /\ journal \in Seq(Plan) /\ Latest \subseteq Plan
    BY LatestEntries DEF JournalInv, TypeInv, TypeOK, RecordTypes
  <1>1. ASSUME NEW u \in Targets, NEW v \in Values, NEW again \in BOOLEAN,
               ForeignWrite(u, v, again)
        PROVE  TruthInv'
    <2>1. UNCHANGED <<journal, pc, work>> /\ Latest' = Latest
      BY <1>1 DEF ForeignWrite, Latest
    <2>2. \A t \in Targets :
            writer'[t].by = 0 \/ (writer'[t] = writer[t] /\ val'[t] = val[t])
      BY <1>0, <1>1 DEF ForeignWrite, HostTypes, Nobody
    <2>3. \A e \in Latest : e.id # 0
      BY <1>0 DEF Plan
    <2>4. LatestTruthful'
      BY <2>1, <2>2, <2>3 DEF TruthInv, LatestTruthful, Truthful
    <2> QED BY <2>1, <2>4 DEF TruthInv, NoResultYet, StillOutstanding
  <1>2. CASE Restart
    <2>1. journal' = <<>> /\ pc' \notin CommandPCs
      BY <1>2 DEF Restart, CommandPCs, Idle
    <2>2. Latest' = {}
      BY <2>1 DEF Latest, Entries
    <2> QED BY <2>1, <2>2 DEF TruthInv, LatestTruthful, NoResultYet, StillOutstanding
  <1>3. CASE ApplyStart
    <2>1. /\ pending # NoPlan /\ pending \in Plan /\ journal' = Append(journal, pending)
          /\ work' = pending /\ pc \notin CommandPCs /\ pc' \in CommandPCs
          /\ UNCHANGED <<val, writer>> /\ pending.outcome = "reviewed"
      BY <1>0, <1>3 DEF ApplyStart, RecordTypes, CommandPCs, Idle, PendingReviewed
    <2>2. Latest' = Latest \cup {pending}
      BY <1>0, <2>1, AppendedSplit DEF Latest
    <2>3. \A t \in Targets : writer[t].by # pending.id
      BY <2>1 DEF PlansInv, Unwritten
    <2>4. LatestTruthful'
      BY <2>1, <2>2, <2>3 DEF TruthInv, LatestTruthful, Truthful
    <2>5. Last(journal') = work'
      BY <1>0, <2>1, AppendedIds
    <2> QED BY <2>1, <2>4, <2>5 DEF TruthInv, NoResultYet, StillOutstanding
  <1>4. CASE RevertStart \/ RevertRefused
    <2> DEFINE e == [Last(journal) EXCEPT !.outcome = "rollback requested"]
    <2>1. /\ journal # <<>> /\ journal' = RollbackRequested /\ pc = Idle
          /\ UNCHANGED <<val, writer>>
          /\ pc' = Idle \/ (pc' = "identity" /\ work' = Last(journal'))
      BY <1>4 DEF RevertStart, RevertRefused
    <2>2. /\ Latest = Earlier(journal) \cup {Last(journal)} /\ Last(journal) \in Plan
          /\ Last(journal') = e
      BY <1>0, <2>1, RequestedEntries DEF Latest, CommandPCs, Idle
    <2>3. Latest' = Earlier(journal) \cup {e}
      BY <1>0, <2>1, RequestedEntries DEF Latest, CommandPCs, Idle
    <2>4. /\ e.id = Last(journal).id /\ e.target = Last(journal).target
          /\ e.demo = Last(journal).demo /\ e.before = Last(journal).before
          /\ e.after = Last(journal).after /\ e.applied = Last(journal).applied
          /\ e.outcome = "rollback requested"
      BY <2>2 DEF Plan
    <2> HIDE DEF e
    <2>5. LatestTruthful'
      BY <2>1, <2>2, <2>3, <2>4, TruthKept DEF TruthInv
    <2> QED BY <2>1, <2>2, <2>4, <2>5
            DEF TruthInv, NoResultYet, StillOutstanding, CommandPCs, Idle
  <1>5. CASE CheckIdentity \/ CheckValue \/ ValidateTask
    <2>1. UNCHANGED <<val, writer, journal, work>> /\ pc \in CommandPCs \ {"finish"}
          /\ pc' \in CommandPCs \ {"finish"}
      BY <1>5 DEF CheckIdentity, CheckValue, ValidateTask, Step, CommandPCs
    <2>2. Latest' = Latest
      BY <2>1 DEF Latest
    <2>3. LatestTruthful'
      BY <2>1, <2>2, TruthKept DEF TruthInv
    <2> QED BY <2>1, <2>3 DEF TruthInv, NoResultYet, StillOutstanding
  <1>6. CASE WriteDemo \/ CommandFails
    <2>1. /\ UNCHANGED <<val, writer, journal>> /\ pc \in CommandPCs \ {"finish"}
          /\ pc' \in CommandPCs
          /\ \/ pc' = "readback" /\ work' = [work EXCEPT !.applied = TRUE]
             \/ pc' = "finish" /\ work' = Failed(work)
      BY <1>6 DEF WriteDemo, CommandFails, Step, CommandPCs
    <2>2. /\ work \in Plan /\ Latest = Earlier(journal) \cup {work}
          /\ Latest' = Earlier(journal) \cup {work'}
      BY <1>0, <2>1, LatestInCommand
    <2>3. /\ work'.id = work.id /\ work'.target = work.target /\ work'.demo = work.demo
          /\ work'.before = work.before /\ work'.after = work.after
          /\ work.applied => work'.applied
          /\ work'.outcome = work.outcome \/ work'.outcome \notin {"applied", "reverted"}
          /\ pc' # "finish" => work'.outcome = work.outcome
      BY <2>1, <2>2 DEF Plan, Failed
    <2>4. LatestTruthful'
      BY <2>1, <2>2, <2>3, TruthKept DEF TruthInv
    <2> QED BY <2>1, <2>3, <2>4 DEF TruthInv, NoResultYet, StillOutstanding
  <1>7. CASE Finish
    <2>1. /\ work \in Plan /\ journal # <<>> /\ pc = "finish" /\ pc' \notin CommandPCs
          /\ journal' = [journal EXCEPT ![Len(journal)] = work] /\ UNCHANGED <<val, writer>>
          /\ Latest = Earlier(journal) \cup {work}
      BY <1>0, <1>7, LatestEntries DEF Finish, CommandPCs, Idle
    <2>2. Latest' = Latest
      <3>1. Entries(journal') = Earlier(journal) \cup {work}
        BY <1>0, <2>1, ReplacedSplit
      <3>2. Latest' = Entries(journal')
        BY <2>1 DEF Latest
      <3> QED BY <2>1, <3>1, <3>2
    <2>3. LatestTruthful'
      BY <2>1, <2>2, TruthKept DEF TruthInv
    <2> QED BY <2>1, <2>3 DEF TruthInv, NoResultYet, StillOutstanding
  <1>8. ASSUME UNCHANGED <<val, writer, journal>>, pc \notin CommandPCs, pc' \notin CommandPCs
        PROVE  TruthInv'
    <2>1. Latest' = Latest
      BY <1>8 DEF Latest
    <2>2. LatestTruthful'
      BY <1>8, <2>1, TruthKept DEF TruthInv
    <2> QED BY <1>8, <2>2 DEF TruthInv, NoResultYet, StillOutstanding
  <1>9. CASE Preview
    <2>1. UNCHANGED <<val, writer, journal>> /\ pc \notin CommandPCs /\ pc' \notin CommandPCs
      BY <1>9 DEF Preview, PreviewRead, PreviewIdentity, PreviewFails, CommandPCs, Idle
    <2> QED BY <1>8, <2>1
  <1>10. CASE UNCHANGED <<val, writer, journal, pc, work>>
    <2>1. Latest' = Latest
      BY <1>10 DEF Latest
    <2> QED BY <1>10, <2>1, TruthKept DEF TruthInv, NoResultYet, StillOutstanding
  <1>11. CASE Display \/ ApplyRefused \/ RevertNothing \/ Verify \/ UNCHANGED vars
    BY <1>10, <1>11 DEF Display, Update, Hold, Replay, Live, ApplyRefused, RevertNothing,
       Verify, vars
  <1>12. CASE HostCalls
    BY <1>0, <1>5, <1>6, <1>12, WriteTruth, ReadbackTruth DEF HostCalls
  <1> QED BY <1>1, <1>2, <1>3, <1>4, <1>7, <1>9, <1>11, <1>12 DEF Next, Environment, Commands

LEMMA TruthInvariant == Spec => [](JournalInv /\ PlansInv /\ TruthInv)
  BY PlansInvariant, TruthInit, TruthStep, PTL DEF Spec

\* Between commands every entry says of its control what is so: no change is
\* left behind that is not applied, an applied value is there and a reverted
\* one gone (apply_inner and revert_inner, whichever call fails).
THEOREM JournalTellsTruth == Spec => []JournalIsTruthful
  <1>1. ASSUME TypeInv, LatestTruthful PROVE JournalIsTruthful
    <2>1. ASSUME pc = Idle, NEW t \in Targets, NEW i \in DOMAIN journal
          PROVE  Truthful(journal[i], t, writer[t], val[t])
      <3>1. Latest = Entries(journal)
        BY <2>1, <1>1, LatestEntries DEF CommandPCs, Idle
      <3> QED BY <1>1, <3>1 DEF LatestTruthful, Entries
    <2>2. NothingLeftBehind
      BY <2>1 DEF NothingLeftBehind, Truthful
    <2>3. OutcomeMatchesHost
      BY <2>1 DEF OutcomeMatchesHost, Truthful
    <2> QED BY <2>2, <2>3 DEF JournalIsTruthful
  <1>2. JournalInv /\ TruthInv => TypeInv /\ LatestTruthful
    BY DEF JournalInv, TruthInv
  <1> QED BY <1>1, <1>2, TruthInvariant, PTL

\* An entry stays outstanding until its rollback ended reverted, however many
\* rollbacks failed before (the journal entry that apply and revert write back).
THEOREM ActionsOutstanding == Spec => OutstandingUntilReverted
  <1> DEFINE Kept == \A i \in DOMAIN journal :
                       i \in DOMAIN journal' /\ journal[i].applied /\ ~journal'[i].applied
                       => journal'[i].outcome = "reverted"
  <1>1. ASSUME TypeInv, TruthInv, [Next]_vars PROVE [Kept]_vars
    <2>0. journal \in Seq(Plan)
      BY <1>1 DEF TypeInv, TypeOK, RecordTypes
    <2>1. CASE Restart
      BY <2>1 DEF Restart
    <2>2. CASE ApplyStart
      <3>1. pending \in Plan /\ journal' = Append(journal, pending)
        BY <1>1, <2>2 DEF ApplyStart, TypeInv, TypeOK, RecordTypes
      <3> QED BY <2>0, <3>1, AppendedIds
    <2>3. CASE RevertStart \/ RevertRefused
      <3> DEFINE e == [Last(journal) EXCEPT !.outcome = "rollback requested"]
      <3>1. journal # <<>> /\ journal' = RollbackRequested
        BY <2>3 DEF RevertStart, RevertRefused
      <3>2. e \in Plan /\ Last(journal) \in Plan
        BY <1>1, <3>1, RequestedEntries DEF TypeInv, TypeOK
      <3>3. journal' = [journal EXCEPT ![Len(journal)] = e] /\ e.applied = Last(journal).applied
        BY <3>1, <3>2 DEF RollbackRequested, Last, Plan
      <3> HIDE DEF e
      <3>4. /\ journal'[Len(journal)].applied = journal[Len(journal)].applied
            /\ \A i \in DOMAIN journal : i # Len(journal) => journal'[i] = journal[i]
        BY <2>0, <3>1, <3>2, <3>3, ReplacedIds
      <3> QED BY <3>4
    <2>4. CASE Finish
      <3>1. /\ work \in Plan /\ journal # <<>> /\ journal' = [journal EXCEPT ![Len(journal)] = work]
            /\ Last(journal).applied => work.applied \/ work.outcome = "reverted"
        BY <1>1, <2>4 DEF Finish, TypeInv, TypeOK, CommandTypes, CommandHasEntry, CommandPCs, Idle,
           TruthInv, StillOutstanding
      <3>2. /\ journal'[Len(journal)] = work /\ Last(journal) = journal[Len(journal)]
            /\ \A i \in DOMAIN journal : i # Len(journal) => journal'[i] = journal[i]
        BY <2>0, <3>1, ReplacedIds
      <3> QED BY <3>1, <3>2
    <2>5. CASE UNCHANGED journal
      BY <2>5
    <2> HIDE DEF Kept
    <2> QED BY <1>1, <2>1, <2>2, <2>3, <2>4, <2>5
      DEF Next, Environment, ForeignWrite, Display, Update, Hold, Replay, Live, Preview, PreviewRead,
          PreviewIdentity, PreviewFails, HostCalls, CheckIdentity, CheckValue, ValidateTask,
          WriteHost, WriteDemo, Readback, CommandFails, Step, Commands, ApplyRefused,
          RevertNothing, Verify, vars
  <1>2. JournalInv => TypeInv
    BY DEF JournalInv
  <1> QED BY <1>1, <1>2, TruthInvariant, PTL DEF Spec, OutstandingUntilReverted

-----------------------------------------------------------------------------
(* A replay only reads: no command is running in one. *)

IdleInReplay == replay => pc \notin CommandPCs

\* While a recording is displayed neither the host nor the demo's is changed
\* (the refusals of apply_action and revert_action in a replay).
THEOREM ReplayReads == Spec => ReplayIsReadOnly
  <1> USE DEF IdleInReplay, CommandPCs, Idle
  <1>1. Init => IdleInReplay
    BY DEF Init
  <1>2. ASSUME IdleInReplay, [Next]_vars PROVE IdleInReplay'
    <2>1. CASE HostCalls
      BY <1>2, <2>1 DEF HostCalls, CheckIdentity, CheckValue, ValidateTask, WriteHost, WriteDemo,
         Readback, CommandFails, Step
    <2>2. CASE Commands
      BY <1>2, <2>2 DEF Commands, ApplyStart, ApplyRefused, RevertStart, RevertRefused,
         RevertNothing, Finish, Verify
    <2>3. CASE Preview
      BY <1>2, <2>3 DEF Preview, PreviewRead, PreviewIdentity, PreviewFails
    <2>4. CASE Environment \/ Restart \/ Display
      BY <1>2, <2>4 DEF Environment, ForeignWrite, Restart, Display, Update, Hold, Replay, Live
    <2>5. CASE UNCHANGED vars
      BY <1>2, <2>5 DEF vars
    <2> QED BY <1>2, <2>1, <2>2, <2>3, <2>4, <2>5 DEF Next
  <1> DEFINE ReadOnly ==
        replay => /\ demoVal' = demoVal \/ runs' # runs
                  /\ \A t \in Targets : writer'[t] # writer[t] => writer'[t] = Nobody
  <1>3. ASSUME TypeInv, IdleInReplay, [Next]_vars PROVE [ReadOnly]_vars
    <2>1. CASE Restart
      BY <1>3, <2>1 DEF Restart, TypeInv, TypeOK, BoundTypes
    <2>2. CASE Environment
      BY <1>3, <2>2 DEF Environment, ForeignWrite, TypeInv, TypeOK, HostTypes
    <2>3. CASE HostCalls
      BY <1>3, <2>3 DEF HostCalls, CheckIdentity, CheckValue, ValidateTask, WriteHost, WriteDemo,
         Readback, CommandFails, Step
    <2>4. CASE UNCHANGED <<demoVal, writer>>
      BY <2>4
    <2> HIDE DEF ReadOnly
    <2> QED BY <1>3, <2>1, <2>2, <2>3, <2>4
      DEF Next, Display, Update, Hold, Replay, Live, Preview, PreviewRead, PreviewIdentity,
          PreviewFails, Commands, ApplyStart, ApplyRefused, RevertStart, RevertRefused,
          RevertNothing, Finish, Verify, vars
  <1>4. Spec => []IdleInReplay
    BY <1>1, <1>2, PTL DEF Spec
  <1>5. JournalInv => TypeInv
    BY DEF JournalInv
  <1> QED BY <1>3, <1>4, <1>5, PlansInvariant, PTL DEF Spec, ReplayIsReadOnly

=============================================================================
