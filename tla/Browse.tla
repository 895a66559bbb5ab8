-------------------------------- MODULE Browse --------------------------------
(***************************************************************************)
(* Rows and the selection: what a view lists, how the keys move through it *)
(* and what a new sample does to it (App in src/src/app.rs).               *)
(*                                                                         *)
(* A screen row is <<name, generation>>: a PID and its start ticks, a      *)
(* cgroup and its inode, a program and its tag. The views are the tasks,   *)
(* one task per scheduler row, the processes by memory, the views of named *)
(* objects (devices, syscalls, interrupts, cgroups, modules, programs),    *)
(* events and issues.                                                      *)
(***************************************************************************)
EXTENDS Integers, SequencesExt, FiniteSets

CONSTANTS
  Names,        \* PIDs and names, which are numbers: their order is the rows'
  Values,       \* what a column can be sorted by
  EventCap,     \* events the telemetry holds
  BrowseTabs,   \* the views this instance opens
  MaxRefresh, MaxKeys, MaxTrail    \* bounds

ASSUME BrowseAssumption ==
  /\ Names \subseteq Nat /\ IsFiniteSet(Names) /\ EventCap \in Nat \ {0}
  /\ BrowseTabs \subseteq {"tasks", "scheduler", "memory", "objects", "events", "issues"}
  /\ MaxRefresh \in Nat /\ MaxKeys \in Nat /\ MaxTrail \in Nat

Tasks == "tasks"
Scheduler == "scheduler"
Memory == "memory"
Objects == "objects"
Events == "events"
IssueView == "issues"

Absent == [gen |-> 0, value |-> 0]
NoRow == <<>>

VARIABLES
  listing,      \* snapshot: boot, things, issues, events
  tab, selected, detail, filter, sort, reverse, folded,
  trail,      \* where Esc goes back to
  chosen,      \* the row the user chose last
  inspected,      \* the row the details were opened of
  refreshes, keys

listVars   == <<tab, filter, sort, reverse, folded>>
browseVars == <<listing, listVars, selected, detail, trail, chosen, inspected,
                refreshes, keys>>

-----------------------------------------------------------------------------
(* What is listed *)

Present(s) == {n \in Names : s.things[n] # Absent}
Row(s, n) == <<n, s.things[n].gen>>

\* The elements of S, each behind those that before gives for it.
Ordered(S, before) ==
  [i \in 1..Cardinality(S) |-> CHOOSE n \in S : Cardinality(before[n]) = i - 1]

ByName(S) == Ordered(S, [n \in S |-> {m \in S : m < n}])

\* A column's order; equal values keep the order they had.
ByValue(s, list) ==
  LET S == Range(list)
      value(n) == s.things[n].value
  IN  Ordered(S, [n \in S |-> {m \in S : value(m) > value(n) \/ (value(m) = value(n) /\ m < n)}])

Sorted(s, list) == IF sort = "value" THEN ByValue(s, list) ELSE list
Turned(list) == IF reverse THEN Reverse(list) ELSE list
Matching(S) == IF filter = {} THEN S ELSE S \cap filter
Rows(s, list) == [i \in DOMAIN list |-> Row(s, list[i])]

\* visible_tasks
VisibleTasks(s) == Rows(s, Turned(Sorted(s, ByName(Matching(Present(s))))))

\* memory_tasks: the largest first unless another column is chosen.
MemoryTasks(s) ==
  LET listed == ByName(Matching(Present(s)))
  IN  Rows(s, Turned(IF sort = "value" THEN listed ELSE ByValue(s, listed)))

\* scheduler_subjects in the task mode, where a row is known by its label.
SchedulerSubjects(s) ==
  Rows(s, Turned(ByName(Matching(Present(s)))))

\* rows of the views of named objects; a folded parent hides what is under it.
ObjectRows(s) ==
  LET hidden == {n \in Names : \E p \in folded : p < n}
  IN  Rows(s, Turned(Sorted(s, ByName(Matching(Present(s) \ hidden)))))

\* visible_events, which are never reversed.
VisibleEvents(s) == [i \in DOMAIN s.events |-> <<s.events[i]>>]

\* telemetry.issues, in the order of their ids.
IssueRows(s) == [i \in DOMAIN ByName(s.issues) |-> <<ByName(s.issues)[i]>>]

Listed(s) ==
  CASE tab = Tasks     -> VisibleTasks(s)
    [] tab = Scheduler -> SchedulerSubjects(s)
    [] tab = Memory    -> MemoryTasks(s)
    [] tab = Objects   -> ObjectRows(s)
    [] tab = Events    -> VisibleEvents(s)
    [] tab = IssueView    -> IssueRows(s)

RowCount == Len(Listed(listing))

\* The row at an index; the tasks view clamps it (selected_task).
RowAt(list, index) ==
  LET i == IF tab = Tasks /\ index > Len(list) THEN Len(list) ELSE index
  IN  IF i \in DOMAIN list THEN list[i] ELSE NoRow

Selected == RowAt(Listed(listing), selected)

\* The first of some positions; 0: there is none.
FirstOf(P) == IF P = {} THEN 0 ELSE CHOOSE i \in P : \A j \in P : i <= j
RowOf(list, row) == FirstOf({i \in DOMAIN list : list[i] = row})

-----------------------------------------------------------------------------

BrowseInit ==
  /\ listing = [boot |-> 1, issues |-> Names, events |-> <<1>>,
               things |-> [n \in Names |-> [gen |-> 1, value |-> 0]]]
  /\ tab \in BrowseTabs /\ selected = 1 /\ detail = FALSE
  /\ filter = {} /\ sort = "concern" /\ reverse = FALSE /\ folded = {}
  /\ trail = <<>> /\ refreshes = 0 /\ keys = 0
  /\ chosen = Selected /\ inspected = NoRow

\* One thing changes between two samples: it ends, is replaced under its name
\* or grows; the host restarts; an issue comes or goes; an event is logged.
NewScreens ==
  {[listing EXCEPT !.things[n] = Absent] : n \in Present(listing)} \cup
  {[listing EXCEPT !.things[n].gen = 3 - @] : n \in Present(listing)} \cup
  {[listing EXCEPT !.things[n].value = v] : n \in Present(listing), v \in Values} \cup
  {[listing EXCEPT !.things[n] = [gen |-> 2, value |-> 0]] :
     n \in Names \ Present(listing)} \cup
  {[listing EXCEPT !.boot = 2]} \cup
  {[listing EXCEPT !.issues = (@ \cup {n}) \ (@ \cap {n})] : n \in Names} \cup
  {[listing EXCEPT !.events =
      LET all == Append(@, Last(@) + 1)
      IN  IF Len(all) > EventCap THEN Tail(all) ELSE all]}

\* Mutant: a row's name is all that is looked at.
SameSubjectByName(s, row) == \E g \in 1..2 : <<row[1], g>> \in Range(Listed(s))

\* The tasks view finds PID and start ticks, the objects the name and then the
\* generation; both need the same boot.
SameSubject(s, row) == row \in Range(Listed(s)) /\ s.boot = listing.boot

\* Mutant: the index is kept.
FoundThere(list, row) == selected

Found(list, row) == FirstOf({i \in DOMAIN list : list[i][1] = row[1]})

\* Mutant: the last event is not followed.
FollowsNothing(was) == FALSE

\* The end of the events is followed.
Following(was) == selected >= Len(was)

\* App::update, the part that keeps the selection. The memory and the issues
\* views keep the index, the scheduler's tasks the label.
Refresh ==
  /\ refreshes < MaxRefresh /\ refreshes' = refreshes + 1
  /\ \E s \in NewScreens :
       LET row == Selected
           was == Listed(listing)
           now == Listed(s)
           first(n) == IF n = 0 THEN 1 ELSE n
       IN  /\ listing' = s
           /\ CASE tab = Events ->
                     /\ selected' = IF Following(was) THEN first(Len(now))
                                    ELSE first(RowOf(now, row))
                     /\ UNCHANGED detail
                [] tab = Scheduler /\ row # NoRow ->
                     /\ selected' = first(Found(now, row))
                     /\ UNCHANGED detail
                [] tab \in {Tasks, Objects} /\ row # NoRow ->
                     IF SameSubject(s, row)
                       THEN /\ selected' = Found(now, row)
                            /\ UNCHANGED detail
                       ELSE selected' = 1 /\ detail' = FALSE
                [] OTHER -> UNCHANGED <<selected, detail>>
           /\ chosen' = IF row \in Range(now) /\ s.boot = listing.boot
                          THEN chosen ELSE RowAt(now, selected')
  /\ UNCHANGED <<listVars, trail, inspected, keys>>

-----------------------------------------------------------------------------
(* The keys *)

Pressed == keys < MaxKeys /\ keys' = keys + 1 /\ UNCHANGED <<listing, refreshes>>

\* What the user looks at after a key is what the user chose.
Choosing ==
  /\ chosen' = Selected'
  /\ inspected' = IF detail' THEN Selected' ELSE NoRow

\* j and k, Home, End.  With the details open j and k scroll the text, unless the
\* table is expanded and focused; Home and End select even so.
Move ==
  /\ Pressed
  /\ \/ selected' = IF selected + 1 < RowCount THEN selected + 1
                    ELSE IF RowCount = 0 THEN 1 ELSE RowCount
     \/ selected' = IF selected > 1 THEN selected - 1 ELSE 1
     \/ selected' = 1
     \/ selected' = IF RowCount = 0 THEN 1 ELSE RowCount
  /\ UNCHANGED <<listVars, detail, trail>> /\ Choosing

\* /, and a key while it is typed.
Filter ==
  /\ Pressed
  /\ filter' \in SUBSET Names /\ filter' # filter /\ selected' = 1
  /\ UNCHANGED <<tab, sort, reverse, folded, detail, trail>> /\ Choosing

\* The sort command, the grouping and mode keys: to the first row.
SortBy ==
  /\ Pressed
  /\ sort' \in {"concern", "value"} /\ sort' # sort /\ selected' = 1
  /\ UNCHANGED <<tab, filter, reverse, folded, detail, trail>> /\ Choosing

\* S: the index stays.
Turn ==
  /\ Pressed /\ tab \notin {Events, IssueView}
  /\ reverse' = ~reverse
  /\ UNCHANGED <<tab, filter, sort, folded, selected, detail, trail>> /\ Choosing

\* Space on a cgroup
Fold ==
  /\ Pressed /\ tab = Objects /\ Selected # NoRow
  /\ LET n == Selected[1]
     IN  folded' = (folded \cup {n}) \ (folded \cap {n})
  /\ UNCHANGED <<tab, filter, sort, reverse, selected, detail, trail>> /\ Choosing

\* Enter: the details of the row.
Open ==
  /\ Pressed /\ tab \in {Tasks, Objects, Events, IssueView}
  /\ detail' = (tab \in {Tasks, Events} \/ ~detail)
  /\ UNCHANGED <<listVars, selected, trail>> /\ Choosing

\* switch: the order of the rows is kept from the view before.
Switched(to) ==
  /\ tab' = to /\ filter' = {} /\ detail' = FALSE
  /\ UNCHANGED <<sort, reverse, folded>>

Switch(to) ==
  /\ Pressed /\ Switched(to)
  /\ selected' = IF to = Events THEN Len(listing.events) ELSE 1
  /\ UNCHANGED trail /\ Choosing

Route ==
  [tab |-> tab, selected |-> selected, filter |-> filter, sort |-> sort,
   reverse |-> reverse]

Drilled == Len(trail) < MaxTrail /\ trail' = Append(trail, Route)

\* Enter on a process in the memory view: the task it is, with its details.
OpenProcess ==
  /\ Pressed /\ tab = Memory /\ Tasks \in BrowseTabs /\ Selected # NoRow
  /\ Drilled
  /\ tab' = Tasks /\ filter' = {Selected[1]} /\ detail' = TRUE
  /\ UNCHANGED <<sort, reverse, folded>>
  /\ selected' = RowOf(VisibleTasks(listing)', Selected)
  /\ Choosing

\* Enter on a cgroup or a scheduler row: the tasks that match its name.
OpenTasks ==
  /\ Pressed /\ tab \in {Scheduler, Objects} /\ Tasks \in BrowseTabs
  /\ Drilled
  /\ tab' = Tasks /\ detail' = FALSE /\ selected' = 1
  /\ filter' = IF Selected = NoRow THEN {} ELSE {Selected[1]}
  /\ UNCHANGED <<sort, reverse, folded>> /\ Choosing

\* Esc: the details, then the filter when nothing was drilled, then the route.
EscBack ==
  /\ Pressed
  /\ \/ /\ detail /\ detail' = FALSE
        /\ UNCHANGED <<listVars, selected, trail>>
     \/ /\ ~detail /\ filter # {} /\ trail = <<>>
        /\ filter' = {}
        /\ UNCHANGED <<tab, sort, reverse, folded, selected, detail, trail>>
     \/ /\ ~detail /\ trail # <<>>
        /\ LET r == Last(trail)
           IN  /\ tab' = r.tab /\ selected' = r.selected /\ filter' = r.filter
               /\ sort' = r.sort /\ reverse' = r.reverse
        /\ trail' = Front(trail)
        /\ UNCHANGED <<folded, detail>>
  /\ Choosing

BrowseNext ==
  \/ Refresh
  \/ Move \/ Filter \/ SortBy \/ Turn \/ Fold \/ Open
  \/ OpenProcess \/ OpenTasks \/ EscBack
  \/ \E to \in BrowseTabs \ {tab} : Switch(to)

BrowseSpec == BrowseInit /\ [][BrowseNext]_browseVars

-----------------------------------------------------------------------------

\* A sample does not move the selection of the tasks and of the named objects:
\* the row the user chose stays selected, wherever it is listed now, for as
\* long as it is the same subject; otherwise the first row is selected.
SelectionIsKept == tab \in {Tasks, Objects} => Selected = chosen

\* Open details are those of the row they were opened of, until it is gone.
DetailIsOfOpened ==
  detail /\ tab \in {Tasks, Objects} /\ inspected # NoRow => Selected = inspected

\* Events that come and go do not move the selection from an event the user
\* chose, and the newest event stays selected.
EventsAreFollowed ==
  Refresh /\ tab = Events /\ Selected # NoRow /\ listing'.events # <<>> =>
    IF Selected = Last(VisibleEvents(listing))
    THEN Selected' = Last(VisibleEvents(listing'))
    ELSE Selected' = Selected \/ Selected \notin Range(VisibleEvents(listing'))

\* What the user chose, and opened, stays chosen, and open, across samples.
ChosenIsKept ==
  [](SelectionIsKept /\ DetailIsOfOpened) /\ [][EventsAreFollowed]_browseVars

=============================================================================
