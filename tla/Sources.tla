------------------------------ MODULE Sources ------------------------------
(***************************************************************************)
(* A source of slow metadata: a worker with a request and a result channel *)
(* of one, a deadline, what the user has demanded, the worker's cache, and *)
(* the join of its last result with the current sample (sources.rs,        *)
(* enrichment.rs, the PSS part of inventory.rs, App::collection_demand).   *)
(*                                                                         *)
(* Time is in units of the source's interval, 5 or 30 seconds.  A subject  *)
(* (a PID, a module, a cgroup path, a device name) may be replaced by      *)
(* another of its name: host[s] is the incarnation it is at.               *)
(***************************************************************************)
EXTENDS Naturals, FiniteSets, FiniteSetsExt, Functions

CONSTANTS
  Kind,         \* the sources there are: a subset of AllKinds
  Subject,      \* the subjects, numbered in the order of their names
  Batch,        \* subjects a request may have read anew
  MaxReplaced   \* bound: replacements of a subject

AllKinds == {"task_metadata", "modules/pss", "module_metadata", "systemd", "storage_health"}
TaskKinds == {"task_metadata", "modules/pss"}

ASSUME SourcesAssumption ==
  /\ Kind \subseteq AllKinds /\ Subject \subseteq Nat /\ IsFiniteSet(Subject)
  /\ Batch \in Nat \ {0} /\ MaxReplaced \in Nat \ {0}

VARIABLES
  kind,         \* which source this is
  host,         \* incarnation of each subject
  listed,       \* incarnations in the last result of the source that lists them
  rows,         \* incarnations in the current sample
  wish,         \* the demand slot: subjects and the identity they were seen at
  known,        \* Source::demand
  due,          \* time until next_due
  pending,      \* a request is outstanding
  request,      \* channel of requests: <<>> or <<identities>>
  work,         \* what the worker is at
  cache,        \* Extra::cache and Inventory::pss: per identity what was read, and its age
  cursor,       \* Inventory::pss_cursor
  result,       \* channel of results: <<>> or <<result>>
  latest,       \* Source::latest: <<>> or <<result>>
  age,          \* age of latest
  shown,        \* metadata in the sample: the incarnation it was read of
  quality       \* the capability of the source

sourcesVars == <<kind, host, listed, rows, wish, known, due, pending, request, work,
                 cache, cursor, result, latest, age, shown, quality>>

Missing == 0                    \* nothing is shown
Failed == MaxReplaced + 2       \* an acquisition error is shown
Interval == 1
StaleAfter == 2 * Interval
Ttl == IF kind \in {"module_metadata", "storage_health"} THEN 2
       ELSE IF kind = "modules/pss" THEN 0 ELSE 1

(* What the join and the cache know a subject by.  A device's number and    *)
(* name are all that storage_health asks for.                               *)
Identity(s, i) == IF kind = "storage_health" THEN <<s, 0>> ELSE <<s, i>>
Rows == {Identity(s, rows[s]) : s \in Subject}
Idle == [phase |-> "idle", asked |-> {}, todo |-> {}, id |-> <<>>, read |-> Missing, at |-> 0]
-----------------------------------------------------------------------------
SourcesInit ==
  /\ kind \in Kind
  /\ host = [s \in Subject |-> 1] /\ listed = host /\ rows = host
  /\ wish = {} /\ known = {} /\ due = 0 /\ pending = FALSE
  /\ request = <<>> /\ work = Idle /\ cache = <<>> /\ cursor = 0
  /\ result = <<>> /\ latest = <<>> /\ age = 0
  /\ shown = [s \in Subject |-> Missing] /\ quality = "warming"

(* The host: a PID is reused, a module reloaded, a cgroup or device replaced. *)
Replace(s) ==
  /\ SumFunction(host) < Cardinality(Subject) + MaxReplaced
  /\ host' = [host EXCEPT ![s] = @ + 1]
  /\ UNCHANGED <<kind, listed, rows, wish, known, due, pending, request, work,
                 cache, cursor, result, latest, age, shown, quality>>

(* The devices, cgroups or modules source lists its subjects again.         *)
List ==
  /\ listed' = host
  /\ UNCHANGED <<kind, host, rows, wish, known, due, pending, request, work,
                 cache, cursor, result, latest, age, shown, quality>>

(* The main thread sets the demand: watched and selected tasks with their   *)
(* start time, the one object of an open inspector by its name, nothing     *)
(* when frozen or replaying.                                                *)
SetDemand(w) ==
  /\ kind # "modules/pss" /\ w # wish
  /\ w \subseteq IF kind = "task_metadata" THEN Rows ELSE {<<s, 0>> : s \in Subject}
  /\ kind # "task_metadata" => Cardinality(w) <= 1
  /\ wish' = w
  /\ UNCHANGED <<kind, host, listed, rows, known, due, pending, request, work,
                 cache, cursor, result, latest, age, shown, quality>>

Tick ==
  /\ due' = IF due = 0 THEN 0 ELSE due - 1
  /\ age' = IF age = StaleAfter THEN age ELSE age + 1
  /\ cache' = [k \in DOMAIN cache |->
                 [cache[k] EXCEPT !.age = IF @ = Ttl THEN @ ELSE @ + 1]]
  /\ work' = [work EXCEPT !.at = IF work.phase \in {"idle", "dead"} \/ @ = StaleAfter
                                 THEN @ ELSE @ + 1]
  /\ result' = IF result = <<>> THEN <<>>
               ELSE <<[result[1] EXCEPT !.age = IF @ = StaleAfter THEN @ ELSE @ + 1]>>
  /\ UNCHANGED <<kind, host, listed, rows, wish, known, pending, request,
                 cursor, latest, shown, quality>>
-----------------------------------------------------------------------------
(* update: what the worker is asked about, among the subjects of sample r.  *)
Wanted(r) ==
  LET ids == {Identity(s, r[s]) : s \in Subject} IN
  CASE kind = "modules/pss" -> ids
    [] kind = "task_metadata" -> ids \cap wish
    [] OTHER -> {id \in ids : <<id[1], 0>> \in wish}

(* Mutant: metadata is joined by the name alone.                            *)
PublishedByName(r, last, old) ==
  [s \in Subject |->
     IF last = <<>> \/ \A id \in DOMAIN last[1].data : id[1] # s THEN Missing
     ELSE last[1].data[CHOOSE id \in DOMAIN last[1].data : id[1] = s]]

(* publish: metadata whose subject has the identity it was asked for; PSS   *)
(* that is stale is blanked.                                                *)
Published(r, last, old) ==
  [s \in Subject |->
     IF last = <<>> \/ (kind = "modules/pss" /\ old >= StaleAfter) THEN Missing
     ELSE LET id == Identity(s, r[s]) IN
          IF id \in DOMAIN last[1].data THEN last[1].data[id] ELSE Missing]

(* Mutants: a request stays outstanding when its result was taken; what was *)
(* ever read is available.                                                  *)
StillPendingAlways(got) == pending
QualityOnce(last, old) == IF last = <<>> THEN "warming" ELSE "available"

StillPending(got) == pending /\ ~got
QualityOf(last, old) ==
  IF last = <<>> THEN "warming" ELSE IF old < StaleAfter THEN "available" ELSE "stale"

(* The sampler: tasks are read, then the source takes the worker's result,  *)
(* asks again when its deadline passed or the demand changed, and publishes. *)
Sample ==
  LET r == IF kind \in TaskKinds THEN host ELSE listed
      got == result # <<>>
      last == IF got THEN result ELSE latest
      old == IF got THEN result[1].age ELSE age
      due1 == IF wish # known THEN 0 ELSE due
      wanted == kind = "modules/pss" \/ wish # {}
      ask == ~StillPending(got) /\ due1 = 0 /\ wanted /\ request = <<>>
  IN  /\ rows' = r
      /\ latest' = last /\ age' = old /\ result' = <<>>
      /\ known' = wish
      /\ request' = IF ask THEN <<Wanted(r)>> ELSE request
      /\ pending' = (ask \/ StillPending(got))
      /\ due' = IF ask THEN Interval ELSE due1
      /\ shown' = Published(r, last, old)
      /\ quality' = QualityOf(last, old)
      /\ UNCHANGED <<kind, host, listed, wish, work, cache, cursor>>
-----------------------------------------------------------------------------
Put(c, k, v) == [x \in DOMAIN c \cup {k} |-> IF x = k THEN v ELSE c[x]]

(* The subjects of a request that are read anew: a window that rotates over *)
(* the leaders in order for PSS; over tasks as the sample happens to have   *)
(* them sorted, hence any; the only one else.                               *)
Windows(asked) ==
  LET size == Min({Batch, Cardinality(asked)})
      Position(id) == Cardinality({x \in asked : x[1] < id[1]})
      offset == cursor % Max({Cardinality(asked), 1})
  IN  IF kind = "modules/pss"
      THEN {{id \in asked : (Position(id) + Cardinality(asked) - offset)
                              % Max({Cardinality(asked), 1}) < size}}
      ELSE kSubset(size, asked)

(* Entries of the cache within their time to live.                          *)
Live == {id \in DOMAIN cache : cache[id].age < Ttl}

(* Mutant: each request reads the first leaders.                            *)
NextCursorSame(n) == cursor

NextCursor(n) == (Min({Batch, n}) + (cursor % Max({n, 1}))) % Max({n, 1})

(* The worker takes a request; PSS of tasks that are gone is forgotten, a   *)
(* live entry of the cache is not read again, and one long expired may be   *)
(* swept.                                                                   *)
Receive ==
  /\ work.phase = "idle" /\ request # <<>>
  /\ LET asked == request[1]
         n == Cardinality(asked)
     IN  /\ \E window \in Windows(asked) :
              work' = [Idle EXCEPT !.phase = "next", !.asked = asked,
                         !.todo = window \ Live]
         /\ IF kind = "modules/pss"
            THEN /\ cache' = Restrict(cache, DOMAIN cache \cap asked)
                 /\ cursor' = NextCursor(n)
            ELSE /\ cache' \in {cache, Restrict(cache, Live)}
                 /\ UNCHANGED cursor
  /\ request' = <<>>
  /\ UNCHANGED <<kind, host, listed, rows, wish, known, due, pending, result,
                 latest, age, shown, quality>>

Worker(next) ==
  /\ work' = next
  /\ UNCHANGED <<kind, host, listed, rows, wish, known, due, pending, request,
                 cursor, result, latest, age, shown, quality>>

(* A subject is done: what was read goes to the cache; a PSS that could not *)
(* be read leaves none.                                                     *)
Store(id, value) ==
  /\ cache' = IF kind = "modules/pss" /\ value = Failed
              THEN Restrict(cache, DOMAIN cache \ {id})
              ELSE Put(cache, id, [of |-> value, age |-> Min({work.at, Ttl})])
  /\ Worker([work EXCEPT !.phase = "next", !.todo = @ \ {id}, !.id = <<>>, !.read = Missing])

(* A task is validated, read and validated again; anything else is read by  *)
(* its name.                                                                *)
Validate(id) ==
  /\ kind \in TaskKinds /\ work.phase = "next" /\ id \in work.todo
  /\ IF host[id[1]] = id[2]
     THEN Worker([work EXCEPT !.phase = "validated", !.id = id]) /\ UNCHANGED cache
     ELSE Store(id, Failed)

ReadTask ==
  /\ work.phase = "validated"
  /\ Worker([work EXCEPT !.phase = "read", !.read = host[work.id[1]]]) /\ UNCHANGED cache

Revalidate ==
  /\ work.phase = "read"
  /\ Store(work.id, IF host[work.id[1]] = work.id[2] THEN work.read ELSE Failed)

ReadByName(id) ==
  /\ kind \notin TaskKinds /\ work.phase = "next" /\ id \in work.todo
  /\ \E value \in {host[id[1]], Failed} : Store(id, value)

(* The answer: every subject asked about that the cache knows.              *)
Answer ==
  /\ work.phase = "next" /\ work.todo = {}
  /\ LET data == [id \in work.asked \cap DOMAIN cache |-> cache[id].of] IN
     result' = IF result = <<>> THEN <<[data |-> data, age |-> work.at]>> ELSE result
  /\ work' = Idle
  /\ UNCHANGED <<kind, host, listed, rows, wish, known, due, pending, request, cache,
                 cursor, latest, age, shown, quality>>

(* A worker that panicked, or waits for a device that never answers.        *)
WorkerDies ==
  /\ work.phase \notin {"idle", "dead"}
  /\ Worker([Idle EXCEPT !.phase = "dead"]) /\ UNCHANGED cache

WorkerReads ==
  (\E id \in work.todo : Validate(id) \/ ReadByName(id)) \/ ReadTask \/ Revalidate
Identities == Subject \X (0..MaxReplaced + 1)

SourcesNext ==
  \/ \E s \in Subject : Replace(s)
  \/ List
  \/ \E w \in SUBSET Identities : SetDemand(w)
  \/ Tick
  \/ Sample
  \/ Receive
  \/ WorkerReads
  \/ Answer
  \/ WorkerDies
-----------------------------------------------------------------------------
(* A task's row shows nothing that was read of another task of its PID,     *)
(* whenever the PID is reused between request, reading and publication.     *)
TaskMetadataIsOwn ==
  kind \in TaskKinds => \A s \in Subject : shown[s] \in {Missing, Failed, rows[s]}

(* A subject that took another one's name does not inherit its metadata: no *)
(* row shows what was read before its own incarnation existed.              *)
MetadataIsNotInherited ==
  \A s \in Subject : shown[s] \in {Missing, Failed} \/ shown[s] >= rows[s]

(* Metadata is never shown of another subject than it was read of.          *)
MetadataIsOwn == TaskMetadataIsOwn /\ MetadataIsNotInherited

(* What stays demanded is shown, as metadata or as the reason it cannot be  *)
(* read, while the worker lives: neither a pending request, a lost deadline *)
(* nor a changed demand starves it.                                         *)
DemandIsServed ==
  \A s \in Subject :
    (<>[](/\ wish \cap {Identity(s, host[s]), <<s, 0>>} # {}
          /\ Cardinality(wish) <= Batch /\ work.phase # "dead"))
      => []<>(shown[s] # Missing)

(* Every leader's PSS is read in turn, also when there are more than a      *)
(* request reads.                                                           *)
EveryLeaderIsRead ==
  \A s \in Subject :
    (<>[](kind = "modules/pss" /\ work.phase # "dead"))
      => []<>(latest # <<>> /\ Identity(s, host[s]) \in DOMAIN latest[1].data)

(* A source whose worker died is not shown as available for ever.           *)
DeathIsTold == <>[](work.phase = "dead") => []<>(quality # "available")

(* What is asked of a source is answered, or it is told that it cannot be.  *)
MetadataArrives == DemandIsServed /\ EveryLeaderIsRead /\ DeathIsTold
=============================================================================
