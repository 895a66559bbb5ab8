--------------------------- MODULE ServicesProofs ---------------------------
(***************************************************************************)
(* Theorems about what goes on beside the main loop: the helper commands,  *)
(* for any number of workers and permits; the sources of slow metadata,    *)
(* for any subjects and replacements; and a CPU profile, for any           *)
(* processes, CPUs and samples.                                            *)
(***************************************************************************)
EXTENDS Helpers, Sources, CpuProfile, DataLemmas

HelpersSpec == HelpersInit /\ [][HelpersNext]_helpersVars

-----------------------------------------------------------------------------
(* Counting the workers that are at one of some phases.                    *)

Phases == {"away", "waits", "spawns", "reads", "waits for exit", "drops", "notifies"}
Holding == {"spawns", "reads", "waits for exit", "drops"}

Of(f, phases) == {w \in Workers : f[w] \in phases}
Count(f, phases) == Cardinality(Of(f, phases))

LEMMA OfFinite == ASSUME NEW f, NEW phases PROVE IsFiniteSet(Of(f, phases))
  <1>1. Of(f, phases) \subseteq Workers
    BY DEF Of
  <1> QED BY <1>1, HelpersAssumption, FS_Subset

LEMMA CountType == \A f, phases : Count(f, phases) \in Nat
  BY OfFinite, FS_CardinalityType DEF Count

\* A worker that comes to one of the phases is counted, one that leaves is not.
LEMMA Enters ==
  ASSUME NEW f, NEW g, NEW w, NEW phases,
         Of(g, phases) = Of(f, phases) \cup {w}, w \notin Of(f, phases)
  PROVE  Count(g, phases) = Count(f, phases) + 1
  BY OfFinite, FS_AddElement DEF Count

LEMMA Leaves ==
  ASSUME NEW f, NEW g, NEW w, NEW phases,
         Of(g, phases) = Of(f, phases) \ {w}, w \in Of(f, phases)
  PROVE  Count(g, phases) = Count(f, phases) - 1
  BY OfFinite, FS_RemoveElement DEF Count

-----------------------------------------------------------------------------
(* What a worker is at tells how far its helper is.                        *)

HelpersType ==
  /\ at \in [Workers -> Phases]
  /\ helper \in [Workers -> {"none", "runs", "ended", "reaped"}]
  /\ children \in [Workers -> BOOLEAN]

HelperOf(w) ==
  /\ helper[w] = "runs" => at[w] = "reads"
  /\ helper[w] = "ended" => at[w] \in {"reads", "waits for exit"}
  /\ helper[w] = "reaped" => at[w] = "drops"
  /\ children[w] => at[w] = "reads"

WorkersInv == HelpersType /\ \A w \in Workers : HelperOf(w)

\* Every step keeps what a worker is at and its helper together.
LEMMA WorkersStep == WorkersInv /\ [HelpersNext]_helpersVars => WorkersInv'
  <1> SUFFICES ASSUME WorkersInv, [HelpersNext]_helpersVars PROVE WorkersInv'
    OBVIOUS
  <1> USE DEF WorkersInv, HelpersType, HelperOf, Phases
  <1>1. ASSUME NEW w \in Workers, Acquire(w) PROVE WorkersInv'
    BY <1>1 DEF Acquire
  <1>2. ASSUME NEW w \in Workers, Spawn(w) PROVE WorkersInv'
    BY <1>2 DEF Spawn
  <1>3. ASSUME NEW w \in Workers, ReadEnds(w) PROVE WorkersInv'
    BY <1>3 DEF ReadEnds
  <1>4. ASSUME NEW w \in Workers, Kill(w) PROVE WorkersInv'
    BY <1>4 DEF Kill
  <1>5. ASSUME NEW w \in Workers, Reap(w) PROVE WorkersInv'
    BY <1>5 DEF Reap
  <1>6. ASSUME NEW w \in Workers, Drop1(w) PROVE WorkersInv'
    BY <1>6 DEF Drop1
  <1>7. ASSUME NEW w \in Workers, Notify(w) PROVE WorkersInv'
    BY <1>7 DEF Notify
  <1>8. ASSUME NEW w \in Workers, HelperForks(w) PROVE WorkersInv'
    BY <1>8 DEF HelperForks
  <1>9. ASSUME NEW w \in Workers, HelperEnds(w) PROVE WorkersInv'
    BY <1>9 DEF HelperEnds
  <1>10. ASSUME NEW w \in Workers, ChildEnds(w) PROVE WorkersInv'
    BY <1>10 DEF ChildEnds
  <1>11. CASE UNCHANGED helpersVars
    BY <1>11 DEF helpersVars
  <1> QED BY <1>1, <1>2, <1>3, <1>4, <1>5, <1>6, <1>7, <1>8, <1>9, <1>10, <1>11
          DEF HelpersNext, Runs

-----------------------------------------------------------------------------
(* Permits.  The count of permits in use is the count of the workers that  *)
(* hold one, and no more than there are.                                   *)

Held == Count(at, Holding)

PermitsInv == active = Held /\ active <= Permits

\* Every step counts its permits.
LEMMA PermitsStep ==
  ASSUME WorkersInv, PermitsInv, [HelpersNext]_helpersVars
  PROVE  PermitsInv'
  <1> USE HelpersAssumption DEF PermitsInv, Held
  <1>2. at \in [Workers -> Phases]
    BY DEF WorkersInv, HelpersType
  <1>3. ASSUME NEW w \in Workers, NEW p \in Phases, at' = [at EXCEPT ![w] = p],
               at[w] \in Holding <=> p \in Holding, active' = active
        PROVE  PermitsInv'
    <2>1. Of(at', Holding) = Of(at, Holding)
      BY <1>2, <1>3 DEF Of
    <2> QED BY <1>3, <2>1 DEF Count
  <1>4. ASSUME NEW w \in Workers, Acquire(w) PROVE PermitsInv'
    <2>1. at[w] \notin Holding
      BY <1>4 DEF Acquire, Holding
    <2>2. CASE active >= Permits
      BY <1>3, <1>4, <2>1, <2>2 DEF Acquire, Holding, Phases
    <2>3. CASE ~(active >= Permits)
      <3>1. at' = [at EXCEPT ![w] = "spawns"] /\ active' = active + 1
        BY <1>4, <2>3 DEF Acquire
      <3>2. "spawns" \in Phases /\ "spawns" \in Holding
        BY DEF Holding, Phases
      <3>3. Count(at', Holding) = Count(at, Holding) + 1 /\ Count(at, Holding) \in Nat
        <4>1. Of(at', Holding) = Of(at, Holding) \cup {w} /\ w \notin Of(at, Holding)
          BY <1>2, <2>1, <3>1, <3>2 DEF Of
        <4> QED BY <4>1, Enters, CountType
      <3> QED BY <2>3, <3>1, <3>3
    <2> QED BY <2>2, <2>3
  <1>5. ASSUME NEW w \in Workers, Drop1(w) PROVE PermitsInv'
    <2>1. at' = [at EXCEPT ![w] = "notifies"] /\ active' = active - 1
      BY <1>5 DEF Drop1
    <2>2. at[w] \in Holding /\ "notifies" \in Phases /\ "notifies" \notin Holding
      BY <1>5 DEF Drop1, Holding, Phases
    <2>3. Count(at', Holding) = Count(at, Holding) - 1 /\ Count(at, Holding) \in Nat
      <3>1. Of(at', Holding) = Of(at, Holding) \ {w} /\ w \in Of(at, Holding)
        BY <1>2, <2>1, <2>2 DEF Of
      <3> QED BY <3>1, Leaves, CountType
    <2> QED BY <2>1, <2>3
  <1>6. ASSUME NEW w \in Workers, Notify(w) PROVE PermitsInv'
    BY <1>3, <1>6 DEF Notify, Holding, Phases
  <1>7. ASSUME NEW w \in Workers, Spawn(w) PROVE PermitsInv'
    BY <1>3, <1>7 DEF Spawn, Holding, Phases
  <1>8. ASSUME NEW w \in Workers, ReadEnds(w) \/ Kill(w) PROVE PermitsInv'
    BY <1>3, <1>8 DEF ReadEnds, Kill, Holding, Phases
  <1>9. ASSUME NEW w \in Workers, Reap(w) PROVE PermitsInv'
    BY <1>3, <1>9 DEF Reap, Holding, Phases
  <1>10. CASE UNCHANGED <<at, active>>
    BY <1>10 DEF Count, Of
  <1> QED BY <1>4, <1>5, <1>6, <1>7, <1>8, <1>9, <1>10
          DEF HelpersNext, Runs, HelperForks, HelperEnds, ChildEnds, helpersVars

-----------------------------------------------------------------------------
(* Notifications.  Who was notified still waits, so that each of them may  *)
(* take a permit; a worker between its drop and its notification counts    *)
(* for the permit it dropped.                                              *)

Notifying == Count(at, {"notifies"})
Waiting == Of(at, {"waits"})

WakeInv ==
  /\ woken \subseteq Waiting
  /\ \/ Waiting \subseteq woken
     \/ Permits - active <= Cardinality(woken) + Notifying

\* No step loses a notification.
LEMMA WakeStep ==
  ASSUME WorkersInv, PermitsInv, WakeInv, [HelpersNext]_helpersVars
  PROVE  WakeInv'
  <1> USE HelpersAssumption DEF Notifying
  <1>2. at \in [Workers -> Phases]
    BY DEF WorkersInv, HelpersType
  <1>3. IsFiniteSet(woken) /\ Cardinality(woken) \in Nat
    <2>1. woken \subseteq Workers
      BY DEF WakeInv, Waiting, Of
    <2> QED BY <2>1, FS_Subset, FS_CardinalityType
  <1>4. Notifying \in Nat /\ active \in Nat
    BY CountType DEF PermitsInv, Held
  \* A worker that moves among other phases.
  <1>5. ASSUME NEW w \in Workers, NEW p \in Phases, at' = [at EXCEPT ![w] = p],
               at[w] \notin {"waits", "notifies"}, p \notin {"waits", "notifies"},
               active' = active, woken' = woken
        PROVE  WakeInv'
    <2>1. Waiting' = Waiting
      BY <1>2, <1>5 DEF Waiting, Of
    <2>2. Of(at', {"notifies"}) = Of(at, {"notifies"})
      BY <1>2, <1>5 DEF Of
    <2>3. Notifying' = Notifying
      BY <2>2 DEF Count
    <2> QED BY <1>5, <2>1, <2>3 DEF WakeInv
  <1>6. ASSUME NEW w \in Workers, Acquire(w) PROVE WakeInv'
    <2>1. at[w] # "notifies"
      BY <1>6 DEF Acquire
    <2>2. CASE active >= Permits
      <3>1. at' = [at EXCEPT ![w] = "waits"] /\ active' = active /\ woken' = woken \ {w}
        BY <1>6, <2>2 DEF Acquire
      <3>2. woken' \subseteq Waiting'
        BY <1>2, <3>1 DEF WakeInv, Waiting, Of
      <3>3. Notifying' = Notifying
        <4>1. Of(at', {"notifies"}) = Of(at, {"notifies"})
          BY <1>2, <2>1, <3>1 DEF Of
        <4> QED BY <4>1 DEF Count
      <3>4. Cardinality(woken') \in Nat
        BY <1>3, <3>1, FS_RemoveElement, FS_CardinalityType
      <3>5. active' \in Nat /\ Notifying' \in Nat /\ active' >= Permits
        BY <1>4, <2>2, <3>1, <3>3
      <3>6. Permits - active' <= Cardinality(woken') + Notifying'
        <4> DEFINE n == Notifying'
                   c == Cardinality(woken')
                   a == active'
        <4>1. n \in Nat /\ c \in Nat /\ a \in Nat /\ a >= Permits
          BY <3>4, <3>5
        <4> HIDE DEF n, c, a
        <4>2. Permits - a <= c + n
          BY <4>1
        <4> QED BY <4>2 DEF n, c, a
      <3> QED BY <3>2, <3>6 DEF WakeInv
    <2>3. CASE ~(active >= Permits)
      <3>1. at' = [at EXCEPT ![w] = "spawns"] /\ active' = active + 1 /\ woken' = woken \ {w}
        BY <1>6, <2>3 DEF Acquire
      <3>2. Waiting' = Waiting \ {w}
        BY <1>2, <3>1 DEF Waiting, Of, Phases
      <3>3. Notifying' = Notifying
        <4>1. Of(at', {"notifies"}) = Of(at, {"notifies"})
          BY <1>2, <2>1, <3>1 DEF Of
        <4> QED BY <4>1 DEF Count
      <3>4. CASE Waiting \subseteq woken
        BY <3>1, <3>2, <3>4 DEF WakeInv
      <3>5. CASE Permits - active <= Cardinality(woken) + Notifying
        <4>1. Cardinality(woken \ {w}) >= Cardinality(woken) - 1 /\ Cardinality(woken \ {w}) \in Nat
          <5>1. /\ IsFiniteSet(woken \ {w})
                /\ Cardinality(woken \ {w})
                     = IF w \in woken THEN Cardinality(woken) - 1 ELSE Cardinality(woken)
            BY <1>3, FS_RemoveElement
          <5> QED BY <1>3, <5>1, FS_CardinalityType
        <4>2. Permits - (active + 1) <= Cardinality(woken \ {w}) + Notifying
          BY <1>3, <1>4, <3>5, <4>1
        <4> QED BY <3>1, <3>2, <3>3, <4>2 DEF WakeInv
      <3> QED BY <3>4, <3>5 DEF WakeInv
    <2> QED BY <2>2, <2>3
  <1>7. ASSUME NEW w \in Workers, Drop1(w) PROVE WakeInv'
    <2>1. at' = [at EXCEPT ![w] = "notifies"] /\ active' = active - 1 /\ woken' = woken
      BY <1>7 DEF Drop1
    <2>2. at[w] = "drops"
      BY <1>7 DEF Drop1
    <2>3. Waiting' = Waiting
      BY <1>2, <2>1, <2>2 DEF Waiting, Of, Phases
    <2>4. Notifying' = Notifying + 1
      <3>1. Of(at', {"notifies"}) = Of(at, {"notifies"}) \cup {w} /\ w \notin Of(at, {"notifies"})
        BY <1>2, <2>1, <2>2 DEF Of
      <3> QED BY <3>1, Enters
    <2>5. CASE Permits - active <= Cardinality(woken) + Notifying
      <3>1. Permits - (active - 1) <= Cardinality(woken) + (Notifying + 1)
        BY <1>3, <1>4, <2>5
      <3> QED BY <2>1, <2>3, <2>4, <3>1 DEF WakeInv
    <2> QED BY <2>1, <2>3, <2>5 DEF WakeInv
  <1>8. ASSUME NEW w \in Workers, Notify(w) PROVE WakeInv'
    <2>1. at' = [at EXCEPT ![w] = "away"] /\ active' = active /\ at[w] = "notifies"
      BY <1>8 DEF Notify
    <2>2. Waiting' = Waiting
      BY <1>2, <2>1 DEF Waiting, Of, Phases
    <2>3. Notifying' = Notifying - 1
      <3>1. Of(at', {"notifies"}) = Of(at, {"notifies"}) \ {w} /\ w \in Of(at, {"notifies"})
        BY <1>2, <2>1 DEF Of
      <3> QED BY <3>1, Leaves
    <2>4. CASE Waiting \ woken = {} /\ woken' = woken
      BY <2>2, <2>4 DEF WakeInv
    <2>5. ASSUME NEW v \in Waiting \ woken, woken' = woken \cup {v} PROVE WakeInv'
      <3>1. Permits - active <= Cardinality(woken) + Notifying
        BY <2>5 DEF WakeInv
      <3>2. Cardinality(woken \cup {v}) = Cardinality(woken) + 1
        BY <1>3, <2>5, FS_AddElement
      <3>3. Permits - active <= Cardinality(woken \cup {v}) + (Notifying - 1)
        BY <1>3, <1>4, <3>1, <3>2
      <3> QED BY <2>1, <2>2, <2>3, <2>5, <3>3 DEF WakeInv
    <2>6. Waiting = {v \in Workers : at[v] = "waits"}
      BY DEF Waiting, Of
    <2> QED BY <1>8, <2>4, <2>5, <2>6 DEF Notify
  <1>9. ASSUME NEW w \in Workers, Spawn(w) PROVE WakeInv'
    BY <1>5, <1>9 DEF Spawn, Phases
  <1>10. ASSUME NEW w \in Workers, ReadEnds(w) \/ Kill(w) PROVE WakeInv'
    BY <1>5, <1>10 DEF ReadEnds, Kill, Phases
  <1>11. ASSUME NEW w \in Workers, Reap(w) PROVE WakeInv'
    BY <1>5, <1>11 DEF Reap, Phases
  <1>12. CASE UNCHANGED <<at, active, woken>>
    BY <1>12 DEF WakeInv, Waiting, Count, Of
  <1> QED BY <1>6, <1>7, <1>8, <1>9, <1>10, <1>11, <1>12
          DEF HelpersNext, Runs, HelperForks, HelperEnds, ChildEnds, helpersVars

-----------------------------------------------------------------------------
\* The workers start away, with every permit free.
LEMMA HelpersStart == HelpersInit => WorkersInv /\ PermitsInv /\ WakeInv
  <1> SUFFICES ASSUME HelpersInit PROVE WorkersInv /\ PermitsInv /\ WakeInv
    OBVIOUS
  <1> USE HelpersAssumption DEF HelpersInit
  <1>1. WorkersInv
    BY DEF WorkersInv, HelpersType, HelperOf, Phases
  <1>2. Of(at, Holding) = {} /\ Waiting = {}
    BY DEF Of, Waiting, Holding
  <1>3. PermitsInv
    BY <1>2, FS_EmptySet DEF PermitsInv, Held, Count
  <1>4. WakeInv
    BY <1>2 DEF WakeInv
  <1> QED BY <1>1, <1>3, <1>4

\* Helpers are bounded by the permits also while they are killed or reaped,
\* none leaves a zombie or a child behind, and no permit is free for ever
\* while a worker waits for one: no error, kill or newcomer loses the count or
\* the notification.
THEOREM HelpersCorrect == HelpersSpec => []HelpersAreBounded
  <1>1. WorkersInv /\ PermitsInv /\ WakeInv /\ [HelpersNext]_helpersVars
        => (WorkersInv /\ PermitsInv /\ WakeInv)'
    BY WorkersStep, PermitsStep, WakeStep
  <1>2. WorkersInv /\ PermitsInv /\ WakeInv => HelpersAreBounded
    <2> SUFFICES ASSUME WorkersInv, PermitsInv, WakeInv PROVE HelpersAreBounded
      OBVIOUS
    <2>1. PermitsAreCounted
      <3> DEFINE Helped == {w \in Workers : helper[w] # "none"}
      <3>1. Helped \subseteq Of(at, Holding)
        BY DEF WorkersInv, HelpersType, HelperOf, Of, Holding
      <3>2. IsFiniteSet(Of(at, Holding))
        BY HelpersAssumption, FS_Subset DEF Of
      <3>3. Cardinality(Helped) <= Cardinality(Of(at, Holding)) /\ Cardinality(Helped) \in Nat
            /\ Cardinality(Of(at, Holding)) \in Nat
        BY <3>1, <3>2, FS_Subset, FS_CardinalityType
      <3>4. Of(at, Holding)
              = {w \in Workers : at[w] \in {"spawns", "reads", "waits for exit", "drops"}}
        BY DEF Of, Holding
      <3> HIDE DEF Helped
      <3>5. Cardinality(Helped) <= Permits
        BY <3>3, HelpersAssumption DEF PermitsInv, Held, Count
      <3> QED BY <3>4, <3>5 DEF PermitsAreCounted, PermitsInv, Held, Count, Helped
    <2>2. NothingIsLeftRunning
      BY DEF WorkersInv, HelpersType, HelperOf, NothingIsLeftRunning
    <2>3. NoWakeupIsLost
      <3>1. Waiting = {w \in Workers : at[w] = "waits"}
            /\ Of(at, {"notifies"}) = {w \in Workers : at[w] = "notifies"}
        BY DEF Waiting, Of
      <3> QED BY <3>1 DEF WakeInv, NoWakeupIsLost, Notifying, Count
    <2> QED BY <2>1, <2>2, <2>3 DEF HelpersAreBounded
  <1> QED BY <1>1, <1>2, HelpersStart, PTL DEF HelpersSpec

-----------------------------------------------------------------------------
(* Slow metadata.  An identity that is on its way, from the demand to the  *)
(* worker, is one that the subject had; whatever was read for an identity  *)
(* was read of it or, by name, of a later one.                             *)

SourcesSpec == SourcesInit /\ [][SourcesNext]_sourcesVars

Known == {id \in Subject \X Nat : id[2] <= host[id[1]]}

Own(id, v) ==
  v = Failed \/ (v \in Nat /\ v >= id[2] /\ (kind \in TaskKinds => v = id[2]))

OwnData(d) == \A id \in DOMAIN d : Own(id, d[id])

HostInv ==
  /\ kind \in Kind
  /\ host \in [Subject -> Nat] /\ listed \in [Subject -> Nat] /\ rows \in [Subject -> Nat]
  /\ \A s \in Subject : listed[s] <= host[s]

WorkInv ==
  /\ request # <<>> => request[1] \subseteq Known
  /\ work = [phase |-> work.phase, asked |-> work.asked, todo |-> work.todo,
             id |-> work.id, read |-> work.read, at |-> work.at]
  /\ work.todo \subseteq Known
  /\ work.phase \in {"validated", "read"} => work.id \in Known /\ kind \in TaskKinds
  /\ work.phase = "read" =>
       work.read \in Nat /\ work.id[2] <= work.read /\ work.read <= host[work.id[1]]

CacheInv ==
  \A id \in DOMAIN cache :
    cache[id] = [of |-> cache[id].of, age |-> cache[id].age] /\ Own(id, cache[id].of)

ResultInv ==
  /\ result # <<>> => /\ result = <<[data |-> result[1].data, age |-> result[1].age]>>
                      /\ OwnData(result[1].data)
  /\ latest # <<>> => OwnData(latest[1].data)

SourcesInv == HostInv /\ WorkInv /\ CacheInv /\ ResultInv /\ MetadataIsOwn

\* An identity that a subject had stays known.
LEMMA KnownGrows ==
  ASSUME HostInv, NEW s \in Subject, Replace(s)
  PROVE  Known \subseteq Known' /\ HostInv' /\ \A t \in Subject : host[t] <= host'[t]
  <1> DEFINE h == host'
  <1>1. h = [host EXCEPT ![s] = @ + 1]
    BY DEF Replace
  <1>2. UNCHANGED <<kind, listed, rows>>
    BY DEF Replace
  <1> HIDE DEF h
  <1>3. h \in [Subject -> Nat] /\ \A t \in Subject : host[t] <= h[t]
    BY <1>1 DEF HostInv
  <1>4. \A t \in Subject : listed[t] <= h[t]
    BY <1>3 DEF HostInv
  <1>5. \A id \in Known : id \in Subject \X Nat /\ id[2] <= h[id[1]]
    BY <1>3 DEF Known, HostInv
  <1>6. Known \subseteq {id \in Subject \X Nat : id[2] <= h[id[1]]}
    BY <1>5
  <1>7. HostInv'
    BY <1>2, <1>3, <1>4 DEF h, HostInv
  <1> QED BY <1>3, <1>6, <1>7 DEF h, Known

\* The host goes on under everything that is on its way.
LEMMA ReplaceKeeps ==
  ASSUME SourcesInv, NEW s \in Subject, Replace(s)
  PROVE  SourcesInv'
  <1>1. Known \subseteq Known' /\ HostInv' /\ \A t \in Subject : host[t] <= host'[t]
    BY KnownGrows DEF SourcesInv
  <1>2. UNCHANGED <<kind, rows, request, work, cache, result, latest, shown>>
    BY DEF Replace
  <1>3. WorkInv'
    <2>1. work.phase = "read" => work.read <= host'[work.id[1]]
      <3> SUFFICES ASSUME work.phase = "read" PROVE work.read <= host'[work.id[1]]
        OBVIOUS
      <3> DEFINE a == host[work.id[1]]
                 b == host'[work.id[1]]
      <3>1. work.id[1] \in Subject
        BY DEF SourcesInv, WorkInv, Known
      <3>2. a \in Nat /\ b \in Nat /\ a <= b /\ work.read \in Nat /\ work.read <= a
        BY <1>1, <3>1 DEF SourcesInv, WorkInv, HostInv
      <3> HIDE DEF a, b
      <3>3. work.read <= b
        BY <3>2
      <3> QED BY <3>3 DEF b
    <2> QED BY <1>1, <1>2, <2>1 DEF SourcesInv, WorkInv
  <1>4. CacheInv' /\ ResultInv'
    BY <1>2 DEF SourcesInv, CacheInv, ResultInv, OwnData, Own
  <1>5. MetadataIsOwn'
    BY <1>2 DEF SourcesInv, MetadataIsOwn, TaskMetadataIsOwn, MetadataIsNotInherited
  <1> QED BY <1>1, <1>3, <1>4, <1>5 DEF SourcesInv

\* What leaves the host as it is leaves known what was.
LEMMA SameHost ==
  ASSUME UNCHANGED <<kind, host>>
  PROVE  /\ Known' = Known
         /\ \A id, v : Own(id, v)' <=> Own(id, v)
         /\ \A d : OwnData(d)' <=> OwnData(d)
  BY DEF Known, Own, OwnData

\* Time passes; the subjects are listed; the user asks for others.
LEMMA TickKeeps ==
  ASSUME SourcesInv, Tick \/ List \/ \E w \in SUBSET Identities : SetDemand(w)
  PROVE  SourcesInv'
  <1>1. UNCHANGED <<kind, host, rows, request, latest, shown>>
    BY DEF Tick, List, SetDemand
  <1>2. HostInv'
    BY <1>1 DEF SourcesInv, HostInv, Tick, List, SetDemand
  <1>3. WorkInv'
    <2>1. CASE UNCHANGED work
      BY <1>1, <2>1, SameHost DEF SourcesInv, WorkInv
    <2>2. CASE Tick
      <3>1. /\ work'.phase = work.phase /\ work'.todo = work.todo
            /\ work'.id = work.id /\ work'.read = work.read
            /\ work' = [phase |-> work'.phase, asked |-> work'.asked, todo |-> work'.todo,
                        id |-> work'.id, read |-> work'.read, at |-> work'.at]
        BY <2>2 DEF Tick, SourcesInv, WorkInv
      <3> QED BY <1>1, <3>1, SameHost DEF SourcesInv, WorkInv
    <2> QED BY <2>1, <2>2 DEF List, SetDemand
  <1>4. CacheInv'
    <2>1. CASE UNCHANGED cache
      BY <1>1, <2>1, SameHost DEF SourcesInv, CacheInv
    <2>2. CASE Tick
      <3>1. DOMAIN cache' = DOMAIN cache
        BY <2>2 DEF Tick
      <3>2. ASSUME NEW id \in DOMAIN cache
            PROVE  /\ cache'[id] = [of |-> cache'[id].of, age |-> cache'[id].age]
                   /\ cache'[id].of = cache[id].of
        BY <2>2 DEF Tick, SourcesInv, CacheInv
      <3> QED BY <1>1, <3>1, <3>2, SameHost DEF SourcesInv, CacheInv
    <2> QED BY <2>1, <2>2 DEF List, SetDemand
  <1>5. ResultInv'
    <2>1. CASE UNCHANGED result
      BY <1>1, <2>1, SameHost DEF SourcesInv, ResultInv
    <2>2. CASE Tick
      <3>1. result' # <<>> =>
              /\ result # <<>>
              /\ result' = <<[data |-> result'[1].data, age |-> result'[1].age]>>
              /\ result'[1].data = result[1].data
        BY <2>2 DEF Tick, SourcesInv, ResultInv
      <3> QED BY <1>1, <3>1, SameHost DEF SourcesInv, ResultInv
    <2> QED BY <2>1, <2>2 DEF List, SetDemand
  <1>6. MetadataIsOwn'
    BY <1>1 DEF SourcesInv, MetadataIsOwn, TaskMetadataIsOwn, MetadataIsNotInherited
  <1> QED BY <1>2, <1>3, <1>4, <1>5, <1>6 DEF SourcesInv

\* A sample asks about its own subjects, and joins them with what was read of
\* them.
LEMMA SampleKeeps ==
  ASSUME SourcesInv, "storage_health" \notin Kind, Sample
  PROVE  SourcesInv'
  <1> DEFINE r == IF kind \in TaskKinds THEN host ELSE listed
             got == result # <<>>
             last == IF got THEN result ELSE latest
             old == IF got THEN result[1].age ELSE age
  <1>1. /\ UNCHANGED <<kind, host, listed, work, cache>> /\ result' = <<>>
        /\ rows' = r /\ latest' = last /\ shown' = Published(r, last, old)
        /\ request' \in {request, <<Wanted(r)>>}
    BY DEF Sample
  <1>2. /\ r \in [Subject -> Nat]
        /\ \A s \in Subject : r[s] <= host[s] /\ Identity(s, r[s]) = <<s, r[s]>>
    BY DEF SourcesInv, HostInv, Identity
  <1>3. last # <<>> => OwnData(last[1].data)
    BY DEF SourcesInv, ResultInv
  <1> HIDE DEF r, got, last, old
  <1>4. Wanted(r) \subseteq Known
    <2>1. Wanted(r) \subseteq {Identity(s, r[s]) : s \in Subject}
      BY DEF Wanted
    <2> QED BY <1>2, <2>1 DEF Known
  <1>5. HostInv' /\ CacheInv'
    BY <1>1, <1>2, SameHost DEF SourcesInv, HostInv, CacheInv
  <1>6. WorkInv'
    <2>1. request' # <<>> => request'[1] \subseteq Known
      BY <1>1, <1>4 DEF SourcesInv, WorkInv
    <2> QED BY <1>1, <2>1, SameHost DEF SourcesInv, WorkInv
  <1>7. ResultInv'
    BY <1>1, <1>3, SameHost DEF ResultInv
  <1>8. ASSUME NEW s \in Subject
        PROVE  /\ shown'[s] \in {Missing, Failed} \/ shown'[s] >= rows'[s]
               /\ kind \in TaskKinds => shown'[s] \in {Missing, Failed, rows'[s]}
    <2>1. CASE shown'[s] = Missing
      BY <2>1
    <2>2. CASE last # <<>> /\ <<s, r[s]>> \in DOMAIN last[1].data
               /\ shown'[s] = last[1].data[<<s, r[s]>>]
      <3> DEFINE v == last[1].data[<<s, r[s]>>]
      <3>1. v = Failed \/ (v >= r[s] /\ (kind \in TaskKinds => v = r[s]))
        BY <1>3, <2>2 DEF OwnData, Own
      <3> QED BY <1>1, <2>2, <3>1
    <2> QED BY <1>1, <1>2, <2>1, <2>2 DEF Published
  <1>9. MetadataIsOwn'
    BY <1>1, <1>8 DEF MetadataIsOwn, TaskMetadataIsOwn, MetadataIsNotInherited, Failed
  <1> QED BY <1>5, <1>6, <1>7, <1>9 DEF SourcesInv

\* What a step of the worker leaves alone.
Elsewhere == UNCHANGED <<kind, host, listed, rows, latest, shown>>

LEMMA ElsewhereKeeps ==
  ASSUME SourcesInv, Elsewhere, WorkInv', CacheInv',
         UNCHANGED result \/ ResultInv'
  PROVE  SourcesInv'
  <1>1. HostInv'
    BY DEF SourcesInv, HostInv, Elsewhere
  <1>2. ResultInv'
    BY SameHost DEF SourcesInv, ResultInv, Elsewhere
  <1>3. MetadataIsOwn'
    BY DEF SourcesInv, MetadataIsOwn, TaskMetadataIsOwn, MetadataIsNotInherited, Elsewhere
  <1> QED BY <1>1, <1>2, <1>3 DEF SourcesInv

\* The worker takes up a request.
LEMMA ReceiveKeeps == ASSUME SourcesInv, Receive PROVE SourcesInv'
  <1>1. Elsewhere /\ UNCHANGED result /\ request' = <<>>
    BY DEF Receive, Elsewhere
  <1>2. WorkInv'
    <2>1. ASSUME NEW window \in Windows(request[1]),
                 work' = [Idle EXCEPT !.phase = "next", !.asked = request[1],
                            !.todo = window \ Live]
          PROVE  WorkInv'
      <3>1. window \subseteq request[1]
        <4>1. CASE kind = "modules/pss"
          BY <2>1, <4>1 DEF Windows
        <4>2. CASE kind # "modules/pss"
          BY <2>1, <4>2 DEF Windows, kSubset
        <4> QED BY <4>1, <4>2
      <3>2. request[1] \subseteq Known
        BY DEF Receive, SourcesInv, WorkInv
      <3>3. window \ Live \subseteq Known
        BY <3>1, <3>2
      <3>4. /\ work'.phase = "next" /\ work'.todo = window \ Live
            /\ work' = [phase |-> work'.phase, asked |-> work'.asked, todo |-> work'.todo,
                        id |-> work'.id, read |-> work'.read, at |-> work'.at]
        BY <2>1 DEF Idle
      <3> QED BY <1>1, <3>3, <3>4, SameHost DEF WorkInv, Elsewhere
    <2> QED BY <2>1 DEF Receive
  <1>3. CacheInv'
    <2>1. DOMAIN cache' \subseteq DOMAIN cache /\ \A id \in DOMAIN cache' : cache'[id] = cache[id]
      BY DEF Receive, Restrict, Live
    <2> QED BY <1>1, <2>1, SameHost DEF SourcesInv, CacheInv, Elsewhere
  <1> QED BY <1>1, <1>2, <1>3, ElsewhereKeeps

\* A value of one's own in the cache, or none.
LEMMA StoreKeeps ==
  ASSUME SourcesInv, NEW id, NEW v, Own(id, v), Store(id, v)
  PROVE  SourcesInv'
  <1>1. Elsewhere /\ UNCHANGED <<request, result>>
    BY DEF Store, Worker, Elsewhere
  <1>2. WorkInv'
    <2>1. /\ work'.phase = "next" /\ work'.todo = work.todo \ {id}
          /\ work' = [phase |-> work'.phase, asked |-> work'.asked, todo |-> work'.todo,
                      id |-> work'.id, read |-> work'.read, at |-> work'.at]
      BY DEF Store, Worker, SourcesInv, WorkInv
    <2> QED BY <1>1, <2>1, SameHost DEF SourcesInv, WorkInv, Elsewhere
  <1>3. CacheInv'
    <2>1. ASSUME NEW x \in DOMAIN cache'
          PROVE  cache'[x] = [of |-> cache'[x].of, age |-> cache'[x].age] /\ Own(x, cache'[x].of)
      <3>1. CASE cache' = Restrict(cache, DOMAIN cache \ {id})
        BY <2>1, <3>1 DEF Restrict, SourcesInv, CacheInv
      <3>2. CASE cache' = Put(cache, id, [of |-> v, age |-> Min({work.at, Ttl})])
        BY <2>1, <3>2 DEF Put, SourcesInv, CacheInv
      <3> QED BY <3>1, <3>2 DEF Store
    <2> QED BY <1>1, <2>1, SameHost DEF CacheInv, Elsewhere
  <1> QED BY <1>1, <1>2, <1>3, ElsewhereKeeps

\* A task that was the same before and after it was read is the one that was
\* read.
LEMMA WorkerKeeps == ASSUME SourcesInv, WorkerReads PROVE SourcesInv'
  <1>1. ASSUME NEW id \in work.todo, Validate(id) PROVE SourcesInv'
    <2>1. CASE host[id[1]] = id[2]
      <3>1. Elsewhere /\ UNCHANGED <<request, result, cache>>
        BY <1>1, <2>1 DEF Validate, Worker, Elsewhere
      <3>2. /\ work'.phase = "validated" /\ work'.todo = work.todo /\ work'.id = id
            /\ work' = [phase |-> work'.phase, asked |-> work'.asked, todo |-> work'.todo,
                        id |-> work'.id, read |-> work'.read, at |-> work'.at]
            /\ kind \in TaskKinds
        BY <1>1, <2>1 DEF Validate, Worker, SourcesInv, WorkInv
      <3>3. WorkInv'
        BY <1>1, <3>1, <3>2, SameHost DEF SourcesInv, WorkInv, Elsewhere
      <3>4. CacheInv'
        BY <3>1, SameHost DEF SourcesInv, CacheInv, Elsewhere
      <3> QED BY <3>1, <3>3, <3>4, ElsewhereKeeps
    <2>2. CASE host[id[1]] # id[2]
      BY <1>1, <2>2, StoreKeeps DEF Validate, Own
    <2> QED BY <2>1, <2>2
  <1>2. ASSUME NEW id \in work.todo, ReadByName(id) PROVE SourcesInv'
    <2>1. id \in Subject \X Nat /\ host[id[1]] \in Nat /\ host[id[1]] >= id[2]
      BY <1>2 DEF SourcesInv, WorkInv, HostInv, Known
    <2>2. kind \notin TaskKinds
      BY <1>2 DEF ReadByName
    <2>3. \A v \in {host[id[1]], Failed} : Own(id, v)
      BY <2>1, <2>2 DEF Own
    <2> QED BY <1>2, <2>3, StoreKeeps DEF ReadByName
  <1>3. CASE ReadTask
    <2>1. Elsewhere /\ UNCHANGED <<request, result, cache>>
      BY <1>3 DEF ReadTask, Worker, Elsewhere
    <2>2. /\ work'.phase = "read" /\ work'.todo = work.todo /\ work'.id = work.id
          /\ work'.read = host[work.id[1]]
          /\ work' = [phase |-> work'.phase, asked |-> work'.asked, todo |-> work'.todo,
                      id |-> work'.id, read |-> work'.read, at |-> work'.at]
      BY <1>3 DEF ReadTask, Worker, SourcesInv, WorkInv
    <2>3. work.id \in Known /\ kind \in TaskKinds
      BY <1>3 DEF ReadTask, SourcesInv, WorkInv
    <2>4. /\ host[work.id[1]] \in Nat /\ work.id[2] <= host[work.id[1]]
          /\ host[work.id[1]] <= host[work.id[1]]
      BY <2>3 DEF Known, SourcesInv, HostInv
    <2>5. WorkInv'
      BY <2>1, <2>2, <2>3, <2>4, SameHost DEF SourcesInv, WorkInv, Elsewhere
    <2>6. CacheInv'
      BY <2>1, SameHost DEF SourcesInv, CacheInv, Elsewhere
    <2> QED BY <2>1, <2>5, <2>6, ElsewhereKeeps
  <1>4. CASE Revalidate
    <2>1. host[work.id[1]] = work.id[2] => work.read = work.id[2] /\ work.id[2] \in Nat
      BY <1>4 DEF Revalidate, SourcesInv, WorkInv, Known, HostInv
    <2>2. Own(work.id, IF host[work.id[1]] = work.id[2] THEN work.read ELSE Failed)
      BY <2>1 DEF Own
    <2> QED BY <1>4, <2>2, StoreKeeps DEF Revalidate
  <1> QED BY <1>1, <1>2, <1>3, <1>4 DEF WorkerReads

\* The answer is what the cache knows.
LEMMA AnswerKeeps == ASSUME SourcesInv, Answer \/ WorkerDies PROVE SourcesInv'
  <1>1. Elsewhere /\ UNCHANGED <<request, cache>>
    BY DEF Answer, WorkerDies, Worker, Elsewhere
  <1>2. CacheInv'
    BY <1>1, SameHost DEF SourcesInv, CacheInv, Elsewhere
  <1>3. WorkInv'
    <2>1. /\ work'.phase \in {"idle", "dead"} /\ work'.todo = {}
          /\ work' = [phase |-> work'.phase, asked |-> work'.asked, todo |-> work'.todo,
                      id |-> work'.id, read |-> work'.read, at |-> work'.at]
      BY DEF Answer, WorkerDies, Worker, Idle
    <2> QED BY <1>1, <2>1, SameHost DEF SourcesInv, WorkInv, Elsewhere
  <1>4. UNCHANGED result \/ ResultInv'
    <2> DEFINE data == [id \in work.asked \cap DOMAIN cache |-> cache[id].of]
    <2>1. OwnData(data)
      BY DEF SourcesInv, CacheInv, OwnData
    <2> HIDE DEF data
    <2>2. CASE result' = <<[data |-> data, age |-> work.at]>>
      BY <1>1, <2>1, <2>2, SameHost DEF SourcesInv, ResultInv, Elsewhere
    <2> QED BY <2>2 DEF data, Answer, WorkerDies, Worker
  <1> QED BY <1>1, <1>2, <1>3, <1>4, ElsewhereKeeps

\* Metadata is never shown of another subject than it was read of, whenever a
\* PID is reused or a name taken over between the demand, the reading and the
\* sample; but for storage, whose devices are asked for by number and name
\* alone.
THEOREM MetadataCorrect ==
  ASSUME "storage_health" \notin Kind
  PROVE  SourcesSpec => []MetadataIsOwn
  <1>1. SourcesInit => SourcesInv
    <2> SUFFICES ASSUME SourcesInit PROVE SourcesInv
      OBVIOUS
    <2> USE DEF SourcesInit
    <2>1. HostInv
      BY DEF HostInv
    <2>2. WorkInv
      BY DEF WorkInv, Idle
    <2>3. CacheInv /\ ResultInv
      BY DEF CacheInv, ResultInv
    <2>4. MetadataIsOwn
      BY DEF MetadataIsOwn, TaskMetadataIsOwn, MetadataIsNotInherited
    <2> QED BY <2>1, <2>2, <2>3, <2>4 DEF SourcesInv
  <1>2. SourcesInv /\ [SourcesNext]_sourcesVars => SourcesInv'
    <2> SUFFICES ASSUME SourcesInv, [SourcesNext]_sourcesVars PROVE SourcesInv'
      OBVIOUS
    <2>1. CASE UNCHANGED sourcesVars
      <3>1. Elsewhere /\ UNCHANGED <<request, work, cache, result>>
        BY <2>1 DEF sourcesVars, Elsewhere
      <3>2. WorkInv' /\ CacheInv'
        BY <3>1, SameHost DEF SourcesInv, WorkInv, CacheInv, Elsewhere
      <3> QED BY <3>1, <3>2, ElsewhereKeeps
    <2> QED BY <2>1, ReplaceKeeps, TickKeeps, SampleKeeps, ReceiveKeeps, WorkerKeeps, AnswerKeeps
            DEF SourcesNext
  <1>3. SourcesInv => MetadataIsOwn
    BY DEF SourcesInv
  <1> QED BY <1>1, <1>2, <1>3, PTL DEF SourcesSpec

-----------------------------------------------------------------------------
(* A CPU profile.  What the exec map says of a process in scope is what it *)
(* runs, but while an exec is under way; a key whose mappings are about to *)
(* be read was of the process as the check found it.                       *)

CpuProfileSpec == CpuProfileInit /\ [][CpuProfileNext]_cpuProfileVars

ExecsAreTold ==
  \A p \in Processes :
    /\ p \notin subjects.execing => execs[p] \in {-1, subjects.image[p]}
    /\ ~InScope(p) => execs[p] = -1

SubjectsType ==
  /\ subjects = [life |-> subjects.life, image |-> subjects.image, execing |-> subjects.execing]
  /\ subjects.life \in [Processes -> Int] /\ subjects.image \in [Processes -> Int]
  /\ execs \in [Processes -> Int] /\ hostChanges \in Int

ScanInv ==
  /\ scan = [todo |-> scan.todo, key |-> scan.key, at |-> scan.at]
  /\ scan.todo \subseteq Keys
  /\ \A k \in scan.key : k \in Keys /\ \A r : scan.at = <<r, FALSE>> => r = Image(k)

NamesInv ==
  /\ naming \in [Keys -> {NotRead, Unavailable} \cup {<<i, e>> : i \in Int, e \in Int}]
  /\ FramesAreOwn

ProfileInv == SubjectsType /\ ExecsAreTold /\ ScanInv /\ NamesInv /\ CoverageIsTold

\* The host and the kernel's programs keep the exec map told.
LEMMA ExecsStep ==
  ASSUME SubjectsType, ExecsAreTold, [CpuProfileNext]_cpuProfileVars
  PROVE  SubjectsType' /\ ExecsAreTold'
  <1> USE DEF SubjectsType, ExecsAreTold, InScope
  <1>1. ASSUME NEW p \in Processes, Exits(p) PROVE SubjectsType' /\ ExecsAreTold'
    BY <1>1 DEF Exits, HostOnly, Changed
  <1>2. ASSUME NEW p \in Processes, Reused(p) PROVE SubjectsType' /\ ExecsAreTold'
    BY <1>2 DEF Reused, HostOnly, Changed
  <1>3. ASSUME NEW p \in Processes, Execs(p) PROVE SubjectsType' /\ ExecsAreTold'
    <2>1. /\ subjects'.life = subjects.life
          /\ subjects'.image = [subjects.image EXCEPT ![p] = @ + 1]
          /\ subjects'.execing = subjects.execing \cup {p}
          /\ subjects' = [life |-> subjects'.life, image |-> subjects'.image,
                          execing |-> subjects'.execing]
          /\ UNCHANGED <<execs, target>> /\ hostChanges' = hostChanges + 1
      BY <1>3 DEF Execs, HostOnly, Changed
    <2>2. subjects'.image \in [Processes -> Int]
          /\ \A q \in Processes : q # p => subjects'.image[q] = subjects.image[q]
      BY <2>1
    <2> QED BY <2>1, <2>2
  <1>4. ASSUME NEW p \in Processes, ExecIsTold(p) PROVE SubjectsType' /\ ExecsAreTold'
    BY <1>4 DEF ExecIsTold, HostOnly
  <1>5. ASSUME NEW p \in Processes, TakeStack(p) PROVE SubjectsType' /\ ExecsAreTold'
    BY <1>5 DEF TakeStack, subjectVars
  <1>6. CASE UNCHANGED <<subjects, execs, target, hostChanges>>
    BY <1>6
  <1>7. CASE Hotplug
    BY <1>7 DEF Hotplug, HostOnly, Changed
  <1> QED BY <1>1, <1>2, <1>3, <1>4, <1>5, <1>6, <1>7
    DEF CpuProfileNext, cpuProfileVars, subjectVars, Due, Poll, Finish, Fold,
        ReadMappings

\* The profile reads a key's mappings only as the check found the process.
LEMMA ScanStep ==
  ASSUME SubjectsType, ExecsAreTold, ScanInv, [CpuProfileNext]_cpuProfileVars
  PROVE  ScanInv'
  <1> USE DEF ScanInv
  <1>1. CASE UNCHANGED scan
    BY <1>1
  <1>2. CASE Poll
    <2> DEFINE grown == {k \in Keys : counts[k] > 0}
    <2>1. scan' = [NoScan EXCEPT !.todo = grown] \/ UNCHANGED scan
      BY <1>2 DEF Poll
    <2>2. grown \subseteq Keys
      OBVIOUS
    <2> HIDE DEF grown
    <2> QED BY <2>1, <2>2 DEF NoScan
  <1>3. ASSUME NEW k \in Keys, Folded(k) PROVE ScanInv'
    BY <1>3 DEF Folded, NoScan
  <1>4. ASSUME NEW k \in Keys, Fold(k), ~Folded(k) PROVE ScanInv'
    <2> DEFINE run == Running(Pid(k))
               exec == Pid(k) \in subjects.execing
    <2>1. IsCurrent(k) /\ scan' = [scan EXCEPT !.key = {k}, !.at = <<run, exec>>]
      BY <1>4 DEF Fold
    <2>2. Pid(k) \in Processes /\ Exec(k) # -1
      BY DEF Keys, Pid, Exec
    <2>3. ~exec => run = Image(k)
      BY <2>1, <2>2 DEF IsCurrent, Running, Image, ExecsAreTold
    <2> HIDE DEF run, exec
    <2>4. /\ scan'.todo = scan.todo /\ scan'.key = {k} /\ scan'.at = <<run, exec>>
          /\ scan' = [todo |-> scan'.todo, key |-> scan'.key, at |-> scan'.at]
      BY <2>1
    <2>5. ASSUME NEW r, scan'.at = <<r, FALSE>> PROVE r = Image(k)
      <3>1. <<r, FALSE>> = <<run, exec>>
        BY <2>4, <2>5
      <3>2. r = run /\ ~exec
        BY <3>1, Zenon
      <3> QED BY <2>3, <3>2
    <2> QED BY <2>4, <2>5
  <1> QED BY <1>1, <1>2, <1>3, <1>4
    DEF CpuProfileNext, cpuProfileVars, Exits, Reused, Execs, ExecIsTold, TakeStack, Hotplug,
        HostOnly, Due, Finish, Fold, ReadMappings

\* A stack gets the names of its own image, or the key is among those whose
\* process moved on while its mappings were read.
LEMMA NamesStep ==
  ASSUME SubjectsType, ScanInv, NamesInv, [CpuProfileNext]_cpuProfileVars
  PROVE  NamesInv'
  <1> USE DEF NamesInv, FramesAreOwn
  <1>1. CASE UNCHANGED <<naming, moved>>
    BY <1>1
  <1>2. ASSUME NEW k \in Keys, Fold(k), naming' = [naming EXCEPT ![k] = Unavailable]
        PROVE  NamesInv'
    BY <1>2 DEF Fold
  <1>3. ASSUME NEW k \in Keys, ReadMappings(k) PROVE NamesInv'
    <2>1. Pid(k) \in Processes
      BY DEF Keys, Pid
    <2>2. naming' = [naming EXCEPT ![k] = Unavailable]
          \/ naming' = [naming EXCEPT ![k] = Running(Pid(k))]
      BY <1>3 DEF ReadMappings
    <2>3. Running(Pid(k)) \in {<<i, e>> : i \in Int, e \in Int}
      BY <2>1 DEF Running, SubjectsType
    <2>4. (scan.at = <<Running(Pid(k)), FALSE>> /\ UNCHANGED moved)
          \/ moved' = moved \cup {k}
      BY <1>3 DEF ReadMappings
    <2>5. Running(Pid(k)) = Image(k) \/ moved' = moved \cup {k}
      BY <1>3, <2>4 DEF ReadMappings, ScanInv
    <2>6. moved \subseteq moved'
      BY <2>4
    <2> QED BY <2>2, <2>3, <2>5, <2>6
  <1>4. ASSUME NEW k \in Keys, Fold(k) PROVE NamesInv'
    <2>1. UNCHANGED moved /\ (UNCHANGED naming \/ naming' = [naming EXCEPT ![k] = Unavailable])
      BY <1>4 DEF Fold
    <2> QED BY <1>1, <1>2, <1>4, <2>1
  <1>5. CASE Poll \/ Finish \/ Due \/ Hotplug \/ UNCHANGED cpuProfileVars
    <2>1. UNCHANGED <<naming, moved>>
      BY <1>5 DEF Poll, Finish, Due, Hotplug, HostOnly, profileVars, cpuProfileVars
    <2> QED BY <1>1, <2>1
  <1>6. ASSUME NEW p \in Processes,
               Exits(p) \/ Reused(p) \/ Execs(p) \/ ExecIsTold(p) \/ TakeStack(p)
        PROVE  NamesInv'
    <2>1. UNCHANGED <<naming, moved>>
      BY <1>6 DEF Exits, Reused, Execs, ExecIsTold, TakeStack, HostOnly, profileVars
    <2> QED BY <1>1, <2>1
  <1> QED BY <1>3, <1>4, <1>5, <1>6 DEF CpuProfileNext

-----------------------------------------------------------------------------
(* The samples of a CPU profile: each is in a count or is a failure, and   *)
(* what a poll has yet to fold is among the keys it has yet to read.       *)

LEMMA KeysFinite == IsFiniteSet(Keys)
  <1> DEFINE starts == 1..MaxHostChanges + 1
             images == 0..MaxHostChanges
  <1>1. IsFiniteSet(starts) /\ IsFiniteSet(images) /\ IsFiniteSet(Processes)
    BY CpuProfileAssumption, FS_Interval
  <1>2. IsFiniteSet(BOOLEAN)
    <2>1. IsFiniteSet({}) /\ BOOLEAN = ({} \cup {TRUE}) \cup {FALSE}
      BY FS_EmptySet
    <2> QED BY <2>1, FS_AddElement
  <1> HIDE DEF starts, images
  <1> DEFINE three == (Processes \X starts) \X images
             four == three \X BOOLEAN
  <1>3. IsFiniteSet(Processes \X starts)
    BY <1>1, FS_Product
  <1>4. IsFiniteSet(three)
    BY <1>1, <1>3, FS_Product
  <1>5. IsFiniteSet(four)
    BY <1>2, <1>4, FS_Product
  <1> DEFINE key(x) == <<x[1][1][1], x[1][1][2], x[1][2], x[2]>>
  <1>6. Keys = {key(x) : x \in four}
    <2>1. ASSUME NEW k \in Keys PROVE k \in {key(x) : x \in four}
      <3>1. PICK p \in Processes, i \in starts, e \in images, b \in BOOLEAN : k = <<p, i, e, b>>
        BY DEF Keys, starts, images
      <3>2. <<<<<<p, i>>, e>>, b>> \in four /\ key(<<<<<<p, i>>, e>>, b>>) = k
        BY <3>1
      <3> QED BY <3>2
    <2>2. ASSUME NEW x \in four PROVE key(x) \in Keys
      <3>1. PICK p \in Processes, i \in starts, e \in images, b \in BOOLEAN :
              x = <<<<<<p, i>>, e>>, b>>
        OBVIOUS
      <3>2. key(x) = <<p, i, e, b>>
        BY <3>1
      <3> QED BY <3>2 DEF Keys, starts, images
    <2> QED BY <2>1, <2>2
  <1> HIDE DEF four
  <1> DEFINE f == [x \in four |-> key(x)]
  <1>7. f \in Surjection(four, Keys)
    <2>1. f \in [four -> Keys] /\ \A k \in Keys : \E x \in four : f[x] = k
      BY <1>6
    <2> QED BY <2>1 DEF Surjection
  <1> QED BY <1>5, <1>7, FS_Surjection

HostMoves == \E p \in Processes : Exits(p) \/ Reused(p) \/ Execs(p) \/ ExecIsTold(p)

LEMMA Moves ==
  ASSUME [CpuProfileNext]_cpuProfileVars
  PROVE  \/ HostMoves \/ Hotplug \/ Due \/ Poll \/ Finish \/ UNCHANGED cpuProfileVars
         \/ (\E p \in Processes : TakeStack(p)) \/ (\E k \in Keys : Fold(k) \/ ReadMappings(k))
  BY DEF CpuProfileNext, HostMoves

LEMMA HostKeeps ==
  ASSUME HostMoves \/ Hotplug \/ Due \/ UNCHANGED cpuProfileVars
  PROVE  /\ UNCHANGED <<links, finished, scan, ended, wasTold, attempted, mapFailures, seen>>
         /\ UNCHANGED countVars
  <1> USE DEF HostOnly, profileVars, countVars
  <1>1. ASSUME NEW p \in Processes, Exits(p) \/ Reused(p) \/ Execs(p) \/ ExecIsTold(p) PROVE HostOnly
    BY <1>1 DEF Exits, Reused, Execs, ExecIsTold
  <1>2. HostMoves \/ Hotplug => HostOnly
    BY <1>1 DEF HostMoves, Hotplug
  <1>3. CASE HostMoves \/ Hotplug
    BY <1>2, <1>3
  <1>4. CASE Due \/ UNCHANGED cpuProfileVars
    BY <1>4 DEF Due, cpuProfileVars
  <1> QED BY <1>3, <1>4

LEMMA ProfileKeeps ==
  ASSUME \/ Due \/ Poll \/ Finish \/ UNCHANGED cpuProfileVars
         \/ (\E p \in Processes : TakeStack(p)) \/ (\E k \in Keys : Fold(k) \/ ReadMappings(k))
  PROVE  UNCHANGED subjectVars
  <1>1. CASE Due \/ UNCHANGED cpuProfileVars
    BY <1>1 DEF Due, cpuProfileVars
  <1>5. CASE Poll
    BY <1>5 DEF Poll
  <1>6. CASE Finish
    BY <1>6 DEF Finish
  <1>2. ASSUME NEW p \in Processes, TakeStack(p) PROVE UNCHANGED subjectVars
    BY <1>2 DEF TakeStack
  <1>3. ASSUME NEW k \in Keys, Fold(k) PROVE UNCHANGED subjectVars
    BY <1>3, Zenon DEF Fold
  <1>4. ASSUME NEW k \in Keys, ReadMappings(k) PROVE UNCHANGED subjectVars
    BY <1>4 DEF ReadMappings
  <1> QED BY <1>1, <1>2, <1>3, <1>4, <1>5, <1>6

SubjectsInv ==
  /\ subjects = [life |-> subjects.life, image |-> subjects.image, execing |-> subjects.execing]
  /\ hostChanges \in 0..MaxHostChanges
  /\ subjects.life \in [Processes -> 0..MaxHostChanges + 1]
  /\ subjects.image \in [Processes -> Nat]
  /\ \A p \in Processes : subjects.image[p] <= hostChanges

SamplesType ==
  /\ counts \in [Keys -> Nat] /\ seen \in [Keys -> Nat]
  /\ attempts \in Nat /\ failures \in Nat

Counted == attempts = Sum(counts, Keys) + failures

\* The last poll has read the totals and what it has folded is as counted;
\* what it has not is what it has to read.
LastPoll ==
  /\ \A j, k \in scan.key : j = k
  /\ ended # "no" => links = {}
  /\ ended = "final" => finished
  /\ ended = "final" /\ scan # NoScan =>
       /\ attempted = attempts /\ mapFailures = failures
       /\ \A k \in Keys : seen[k] = counts[k] \/ (k \in scan.todo /\ k \notin scan.key)
  /\ ended = "read" =>
       /\ attempted = attempts /\ mapFailures = failures
       /\ \A k \in Keys : seen[k] = counts[k]

\* What has been folded is no more than what was counted.
FoldedWithin == \A k \in Keys : seen[k] <= counts[k]

SamplesInv == SubjectsInv /\ SamplesType /\ Counted /\ FoldedWithin /\ LastPoll

\* A process has had no more images than the host has changed, and so its
\* samples have a key.
LEMMA HostStep ==
  ASSUME SubjectsInv, [CpuProfileNext]_cpuProfileVars
  PROVE  SubjectsInv'
  <1> USE DEF SubjectsInv
  <1>1. CASE UNCHANGED <<subjects, hostChanges>>
    BY <1>1
  <1>2. ASSUME NEW p \in Processes, Exits(p) PROVE SubjectsInv'
    <2>1. /\ subjects'.life = [subjects.life EXCEPT ![p] = 0]
          /\ subjects'.image = subjects.image /\ hostChanges' = hostChanges + 1
          /\ subjects' = [life |-> subjects'.life, image |-> subjects'.image,
                          execing |-> subjects'.execing]
          /\ hostChanges < MaxHostChanges
      BY <1>2 DEF Exits, Changed
    <2>2. subjects'.life \in [Processes -> 0..MaxHostChanges + 1]
      BY <2>1, CpuProfileAssumption
    <2> QED BY <2>1, <2>2, CpuProfileAssumption
  <1>3. ASSUME NEW p \in Processes, Reused(p) PROVE SubjectsInv'
    <2>1. /\ subjects'.life = [subjects.life EXCEPT ![p] = hostChanges + 1]
          /\ subjects'.image = subjects.image /\ hostChanges' = hostChanges
          /\ subjects' = [life |-> subjects'.life, image |-> subjects'.image,
                          execing |-> subjects'.execing]
      BY <1>3 DEF Reused
    <2>2. hostChanges + 1 \in 0..MaxHostChanges + 1
      BY CpuProfileAssumption
    <2> QED BY <2>1, <2>2
  <1>4. ASSUME NEW p \in Processes, Execs(p) PROVE SubjectsInv'
    <2>1. /\ subjects'.life = subjects.life
          /\ subjects'.image = [subjects.image EXCEPT ![p] = @ + 1]
          /\ subjects' = [life |-> subjects'.life, image |-> subjects'.image,
                          execing |-> subjects'.execing]
          /\ hostChanges' = hostChanges + 1 /\ hostChanges < MaxHostChanges
      BY <1>4 DEF Execs, Changed
    <2>2. subjects'.image \in [Processes -> Nat]
          /\ \A q \in Processes : subjects'.image[q] <= hostChanges + 1
      BY <2>1
    <2> QED BY <2>1, <2>2, CpuProfileAssumption
  <1>5. ASSUME NEW p \in Processes, ExecIsTold(p) PROVE SubjectsInv'
    BY <1>5 DEF ExecIsTold
  <1>6. CASE Hotplug
    BY <1>6, CpuProfileAssumption DEF Hotplug, Changed
  <1> HIDE DEF SubjectsInv
  <1>7. CASE UNCHANGED subjectVars
    BY <1>1, <1>7 DEF subjectVars
  <1>8. CASE HostMoves
    BY <1>2, <1>3, <1>4, <1>5, <1>8 DEF HostMoves
  <1> QED BY <1>6, <1>7, <1>8, Moves, ProfileKeeps

\* A sample is counted under its key or among the failures.
LEMMA StackIsCounted ==
  ASSUME SubjectsInv, SamplesType, Counted, FoldedWithin, NEW p \in Processes, TakeStack(p)
  PROVE  SamplesType' /\ Counted' /\ FoldedWithin'
  <1> USE DEF SamplesType, Counted, FoldedWithin
  <1>1. UNCHANGED seen /\ attempts' = attempts + 1
    BY DEF TakeStack, profileVars
  <1>2. PICK walked \in BOOLEAN :
          LET k == <<p, subjects.life[p], subjects.image[p], walked>>
          IN  \/ counts' = [counts EXCEPT ![k] = @ + 1] /\ UNCHANGED failures
              \/ failures' = failures + 1 /\ UNCHANGED counts
    BY DEF TakeStack
  <1> DEFINE k == <<p, subjects.life[p], subjects.image[p], walked>>
             was == Sum(counts, Keys)
  <1>3. k \in Keys
    <2>1. subjects.life[p] \in 1..MaxHostChanges + 1 /\ subjects.image[p] \in 0..MaxHostChanges
      BY CpuProfileAssumption DEF SubjectsInv, TakeStack
    <2> QED BY <2>1 DEF Keys
  <1> HIDE DEF k
  <1>4. was \in Int
    BY KeysFinite, SumType
  <1>5. CASE counts' = [counts EXCEPT ![k] = @ + 1] /\ UNCHANGED failures
    <2> DEFINE now == counts'
    <2>1. now \in [Keys -> Nat] /\ now[k] = counts[k] + 1
          /\ \A x \in Keys : x # k => now[x] = counts[x]
      BY <1>3, <1>5
    <2> HIDE DEF now
    <2>2. \A x \in Keys : counts[x] \in Int /\ now[x] \in Int /\ (x # k => now[x] = counts[x])
      BY <2>1
    <2>3. Sum(now, Keys) = was - counts[k] + now[k]
      BY <1>3, <2>2, KeysFinite, SumChanges
    <2>4. Sum(now, Keys) = was + 1
      <3> HIDE DEF was
      <3> QED BY <1>3, <1>4, <2>1, <2>3
    <2>5. attempts + 1 = (was + 1) + failures
      <3>1. attempts = was + failures
        OBVIOUS
      <3> HIDE DEF was
      <3> QED BY <1>4, <3>1
    <2>6. \A x \in Keys : seen[x] <= now[x]
      BY <2>1
    <2>7. attempts + 1 \in Nat
      OBVIOUS
    <2> QED BY <1>1, <1>5, <2>1, <2>4, <2>5, <2>6, <2>7 DEF now
  <1>6. CASE failures' = failures + 1 /\ UNCHANGED counts
    <2>1. attempts + 1 = was + (failures + 1)
      <3>1. attempts = was + failures
        OBVIOUS
      <3> HIDE DEF was
      <3> QED BY <1>4, <3>1
    <2>2. attempts + 1 \in Nat /\ failures + 1 \in Nat
      OBVIOUS
    <2> QED BY <1>1, <1>6, <2>1, <2>2
  <1> QED BY <1>2, <1>5, <1>6 DEF k

\* No other step samples, and a key is folded as it was counted.
LEMMA CountsStep ==
  ASSUME SubjectsInv, SamplesType, Counted, FoldedWithin, [CpuProfileNext]_cpuProfileVars
  PROVE  SamplesType' /\ Counted' /\ FoldedWithin'
  <1> USE DEF SamplesType, Counted, FoldedWithin
  <1>1. CASE UNCHANGED <<countVars, seen>>
    BY <1>1 DEF countVars
  <1>2. ASSUME NEW k \in Keys, Fold(k) PROVE SamplesType' /\ Counted' /\ FoldedWithin'
    <2>1. UNCHANGED countVars /\ seen' = [seen EXCEPT ![k] = counts[k]]
      BY <1>2 DEF Fold
    <2> QED BY <2>1 DEF countVars
  <1> HIDE DEF SamplesType, Counted, FoldedWithin
  <1>3. CASE Poll \/ Finish
    BY <1>1, <1>3 DEF Poll, Finish, profileVars
  <1>4. ASSUME NEW k \in Keys, ReadMappings(k) PROVE SamplesType' /\ Counted' /\ FoldedWithin'
    BY <1>1, <1>4 DEF ReadMappings
  <1>5. CASE HostMoves \/ Hotplug \/ Due \/ UNCHANGED cpuProfileVars
    BY <1>1, <1>5, HostKeeps
  <1> QED BY <1>2, <1>3, <1>4, <1>5, StackIsCounted, Moves

\* What the last poll does not read, has not been sampled or is folded already.
LEMMA LastPollStep ==
  ASSUME SamplesType, FoldedWithin, ScanInv, LastPoll, [CpuProfileNext]_cpuProfileVars
  PROVE  LastPoll'
  <1> USE DEF LastPoll
  <1>1. CASE UNCHANGED <<links, ended, finished, scan, attempted, mapFailures, countVars, seen>>
    BY <1>1 DEF countVars
  <1>2. ASSUME NEW p \in Processes, TakeStack(p) PROVE LastPoll'
    <2>1. links # {} /\ UNCHANGED <<links, ended, finished, scan>>
      BY <1>2 DEF TakeStack
    <2> QED BY <2>1
  <1>3. CASE Poll
    <2> USE <1>3 DEF Poll
    <2> DEFINE grown == {k \in Keys : counts[k] > 0}
    <2>1. CASE ended = "no"
      <3>1. ended' = "no"
        BY <2>1
      <3>2. \A j, k \in scan'.key : j = k
        <4>1. scan' = [NoScan EXCEPT !.todo = grown] \/ UNCHANGED scan
          OBVIOUS
        <4> QED BY <4>1 DEF NoScan
      <3> QED BY <3>1, <3>2
    <2>2. CASE ended = "final"
      <3>1. finished' /\ links' = {} /\ ended' \in {"final", "read"}
        BY <2>2 DEF Stops
      <3>2. /\ attempted' = attempts /\ mapFailures' = failures
            /\ scan' = [NoScan EXCEPT !.todo = grown]
            /\ (ended' = "read" => scan'.todo = {})
        BY <2>2, <3>1 DEF ScanDue
      <3>3. UNCHANGED <<counts, attempts, failures, seen>>
        BY DEF countVars
      <3>4. scan'.todo = grown /\ scan'.key = {}
        BY <3>2 DEF NoScan
      <3>5. ASSUME NEW k \in Keys, k \notin grown PROVE seen[k] = counts[k]
        BY <3>5 DEF SamplesType, FoldedWithin
      <3> QED BY <3>1, <3>2, <3>3, <3>4, <3>5
    <2> QED BY <2>1, <2>2
  <1>4. CASE Finish
    <2>1. ended = "no" /\ scan = NoScan /\ UNCHANGED scan
      BY <1>4 DEF Finish
    <2>2. links' = {} /\ ended' \in {"final", "failed"} /\ (ended' = "final" => finished')
      BY <1>4 DEF Finish
    <2> QED BY <2>1, <2>2
  <1>5. ASSUME NEW k \in Keys, Folded(k), scan # NoScan, scan.key \subseteq {k},
               UNCHANGED <<links, finished, attempted, mapFailures, countVars>>,
               seen' = [seen EXCEPT ![k] = counts[k]] \/ (UNCHANGED seen /\ k \in scan.key)
        PROVE  LastPoll'
    <2>1. scan'.todo = scan.todo \ {k} /\ scan'.key = {}
      BY <1>5 DEF Folded, NoScan
    <2>2. ended' = IF ended = "final" /\ scan'.todo = {} THEN "read" ELSE ended
      BY <1>5 DEF Folded
    <2>3. UNCHANGED <<counts, attempts, failures>>
      BY <1>5 DEF countVars
    <2>4. ASSUME ended = "final" PROVE \A x \in Keys : seen'[x] = counts[x] \/ x \in scan'.todo
      BY <1>5, <2>1, <2>4 DEF SamplesType
    <2>5. ASSUME ended = "read"
          PROVE  \A x \in Keys : seen'[x] = counts[x]
      BY <1>5, <2>5 DEF SamplesType
    <2>6. CASE ended = "final"
      <3>1. attempted' = attempts' /\ mapFailures' = failures' /\ links' = {} /\ finished'
        BY <1>5, <2>3, <2>6
      <3>2. ended' \in {"final", "read"} /\ (ended' = "read" => scan'.todo = {})
        BY <2>2, <2>6
      <3> QED BY <2>1, <2>3, <2>4, <2>6, <3>1, <3>2
    <2>7. CASE ended # "final"
      <3>1. ended' = ended
        BY <2>2, <2>7
      <3>2. \A j, i \in scan'.key : j = i
        BY <2>1
      <3> QED BY <3>2, <1>5, <2>3, <2>5, <2>7, <3>1
    <2> HIDE DEF LastPoll
    <2> QED BY <2>6, <2>7
  <1>6. ASSUME NEW k \in Keys, Fold(k) PROVE LastPoll'
    <2>1. /\ k \in scan.todo /\ scan.key = {} /\ seen' = [seen EXCEPT ![k] = counts[k]]
          /\ UNCHANGED <<links, finished, attempted, mapFailures, countVars>>
      BY <1>6 DEF Fold
    <2>2. scan # NoScan
      BY <2>1 DEF NoScan
    <2>3. CASE Folded(k)
      BY <1>5, <2>1, <2>2, <2>3
    <2>4. CASE ~Folded(k)
      <3>1. UNCHANGED ended /\ scan'.todo = scan.todo /\ scan'.key = {k}
        BY <1>6, <2>4 DEF Fold, ScanInv
      <3>2. UNCHANGED <<counts, attempts, failures>>
        BY <2>1 DEF countVars
      <3>3. seen'[k] = counts[k] /\ \A x \in Keys : x # k => seen'[x] = seen[x]
        BY <2>1 DEF SamplesType
      <3> QED BY <2>1, <2>2, <3>1, <3>2, <3>3
    <2> QED BY <2>3, <2>4
  <1>7. ASSUME NEW k \in Keys, ReadMappings(k) PROVE LastPoll'
    <2>1. /\ k \in scan.key /\ Folded(k) /\ UNCHANGED seen
          /\ UNCHANGED <<links, finished, attempted, mapFailures, countVars>>
      BY <1>7 DEF ReadMappings
    <2>2. scan # NoScan
      BY <2>1 DEF NoScan
    <2>3. scan.key \subseteq {k}
      BY <2>1
    <2> QED BY <1>5, <2>1, <2>2, <2>3
  <1> HIDE DEF LastPoll
  <1>8. CASE HostMoves \/ Hotplug \/ Due \/ UNCHANGED cpuProfileVars
    BY <1>1, <1>8, HostKeeps
  <1> QED BY <1>2, <1>3, <1>4, <1>6, <1>7, <1>8, Moves

\* When the last counts are read every sample is in the profile or a failure
\* of its map; a stack is named from the mappings of the process and the image
\* it was sampled in unless the process moved on meanwhile; and while the
\* capture runs every change of the CPUs that are sampled is told.
THEOREM ProfileCorrect == CpuProfileSpec => []ProfileIsAccounted
  <1>1. CpuProfileInit => ProfileInv
    <2> SUFFICES ASSUME CpuProfileInit PROVE ProfileInv
      OBVIOUS
    <2> USE DEF CpuProfileInit
    <2>1. SubjectsType /\ ExecsAreTold
      BY DEF SubjectsType, ExecsAreTold
    <2>2. ScanInv
      BY DEF ScanInv, NoScan
    <2>3. NamesInv /\ CoverageIsTold
      BY DEF NamesInv, FramesAreOwn, CoverageIsTold
    <2> QED BY <2>1, <2>2, <2>3 DEF ProfileInv
  <1>2. CoverageIsTold /\ [CpuProfileNext]_cpuProfileVars => CoverageIsTold'
    <2> SUFFICES ASSUME CoverageIsTold, [CpuProfileNext]_cpuProfileVars PROVE CoverageIsTold'
      OBVIOUS
    <2> USE DEF CoverageIsTold
    <2>1. CASE Poll
      BY <2>1 DEF Poll, IsTold
    <2>2. CASE Finish
      BY <2>2 DEF Finish
    <2>3. CASE UNCHANGED <<links, wasTold>> /\ (ended' = "no" => ended = "no")
      BY <2>3
    <2>4. ASSUME NEW k \in Keys, Fold(k) \/ ReadMappings(k) PROVE CoverageIsTold'
      BY <2>3, <2>4 DEF Fold, ReadMappings, Folded
    <2>5. ASSUME NEW p \in Processes, TakeStack(p) PROVE CoverageIsTold'
      BY <2>3, <2>5 DEF TakeStack
    <2> HIDE DEF CoverageIsTold
    <2>6. CASE HostMoves \/ Hotplug \/ Due \/ UNCHANGED cpuProfileVars
      BY <2>3, <2>6, HostKeeps
    <2> QED BY <2>1, <2>2, <2>4, <2>5, <2>6, Moves
  <1>3. ProfileInv /\ [CpuProfileNext]_cpuProfileVars => ProfileInv'
    BY <1>2, ExecsStep, ScanStep, NamesStep DEF ProfileInv
  <1>4. CpuProfileInit => SamplesInv
    <2> SUFFICES ASSUME CpuProfileInit PROVE SamplesInv
      OBVIOUS
    <2> USE DEF CpuProfileInit
    <2>1. SubjectsInv
      BY CpuProfileAssumption DEF SubjectsInv
    <2>2. counts = [k \in Keys |-> 0] /\ seen = counts /\ attempts = 0 /\ failures = 0
      OBVIOUS
    <2>3. SamplesType /\ FoldedWithin
      BY <2>2 DEF SamplesType, FoldedWithin
    <2>4. Sum(counts, Keys) = 0
      BY <2>2, KeysFinite, SumOfZeros
    <2>5. Counted
      BY <2>2, <2>4 DEF Counted
    <2>6. LastPoll
      BY DEF LastPoll, NoScan
    <2> QED BY <2>1, <2>3, <2>5, <2>6 DEF SamplesInv
  <1>5. ProfileInv /\ SamplesInv /\ [CpuProfileNext]_cpuProfileVars => SamplesInv'
    BY HostStep, CountsStep, LastPollStep DEF ProfileInv, SamplesInv
  <1>6. SamplesInv => EverySampleIsAccounted
    <2> SUFFICES ASSUME SamplesInv, ended = "read"
                 PROVE  attempts = attempted /\ attempted = SumFunction(seen) + mapFailures
      BY DEF EverySampleIsAccounted
    <2>1. attempted = attempts /\ mapFailures = failures /\ seen = counts /\ DOMAIN seen = Keys
      BY DEF SamplesInv, LastPoll, SamplesType
    <2>2. SumFunction(seen) = Sum(counts, Keys)
      BY <2>1 DEF SumFunction, Sum
    <2> QED BY <2>1, <2>2 DEF SamplesInv, Counted
  <1>7. ProfileInv /\ SamplesInv => ProfileIsAccounted
    BY <1>6 DEF ProfileInv, NamesInv, ProfileIsAccounted
  <1> QED BY <1>1, <1>3, <1>4, <1>5, <1>7, PTL DEF CpuProfileSpec

=============================================================================
