--------------------------- MODULE DisplayProofs ---------------------------
(***************************************************************************)
(* Theorems about what is shown: the frame on the display, for any samples,*)
(* recordings and keys; the figures of BPF programs, for any programs that *)
(* take an id; the names of a stack, for any processes, files and roots    *)
(* that change while it is resolved; and the selected row, for any things  *)
(* that come, go and are replaced, and any keys.                           *)
(***************************************************************************)
EXTENDS Display, BpfPrograms, Symbols, Browse, DataLemmas

\* Times and positions have, up to a bound, a greatest.
LEMMA Greatest ==
  ASSUME NEW n \in Nat, NEW T \in SUBSET (0..n), T # {}
  PROVE  Max(T) \in T /\ \A y \in T : y <= Max(T)
  <1> DEFINE U == {n - t : t \in T}
  <1>1. U \in SUBSET Nat /\ U # {}
    <2>1. \A t \in T : t \in 0..n
      OBVIOUS
    <2>2. \A t \in T : n - t \in Nat
      BY <2>1
    <2> QED BY <2>2
  <1>2. PICK u \in U : \A v \in U : u <= v
    <2> HIDE DEF U
    <2> QED BY <1>1, Least
  <1>3. PICK x \in T : u = n - x
    OBVIOUS
  <1>4. \A y \in T : x >= y
    <2> TAKE y \in T
    <2>1. n - y \in U /\ u <= n - y
      BY <1>2
    <2> QED BY <1>3, <2>1
  <1> QED BY <1>4 DEF Max

-----------------------------------------------------------------------------
(* The display. *)

\* What the routes remember.
Opening == Frame \cup {NoFrame}
RoutesInv == routes \in Seq(-1..MaxSampled) /\ opened \in Seq(Opening)

\* The newest frame there is, on the display or aside.
AtHand == IF latest = NoFrame THEN displayed ELSE latest

\* In a replay a fresh sample can only be aside.
FreshInv == fresh => IF replay = <<>> THEN AtHand = Newest ELSE latest = Newest

DisplayInv == DisplayTypeOK /\ RoutesInv /\ FreshInv /\ ReplayShowsIndex

\* The frame at or before a time.
LEMMA PositionOf ==
  ASSUME DisplayTypeOK, replay # <<>>, NEW at
  PROVE  Position(at) \in DOMAIN replay
  <1> DEFINE T == {i \in DOMAIN replay : replay[i].at <= at} \cup {1}
  <1>1. replay \in Seq(Frame) /\ Len(replay) \in Nat \ {0} /\ DOMAIN replay = 1..Len(replay)
    BY DisplayAssumption DEF DisplayTypeOK
  <1>2. T \in SUBSET (0..Len(replay)) /\ T \subseteq DOMAIN replay /\ T # {}
    BY <1>1
  <1> HIDE DEF T
  <1>3. Max(T) \in T
    BY <1>1, <1>2, Greatest
  <1> QED BY <1>2, <1>3 DEF Position, T

\* What seeking leaves, in a replay and without one.
LEMMA SeekShows ==
  ASSUME DisplayInv, NEW at \in Nat
  PROVE  LET r == Sought(at)
         IN  /\ r = [displayed |-> r.displayed, latest |-> r.latest, cursor |-> r.cursor,
                     index |-> r.index]
             /\ r.displayed \in Frame /\ r.latest \in Frame \cup {NoFrame}
             /\ r.cursor \in -1..MaxSampled
             /\ replay # <<>> => /\ r.index \in DOMAIN replay /\ r.displayed = replay[r.index]
                                 /\ r.latest = latest
             /\ replay = <<>> => IF r.latest = NoFrame THEN r.displayed = AtHand
                                 ELSE r.latest = AtHand
             /\ replay = <<>> /\ at >= AtHand.at => r.displayed = AtHand
  <1> DEFINE r == Sought(at)
             newest == AtHand
             older == {i \in DOMAIN kept : kept[i].at <= at}
             To(frame, time) == [displayed |-> frame, latest |-> newest, cursor |-> time,
                                 index |-> index]
  <1>0. /\ displayed \in Frame /\ latest \in Frame \cup {NoFrame} /\ newest \in Frame
        /\ cursor \in -1..MaxSampled /\ end \in ScenarioEnds
        /\ MaxSampled \in Nat
        /\ kept \in Seq(Frame) /\ Len(kept) \in Nat
    BY DisplayAssumption DEF DisplayInv, DisplayTypeOK, AtHand
  <1>1. CASE replay # <<>>
    <2> DEFINE i == Position(at)
    <2>1. r = [displayed |-> replay[i], latest |-> latest, cursor |-> NoCursor, index |-> i]
      BY <1>1 DEF Sought
    <2>2. i \in DOMAIN replay /\ replay[i] \in Frame
      <3>1. i \in DOMAIN replay
        BY <1>1, PositionOf DEF DisplayInv
      <3>2. replay \in Seq(Frame)
        BY <1>1, DisplayAssumption DEF DisplayInv, DisplayTypeOK
      <3> QED BY <3>1, <3>2
    <2> HIDE DEF r, i
    <2>3. NoCursor \in -1..MaxSampled
      BY <1>0 DEF NoCursor
    <2>4. /\ r.displayed = replay[i] /\ r.latest = latest /\ r.cursor = NoCursor /\ r.index = i
          /\ r = [displayed |-> r.displayed, latest |-> r.latest, cursor |-> r.cursor,
                     index |-> r.index]
      BY <2>1
    <2> QED BY <1>0, <1>1, <2>2, <2>3, <2>4 DEF r
  <1>2. CASE replay = <<>>
    <2>1. NoFrame \notin Frame
      BY DEF NoFrame, NoCursor, Frame
    <2>2. CASE at >= newest.at
      <3>1. r = [displayed |-> newest, latest |-> NoFrame, cursor |-> NoCursor, index |-> index]
        BY <1>2, <2>2 DEF Sought, AtHand
      <3>2. NoCursor \in -1..MaxSampled
        BY <1>0 DEF NoCursor
      <3> HIDE DEF r, newest
      <3>3. /\ r.displayed = newest /\ r.latest = NoFrame /\ r.cursor = NoCursor
            /\ r = [displayed |-> r.displayed, latest |-> r.latest, cursor |-> r.cursor,
                     index |-> r.index]
        BY <3>1
      <3> QED BY <1>0, <1>2, <3>2, <3>3 DEF r, newest
    <2>3. CASE ~(at >= newest.at)
      <3>1. at \in 0..MaxSampled
        BY <1>0, <2>3 DEF Frame
      <3>2. PICK frame \in Frame, time \in -1..MaxSampled : r = To(frame, time)
        <4>1. CASE displayed.demo
          <5>1. r = To(AtTime(at, newest.demo), at)
            BY <1>2, <2>3, <4>1 DEF Sought, AtHand
          <5>2. AtTime(at, newest.demo) \in Frame
            <6>1. (IF at >= end THEN end ELSE at) \in 0..MaxSampled /\ newest.demo \in BOOLEAN
              BY <1>0, <3>1, DisplayAssumption DEF Frame
            <6> QED BY <6>1 DEF AtTime, Frame
          <5> QED BY <1>0, <3>1, <5>1, <5>2
        <4>2. CASE ~displayed.demo /\ older # {}
          <5>1. r = To(kept[Max(older)], kept[Max(older)].at)
            BY <1>2, <2>3, <4>2 DEF Sought, AtHand
          <5>2. older \in SUBSET (0..Len(kept)) /\ older \subseteq DOMAIN kept
            BY <1>0
          <5>3. Max(older) \in DOMAIN kept
            <6> HIDE DEF older
            <6> QED BY <1>0, <4>2, <5>2, Greatest
          <5>4. kept[Max(older)] \in Frame
            BY <1>0, <5>3
          <5>5. kept[Max(older)].at \in -1..MaxSampled
            BY <1>0, <5>4 DEF Frame
          <5> QED BY <5>1, <5>4, <5>5
        <4>3. CASE ~displayed.demo /\ older = {}
          <5>1. r = To(displayed, cursor)
            BY <1>2, <2>3, <4>3 DEF Sought, AtHand
          <5> QED BY <1>0, <5>1
        <4> QED BY <4>1, <4>2, <4>3
      <3> HIDE DEF r, newest
      <3>3. /\ r.displayed = frame /\ r.latest = newest /\ r.cursor = time
            /\ r = [displayed |-> r.displayed, latest |-> r.latest, cursor |-> r.cursor,
                     index |-> r.index]
        BY <3>2
      <3> QED BY <1>0, <1>2, <2>1, <2>3, <3>3 DEF r, newest
    <2> QED BY <2>2, <2>3
  <1> QED BY <1>1, <1>2

LEMMA GreatestOfTwo ==
  ASSUME NEW i \in Int, NEW j \in Int
  PROVE  /\ Max({i, j}) \in {i, j} /\ Max({i, j}) >= i
         /\ Min({i, j}) \in {i, j} /\ Min({i, j}) <= i /\ Min({i, j}) <= j
  BY DEF Max, Min

\* The newest sample is a frame.
LEMMA NewestIsFrame ==
  ASSUME DisplayTypeOK
  PROVE  Newest \in Frame /\ NoFrame \notin Frame
  <1>1. /\ demo \in BOOLEAN /\ newest_at \in 0..MaxSampled /\ end \in 0..MaxSampled
    BY DisplayAssumption DEF DisplayTypeOK
  <1> QED BY <1>1 DEF Newest, Fixture, Host, Frame, NoFrame, NoCursor

LEMMA DisplayInitial ==
  ASSUME DisplayInit
  PROVE  DisplayInv
  <1>1. end \in ScenarioEnds /\ end \in 1..MaxSampled
    <2>1. ScenarioEnds \in SUBSET (0..MaxSampled) /\ ScenarioEnds # {} /\ MaxSampled \in Nat
      BY DisplayAssumption
    <2>2. Max(ScenarioEnds) \in ScenarioEnds
      BY <2>1, Greatest
    <2> QED BY <2>2, DisplayAssumption DEF DisplayInit
  <1>2. demo \in BOOLEAN /\ newest_at \in 1..MaxSampled /\ replay \in Recordings \cup {<<>>}
    BY DisplayAssumption DEF DisplayInit
  <1>3. /\ Fixture(end) \in Frame /\ Host(newest_at) \in Frame
    <2>1. end \in 0..MaxSampled /\ newest_at \in 0..MaxSampled
      BY <1>1, <1>2
    <2> QED BY <2>1 DEF Fixture, Host, Frame
  <1>4. replay # <<>> => /\ replay \in Seq(Frame) /\ 1 \in DOMAIN replay /\ Head(replay) = replay[1]
                         /\ Head(replay) \in Frame
    BY <1>2, DisplayAssumption
  <1>5. displayed \in Frame
    BY <1>3, <1>4 DEF DisplayInit
  <1>6. kept \in Seq(Frame) /\ Len(kept) \in 1..MaxKept
    BY <1>5, DisplayAssumption DEF DisplayInit
  <1>7. DisplayTypeOK
    <2>1. /\ frozen \in BOOLEAN /\ playing \in BOOLEAN /\ fresh \in BOOLEAN
      BY Zenon DEF DisplayInit
    <2>2. cursor \in -1..MaxSampled /\ latest \in Frame \cup {NoFrame}
      BY DisplayAssumption DEF DisplayInit, NoCursor
    <2>3. Len(routes) = Len(opened) /\ Len(routes) <= MaxRoutes
      BY DisplayAssumption DEF DisplayInit
    <2>4. replay # <<>> => index \in DOMAIN replay
      BY <1>4 DEF DisplayInit
    <2> QED BY <1>1, <1>2, <1>5, <1>6, <2>1, <2>2, <2>3, <2>4 DEF DisplayTypeOK
  <1>8. RoutesInv
    BY DEF RoutesInv, DisplayInit
  <1>9. FreshInv
    BY DEF FreshInv, DisplayInit, AtHand, Newest
  <1>10. ReplayShowsIndex
    BY <1>4 DEF ReplayShowsIndex, DisplayInit
  <1> QED BY <1>7, <1>8, <1>9, <1>10 DEF DisplayInv

\* What a sample leaves in the timeline.
LEMMA RetainedIsKept ==
  ASSUME DisplayTypeOK, NEW s \in Frame, NEW k \in Retained(s)
  PROVE  k \in Seq(Frame) /\ Len(k) \in 1..MaxKept
  <1>0. kept \in Seq(Frame) /\ Len(kept) \in 1..MaxKept /\ MaxKept \in Nat \ {0}
    BY DisplayAssumption DEF DisplayTypeOK
  <1>1. CASE Last(kept).at = s.at
    BY <1>0, <1>1 DEF Retained
  <1>2. CASE Last(kept).at # s.at
    <2>1. PICK f \in Staying : k = Append([i \in DOMAIN f |-> kept[f[i]]], s)
      BY <1>2 DEF Retained
    <2>2. PICK n \in 0..(MaxKept - 1) : f \in [1..n -> DOMAIN kept]
      BY <2>1 DEF Staying
    <2> DEFINE g == [i \in DOMAIN f |-> kept[f[i]]]
    <2>3. g \in Seq(Frame) /\ Len(g) = n
      <3>1. DOMAIN f = 1..n /\ n \in Nat
        BY <1>0, <2>2
      <3>2. \A i \in 1..n : kept[f[i]] \in Frame
        BY <1>0, <2>2
      <3> QED BY <3>1, <3>2
    <2> HIDE DEF g
    <2>4. Append(g, s) \in Seq(Frame) /\ Len(Append(g, s)) = n + 1
      BY <2>3
    <2>5. n + 1 \in 1..MaxKept
      BY <1>0, <2>2
    <2> QED BY <2>1, <2>4, <2>5 DEF g
  <1> QED BY <1>1, <1>2

\* What may be shown of what is at hand.
CanShow(r) ==
  /\ r.displayed \in Frame /\ r.latest \in Frame \cup {NoFrame} /\ r.cursor \in -1..MaxSampled
  /\ replay # <<>> => /\ r.index \in DOMAIN replay /\ r.displayed = replay[r.index]
                      /\ r.latest = latest
  /\ replay = <<>> => IF r.latest = NoFrame THEN r.displayed = AtHand ELSE r.latest = AtHand

\* The routes are as many as the frames they were opened on.
RoutesOf(rs, os) ==
  /\ rs \in Seq(-1..MaxSampled) /\ os \in Seq(Opening)
  /\ Len(rs) = Len(os) /\ Len(rs) <= MaxRoutes

LEMMA ShowKeeps ==
  ASSUME DisplayInv, NEW r, CanShow(r), Show(r), RoutesOf(routes', opened'),
         UNCHANGED <<demo, newest_at, end, kept, frozen, replay, playing, fresh>>
  PROVE  DisplayInv'
  <1>1. /\ displayed' = r.displayed /\ latest' = r.latest
        /\ cursor' = r.cursor /\ index' = r.index
    BY DEF Show
  <1>2. DisplayTypeOK'
    BY <1>1 DEF DisplayInv, DisplayTypeOK, CanShow, RoutesOf
  <1>3. RoutesInv'
    BY DEF RoutesInv, RoutesOf
  <1>4. FreshInv'
    <2>1. Newest' = Newest
      BY DEF Newest, Fixture, Host
    <2>2. CASE replay = <<>>
      <3>1. AtHand' = AtHand
        BY <1>1, <2>2 DEF CanShow, AtHand
      <3> QED BY <2>1, <2>2, <3>1 DEF DisplayInv, FreshInv
    <2>3. CASE replay # <<>>
      BY <1>1, <2>1, <2>3 DEF CanShow, DisplayInv, FreshInv
    <2> QED BY <2>2, <2>3
  <1>5. ReplayShowsIndex'
    BY <1>1 DEF ReplayShowsIndex, CanShow
  <1> QED BY <1>2, <1>3, <1>4, <1>5 DEF DisplayInv

LEMMA RoutesStay ==
  ASSUME DisplayInv, UNCHANGED <<routes, opened>>
  PROVE  RoutesOf(routes', opened')
  BY DEF DisplayInv, DisplayTypeOK, RoutesInv, RoutesOf

LEMMA SoughtCanShow ==
  ASSUME DisplayInv, NEW at \in Nat
  PROVE  CanShow(Sought(at))
  BY SeekShows DEF CanShow

\* The time that a key moves from.
LEMMA CursorTimes ==
  ASSUME DisplayInv
  PROVE  CursorTime \in Nat
  <1>1. displayed.at \in Nat /\ cursor \in -1..MaxSampled /\ MaxSampled \in Nat
    BY DisplayAssumption DEF DisplayInv, DisplayTypeOK, Frame
  <1> QED BY <1>1 DEF CursorTime, NoCursor

LEMMA StepKeeps ==
  ASSUME DisplayInv, NEW i \in DOMAIN replay, Step(i),
         UNCHANGED <<demo, newest_at, end, kept, frozen, replay, playing, routes, opened, fresh>>
  PROVE  DisplayInv'
  <1> DEFINE r == [displayed |-> replay[i], latest |-> latest, cursor |-> cursor, index |-> i]
  <1>1. Show(r)
    BY DEF Step, Show
  <1>2. CanShow(r)
    <2>1. replay # <<>> /\ replay[i] \in Frame
      BY DisplayAssumption DEF Step, DisplayInv, DisplayTypeOK
    <2>2. latest \in Frame \cup {NoFrame} /\ cursor \in -1..MaxSampled
      BY DEF DisplayInv, DisplayTypeOK
    <2> QED BY <2>1, <2>2 DEF CanShow
  <1> HIDE DEF r
  <1> QED BY <1>1, <1>2, ShowKeeps, RoutesStay

LEMMA KeyLeftKeeps ==
  ASSUME DisplayInv, KeyLeft
  PROVE  DisplayInv'
  <1>1. CASE Step(Max({1, index - 1}))
    <2>1. /\ replay # <<>> /\ replay \in Seq(Frame) /\ index \in 1..Len(replay) /\ Len(replay) \in Nat
      BY <1>1, DisplayAssumption DEF Step, DisplayInv, DisplayTypeOK
    <2>2. Max({1, index - 1}) \in DOMAIN replay
      <3> DEFINE j == index - 1
      <3>1. j \in Int /\ j < index
        BY <2>1
      <3> HIDE DEF j
      <3>2. Max({1, j}) \in {1, j} /\ Max({1, j}) >= 1
        BY <3>1, GreatestOfTwo
      <3>3. Max({1, j}) \in DOMAIN replay
        BY <2>1, <3>1, <3>2
      <3> QED BY <3>3 DEF j
    <2> QED BY <1>1, <2>2, StepKeeps DEF KeyLeft
  <1>2. CASE Show(Sought(Max({0, CursorTime - Second})))
    <2> DEFINE at == Max({0, CursorTime - Second})
    <2>1. at \in Nat
      <3>1. CursorTime - Second \in Int
        BY CursorTimes, DisplayAssumption
      <3>2. at \in {0, CursorTime - Second} /\ at >= 0
        BY <3>1, GreatestOfTwo
      <3> QED BY <3>1, <3>2
    <2> HIDE DEF at
    <2>2. CanShow(Sought(at))
      BY <2>1, SoughtCanShow
    <2>3. Show(Sought(at))
      BY <1>2 DEF at
    <2> QED BY <2>2, <2>3, ShowKeeps, RoutesStay DEF KeyLeft
  <1> QED BY <1>1, <1>2 DEF KeyLeft

LEMMA KeyRightKeeps ==
  ASSUME DisplayInv, KeyRight
  PROVE  DisplayInv'
  <1>1. CASE Step(Min({Len(replay), index + 1}))
    <2>1. /\ replay # <<>> /\ replay \in Seq(Frame) /\ index \in 1..Len(replay) /\ Len(replay) \in Nat
      BY <1>1, DisplayAssumption DEF Step, DisplayInv, DisplayTypeOK
    <2>2. Min({Len(replay), index + 1}) \in DOMAIN replay
      <3> DEFINE n == Len(replay)
                 j == index + 1
      <3>1. j \in Int /\ j > index /\ n \in Int
        BY <2>1
      <3>2. DOMAIN replay = 1..n /\ index \in 1..n
        BY <2>1
      <3> HIDE DEF j, n
      <3>3. Min({n, j}) \in {n, j} /\ Min({n, j}) <= n
        BY <3>1, GreatestOfTwo
      <3>4. Min({n, j}) \in DOMAIN replay
        BY <2>1, <3>1, <3>2, <3>3
      <3> QED BY <3>4 DEF j, n
    <2> QED BY <1>1, <2>2, StepKeeps DEF KeyRight
  <1>2. CASE Show(Sought(CursorTime + Second))
    <2> DEFINE at == CursorTime + Second
    <2>1. at \in Nat
      BY CursorTimes, DisplayAssumption
    <2> HIDE DEF at
    <2>2. CanShow(Sought(at))
      BY <2>1, SoughtCanShow
    <2>3. Show(Sought(at))
      BY <1>2 DEF at
    <2> QED BY <2>2, <2>3, ShowKeeps, RoutesStay DEF KeyRight
  <1> QED BY <1>1, <1>2 DEF KeyRight

LEMMA OpenSubjectKeeps ==
  ASSUME DisplayInv, NEW at \in 0..displayed.at, OpenSubject(at)
  PROVE  DisplayInv'
  <1>1. FrozenFrame \in Opening /\ cursor \in -1..MaxSampled /\ at \in Nat
    BY DEF DisplayInv, DisplayTypeOK, FrozenFrame, Opening, Frame
  <1>2. RoutesOf(routes', opened')
    <2>1. /\ routes' = Append(routes, cursor) /\ opened' = Append(opened, FrozenFrame)
          /\ Len(routes) < MaxRoutes
      BY DEF OpenSubject
    <2>2. MaxRoutes \in Nat /\ RoutesOf(routes, opened)
      BY DisplayAssumption DEF DisplayInv, DisplayTypeOK, RoutesInv, RoutesOf
    <2> QED BY <1>1, <2>1, <2>2 DEF RoutesOf
  <1>3. CanShow(Sought(at)) /\ Show(Sought(at))
    BY <1>1, SoughtCanShow DEF OpenSubject
  <1>4. UNCHANGED <<demo, newest_at, end, kept, frozen, replay, playing, fresh>>
    BY DEF OpenSubject
  <1> QED BY <1>2, <1>3, <1>4, ShowKeeps

\* Where Esc seeks, and what it shows.
Returns == IF Last(routes) = NoCursor THEN Forever ELSE Last(routes)
Restored == [Sought(Returns) EXCEPT !.cursor = Last(routes)]

LEMMA BackShows ==
  ASSUME DisplayInv, Back
  PROVE  /\ Returns \in Nat /\ Last(routes) \in -1..MaxSampled
         /\ Restored.displayed = Sought(Returns).displayed
         /\ CanShow(Restored) /\ Show(Restored)
         /\ Last(routes) = NoCursor /\ replay = <<>> => Restored.displayed = AtHand
  <1>0. MaxSampled \in Nat /\ Second \in Nat /\ Forever = MaxSampled + Second
    BY DisplayAssumption DEF Forever
  <1>1. routes \in Seq(-1..MaxSampled) /\ routes # <<>> /\ Last(routes) = routes[Len(routes)]
    BY DEF Back, DisplayInv, RoutesInv, Last
  <1>2. Last(routes) \in -1..MaxSampled
    BY <1>0, <1>1
  <1>3. Returns \in Nat
    BY <1>0, <1>2 DEF Returns, NoCursor
  <1> DEFINE r == Sought(Returns)
             route == Last(routes)
  <1>4. /\ r = [displayed |-> r.displayed, latest |-> r.latest, cursor |-> r.cursor,
                index |-> r.index]
        /\ CanShow(r)
    BY <1>3, SeekShows DEF CanShow
  <1>5. Show(Restored)
    BY DEF Back, Restored, Returns
  <1>6. Last(routes) = NoCursor /\ replay = <<>> => r.displayed = AtHand
    <2>1. AtHand \in Frame
      BY DEF DisplayInv, DisplayTypeOK, AtHand
    <2>2. AtHand.at \in 0..MaxSampled
      BY <2>1 DEF Frame
    <2>3. Last(routes) = NoCursor => Returns >= AtHand.at
      BY <1>0, <2>2 DEF Returns
    <2> QED BY <1>3, <2>3, SeekShows
  <1> HIDE DEF r, route
  <1>7. /\ [r EXCEPT !.cursor = route].displayed = r.displayed
        /\ [r EXCEPT !.cursor = route].latest = r.latest
        /\ [r EXCEPT !.cursor = route].cursor = route
        /\ [r EXCEPT !.cursor = route].index = r.index
    BY <1>4
  <1>8. Restored = [r EXCEPT !.cursor = route]
    BY DEF Restored, r, route
  <1>9. CanShow(Restored)
    <2>1. route \in -1..MaxSampled
      BY <1>2 DEF route
    <2> QED BY <1>4, <1>7, <1>8, <2>1 DEF CanShow
  <1> QED BY <1>2, <1>3, <1>5, <1>6, <1>7, <1>8, <1>9 DEF r

LEMMA FrontOf ==
  ASSUME NEW S, NEW s \in Seq(S), Len(s) \in Nat \ {0}
  PROVE  SubSeq(s, 1, Len(s) - 1) \in Seq(S) /\ Len(SubSeq(s, 1, Len(s) - 1)) = Len(s) - 1
  <1> DEFINE n == Len(s) - 1
  <1>1. n \in Nat /\ n < Len(s)
    OBVIOUS
  <1> HIDE DEF n
  <1>2. SubSeq(s, 1, n) = [i \in 1..n |-> s[i]]
    BY <1>1
  <1>3. [i \in 1..n |-> s[i]] \in Seq(S)
    BY <1>1
  <1>4. Len(SubSeq(s, 1, n)) = n
    BY <1>1, <1>2
  <1> QED BY <1>2, <1>3, <1>4 DEF n

LEMMA BackKeeps ==
  ASSUME DisplayInv, Back
  PROVE  DisplayInv'
  <1>1. CanShow(Restored) /\ Show(Restored)
    BY BackShows
  <1>2. RoutesOf(routes', opened')
    <2>1. routes' = Front(routes) /\ opened' = Front(opened) /\ routes # <<>>
      BY DEF Back
    <2>2. MaxRoutes \in Nat /\ RoutesOf(routes, opened)
      BY DisplayAssumption DEF DisplayInv, DisplayTypeOK, RoutesInv, RoutesOf
    <2>3. Len(routes) \in Nat \ {0} /\ Len(opened) = Len(routes)
      BY <2>1, <2>2 DEF RoutesOf
    <2>4. /\ Front(routes) = SubSeq(routes, 1, Len(routes) - 1)
          /\ Front(opened) = SubSeq(opened, 1, Len(opened) - 1)
      BY DEF Front
    <2>5. /\ Front(routes) \in Seq(-1..MaxSampled) /\ Len(Front(routes)) = Len(routes) - 1
          /\ Front(opened) \in Seq(Opening) /\ Len(Front(opened)) = Len(opened) - 1
      BY <2>2, <2>3, <2>4, FrontOf DEF RoutesOf
    <2> QED BY <2>1, <2>2, <2>3, <2>5 DEF RoutesOf
  <1> QED BY <1>1, <1>2, ShowKeeps DEF Back

LEMMA UpdateKeeps ==
  ASSUME DisplayInv, replay = <<>>, NEW s \in Frame, Update(s),
         newest_at' \in 1..MaxSampled, Newest' = s
  PROVE  DisplayInv'
  <1>1. NoFrame \notin Frame
    BY NewestIsFrame DEF DisplayInv
  <1>2. kept' \in Seq(Frame) /\ Len(kept') \in 1..MaxKept
    BY RetainedIsKept DEF DisplayInv, Update
  <1>3. displayed' \in Frame /\ latest' \in Frame \cup {NoFrame}
    BY DEF Update, DisplayInv, DisplayTypeOK
  <1>4. fresh' \in BOOLEAN
    BY DEF Update
  <1>5. UNCHANGED <<demo, end, cursor, frozen, replay, index, playing, routes, opened>>
    BY DEF Update
  <1>6. DisplayTypeOK'
    BY <1>2, <1>3, <1>4, <1>5 DEF DisplayInv, DisplayTypeOK
  <1>7. RoutesInv'
    BY <1>5 DEF DisplayInv, RoutesInv
  <1>8. FreshInv'
    <2>1. AtHand' = s
      BY <1>1 DEF Update, AtHand
    <2> QED BY <1>5, <2>1 DEF FreshInv
  <1>9. ReplayShowsIndex'
    BY <1>5 DEF ReplayShowsIndex
  <1> QED BY <1>6, <1>7, <1>8, <1>9 DEF DisplayInv

LEMMA NewSampleKeeps ==
  ASSUME DisplayInv, NewSample
  PROVE  DisplayInv'
  <1>0. /\ demo \in BOOLEAN /\ newest_at \in 1..MaxSampled /\ end \in 1..MaxSampled
        /\ MaxSampled \in Nat /\ Gaps \subseteq Nat \ {0}
    BY DisplayAssumption DEF DisplayInv, DisplayTypeOK
  <1>1. CASE demo
    <2>1. newest_at' = newest_at /\ Update(Fixture(end)) /\ replay = <<>>
      BY <1>1 DEF NewSample
    <2>2. demo' = demo /\ end' = end
      BY <2>1 DEF Update
    <2>3. Newest' = Fixture(end)
      BY <1>1, <2>2 DEF Newest, Fixture
    <2>4. Fixture(end) \in Frame
      BY <1>1, NewestIsFrame DEF Newest, DisplayInv
    <2> QED BY <1>0, <2>1, <2>3, <2>4, UpdateKeeps
  <1>2. CASE ~demo
    <2>1. PICK gap \in Gaps : /\ newest_at + gap <= MaxSampled
                              /\ newest_at' = newest_at + gap /\ Update(Host(newest_at'))
      BY <1>2 DEF NewSample
    <2> DEFINE t == newest_at'
    <2>2. t \in 1..MaxSampled
      BY <1>0, <2>1
    <2>3. demo' = demo /\ replay = <<>>
      BY <2>1 DEF Update, NewSample
    <2>4. Newest' = Host(t)
      BY <1>2, <2>3 DEF Newest, Host
    <2>5. Host(t) \in Frame
      <3> HIDE DEF t
      <3>1. t \in 0..MaxSampled
        BY <2>2
      <3> QED BY <3>1 DEF Host, Frame
    <2> QED BY <2>1, <2>2, <2>3, <2>4, <2>5, UpdateKeeps
  <1> QED BY <1>0, <1>1, <1>2

LEMMA FreezeKeeps ==
  ASSUME DisplayInv, Freeze
  PROVE  DisplayInv'
  <1>1. frozen' \in BOOLEAN
    BY Zenon DEF Freeze
  <1>2. UNCHANGED <<demo, newest_at, end, kept, displayed, latest, cursor, replay, index, playing,
                    routes, opened, fresh>>
    BY DEF Freeze, screen
  <1>3. DisplayTypeOK'
    BY <1>1, <1>2 DEF DisplayInv, DisplayTypeOK
  <1> QED BY <1>2, <1>3
       DEF DisplayInv, RoutesInv, FreshInv, ReplayShowsIndex, AtHand, Newest, Fixture, Host

\* The recordings start with a frame.
LEMMA RecordingStarts ==
  ASSUME NEW r \in Recordings
  PROVE  r \in Seq(Frame) /\ r # <<>> /\ 1 \in DOMAIN r /\ Head(r) = r[1] /\ r[1] \in Frame
  BY DisplayAssumption

LEMMA ReplayKeeps ==
  ASSUME DisplayInv, NEW r \in Recordings, Replay(r)
  PROVE  DisplayInv'
  <1>1. /\ replay' = r /\ index' = 1 /\ displayed' = r[1] /\ cursor' = NoCursor
        /\ playing' = FALSE /\ frozen' = TRUE /\ fresh' = FALSE
        /\ UNCHANGED <<demo, newest_at, end, kept, latest, routes, opened>>
    BY RecordingStarts DEF Replay
  <1>2. NoCursor \in -1..MaxSampled
    BY DisplayAssumption DEF NoCursor
  <1>3. DisplayTypeOK'
    BY <1>1, <1>2, RecordingStarts DEF DisplayInv, DisplayTypeOK
  <1> QED BY <1>1, <1>3 DEF DisplayInv, RoutesInv, FreshInv, ReplayShowsIndex

LEMMA PlayKeeps ==
  ASSUME DisplayInv, NEW b \in BOOLEAN, Play(b)
  PROVE  DisplayInv'
  <1>1. playing' \in BOOLEAN
    BY Zenon DEF Play
  <1>2. UNCHANGED <<demo, newest_at, end, kept, displayed, latest, cursor, frozen, replay, index,
                    routes, opened, fresh>>
    BY DEF Play, screen
  <1>3. DisplayTypeOK'
    BY <1>1, <1>2 DEF DisplayInv, DisplayTypeOK
  <1> QED BY <1>2, <1>3
       DEF DisplayInv, RoutesInv, FreshInv, ReplayShowsIndex, AtHand, Newest, Fixture, Host

LEMMA TickKeeps ==
  ASSUME DisplayInv, Tick
  PROVE  DisplayInv'
  <1>0. playing' \in BOOLEAN
    <2> DEFINE x == index'
               n == Len(replay)
               p == playing'
    <2>1. p = (x < n)
      BY DEF Tick
    <2>2. x \in Int /\ n \in Int
      <3>1. index \in 1..n /\ n \in Nat
        BY DisplayAssumption DEF Tick, DisplayInv, DisplayTypeOK
      <3>2. x = index \/ x = index + 1
        BY DEF Tick
      <3> HIDE DEF x, n
      <3> QED BY <3>1, <3>2
    <2> HIDE DEF x, n, p
    <2>3. p \in BOOLEAN
      BY <2>1, <2>2
    <2> QED BY <2>3 DEF p
  <1>1. /\ replay # <<>> /\ replay \in Seq(Frame) /\ index \in 1..Len(replay)
        /\ UNCHANGED <<demo, newest_at, end, kept, latest, frozen, replay, routes, opened, fresh>>
    BY DisplayAssumption DEF Tick, DisplayInv, DisplayTypeOK
  <1>2. /\ index' \in DOMAIN replay' /\ displayed' \in Frame /\ cursor' \in -1..MaxSampled
        /\ ~displayed'.demo => displayed' = replay[index']
    <2>1. CASE index < Len(replay)
      <3> DEFINE j == index + 1
      <3>1. j \in DOMAIN replay
        BY <1>1, <2>1
      <3>2. index' = j /\ displayed' = replay[j] /\ cursor' = NoCursor
        BY <2>1 DEF Tick
      <3>3. NoCursor \in -1..MaxSampled
        BY DisplayAssumption DEF NoCursor
      <3> HIDE DEF j
      <3> QED BY <1>1, <3>1, <3>2, <3>3
    <2>2. CASE ~(index < Len(replay))
      <3>1. UNCHANGED <<index, displayed, cursor>>
        BY <2>2 DEF Tick
      <3> QED BY <1>1, <3>1 DEF DisplayInv, DisplayTypeOK, ReplayShowsIndex
    <2> QED BY <2>1, <2>2
  <1>3. DisplayTypeOK'
    BY <1>0, <1>1, <1>2 DEF DisplayInv, DisplayTypeOK
  <1>4. FreshInv'
    BY <1>1 DEF DisplayInv, FreshInv, Newest, Fixture, Host
  <1> QED BY <1>1, <1>2, <1>3, <1>4 DEF DisplayInv, RoutesInv, ReplayShowsIndex

\* Leaving a replay shows what a sample has left aside.
LEMMA LiveKeeps ==
  ASSUME DisplayInv, Live
  PROVE  DisplayInv'
  <1>1. /\ replay' = <<>> /\ frozen' = FALSE /\ cursor' = NoCursor
        /\ UNCHANGED <<demo, newest_at, end, kept, displayed, latest, index, playing, routes,
                       opened, fresh>>
    BY DEF Live
  <1>2. NoCursor \in -1..MaxSampled
    BY DisplayAssumption DEF NoCursor
  <1>3. DisplayTypeOK'
    BY <1>1, <1>2 DEF DisplayInv, DisplayTypeOK
  <1>4. FreshInv'
    <2>1. Newest' = Newest /\ AtHand' = AtHand
      BY <1>1 DEF Newest, Fixture, Host, AtHand
    <2>2. latest = Newest => AtHand = Newest
      BY NewestIsFrame DEF AtHand, DisplayInv
    <2> QED BY <1>1, <2>1, <2>2 DEF DisplayInv, FreshInv
  <1> QED BY <1>1, <1>3, <1>4 DEF DisplayInv, RoutesInv, ReplayShowsIndex

LEMMA TraceSyscallsKeeps ==
  ASSUME DisplayInv, TraceSyscalls
  PROVE  DisplayInv'
  <1>1. /\ frozen' = FALSE /\ cursor' = NoCursor
        /\ UNCHANGED <<demo, newest_at, end, kept, displayed, latest, replay, index, playing,
                       routes, opened, fresh>>
    BY DEF TraceSyscalls
  <1>2. NoCursor \in -1..MaxSampled
    BY DisplayAssumption DEF NoCursor
  <1>3. DisplayTypeOK'
    BY <1>1, <1>2 DEF DisplayInv, DisplayTypeOK
  <1> QED BY <1>1, <1>3
       DEF DisplayInv, RoutesInv, FreshInv, ReplayShowsIndex, AtHand, Newest, Fixture, Host

LEMMA ScenarioKeeps ==
  ASSUME DisplayInv, NEW t \in ScenarioEnds, Scenario(t)
  PROVE  DisplayInv'
  <1>1. Fixture(t) \in Frame /\ Fixture(t).demo
    <2>1. t \in 0..MaxSampled
      BY DisplayAssumption
    <2> QED BY <2>1 DEF Fixture, Frame
  <1>2. /\ end' = t /\ displayed' = Fixture(t) /\ latest' = Fixture(t) /\ cursor' = NoCursor
        /\ fresh' = demo
        /\ UNCHANGED <<demo, newest_at, kept, frozen, replay, index, playing, routes, opened>>
    BY DEF Scenario
  <1>3. NoCursor \in -1..MaxSampled
    BY DisplayAssumption DEF NoCursor
  <1>4. fresh' \in BOOLEAN
    BY <1>2 DEF DisplayInv, DisplayTypeOK
  <1>5. DisplayTypeOK'
    BY <1>1, <1>2, <1>3, <1>4 DEF DisplayInv, DisplayTypeOK
  <1>6. FreshInv'
    <2>1. CASE fresh'
      <3>1. Newest' = Fixture(t)
        BY <1>2, <2>1 DEF Newest, Fixture
      <3>2. Fixture(t) # NoFrame
        BY <1>1, NewestIsFrame DEF DisplayInv
      <3> QED BY <1>2, <3>1, <3>2 DEF FreshInv, AtHand
    <2> QED BY <2>1 DEF FreshInv
  <1> QED BY <1>1, <1>2, <1>5, <1>6 DEF DisplayInv, RoutesInv, ReplayShowsIndex

LEMMA DrillKeeps ==
  ASSUME DisplayInv, Drill
  PROVE  DisplayInv'
  <1>1. /\ Len(routes) < MaxRoutes
        /\ routes' = Append(routes, cursor) /\ opened' = Append(opened, FrozenFrame)
        /\ UNCHANGED <<demo, newest_at, end, kept, displayed, latest, cursor, frozen, replay,
                       index, playing, fresh>>
    BY DEF Drill, screen
  <1>2. /\ FrozenFrame \in Opening /\ cursor \in -1..MaxSampled /\ RoutesOf(routes, opened)
        /\ MaxRoutes \in Nat
    BY DisplayAssumption DEF DisplayInv, DisplayTypeOK, RoutesInv, RoutesOf, FrozenFrame, Opening
  <1>3. RoutesOf(routes', opened')
    BY <1>1, <1>2 DEF RoutesOf
  <1>4. DisplayTypeOK'
    BY <1>1, <1>3 DEF DisplayInv, DisplayTypeOK, RoutesOf
  <1> QED BY <1>1, <1>3, <1>4
       DEF DisplayInv, RoutesInv, RoutesOf, FreshInv, ReplayShowsIndex, AtHand, Newest, Fixture,
           Host

LEMMA DisplayStep ==
  ASSUME DisplayInv, [DisplayNext]_displayVars
  PROVE  DisplayInv'
  <1>1. CASE NewSample BY <1>1, NewSampleKeeps
  <1>2. CASE Tick BY <1>2, TickKeeps
  <1>3. CASE Keys
    <2>1. CASE \E at \in 0..displayed.at : OpenSubject(at)
      BY <2>1, OpenSubjectKeeps
    <2> QED BY <1>3, <2>1, KeyLeftKeeps, KeyRightKeeps, FreezeKeeps, TraceSyscallsKeeps, DrillKeeps,
               BackKeeps DEF Keys
  <1>4. CASE Commands
    <2>1. CASE \E r \in Recordings : Replay(r)
      BY <2>1, ReplayKeeps
    <2>2. CASE \E b \in BOOLEAN : Play(b)
      BY <2>2, PlayKeeps
    <2>3. CASE \E t \in ScenarioEnds : Scenario(t)
      BY <2>3, ScenarioKeeps
    <2> QED BY <1>4, <2>1, <2>2, <2>3, LiveKeeps DEF Commands
  <1>5. CASE UNCHANGED displayVars
    <2>1. DisplayTypeOK'
      BY <1>5 DEF displayVars, screen, DisplayInv, DisplayTypeOK
    <2> QED BY <1>5, <2>1
         DEF displayVars, screen, DisplayInv, RoutesInv, FreshInv, ReplayShowsIndex, AtHand, Newest,
             Fixture, Host
  <1> QED BY <1>1, <1>2, <1>3, <1>4, <1>5 DEF DisplayNext

\* Whatever is frozen, sought, replayed or drilled into: the newest sample is on
\* the display or kept aside, and a replay shows the frame at its position.
THEOREM DisplayCorrect == DisplaySpec => []ShownIsDue
  <1>1. DisplayInv => ShownIsDue
    BY DEF DisplayInv, ShownIsDue, LatestIsNewest, FreshInv, AtHand
  <1> QED BY <1>1, DisplayInitial, DisplayStep, PTL DEF DisplaySpec

\* Esc from evidence opened live shows the newest sample, however many drills,
\* freezes and seeks came between: no frame is later than where Back seeks
\* without a cursor to restore.
THEOREM EscCorrect == DisplaySpec => EscReturnsLive
  <1>1. DisplayInv /\ Back /\ replay = <<>> /\ fresh /\ ~frozen /\ Last(opened) = NoFrame
          /\ Last(routes) = NoCursor
        => displayed' = Newest
    BY BackShows DEF Show, DisplayInv, FreshInv
  <1> QED BY <1>1, DisplayInitial, DisplayStep, PTL DEF DisplaySpec, EscReturnsLive

-----------------------------------------------------------------------------
(* BPF programs.  What the worker keeps of an id is of the program it last   *)
(* saw there, read in its last collection, or it is not used again.          *)

OwnRow(r) ==
  /\ \A i \in DOMAIN r.since : r.since[i].of = r.of /\ r.since[i].round = r.round - 1
  /\ \A i \in DOMAIN r.helpers : r.helpers[i].of = r.of
Single(f) == \A id \in DOMAIN f : \E p : f[id].of = {p}
Measured(r) == {id \in DOMAIN r.rows : r.rows[id].since # Nobody}
OwnResult(r) ==
  /\ \A id \in DOMAIN r.rows : OwnRow(r.rows[id])
  /\ r.total => r.loaded = Measured(r)
  /\ Single(r.series)
  /\ r.at \in Int /\ r.read \in Int /\ r.at <= r.read

Keeps(c, f) ==
  /\ DOMAIN c.previous = DOMAIN c.identities /\ DOMAIN c.metadata \subseteq DOMAIN c.identities
  /\ \A id \in DOMAIN c.previous : c.previous[id].of = c.identities[id] /\ c.previous[id].round = c.round
  /\ \A id \in DOMAIN c.metadata : c.metadata[id].of = c.identities[id]
  /\ \A id \in DOMAIN f : id \in DOMAIN c.identities => f[id].of = {c.identities[id]}
  /\ c.round \in Nat /\ Single(f)

OwnSample(s) ==
  /\ \A id \in DOMAIN s.rows : OwnRow(s.rows[id])
  /\ s.total => s.result.total /\ s.rows = s.result.rows /\ s.at - s.result.at < StaleAfter
  /\ OwnResult(s.result) /\ s.at \in Int

BpfInv ==
  /\ bpf_now \in Nat /\ request \in Int /\ work \in Int /\ request <= bpf_now /\ work <= bpf_now
  /\ Keeps(collector, worker_series)
  /\ \A r \in results : OwnResult(r)
  /\ OwnResult(newest_result) /\ Single(series) /\ OwnSample(shown_programs)

LEMMA NobodyIsEmpty == DOMAIN Nobody = {}
  BY DEF Nobody

\* What a collection keeps, and what it sends.
LEMMA RatedIsOwn ==
  ASSUME Keeps(collector, worker_series), NEW listed, NEW enabled \in BOOLEAN
  PROVE  /\ DOMAIN RatedBy(listed, enabled) \subseteq listed
         /\ \A id \in DOMAIN RatedBy(listed, enabled) :
              /\ RatedBy(listed, enabled)[id].of = programs[id]
              /\ RatedBy(listed, enabled)[id].round = collector.round
  <1> DEFINE old == Known(collector.previous, listed)
  <1>1. /\ DOMAIN Only(old, listed) \subseteq listed
        /\ \A id \in DOMAIN Only(old, listed) :
             id \in DOMAIN collector.previous /\ Only(old, listed)[id] = collector.previous[id] /\ SameProgram(id)
    BY DEF Known, Only
  <1>2. \A id \in DOMAIN Only(old, listed) :
          /\ Only(old, listed)[id].of = programs[id]
          /\ Only(old, listed)[id].round = collector.round
    BY <1>1 DEF Keeps, SameProgram
  <1> QED BY <1>1, <1>2, NobodyIsEmpty DEF RatedBy, old

LEMMA HelpersAreOwn ==
  ASSUME Keeps(collector, worker_series), NEW listed
  PROVE  /\ DOMAIN HelpersOf(listed) \subseteq listed
         /\ \A id \in DOMAIN HelpersOf(listed) : HelpersOf(listed)[id].of = programs[id]
  <1> DEFINE old == Only(Known(collector.metadata, listed), listed)
             new == [id \in Inspected(listed) |-> [of |-> programs[id], at |-> bpf_now]]
  <1>1. DOMAIN old \subseteq listed /\ \A id \in DOMAIN old : old[id].of = programs[id]
    <2>1. \A id \in DOMAIN old :
             id \in DOMAIN collector.metadata /\ old[id] = collector.metadata[id] /\ SameProgram(id)
      BY DEF Known, Only
    <2>2. DOMAIN old \subseteq listed
      BY DEF Known, Only
    <2> QED BY <2>1, <2>2 DEF Keeps, SameProgram
  <1>2. DOMAIN new \subseteq listed /\ \A id \in DOMAIN new : new[id].of = programs[id]
    BY DEF Inspected
  <1>3. HelpersOf(listed) = Over(new, old)
    BY DEF HelpersOf
  <1> HIDE DEF old, new
  <1> QED BY <1>1, <1>2, <1>3 DEF Over

LEMMA ExtendedIsOwn ==
  ASSUME Keeps(collector, worker_series), NEW listed
  PROVE  /\ \A id \in listed : id \in DOMAIN Extended(listed) /\ Extended(listed)[id].of = {programs[id]}
         /\ Single(Extended(listed))
  <1> DEFINE old == Known(worker_series, listed)
             new == [id \in listed |-> [at |-> work,
                      of |-> {programs[id]} \cup IF id \in DOMAIN old THEN old[id].of ELSE {}]]
  <1>1. \A id \in DOMAIN old : \E p : old[id].of = {p}
    BY DEF Known, Only, Keeps, Single
  <1>2. \A id \in listed : id \in DOMAIN old => old[id].of = {programs[id]}
    BY DEF Known, Only, Keeps, SameProgram
  <1>3. DOMAIN new = listed /\ \A id \in listed : new[id].of = {programs[id]}
    BY <1>2
  <1>4. Extended(listed) = Over(new, old)
    BY DEF Extended
  <1> HIDE DEF old, new
  <1>5. \A id \in listed : id \in DOMAIN Extended(listed) /\ Extended(listed)[id].of = {programs[id]}
    BY <1>3, <1>4 DEF Over
  <1>6. ASSUME NEW id \in DOMAIN Over(new, old)
        PROVE  \E p : Over(new, old)[id].of = {p}
    <2>1. CASE id \in DOMAIN new
      <3>1. Over(new, old)[id] = new[id]
        BY <2>1 DEF Over
      <3> QED BY <1>3, <2>1, <3>1
    <2>2. CASE id \notin DOMAIN new
      <3>1. id \in DOMAIN old /\ Over(new, old)[id] = old[id]
        BY <2>2 DEF Over
      <3> QED BY <1>1, <3>1
    <2> QED BY <2>1, <2>2
  <1> QED BY <1>4, <1>5, <1>6 DEF Single

LEMMA KeptIsOwn ==
  ASSUME Keeps(collector, worker_series), NEW listed, listed \subseteq DOMAIN programs
  PROVE  Keeps(Kept(listed), Extended(listed))
  <1> DEFINE c == Kept(listed)
  <1>1. /\ c.previous = [id \in listed |-> [of |-> programs[id], round |-> collector.round + 1]]
        /\ c.identities = Only(programs, listed)
        /\ c.metadata = HelpersOf(listed) /\ c.round = collector.round + 1
    BY DEF Kept
  <1> HIDE DEF c
  <1>2. DOMAIN c.identities = listed /\ \A id \in listed : c.identities[id] = programs[id]
    BY <1>1 DEF Only
  <1>3. DOMAIN c.previous = listed
        /\ \A id \in listed : c.previous[id].of = programs[id] /\ c.previous[id].round = c.round
    BY <1>1
  <1>4. c.round \in Nat
    BY <1>1 DEF Keeps
  <1>5. Keeps(c, Extended(listed))
    BY <1>1, <1>2, <1>3, <1>4, HelpersAreOwn, ExtendedIsOwn DEF Keeps
  <1> QED BY <1>5 DEF c

LEMMA CollectStep ==
  ASSUME BpfInv, Collect
  PROVE  BpfInv'
  <1>1. PICK last \in 0..MaxId, enabled \in BOOLEAN, failed \in BOOLEAN :
       LET listed == {id \in DOMAIN programs : failed => id <= last}
           rated == RatedBy(listed, enabled)
           extended == Extended(listed)
           saved == Kept(listed)
       IN  /\ failed \/ last = MaxId
           /\ collector' = saved
           /\ worker_series' = extended
           /\ results' = IF results # {} THEN results
                ELSE {[at |-> work, read |-> bpf_now, series |-> extended, loaded |-> DOMAIN programs,
                       total |-> enabled /\ Totalled(listed, rated, failed),
                       rows |-> [id \in listed |->
                         [of |-> programs[id], round |-> saved.round,
                          since |-> Only(rated, {id}),
                          helpers |-> Only(saved.metadata, {id})]]]}
    BY DEF Collect
  <1>2. /\ UNCHANGED <<bpf_now, request, newest_result, series, shown_programs>> /\ work' = Never
    BY DEF Collect
  <1> DEFINE listed == {id \in DOMAIN programs : failed => id <= last}
             rated == RatedBy(listed, enabled)
             saved == Kept(listed)
             rows == [id \in listed |->
                         [of |-> programs[id], round |-> saved.round,
                          since |-> Only(rated, {id}),
                          helpers |-> Only(saved.metadata, {id})]]
             sent == [at |-> work, read |-> bpf_now, series |-> Extended(listed), loaded |-> DOMAIN programs,
                       total |-> enabled /\ Totalled(listed, rated, failed), rows |-> rows]
  <1>3. listed \subseteq DOMAIN programs /\ (~failed => listed = DOMAIN programs)
    OBVIOUS
  <1>4. /\ collector' = saved /\ worker_series' = Extended(listed)
        /\ \A r \in results' : r \in results \/ r = sent
    BY <1>1
  <1>5. Keeps(collector, worker_series)
    BY DEF BpfInv
  <1>6. /\ DOMAIN rated \subseteq listed
        /\ \A id \in DOMAIN rated : rated[id].of = programs[id] /\ rated[id].round = collector.round
    BY <1>5, RatedIsOwn
  <1>7. saved.metadata = HelpersOf(listed) /\ saved.round = collector.round + 1 /\ collector.round \in Nat
    BY <1>5 DEF Kept, Keeps
  <1>8. Single(Extended(listed)) /\ Keeps(saved, Extended(listed))
    BY <1>3, <1>5, ExtendedIsOwn, KeptIsOwn
  <1>9. \A id \in DOMAIN HelpersOf(listed) : HelpersOf(listed)[id].of = programs[id]
    BY <1>5, HelpersAreOwn
  <1> HIDE DEF listed, rated, saved
  <1>10. DOMAIN rows = listed /\ \A id \in listed :
           /\ rows[id].of = programs[id] /\ rows[id].round = saved.round
           /\ rows[id].since = Only(rated, {id}) /\ rows[id].helpers = Only(saved.metadata, {id})
    OBVIOUS
  <1>11. /\ sent.at = work /\ sent.read = bpf_now /\ sent.series = Extended(listed)
         /\ sent.loaded = DOMAIN programs /\ sent.total = (enabled /\ Totalled(listed, rated, failed))
         /\ sent.rows = rows
    OBVIOUS
  <1> HIDE DEF rows, sent
  <1>12. ASSUME NEW id \in listed
         PROVE  OwnRow(rows[id])
    <2>1. \A i \in DOMAIN Only(rated, {id}) : i = id /\ i \in DOMAIN rated /\ Only(rated, {id})[i] = rated[i]
      BY DEF Only
    <2>2. \A i \in DOMAIN Only(saved.metadata, {id}) :
             i = id /\ i \in DOMAIN saved.metadata /\ Only(saved.metadata, {id})[i] = saved.metadata[i]
      BY DEF Only
    <2>3. saved.round - 1 = collector.round
      BY <1>7
    <2> DEFINE x == rows[id]
    <2>4. /\ x.of = programs[id] /\ x.round - 1 = collector.round
          /\ x.since = Only(rated, {id}) /\ x.helpers = Only(saved.metadata, {id})
      BY <1>10, <2>3
    <2> HIDE DEF x
    <2>5. \A i \in DOMAIN x.since : x.since[i].of = x.of /\ x.since[i].round = x.round - 1
      BY <1>6, <2>1, <2>4
    <2>6. \A i \in DOMAIN x.helpers : x.helpers[i].of = x.of
      BY <1>7, <1>9, <2>2, <2>4
    <2> QED BY <2>5, <2>6 DEF OwnRow, x
  <1>13. sent.total => sent.loaded = Measured(sent)
    <2> SUFFICES ASSUME Totalled(listed, rated, failed) PROVE DOMAIN programs = Measured(sent)
      BY <1>11
    <2>1. DOMAIN rated = listed /\ listed = DOMAIN programs
      BY <1>3 DEF Totalled
    <2>2. ASSUME NEW id \in listed PROVE rows[id].since # Nobody
      <3>1. id \in DOMAIN Only(rated, {id})
        BY <2>1 DEF Only
      <3> QED BY <1>10, <3>1, NobodyIsEmpty
    <2> QED BY <1>10, <1>11, <2>1, <2>2 DEF Measured
  <1>14. OwnResult(sent)
    BY <1>8, <1>10, <1>11, <1>12, <1>13 DEF OwnResult, BpfInv
  <1>15. work' \in Int /\ work' <= bpf_now
    BY <1>2 DEF BpfInv, Never
  <1> QED BY <1>2, <1>4, <1>8, <1>14, <1>15 DEF BpfInv, OwnSample, Single

LEMMA SampleStep ==
  ASSUME BpfInv, SamplePrograms
  PROVE  BpfInv'
  <1> DEFINE new == newest_result'
  <1>1. OwnResult(new)
    <2>1. CASE results = {}
      BY <2>1 DEF SamplePrograms, BpfInv
    <2>2. CASE results # {}
      <3>1. (CHOOSE r \in results : TRUE) \in results
        BY <2>2
      <3>2. new = CHOOSE r \in results : TRUE
        BY <2>2 DEF SamplePrograms
      <3> QED BY <3>1, <3>2 DEF BpfInv
    <2> QED BY <2>1, <2>2
  <1>2. /\ UNCHANGED <<bpf_now, work, collector, worker_series>> /\ results' = {}
        /\ request' \in {bpf_now, request}
        /\ series' = Over(new.series, StillSampled) /\ shown_programs' = Shown(new)
    BY DEF SamplePrograms
  <1> HIDE DEF new
  <1>3. Single(series')
    <2>1. \A id \in DOMAIN StillSampled : id \in DOMAIN series /\ StillSampled[id] = series[id]
      BY DEF StillSampled
    <2>2. Single(series)
      BY DEF BpfInv
    <2> DEFINE old == StillSampled
               f == new.series
    <2>3. \A id \in DOMAIN old : \E p : old[id].of = {p}
      BY <2>1, <2>2 DEF Single
    <2>4. \A id \in DOMAIN f : \E p : f[id].of = {p}
      BY <1>1 DEF OwnResult, Single
    <2> HIDE DEF old, f
    <2>5. \A id \in DOMAIN Over(f, old) : \E p : Over(f, old)[id].of = {p}
      BY <2>3, <2>4 DEF Over
    <2> QED BY <1>2, <2>5 DEF Single, old, f
  <1> DEFINE s == Shown(new)
  <1>4. /\ s.at = bpf_now /\ s.result = new /\ s.total = (new.total /\ Current(new))
        /\ s.rows = IF Current(new) THEN new.rows
                    ELSE [id \in DOMAIN new.rows |-> [new.rows[id] EXCEPT !.since = Nobody]]
    BY DEF Shown
  <1> HIDE DEF s
  <1>5. ASSUME NEW id \in DOMAIN s.rows
        PROVE  OwnRow(s.rows[id])
    <2>1. CASE Current(new)
      BY <1>1, <1>4, <2>1 DEF OwnResult
    <2>2. CASE ~Current(new)
      <3> DEFINE r == new.rows[id]
                 x == [r EXCEPT !.since = Nobody]
      <3>1. id \in DOMAIN new.rows /\ s.rows[id] = x
        BY <1>4, <2>2
      <3>2. OwnRow(r)
        BY <1>1, <3>1 DEF OwnResult
      <3> HIDE DEF r
      <3>3. OwnRow(x)
        BY <3>2, NobodyIsEmpty DEF OwnRow
      <3> HIDE DEF x
      <3> QED BY <3>1, <3>3
    <2> QED BY <2>1, <2>2
  <1>6. OwnSample(s)
    <2>1. bpf_now \in Int
      BY DEF BpfInv
    <2>2. s.total => new.total /\ s.rows = new.rows /\ s.at - new.at < StaleAfter
      BY <1>4 DEF Current
    <2> QED BY <1>1, <1>4, <1>5, <2>1, <2>2 DEF OwnSample
  <1>7. request' \in Int /\ request' <= bpf_now
    BY <1>2 DEF BpfInv
  <1> QED BY <1>1, <1>2, <1>3, <1>6, <1>7 DEF BpfInv, s, new

LEMMA BpfInvStays ==
  ASSUME BpfInv, [BpfNext]_bpfVars
  PROVE  BpfInv'
  <1>1. CASE PassTime
    <2> DEFINE n == bpf_now
               m == bpf_now'
               r == request
               w == work
    <2>1. /\ UNCHANGED <<request, work, collector, worker_series, results, newest_result, series, shown_programs>>
          /\ m = n + 1
      BY <1>1 DEF PassTime
    <2>2. n \in Nat /\ r \in Int /\ w \in Int /\ r <= n /\ w <= n
      BY DEF BpfInv
    <2> HIDE DEF n, m, r, w
    <2>3. m \in Nat /\ r <= m /\ w <= m
      BY <2>1, <2>2
    <2>4. bpf_now' \in Nat /\ request' <= bpf_now' /\ work' <= bpf_now'
      BY <2>1, <2>3 DEF m, r, w
    <2> QED BY <2>1, <2>4 DEF BpfInv
  <1>2. CASE TakeRequest
    <2>1. /\ UNCHANGED <<bpf_now, collector, worker_series, results, newest_result, series, shown_programs>>
          /\ work' = request /\ request' = Never
      BY <1>2 DEF TakeRequest
    <2>2. request' \in Int /\ request' <= bpf_now' /\ work' \in Int /\ work' <= bpf_now'
      BY <2>1 DEF BpfInv, Never
    <2> QED BY <2>1, <2>2 DEF BpfInv
  <1>3. CASE \E id \in Ids : LoadProgram(id) \/ UnloadProgram(id)
    BY <1>3 DEF LoadProgram, UnloadProgram, BpfInv
  <1>4. CASE UNCHANGED bpfVars
    BY <1>4 DEF bpfVars, BpfInv
  <1> QED BY <1>1, <1>2, <1>3, <1>4, CollectStep, SampleStep DEF BpfNext

LEMMA BpfInvStarts ==
  ASSUME BpfInit
  PROVE  BpfInv
  <1>1. OwnResult(NoResult)
    BY NobodyIsEmpty DEF NoResult, OwnResult, Single, Never
  <1>2. Keeps(collector, worker_series)
    BY NobodyIsEmpty DEF BpfInit, Keeps, Single
  <1>3. OwnSample(shown_programs)
    BY <1>1, NobodyIsEmpty DEF BpfInit, OwnSample, Never
  <1> QED BY <1>1, <1>2, <1>3, NobodyIsEmpty DEF BpfInit, BpfInv, Single, Never

LEMMA BpfInvTells ==
  ASSUME BpfInv
  PROVE  BpfFiguresAreOwn
  <1> DEFINE s == shown_programs
  <1>1. OwnSample(s)
    BY DEF BpfInv
  <1> HIDE DEF s
  <1>2. s.total => /\ s.at - s.result.read < StaleAfter
                   /\ s.result.loaded = {id \in DOMAIN s.rows : s.rows[id].since # Nobody}
    BY <1>1, BpfAssumption DEF OwnSample, OwnResult, Measured
  <1>3. \A id \in DOMAIN series : Cardinality(series[id].of) = 1
    BY FS_Singleton DEF BpfInv, Single
  <1>4. \A id \in DOMAIN s.rows : OwnRow(s.rows[id])
    BY <1>1 DEF OwnSample
  <1>5. BpfRowsAreOwn /\ BpfRateSpansRound
    BY <1>4 DEF BpfRowsAreOwn, BpfRateSpansRound, OwnRow, s
  <1> QED BY <1>2, <1>3, <1>5 DEF BpfFiguresAreOwn, BpfTotalIsComplete, BpfSeriesAreOwn, s

\* The figures shown of a BPF program are its own, and a total is of all of them.
THEOREM BpfCorrect == BpfSpec => []BpfFiguresAreOwn
  <1>1. BpfInit => BpfInv
    BY BpfInvStarts
  <1>2. BpfInv /\ [BpfNext]_bpfVars => BpfInv'
    BY BpfInvStays
  <1>3. BpfInv => BpfFiguresAreOwn
    BY BpfInvTells
  <1> QED BY <1>1, <1>2, <1>3, PTL DEF BpfSpec

-----------------------------------------------------------------------------
(* Symbols.  A table and a segment, for any version, start and address.      *)

LEMMA TableIs ==
  ASSUME NEW v \in Nat
  PROVE  /\ DOMAIN Table(v) = {1, 2} /\ Len(Table(v)) = 2
         /\ Table(v)[1].value = 101 /\ Table(v)[1].size \in {0, 1}
         /\ Table(v)[2].value = 103 /\ Table(v)[2].size \in {0, 1}
         /\ ToSet(Table(v)) = {Table(v)[1], Table(v)[2]}
  <1>1. CASE v % 2 = 1
    <2>1. Table(v) = <<[value |-> 101, size |-> 0], [value |-> 103, size |-> 1]>>
      BY <1>1 DEF Table
    <2> QED BY <2>1 DEF ToSet
  <1>2. CASE v % 2 # 1
    <2>1. Table(v) = <<[value |-> 101, size |-> 1], [value |-> 103, size |-> 0]>>
      BY <1>2 DEF Table
    <2> QED BY <2>1 DEF ToSet
  <1> QED BY <1>1, <1>2

LEMMA LookupIs ==
  ASSUME NEW v \in Nat, NEW x \in {0, 101, 102, 103}
  PROVE  Lookup(Table(v), x) = IF x = 101 THEN {1} ELSE IF x = 103 THEN {2} ELSE {}
  <1> DEFINE t == Table(v)
             before == {i \in DOMAIN t : t[i].value <= x}
             nearest == {i \in before : \A j \in before : j <= i}
  <1>1. /\ DOMAIN t = {1, 2} /\ Len(t) = 2 /\ t[1].value = 101 /\ t[2].value = 103
        /\ t[1].size \in {0, 1} /\ t[2].size \in {0, 1}
    BY TableIs
  <1> HIDE DEF t
  <1>2. before = IF x = 0 THEN {} ELSE IF x = 103 THEN {1, 2} ELSE {1}
    BY <1>1
  <1>3. nearest = IF x = 0 THEN {} ELSE IF x = 103 THEN {2} ELSE {1}
    BY <1>2
  <1>4. \A i : i \in Lookup(t, x) <=> /\ i \in nearest /\ x < t[i].value + Span(t, i)
                                      /\ t[i].size > 0 \/ t[i].value = x
    BY DEF Lookup
  <1> HIDE DEF before, nearest
  <1>5. Span(t, 1) \in Nat \ {0} /\ (t[1].size = 1 => Span(t, 1) = 1)
    BY <1>1, SymbolsAssumption DEF Span
  <1>6. Span(t, 2) \in Nat \ {0}
    BY <1>1, SymbolsAssumption DEF Span
  <1>7. CASE x = 0
    <2>1. nearest = {}
      BY <1>3, <1>7
    <2>2. \A i : i \notin Lookup(t, x)
      BY <1>4, <2>1
    <2> QED BY <1>7, <2>2 DEF t
  <1>8. CASE x = 101
    <2>1. nearest = {1}
      BY <1>3, <1>8
    <2>2. x < t[1].value + Span(t, 1)
      BY <1>1, <1>5, <1>8
    <2>3. \A i : i \in Lookup(t, x) <=> i = 1
      BY <1>1, <1>4, <1>8, <2>1, <2>2
    <2> QED BY <1>8, <2>3 DEF t
  <1>9. CASE x = 102
    <2>1. nearest = {1}
      BY <1>3, <1>9
    <2>2. ~(x < t[1].value + Span(t, 1) /\ (t[1].size > 0 \/ t[1].value = x))
      BY <1>1, <1>5, <1>9
    <2>3. \A i : i \notin Lookup(t, x)
      BY <1>4, <2>1, <2>2
    <2> QED BY <1>9, <2>3 DEF t
  <1>10. CASE x = 103
    <2>1. nearest = {2}
      BY <1>3, <1>10
    <2>2. x < t[2].value + Span(t, 2)
      BY <1>1, <1>6, <1>10
    <2>3. \A i : i \in Lookup(t, x) <=> i = 2
      BY <1>1, <1>4, <1>10, <2>1, <2>2
    <2> QED BY <1>10, <2>3 DEF t
  <1> QED BY <1>7, <1>8, <1>9, <1>10

\* The functions of a process at the address its image is looked up at.
LEMMA FunctionsAre ==
  ASSUME NEW p, p.version \in Nat, p.start \in Int, NEW a \in Addresses(p)
  PROVE  Functions(p, a) = IF a = p.start THEN {Table(p.version)[1]}
                           ELSE IF a = p.start + 2 THEN {Table(p.version)[2]} ELSE {}
  <1> DEFINE s == p.start
             t == Table(p.version)
             at == a - s + 101
  <1>1. a \in s .. (s + 4) /\ s \in Int
    BY DEF Addresses, Mapped
  <1>2. /\ ToSet(t) = {t[1], t[2]} /\ t[1].value = 101 /\ t[2].value = 103
        /\ t[1].size \in {0, 1} /\ t[2].size \in {0, 1}
    BY TableIs
  <1>3. Functions(p, a) = {f \in ToSet(t) : /\ a < s + 3
                              /\ IF f.size = 0 THEN at = f.value ELSE at \in f.value .. (f.value + f.size - 1)}
    <2>1. a - s + 1 - 1 + 101 = at
      BY <1>1
    <2> QED BY <2>1 DEF Functions, Offset, Segment
  <1> HIDE DEF t, s
  <1>4. \A f \in {t[1], t[2]} : (IF f.size = 0 THEN at = f.value ELSE at \in f.value .. (f.value + f.size - 1))
                                 <=> at = f.value
    BY <1>1, <1>2
  <1>5. Functions(p, a) = {f \in {t[1], t[2]} : a < s + 3 /\ at = f.value}
    BY <1>2, <1>3, <1>4
  <1>6. /\ a = s <=> at = 101
        /\ a = s + 2 <=> (at = 103 /\ a < s + 3)
        /\ at = 101 => a < s + 3
    BY <1>1
  <1> HIDE DEF at
  <1> QED BY <1>2, <1>5, <1>6 DEF t, s

LEMMA VaddrIs ==
  ASSUME NEW s \in Int, NEW a \in s .. (s + 3)
  PROVE  Vaddr(a - s + Offset) = IF a = s + 3 THEN 0 ELSE a - s + 101
  BY DEF Vaddr, Segment, Offset

\* The name that is found, and the name there is.
Looked(v, found) ==
  IF found = {} THEN NoName ELSE <<v, Table(v)[CHOOSE i \in found : TRUE].value>>
Exact(p, a, deleted) ==
  LET functions == IF deleted THEN {} ELSE Functions(p, a)
  IN  IF functions = {} THEN NoName ELSE <<p.version, (CHOOSE s \in functions : TRUE).value>>

LEMMA NameFound ==
  ASSUME NEW p, p.version \in Nat, p.start \in Int, NEW a \in p.start .. (p.start + 3)
  PROVE  Looked(p.version, Lookup(Table(p.version), Vaddr(a - p.start + Offset))) = Exact(p, a, FALSE)
  <1> DEFINE s == p.start
             v == p.version
             x == Vaddr(a - s + Offset)
             found == Lookup(Table(v), x)
             functions == Functions(p, a)
  <1>1. x = (IF a = s + 3 THEN 0 ELSE a - s + 101) /\ x \in {0, 101, 102, 103}
    BY VaddrIs
  <1>2. found = IF x = 101 THEN {1} ELSE IF x = 103 THEN {2} ELSE {}
    <2>1. v \in Nat
      OBVIOUS
    <2>2. \A y \in {0, 101, 102, 103} :
            Lookup(Table(v), y) = IF y = 101 THEN {1} ELSE IF y = 103 THEN {2} ELSE {}
      BY <2>1, LookupIs
    <2> HIDE DEF x, v
    <2> QED BY <1>1, <2>2
  <1>3. a \in Addresses(p)
    BY DEF Addresses, Mapped
  <1>4. functions = IF a = s THEN {Table(v)[1]} ELSE IF a = s + 2 THEN {Table(v)[2]} ELSE {}
    BY <1>3, FunctionsAre
  <1>5. (x = 101 <=> a = s) /\ (x = 103 <=> a = s + 2) /\ ~(a = s /\ a = s + 2)
    BY <1>1
  <1>6. Exact(p, a, FALSE) = IF functions = {} THEN NoName ELSE <<v, (CHOOSE f \in functions : TRUE).value>>
    BY DEF Exact
  <1>7. Looked(v, found) = IF found = {} THEN NoName ELSE <<v, Table(v)[CHOOSE i \in found : TRUE].value>>
    BY DEF Looked
  <1> HIDE DEF found, functions, x
  <1>8. Looked(v, found) = Exact(p, a, FALSE)
    <2>1. CASE a = s
      <3>1. found = {1} /\ functions = {Table(v)[1]}
        BY <1>2, <1>4, <1>5, <2>1
      <3> QED BY <1>6, <1>7, <3>1
    <2>2. CASE a = s + 2
      <3>1. found = {2} /\ functions = {Table(v)[2]}
        BY <1>2, <1>4, <1>5, <2>2
      <3> QED BY <1>6, <1>7, <3>1
    <2>3. CASE a # s /\ a # s + 2
      <3>1. found = {} /\ functions = {}
        BY <1>2, <1>4, <1>5, <2>3
      <3> QED BY <1>6, <1>7, <3>1
    <2> QED BY <2>1, <2>2, <2>3
  <1> QED BY <1>8 DEF found, x

-----------------------------------------------------------------------------
(* The resolver.  While nothing of its process changes, what was read for a  *)
(* stack is of the process; an image that stays is of the version it is kept *)
(* for, or of one that no root will have again.                              *)

Versions == 1..versions
Processes == {Gone} \cup [root : Roots, version : Versions, start : Starts]
Stacks == [pid : ProfiledPids \cup {0}, address : Int, changed : BOOLEAN, root : Roots \cup {"none"}]
Past(v) == \A r \in Roots : file[r] # v

SymbolTypes ==
  /\ versions \in Nat /\ file \in [Roots -> 0..versions]
  /\ \A r, s \in Roots : file[r] = file[s] /\ file[r] # 0 => r = s
  /\ processes \in [ProfiledPids -> Processes]
  /\ DOMAIN maps = ProfiledPids
  /\ image \in Unread..versions /\ image_version \in 0..versions
  /\ crossed \in BOOLEAN /\ checked \in BOOLEAN
  /\ step \in {"idle", "maps", "mapped", "image", "done"}
  /\ stack \in Stacks /\ (step # "idle" => stack.pid \in ProfiledPids)

\* The image.
ImageKept ==
  image > 0 /\ ~crossed => image = image_version \/ (image_version # 0 /\ Past(image_version))
ImageDue ==
  checked /\ image = Unread =>
    /\ step = "image" /\ stack.root \in Roots /\ image_version # 0
    /\ image_version = file[stack.root] \/ Past(image_version)

\* The stack.
OfProcess(p) ==
  /\ p # Gone /\ stack.address \in Addresses(p)
  /\ step # "maps" => maps[stack.pid] = MappingsOf(p)
  /\ step = "image" => ~Deleted(p) /\ stack.address \in p.start .. (p.start + 3)
  /\ checked /\ ~Deleted(p) => image # NotAvailable /\ image_version = p.version
StackInv ==
  /\ step = "image" => checked
  /\ step = "maps" => ~checked
  /\ step # "idle" /\ ~stack.changed => OfProcess(processes[stack.pid])

SymbolsInv == SymbolTypes /\ ImageKept /\ ImageDue /\ StackInv /\ NamesAreExact

LEMMA ProcessIs ==
  ASSUME SymbolTypes, NEW pid \in ProfiledPids, processes[pid] # Gone
  PROVE  /\ processes[pid].root \in Roots /\ processes[pid].version \in Versions
         /\ processes[pid].start \in Starts /\ processes[pid].start \in Int
         /\ file[processes[pid].root] \in 0..versions
         /\ FileOf(pid) = file[processes[pid].root]
  BY SymbolsAssumption DEF SymbolTypes, Processes, FileOf

-----------------------------------------------------------------------------

\* A step of the host changes nothing of a stack that it does not mark.
HostKeeps ==
  /\ UNCHANGED <<maps, image, image_version, crossed, checked, step, resolved>>
  /\ versions' = versions + 1
  /\ \A r \in Roots : file'[r] = file[r] \/ file'[r] \in {0, versions + 1}
  /\ \E b \in BOOLEAN : stack' = [stack EXCEPT !.changed = b] /\ (~b => ~stack.changed)
  /\ step # "idle" /\ ~stack'.changed =>
       LET p == processes[stack.pid] IN
         /\ processes'[stack.pid] = p
         /\ p # Gone => file'[p.root] = file[p.root]
  /\ \A r, s \in Roots : file'[r] = file'[s] /\ file'[r] # 0 => r = s
  /\ processes' \in [ProfiledPids -> Processes']
  /\ file' \in [Roots -> 0..versions']

LEMMA TouchIs ==
  ASSUME stack \in Stacks, NEW b \in BOOLEAN, Touch(b)
  PROVE  \E c \in BOOLEAN : stack' = [stack EXCEPT !.changed = c] /\ (~c => ~stack.changed /\ ~b)
  <1> DEFINE c == stack.changed \/ b
  <1>1. stack' = [stack EXCEPT !.changed = c]
    BY DEF Touch
  <1>2. c \in BOOLEAN /\ (~c => ~stack.changed /\ ~b)
    OBVIOUS
  <1> HIDE DEF c
  <1> QED BY <1>1, <1>2

LEMMA ProcessesGrow ==
  ASSUME versions \in Nat, versions' = versions + 1
  PROVE  /\ Processes \subseteq Processes' /\ \A v \in 0..versions : v \in 0..versions'
         /\ versions' \in Nat
  <1> DEFINE n == versions
             m == versions'
  <1>1. n \in Nat /\ m = n + 1
    OBVIOUS
  <1> HIDE DEF n, m
  <1>2. 1..n \subseteq 1..m /\ 0..n \subseteq 0..m /\ m \in Nat
    BY <1>1
  <1>3. Versions \subseteq Versions' /\ 0..versions \subseteq 0..versions' /\ versions' \in Nat
    BY <1>2 DEF n, m, Versions
  <1> QED BY <1>3 DEF Processes

LEMMA ReplaceKeeps ==
  ASSUME SymbolTypes, NEW r \in Roots, NEW v \in {0, versions + 1}, ReplaceFile(r, v)
  PROVE  HostKeeps
  <1>1. /\ file' = [file EXCEPT ![r] = v] /\ UNCHANGED processes /\ versions' = versions + 1
        /\ UNCHANGED <<maps, image, image_version, crossed, checked, step, resolved>>
    BY DEF ReplaceFile, HostStep, symbolCaches
  <1> DEFINE b == step # "idle" /\ processes[stack.pid].root = r
  <1>2. Touch(b)
    BY DEF ReplaceFile
  <1> HIDE DEF b
  <1>3. b \in BOOLEAN /\ stack \in Stacks /\ versions \in Nat /\ file \in [Roots -> 0..versions]
    BY DEF b, SymbolTypes
  <1>4. PICK c \in BOOLEAN : stack' = [stack EXCEPT !.changed = c] /\ (~c => ~stack.changed /\ ~b)
    BY <1>2, <1>3, TouchIs
  <1>5. stack'.changed = c
    BY <1>3, <1>4 DEF Stacks
  <1>6. /\ file'[r] = v /\ \A s \in Roots : s # r => file'[s] = file[s]
        /\ \A s \in Roots : file'[s] = file[s] \/ file'[s] \in {0, versions + 1}
    BY <1>1, <1>3
  <1>7. \A s \in Roots : file[s] # versions + 1
    <2> DEFINE n == versions
    <2>1. n \in Nat /\ \A s \in Roots : file[s] \in 0..n
      BY <1>3
    <2> HIDE DEF n
    <2>2. \A x \in 0..n : x # n + 1
      BY <2>1
    <2> QED BY <2>1, <2>2 DEF n
  <1>8. \A s, t \in Roots : file'[s] = file'[t] /\ file'[s] # 0 => s = t
    BY <1>6, <1>7 DEF SymbolTypes
  <1>9. processes' \in [ProfiledPids -> Processes']
    BY <1>1, <1>3, ProcessesGrow DEF SymbolTypes
  <1>10. file' \in [Roots -> 0..versions']
    <2>1. 0..versions \subseteq 0..versions' /\ v \in 0..versions'
      BY <1>1, <1>3
    <2> QED BY <1>1, <1>3, <2>1
  <1>11. step # "idle" /\ ~stack'.changed =>
           LET p == processes[stack.pid] IN
             /\ processes'[stack.pid] = p
             /\ p # Gone => file'[p.root] = file[p.root]
    <2> SUFFICES ASSUME step # "idle", ~stack'.changed, processes[stack.pid] # Gone
                 PROVE  file'[processes[stack.pid].root] = file[processes[stack.pid].root]
      BY <1>1
    <2>1. processes[stack.pid].root # r
      BY <1>4, <1>5 DEF b
    <2>2. processes[stack.pid].root \in Roots
      BY ProcessIs DEF SymbolTypes
    <2> QED BY <1>6, <2>1, <2>2
  <1> QED BY <1>1, <1>4, <1>6, <1>8, <1>9, <1>10, <1>11 DEF HostKeeps

\* The process of a PID becomes another, or goes.
LEMMA ProcessKeeps ==
  ASSUME SymbolTypes, NEW pid \in ProfiledPids, NEW q \in Processes,
         processes' = [processes EXCEPT ![pid] = q], Touch(IsOfStack(pid)), UNCHANGED file, HostStep
  PROVE  HostKeeps
  <1>1. /\ versions' = versions + 1
        /\ UNCHANGED <<maps, image, image_version, crossed, checked, step, resolved>>
    BY DEF HostStep, symbolCaches
  <1> DEFINE b == IsOfStack(pid)
  <1>2. b \in BOOLEAN /\ stack \in Stacks /\ versions \in Nat /\ file \in [Roots -> 0..versions]
    BY DEF IsOfStack, SymbolTypes
  <1> HIDE DEF b
  <1>3. PICK c \in BOOLEAN : stack' = [stack EXCEPT !.changed = c] /\ (~c => ~stack.changed /\ ~b)
    BY <1>2, TouchIs DEF b
  <1>4. stack'.changed = c
    BY <1>2, <1>3 DEF Stacks
  <1>5. processes' \in [ProfiledPids -> Processes']
    BY <1>1, <1>2, ProcessesGrow DEF SymbolTypes
  <1>6. file' \in [Roots -> 0..versions']
    <2>1. 0..versions \subseteq 0..versions'
      BY <1>1, <1>2
    <2> QED BY <1>2, <2>1
  <1>7. step # "idle" /\ ~stack'.changed => processes'[stack.pid] = processes[stack.pid]
    <2> SUFFICES ASSUME step # "idle", ~stack'.changed
                 PROVE  processes'[stack.pid] = processes[stack.pid]
      OBVIOUS
    <2>1. stack.pid # pid /\ stack.pid \in ProfiledPids
      BY <1>3, <1>4 DEF b, IsOfStack, SymbolTypes
    <2> QED BY <2>1 DEF SymbolTypes
  <1> QED BY <1>1, <1>3, <1>5, <1>6, <1>7 DEF HostKeeps, SymbolTypes

LEMMA HostMovesKeep ==
  ASSUME SymbolTypes, HostMoves
  PROVE  HostKeeps
  <1>1. ASSUME NEW r \in Roots, ReplaceFile(r, versions + 1) \/ ReplaceFile(r, 0) PROVE HostKeeps
    BY <1>1, ReplaceKeeps
  <1>2. ASSUME NEW pid \in ProfiledPids, ProcessExits(pid) PROVE HostKeeps
    <2>1. Gone \in Processes
      BY DEF Processes
    <2> QED BY <1>2, <2>1, ProcessKeeps DEF ProcessExits
  <1>3. ASSUME NEW pid \in ProfiledPids, NEW r \in Roots, NEW s \in Starts, Execute(pid, r, s) PROVE HostKeeps
    <2>1. file[r] \in 0..versions /\ versions \in Nat /\ file[r] # 0
      BY <1>3 DEF SymbolTypes, Execute
    <2>2. file[r] \in Versions
      BY <2>1 DEF Versions
    <2>3. [root |-> r, version |-> file[r], start |-> s] \in Processes
      BY <2>2 DEF Processes
    <2> QED BY <1>3, <2>3, ProcessKeeps DEF Execute
  <1> QED BY <1>1, <1>2, <1>3 DEF HostMoves

LEMMA HostStepInv ==
  ASSUME SymbolsInv, HostMoves
  PROVE  SymbolsInv'
  <1>1. HostKeeps /\ SymbolTypes
    BY HostMovesKeep DEF SymbolsInv
  <1>2. UNCHANGED <<maps, image, image_version, crossed, checked, step, resolved>>
    BY <1>1 DEF HostKeeps
  <1>3. PICK b \in BOOLEAN : stack' = [stack EXCEPT !.changed = b] /\ (~b => ~stack.changed)
    BY <1>1 DEF HostKeeps
  <1>4. /\ stack \in Stacks /\ stack' \in Stacks /\ stack'.pid = stack.pid /\ stack'.address = stack.address
        /\ stack'.root = stack.root /\ (~stack'.changed => ~stack.changed)
    <2>1. stack \in Stacks
      BY <1>1 DEF SymbolTypes
    <2> QED BY <1>3, <2>1 DEF Stacks
  <1>5. \A v \in 0..versions : v # 0 /\ Past(v) => Past(v)'
    <2> DEFINE n == versions
    <2>1. n \in Nat /\ \A r \in Roots : file'[r] = file[r] \/ file'[r] \in {0, n + 1}
      BY <1>1 DEF HostKeeps, SymbolTypes
    <2>2. ASSUME NEW v \in 0..n, v # 0, Past(v), NEW r \in Roots PROVE file'[r] # v
      <3>1. v # n + 1
        <4> HIDE DEF n
        <4> QED BY <2>1, <2>2
      <3> QED BY <2>1, <2>2, <3>1 DEF Past
    <2> QED BY <2>2 DEF Past
  <1>6. \A v \in 0..versions, r \in Roots : v # 0 /\ file[r] = v => file'[r] = v \/ Past(v)'
    <2> DEFINE n == versions
    <2> SUFFICES ASSUME NEW v \in 0..n, NEW r \in Roots, v # 0, file[r] = v, file'[r] # v, NEW s \in Roots
                 PROVE  file'[s] # v
      BY DEF Past
    <2>1. n \in Nat /\ \A x \in Roots : file'[x] = file[x] \/ file'[x] \in {0, n + 1}
      BY <1>1 DEF HostKeeps, SymbolTypes
    <2>2. v # n + 1
      <3> HIDE DEF n
      <3> QED BY <2>1
    <2>3. file[s] = v => s = r
      BY <1>1 DEF SymbolTypes
    <2> QED BY <2>1, <2>2, <2>3
  <1>7. SymbolTypes'
    <2>1. versions' \in Nat /\ file' \in [Roots -> 0..versions'] /\ processes' \in [ProfiledPids -> Processes']
          /\ \A r, s \in Roots : file'[r] = file'[s] /\ file'[r] # 0 => r = s
      BY <1>1, ProcessesGrow DEF HostKeeps, SymbolTypes
    <2>2. image' \in Unread..versions' /\ image_version' \in 0..versions'
      <3> DEFINE n == versions
                 m == versions'
      <3>1. n \in Nat /\ m = n + 1 /\ image \in Unread..n /\ image_version \in 0..n
        BY <1>1 DEF HostKeeps, SymbolTypes
      <3> HIDE DEF n, m
      <3>2. image \in Unread..m /\ image_version \in 0..m
        BY <3>1 DEF Unread
      <3> QED BY <1>2, <3>2 DEF m
    <2>3. /\ DOMAIN maps' = ProfiledPids /\ crossed' \in BOOLEAN /\ checked' \in BOOLEAN
          /\ step' \in {"idle", "maps", "mapped", "image", "done"}
          /\ stack' \in Stacks /\ (step' # "idle" => stack'.pid \in ProfiledPids)
      BY <1>1, <1>2, <1>4 DEF SymbolTypes
    <2> QED BY <2>1, <2>2, <2>3 DEF SymbolTypes
  <1>8. image_version \in 0..versions
    BY <1>1 DEF SymbolTypes
  <1>9. ImageKept'
    BY <1>2, <1>5, <1>8 DEF SymbolsInv, ImageKept
  <1>10. ImageDue'
    <2>1. CASE checked /\ image = Unread
      <3>1. /\ step = "image" /\ stack.root \in Roots /\ image_version # 0
            /\ image_version = file[stack.root] \/ Past(image_version)
        BY <2>1 DEF SymbolsInv, ImageDue
      <3>2. PICK v : v = image_version
        OBVIOUS
      <3>3. v \in 0..versions /\ v # 0 /\ (file[stack.root] = v \/ Past(v))
        BY <1>8, <3>1, <3>2
      <3>4. file'[stack.root] = v \/ Past(v)'
        BY <1>5, <1>6, <3>1, <3>3
      <3>5. image_version' = v /\ (image_version = file'[stack.root] \/ Past(image_version)')
        BY <1>2, <3>2, <3>4
      <3> QED BY <1>2, <1>4, <3>1, <3>5 DEF ImageDue
    <2> QED BY <1>2, <2>1 DEF ImageDue
  <1>11. StackInv'
    <2> SUFFICES ASSUME step # "idle", ~stack'.changed
                 PROVE  OfProcess(processes[stack.pid])'
      BY <1>2 DEF StackInv, SymbolsInv
    <2>1. PICK p : p = processes[stack.pid]
      OBVIOUS
    <2>2. OfProcess(p) /\ p # Gone
      BY <1>4, <2>1 DEF SymbolsInv, StackInv, OfProcess
    <2>3. processes'[stack.pid] = p /\ file'[p.root] = file[p.root]
      BY <1>1, <2>1, <2>2 DEF HostKeeps
    <2>4. (Deleted(p) <=> Deleted(p)') /\ MappingsOf(p) = MappingsOf(p)'
      BY <2>3 DEF Deleted, MappingsOf
    <2>5. OfProcess(p)'
      BY <1>2, <1>4, <2>2, <2>4 DEF OfProcess
    <2> QED BY <1>4, <2>3, <2>5
  <1>12. NamesAreExact'
    BY <1>2 DEF SymbolsInv, NamesAreExact
  <1> QED BY <1>7, <1>9, <1>10, <1>11, <1>12 DEF SymbolsInv

-----------------------------------------------------------------------------
(* The resolver's own steps                                                  *)

LEMMA BeginStep ==
  ASSUME SymbolsInv, NEW pid \in ProfiledPids, BeginStack(pid)
  PROVE  SymbolsInv'
  <1>1. PICK a \in Addresses(processes[pid]) : stack' = [NoStack EXCEPT !.pid = pid, !.address = a]
    BY DEF BeginStack
  <1>2. /\ step = "idle" /\ step' = "maps" /\ processes[pid] # Gone /\ checked' = FALSE
        /\ maps' = [maps EXCEPT ![pid] = <<>>]
        /\ UNCHANGED <<file, versions, processes, image, image_version, crossed, resolved>>
    BY DEF BeginStack, Forget, host
  <1>3. stack' = [pid |-> pid, address |-> a, changed |-> FALSE, root |-> "none"]
    BY <1>1 DEF NoStack
  <1>4. a \in Int
    BY ProcessIs, <1>2 DEF Addresses, SymbolsInv
  <1>5. SymbolTypes'
    BY <1>2, <1>3, <1>4 DEF SymbolsInv, SymbolTypes, Stacks, Processes, Versions
  <1>6. ImageKept' /\ ImageDue' /\ NamesAreExact'
    BY <1>2 DEF SymbolsInv, ImageKept, ImageDue, NamesAreExact, Past, Functions, Table
  <1>7. StackInv'
    <2>1. PICK p : p = processes[pid]
      OBVIOUS
    <2>2. OfProcess(p)'
      BY <1>1, <1>2, <1>3, <2>1 DEF OfProcess, Addresses
    <2> QED BY <1>2, <1>3, <2>1, <2>2 DEF StackInv
  <1> QED BY <1>5, <1>6, <1>7 DEF SymbolsInv

LEMMA EndStep ==
  ASSUME SymbolsInv, EndStack
  PROVE  SymbolsInv'
  <1>1. /\ step' = "idle" /\ stack' = NoStack /\ resolved' = NothingResolved
        /\ UNCHANGED <<file, versions, processes, maps, image, image_version, crossed, checked>>
    BY DEF EndStack, host
  <1>2. stack' = [pid |-> 0, address |-> 0, changed |-> FALSE, root |-> "none"]
    BY <1>1 DEF NoStack
  <1>3. SymbolTypes'
    BY <1>1, <1>2 DEF SymbolsInv, SymbolTypes, Stacks, Processes, Versions
  <1>4. ImageKept'
    BY <1>1 DEF SymbolsInv, ImageKept, Past
  <1>5. StackInv' /\ NamesAreExact'
    BY <1>1 DEF StackInv, NamesAreExact
  <1>6. ImageDue'
    BY <1>1 DEF SymbolsInv, ImageDue, EndStack
  <1> QED BY <1>3, <1>4, <1>5, <1>6 DEF SymbolsInv

\* The steps that read nothing of the host.
LEMMA NextFrameStep ==
  ASSUME SymbolsInv, NextFrame
  PROVE  SymbolsInv'
  <1>1. /\ step = "done" /\ step' = "mapped" /\ resolved' = NothingResolved
        /\ UNCHANGED <<file, versions, processes, maps, image, image_version, crossed, checked>>
    BY DEF NextFrame, host
  <1>2. PICK a \in Addresses(processes[stack.pid]) : stack' = [stack EXCEPT !.address = a]
    BY DEF NextFrame
  <1>3. SymbolTypes /\ stack \in Stacks /\ stack.pid \in ProfiledPids
    BY <1>1 DEF SymbolsInv, SymbolTypes
  <1>4. a \in Int
    BY <1>3, SymbolsAssumption DEF Addresses, Mapped, Gone, SymbolTypes, Processes
  <1>5. stack' \in Stacks /\ stack'.pid = stack.pid /\ stack'.address = a /\ stack'.changed = stack.changed
    BY <1>2, <1>3, <1>4 DEF Stacks
  <1>6. SymbolTypes'
    BY <1>1, <1>3, <1>5 DEF SymbolTypes, Stacks, Processes, Versions
  <1>7. ImageKept' /\ NamesAreExact'
    BY <1>1 DEF SymbolsInv, ImageKept, Past, NamesAreExact
  <1>8. ImageDue'
    BY <1>1 DEF SymbolsInv, ImageDue
  <1>9. StackInv'
    <2>1. PICK p : p = processes[stack.pid]
      OBVIOUS
    <2>2. ~stack.changed => OfProcess(p)
      BY <1>1, <2>1 DEF SymbolsInv, StackInv
    <2>3. ~stack.changed => OfProcess(p)'
      BY <1>1, <1>2, <1>5, <2>1, <2>2 DEF OfProcess, Addresses, MappingsOf, Deleted
    <2> QED BY <1>1, <1>5, <2>1, <2>3 DEF StackInv
  <1> QED BY <1>6, <1>7, <1>8, <1>9 DEF SymbolsInv

LEMMA ReadMapsStep ==
  ASSUME SymbolsInv, ReadMaps
  PROVE  SymbolsInv'
  <1>1. /\ step = "maps" /\ step' = "mapped"
        /\ maps' = [maps EXCEPT ![stack.pid] = MappingsOf(processes[stack.pid])]
        /\ UNCHANGED <<file, versions, processes, image, image_version, crossed, checked, stack, resolved>>
    BY DEF ReadMaps, host
  <1>2. SymbolTypes /\ stack.pid \in ProfiledPids /\ ~checked
    BY <1>1 DEF SymbolsInv, SymbolTypes, StackInv
  <1>3. SymbolTypes'
    BY <1>1, <1>2 DEF SymbolTypes, Stacks, Processes, Versions
  <1>4. ImageKept' /\ NamesAreExact' /\ ImageDue'
    BY <1>1, <1>2 DEF SymbolsInv, ImageKept, ImageDue, Past, NamesAreExact
  <1>5. StackInv'
    <2>1. PICK p : p = processes[stack.pid]
      OBVIOUS
    <2>2. ~stack.changed => OfProcess(p)
      BY <1>1, <2>1 DEF SymbolsInv, StackInv
    <2>3. maps'[stack.pid] = MappingsOf(p) /\ MappingsOf(p)' = MappingsOf(p)
      BY <1>1, <1>2, <2>1 DEF SymbolTypes, MappingsOf, Deleted
    <2>4. ~stack.changed => OfProcess(p)'
      BY <1>1, <1>2, <2>2, <2>3 DEF OfProcess, Deleted
    <2> QED BY <1>1, <1>2, <2>1, <2>4 DEF StackInv
  <1> QED BY <1>3, <1>4, <1>5 DEF SymbolsInv

\* Where the stack is mapped, if anything of it is.
LEMMA CoveringIs ==
  ASSUME SymbolsInv, step \in {"mapped", "image"}, ~stack.changed, NEW p, p = processes[stack.pid]
  PROVE  /\ p # Gone /\ stack.pid \in ProfiledPids /\ p \in Processes
         /\ Covering # {} => ~Deleted(p) /\ stack.address \in p.start .. (p.start + 3)
         /\ Covering = {} => Deleted(p) \/ stack.address = p.start + 4
         /\ \A m \in Covering : m.start = p.start
  <1>1. /\ SymbolTypes /\ stack.pid \in ProfiledPids /\ p \in Processes /\ OfProcess(p)
        /\ p # Gone
    BY DEF SymbolsInv, StackInv, SymbolTypes, OfProcess
  <1>2. /\ maps[stack.pid] = MappingsOf(p) /\ stack.address \in p.start .. (p.start + 4)
        /\ p.start \in Int
    BY <1>1, ProcessIs DEF OfProcess, Addresses, Mapped
  <1>3. CASE Deleted(p)
    <2>1. maps[stack.pid] = <<>>
      BY <1>2, <1>3 DEF MappingsOf
    <2>2. Covering = {}
      BY <2>1 DEF Covering, ToSet
    <2> QED BY <1>1, <1>3, <2>2
  <1>4. CASE ~Deleted(p)
    <2> DEFINE m == [start |-> p.start, end |-> p.start + 4]
    <2>1. maps[stack.pid] = <<m>>
      BY <1>1, <1>2, <1>4 DEF MappingsOf, Mapped
    <2>2. ToSet(maps[stack.pid]) = {m}
      <3> HIDE DEF m
      <3> QED BY <2>1 DEF ToSet
    <2>3. Covering = {x \in {m} : stack.address \in x.start .. (x.end - 1)}
      BY <2>2 DEF Covering
    <2>4. m.start = p.start /\ m.end - 1 = p.start + 3
      BY <1>2
    <2> HIDE DEF m
    <2>5. Covering = IF stack.address \in p.start .. (p.start + 3) THEN {m} ELSE {}
      BY <2>3, <2>4
    <2>6. stack.address \in p.start .. (p.start + 3) \/ stack.address = p.start + 4
      BY <1>2
    <2> QED BY <1>1, <1>4, <2>4, <2>5, <2>6
  <1> QED BY <1>3, <1>4

LEMMA CheckedStep ==
  ASSUME SymbolsInv, Checked
  PROVE  SymbolsInv'
  <1>1. /\ step = "mapped" /\ step' = "image" /\ checked /\ Covering # {}
        /\ UNCHANGED <<file, versions, processes, maps, image, image_version, crossed, checked, stack, resolved>>
    BY DEF Checked, host
  <1>2. SymbolTypes' /\ stack.pid \in ProfiledPids
    BY <1>1 DEF SymbolsInv, SymbolTypes, Stacks, Processes, Versions
  <1>3. ImageKept' /\ NamesAreExact'
    BY <1>1 DEF SymbolsInv, ImageKept, Past, NamesAreExact
  <1>4. ImageDue'
    BY <1>1 DEF SymbolsInv, ImageDue
  <1>5. StackInv'
    <2>1. PICK p : p = processes[stack.pid]
      OBVIOUS
    <2>2. ~stack.changed => OfProcess(p) /\ ~Deleted(p) /\ stack.address \in p.start .. (p.start + 3)
      BY <1>1, <2>1, CoveringIs DEF SymbolsInv, StackInv
    <2>3. ~stack.changed => OfProcess(p)'
      BY <1>1, <2>2 DEF OfProcess, MappingsOf, Deleted
    <2> QED BY <1>1, <2>1, <2>3 DEF StackInv
  <1> QED BY <1>2, <1>3, <1>4, <1>5 DEF SymbolsInv

\* A frame is resolved.
LEMMA ResolvedExactly ==
  ASSUME NEW name, Resolve(name), NEW p, p = processes[stack.pid],
         ~stack.changed /\ ~crossed => name = Exact(p, stack.address, p # Gone /\ Deleted(p))
  PROVE  NamesAreExact'
  <1> DEFINE r == [name |-> name, address |-> stack.address, process |-> p,
                   deleted |-> p # Gone /\ Deleted(p), changed |-> stack.changed, crossed |-> crossed]
  <1>1. resolved' = r
    BY DEF Resolve
  <1>2. /\ r.name = name /\ r.address = stack.address /\ r.process = p /\ r.changed = stack.changed
        /\ r.crossed = crossed /\ r.deleted = (p # Gone /\ Deleted(p))
    OBVIOUS
  <1> HIDE DEF r
  <1>3. ~r.changed /\ ~r.crossed => r.name = Exact(r.process, r.address, r.deleted)
    BY <1>2
  <1>4. PICK x : x = resolved' /\ x = r
    BY <1>1
  <1>5. ~x.changed /\ ~x.crossed => x.name = Exact(x.process, x.address, x.deleted)
    BY <1>3, <1>4
  <1> QED BY <1>4, <1>5 DEF NamesAreExact, Exact

LEMMA UnmappedStep ==
  ASSUME SymbolsInv, Unmapped
  PROVE  SymbolsInv'
  <1>1. /\ step = "mapped" /\ step' = "done" /\ Covering = {} /\ Resolve(NoName)
        /\ UNCHANGED <<file, versions, processes, maps, image, image_version, crossed, checked, stack>>
    BY DEF Unmapped, host, Resolve
  <1>2. SymbolTypes'
    BY <1>1 DEF SymbolsInv, SymbolTypes, Stacks, Processes, Versions
  <1>3. ImageKept'
    BY <1>1 DEF SymbolsInv, ImageKept, Past
  <1>4. ImageDue'
    BY <1>1 DEF SymbolsInv, ImageDue
  <1> SUFFICES ASSUME NEW p, p = processes[stack.pid] PROVE StackInv' /\ NamesAreExact'
    BY <1>2, <1>3, <1>4 DEF SymbolsInv
  <1>5. StackInv'
    <2>1. ~stack.changed => OfProcess(p)
      BY <1>1 DEF SymbolsInv, StackInv
    <2>2. ~stack.changed => OfProcess(p)'
      BY <1>1, <2>1 DEF OfProcess, MappingsOf, Deleted
    <2> QED BY <1>1, <2>2 DEF StackInv
  <1>6. ASSUME ~stack.changed
        PROVE  NoName = Exact(p, stack.address, p # Gone /\ Deleted(p))
    <2>1. /\ p # Gone /\ p \in Processes /\ stack.pid \in ProfiledPids
          /\ Deleted(p) \/ stack.address = p.start + 4
      BY <1>1, <1>6, CoveringIs
    <2>2. p.start \in Int /\ p.version \in Nat /\ stack.address \in Addresses(p)
      BY <1>1, <1>6, <2>1, ProcessIs DEF SymbolsInv, StackInv, OfProcess, Versions
    <2>3. CASE Deleted(p)
      BY <2>1, <2>3 DEF Exact
    <2>4. CASE stack.address = p.start + 4
      <3>1. Functions(p, stack.address) = {}
        <4>1. stack.address # p.start /\ stack.address # p.start + 2
          BY <2>2, <2>4
        <4> QED BY <2>2, <4>1, FunctionsAre
      <3> QED BY <3>1 DEF Exact
    <2> QED BY <2>1, <2>3, <2>4
  <1>7. NamesAreExact'
    BY <1>1, <1>6, ResolvedExactly
  <1> QED BY <1>5, <1>7

LEMMA StatStep ==
  ASSUME SymbolsInv, Stat
  PROVE  SymbolsInv'
  <1> DEFINE v == FileOf(stack.pid)
  <1>1. /\ step = "mapped" /\ Covering # {} /\ ~checked /\ checked' = TRUE
        /\ UNCHANGED <<file, versions, processes, maps, crossed>>
    BY DEF Stat, host
  <1>2. SymbolTypes /\ stack.pid \in ProfiledPids /\ stack \in Stacks /\ processes[stack.pid] \in Processes
    BY <1>1 DEF SymbolsInv, SymbolTypes
  <1>3. v \in 0..versions /\ (v # 0 => processes[stack.pid] # Gone)
    BY <1>2, ProcessIs DEF FileOf, SymbolTypes
  <1> SUFFICES ASSUME NEW p, p = processes[stack.pid]
               PROVE  SymbolsInv'
    OBVIOUS
  <1>4. ~stack.changed => /\ OfProcess(p) /\ ~Deleted(p) /\ p # Gone /\ stack.address \in p.start .. (p.start + 3)
                          /\ v = p.version /\ v # 0
    <2> SUFFICES ASSUME ~stack.changed
                 PROVE  /\ OfProcess(p) /\ ~Deleted(p) /\ p # Gone /\ stack.address \in p.start .. (p.start + 3)
                        /\ v = p.version /\ v # 0
      OBVIOUS
    <2>1. OfProcess(p) /\ ~Deleted(p) /\ p # Gone /\ stack.address \in p.start .. (p.start + 3)
      BY <1>1, CoveringIs DEF SymbolsInv, StackInv
    <2>2. v = p.version /\ p.version \in Versions
      BY <1>2, <2>1, ProcessIs DEF Deleted
    <2> QED BY <2>1, <2>2 DEF Versions
  <1>5. CASE v = 0
    <2>1. /\ image' = NotAvailable /\ Resolve(NoName) /\ step' = "done" /\ UNCHANGED <<image_version, stack>>
      BY <1>5 DEF Stat, Resolve
    <2>2. SymbolTypes'
      BY <1>1, <1>2, <2>1 DEF SymbolTypes, Stacks, Processes, Versions, NotAvailable, Unread
    <2>3. stack.changed
      BY <1>2, <1>4, <1>5 DEF Stacks
    <2>4. StackInv' /\ ImageKept' /\ ImageDue'
      BY <2>1, <2>3 DEF StackInv, ImageKept, ImageDue, NotAvailable, Unread
    <2>5. NamesAreExact'
      BY <2>1, <2>3, ResolvedExactly
    <2> QED BY <2>2, <2>4, <2>5 DEF SymbolsInv
  <1>6. CASE v # 0
    <2>1. /\ image' = IF image_version # v \/ image = NotAvailable THEN Unread ELSE image
          /\ stack' = [stack EXCEPT !.root = p.root]
          /\ image_version' = v /\ step' = "image" /\ UNCHANGED resolved
      BY <1>6 DEF Stat
    <2>2. p.root \in Roots /\ v = file[p.root]
      BY <1>2, <1>3, <1>6, ProcessIs
    <2>3. /\ stack' \in Stacks /\ stack'.root = p.root /\ stack'.pid = stack.pid
          /\ stack'.address = stack.address /\ stack'.changed = stack.changed
      BY <1>2, <2>1, <2>2 DEF Stacks
    <2>4. SymbolTypes'
      <3>1. image' \in Unread..versions /\ image_version' \in 0..versions
        BY <1>2, <1>3, <2>1 DEF SymbolTypes, Unread
      <3> QED BY <1>1, <1>2, <2>1, <2>3, <3>1 DEF SymbolTypes, Stacks, Processes, Versions
    <2>5. ImageKept'
      BY <1>1, <2>1 DEF SymbolsInv, ImageKept, Past, Unread
    <2>6. ImageDue'
      BY <1>1, <1>6, <2>1, <2>2, <2>3 DEF ImageDue
    <2>7. StackInv'
      <3>1. ~stack.changed => OfProcess(p)'
        BY <1>1, <1>4, <2>1, <2>3 DEF OfProcess, MappingsOf, Deleted, NotAvailable, Unread
      <3> QED BY <1>1, <2>1, <2>3, <3>1 DEF StackInv
    <2>8. NamesAreExact'
      BY <2>1 DEF SymbolsInv, NamesAreExact
    <2> QED BY <2>4, <2>5, <2>6, <2>7, <2>8 DEF SymbolsInv
  <1> QED BY <1>5, <1>6

LEMMA ReadImageStep ==
  ASSUME SymbolsInv, ReadImage
  PROVE  SymbolsInv'
  <1>1. /\ step = "image" /\ image = Unread /\ image' = FileOf(stack.pid)
        /\ crossed' = (image' # NotAvailable /\ processes[stack.pid].root # stack.root)
        /\ UNCHANGED <<file, versions, processes, maps, image_version, checked, stack, step, resolved>>
    BY DEF ReadImage, host
  <1>2. SymbolTypes /\ stack.pid \in ProfiledPids /\ processes[stack.pid] \in Processes /\ checked
    BY <1>1 DEF SymbolsInv, SymbolTypes, StackInv
  <1>3. image' \in 0..versions /\ (image' # 0 => image' = file[processes[stack.pid].root])
    BY <1>1, <1>2, ProcessIs DEF FileOf, SymbolTypes
  <1>4. SymbolTypes'
    <2>1. image' \in Unread..versions /\ crossed' \in BOOLEAN
      BY <1>1, <1>3 DEF Unread
    <2> QED BY <1>1, <1>2, <2>1 DEF SymbolTypes, Stacks, Processes, Versions
  <1>5. ImageKept'
    <2> SUFFICES ASSUME image' > 0, ~crossed'
                 PROVE  image' = image_version \/ (image_version # 0 /\ Past(image_version))
      BY <1>1 DEF ImageKept, Past
    <2>0. image' # 0
      BY <1>3
    <2>1. processes[stack.pid].root = stack.root /\ image' = file[stack.root]
      BY <1>1, <1>3, <2>0, Zenon DEF NotAvailable
    <2>2. image_version # 0 /\ (image_version = file[stack.root] \/ Past(image_version))
      BY <1>1, <1>2 DEF SymbolsInv, ImageDue
    <2> QED BY <2>1, <2>2
  <1>6. ImageDue'
    BY <1>3 DEF ImageDue, Unread
  <1>7. StackInv'
    <2> SUFFICES ASSUME NEW p, p = processes[stack.pid], ~stack.changed
                 PROVE  OfProcess(p)'
      BY <1>1, <1>2 DEF StackInv
    <2>1. OfProcess(p) /\ p # Gone /\ ~Deleted(p)
      BY <1>1 DEF SymbolsInv, StackInv, OfProcess
    <2>2. image' = file[p.root] /\ p.version # 0
      BY <1>1, <1>2, <2>1, ProcessIs DEF Versions
    <2> QED BY <1>1, <2>1, <2>2 DEF OfProcess, MappingsOf, Deleted, NotAvailable
  <1>8. NamesAreExact'
    BY <1>1 DEF SymbolsInv, NamesAreExact
  <1> QED BY <1>4, <1>5, <1>6, <1>7, <1>8 DEF SymbolsInv

LEMMA NameStep ==
  ASSUME SymbolsInv, Name
  PROVE  SymbolsInv'
  <1> SUFFICES ASSUME NEW p, p = processes[stack.pid]
               PROVE  SymbolsInv'
    OBVIOUS
  <1> DEFINE m == CHOOSE x \in Covering : TRUE
             found == IF image = NotAvailable THEN {}
                      ELSE Lookup(Table(image), Vaddr(stack.address - m.start + Offset))
             name == IF found = {} THEN NoName
                     ELSE <<image, Table(image)[CHOOSE i \in found : TRUE].value>>
  <1>1. /\ step = "image" /\ image # Unread /\ Resolve(name) /\ step' = "done"
        /\ UNCHANGED <<file, versions, processes, maps, image, image_version, crossed, checked, stack>>
    BY DEF Name, host, Resolve
  <1>2. SymbolTypes /\ stack.pid \in ProfiledPids /\ p \in Processes /\ checked
    BY <1>1 DEF SymbolsInv, SymbolTypes, StackInv
  <1>3. SymbolTypes'
    BY <1>1, <1>2 DEF SymbolTypes, Stacks, Processes, Versions
  <1>4. ImageKept'
    BY <1>1 DEF SymbolsInv, ImageKept, Past
  <1>5. ImageDue'
    BY <1>1 DEF ImageDue
  <1>6. StackInv'
    <2>1. ~stack.changed => OfProcess(p)
      BY <1>1 DEF SymbolsInv, StackInv
    <2>2. ~stack.changed => OfProcess(p)'
      BY <1>1, <2>1 DEF OfProcess, MappingsOf, Deleted
    <2> QED BY <1>1, <1>2, <2>2 DEF StackInv
  <1>7. ASSUME ~stack.changed, ~crossed
        PROVE  name = Exact(p, stack.address, p # Gone /\ Deleted(p))
    <2>1. OfProcess(p) /\ p # Gone /\ ~Deleted(p) /\ stack.address \in p.start .. (p.start + 3)
      BY <1>1, <1>7 DEF SymbolsInv, StackInv, OfProcess
    <2>2. /\ p.start \in Int /\ p.version \in Versions /\ p.version \in Nat /\ p.root \in Roots
          /\ file[p.root] = p.version
      BY <1>2, <2>1, ProcessIs DEF Versions, Deleted
    <2>3. image # NotAvailable /\ image_version = p.version
      BY <1>2, <2>1 DEF OfProcess
    <2>4. image = p.version
      <3>1. image > 0
        BY <1>1, <1>2, <2>3 DEF SymbolTypes, Unread, NotAvailable
      <3>2. ~Past(p.version)
        BY <2>2 DEF Past
      <3> QED BY <1>7, <2>3, <3>1, <3>2 DEF SymbolsInv, ImageKept
    <2>5. m.start = p.start
      <3>1. Covering # {} /\ \A x \in Covering : x.start = p.start
        <4>1. stack.address # p.start + 4
          BY <2>1, <2>2
        <4> QED BY <1>1, <1>7, <2>1, <4>1, CoveringIs
      <3> QED BY <3>1
    <2> HIDE DEF m
    <2>6. found = Lookup(Table(p.version), Vaddr(stack.address - p.start + Offset))
      BY <2>3, <2>4, <2>5
    <2>7. name = Looked(p.version, found)
      BY <2>4 DEF Looked
    <2> HIDE DEF found, name
    <2>8. PICK a \in p.start .. (p.start + 3) : a = stack.address
      BY <2>1
    <2>9. Looked(p.version, found) = Exact(p, a, FALSE)
      BY <2>2, <2>6, <2>8, NameFound
    <2>10. (p # Gone /\ Deleted(p)) = FALSE
      BY <2>1
    <2> QED BY <2>7, <2>8, <2>9, <2>10
  <1> HIDE DEF name
  <1>8. NamesAreExact'
    BY <1>1, <1>7, ResolvedExactly
  <1> QED BY <1>3, <1>4, <1>5, <1>6, <1>8 DEF SymbolsInv

-----------------------------------------------------------------------------

LEMMA SymbolsInvStarts ==
  ASSUME SymbolsInit
  PROVE  SymbolsInv
  <1>1. /\ file \in [Roots -> 1..Cardinality(Roots)] /\ IsInjective(file) /\ versions = Cardinality(Roots)
        /\ processes \in [ProfiledPids -> {[root |-> r, version |-> file[r], start |-> s] : r \in Roots, s \in Starts}]
        /\ maps = [p \in ProfiledPids |-> <<>>] /\ image = Unread /\ image_version = 0
        /\ crossed = FALSE /\ checked = FALSE /\ stack = NoStack /\ step = "idle" /\ resolved = NothingResolved
    BY DEF SymbolsInit
  <1>2. Cardinality(Roots) \in Nat
    BY FS_CardinalityType, SymbolsAssumption
  <1>3. /\ file \in [Roots -> 0..versions] /\ \A r \in Roots : file[r] \in Versions
        /\ \A r, s \in Roots : file[r] = file[s] => r = s
    BY <1>1, <1>2 DEF IsInjective, Versions
  <1>4. processes \in [ProfiledPids -> Processes]
    BY <1>1, <1>3 DEF Processes
  <1>5. stack \in Stacks
    BY <1>1 DEF NoStack, Stacks
  <1>6. image \in Unread..versions /\ image_version \in 0..versions
    BY <1>1, <1>2 DEF Unread
  <1>7. SymbolTypes
    BY <1>1, <1>2, <1>3, <1>4, <1>5, <1>6 DEF SymbolTypes
  <1> QED BY <1>1, <1>7 DEF SymbolsInv, ImageKept, ImageDue, StackInv, NamesAreExact, Unread

LEMMA SymbolsInvStays ==
  ASSUME SymbolsInv, [SymbolsNext]_symbolsVars
  PROVE  SymbolsInv'
  <1>1. CASE UNCHANGED symbolsVars
    <2>1. /\ UNCHANGED <<file, versions, processes, maps, image, image_version>>
          /\ UNCHANGED <<crossed, checked, stack, step, resolved>>
      BY <1>1 DEF symbolsVars
    <2>2. SymbolTypes' /\ ImageKept' /\ ImageDue' /\ NamesAreExact'
      BY <2>1 DEF SymbolsInv, SymbolTypes, Stacks, Processes, Versions, ImageKept, ImageDue, Past, NamesAreExact
    <2>3. \A p : OfProcess(p) => OfProcess(p)'
      BY <2>1 DEF OfProcess, MappingsOf, Deleted
    <2>4. StackInv'
      BY <2>1, <2>3 DEF SymbolsInv, StackInv, OfProcess, MappingsOf, Deleted
    <2> QED BY <2>2, <2>4 DEF SymbolsInv
  <1>2. CASE SymbolsNext
    BY <1>2, HostStepInv, BeginStep, ReadMapsStep, UnmappedStep, StatStep, CheckedStep, ReadImageStep,
       NameStep, NextFrameStep, EndStep DEF SymbolsNext
  <1> QED BY <1>1, <1>2

\* A frame has the name of the function that its process has at the address.
THEOREM NamesCorrect == SymbolsSpec => []NamesAreExact
  <1>1. SymbolsInit => SymbolsInv
    BY SymbolsInvStarts
  <1>2. SymbolsInv /\ [SymbolsNext]_symbolsVars => SymbolsInv'
    BY SymbolsInvStays
  <1>3. SymbolsInv => NamesAreExact
    BY DEF SymbolsInv
  <1> QED BY <1>1, <1>2, <1>3, PTL DEF SymbolsSpec

-----------------------------------------------------------------------------
(* Rows and the selection.                                                 *)

\* A list, and the rows of a sample of some of its things.
IsList(l) == Len(l) \in Nat /\ l = [i \in 1..Len(l) |-> l[i]]
IsRows(s, rows) == IsList(rows) /\ \A i \in DOMAIN rows : rows[i] = Row(s, rows[i][1])

LEMMA OrderedIsList ==
  ASSUME NEW S, IsFiniteSet(S), NEW before
  PROVE  IsList(Ordered(S, before))
  <1>1. Cardinality(S) \in Nat
    BY FS_CardinalityType
  <1> QED BY <1>1 DEF Ordered, IsList

LEMMA ListIsFinite ==
  ASSUME NEW l, IsList(l)
  PROVE  IsFiniteSet(Range(l))
  <1> DEFINE n == Len(l)
  <1>1. n \in Nat /\ l = [i \in 1..n |-> l[i]]
    BY DEF IsList
  <1> HIDE DEF n
  <1>2. DOMAIN l = 1..n
    BY <1>1, Zenon
  <1>3. IsFiniteSet(1..n)
    BY <1>1, FS_Interval
  <1>4. l \in Surjection(1..n, Range(l))
    BY <1>1, <1>2 DEF Surjection, Range
  <1> QED BY <1>3, <1>4, FS_Surjection

LEMMA ByNameIsList ==
  ASSUME NEW S, IsFiniteSet(S)
  PROVE  IsList(ByName(S))
  BY OrderedIsList DEF ByName

LEMMA ByValueIsList ==
  ASSUME NEW s, NEW l, IsList(l)
  PROVE  IsList(ByValue(s, l))
  BY ListIsFinite, OrderedIsList DEF ByValue

LEMMA TurnedIsList ==
  ASSUME NEW l, IsList(l)
  PROVE  IsList(Turned(l))
  BY DEF Turned, Reverse, IsList

LEMMA RowsAreRows ==
  ASSUME NEW s, NEW l, IsList(l)
  PROVE  IsRows(s, Rows(s, l))
  <1>1. DOMAIN l = 1..Len(l) /\ Len(l) \in Nat
    BY DEF IsList
  <1>2. Rows(s, l) = [i \in 1..Len(l) |-> Row(s, l[i])]
    BY <1>1 DEF Rows
  <1>3. \A i \in 1..Len(l) : Row(s, l[i])[1] = l[i]
    BY DEF Row
  <1>4. Len(Rows(s, l)) = Len(l)
    BY <1>1, <1>2
  <1> QED BY <1>1, <1>2, <1>3, <1>4 DEF IsRows, IsList

\* The tasks and the named objects are listed as rows.
LEMMA ListedAreRows ==
  ASSUME NEW s, tab \in {Tasks, Objects}
  PROVE  IsRows(s, Listed(s))
  <1>1. \A S \in SUBSET Names : IsFiniteSet(Matching(S))
    BY BrowseAssumption, FS_Subset DEF Matching
  <1>2. CASE tab = Tasks
    <2> DEFINE l == ByName(Matching(Present(s)))
    <2>1. IsList(l)
      BY <1>1, ByNameIsList DEF Present
    <2> HIDE DEF l
    <2>2. IsList(Turned(Sorted(s, l)))
      BY <2>1, ByValueIsList, TurnedIsList DEF Sorted
    <2>3. IsRows(s, Rows(s, Turned(Sorted(s, l))))
      BY <2>2, RowsAreRows
    <2>4. IsRows(s, VisibleTasks(s))
      BY <2>3 DEF VisibleTasks, l
    <2>5. Listed(s) = VisibleTasks(s)
      BY <1>2 DEF Listed, Tasks, Objects, Scheduler, Memory, Events, IssueView
    <2> QED BY <2>4, <2>5
  <1>3. CASE tab = Objects
    <2> DEFINE hidden == {n \in Names : \E p \in folded : p < n}
               l == ByName(Matching(Present(s) \ hidden))
    <2>1. Present(s) \ hidden \in SUBSET Names
      BY DEF Present
    <2>2. IsList(l)
      BY <1>1, <2>1, ByNameIsList
    <2> HIDE DEF l
    <2>3. IsList(Turned(Sorted(s, l)))
      BY <2>2, ByValueIsList, TurnedIsList DEF Sorted
    <2>4. IsRows(s, Rows(s, Turned(Sorted(s, l))))
      BY <2>3, RowsAreRows
    <2>5. IsRows(s, ObjectRows(s))
      BY <2>4 DEF ObjectRows, l
    <2>6. Listed(s) = ObjectRows(s)
      BY <1>3 DEF Listed, Tasks, Objects, Scheduler, Memory, Events, IssueView
    <2> QED BY <2>5, <2>6
  <1> QED BY <1>2, <1>3

\* What is listed depends on the sample and on how the view is set.
LEMMA ListedOfSample ==
  ASSUME NEW s, UNCHANGED listVars, listing' = s
  PROVE  Listed(listing)' = Listed(s)
  BY DEF listVars, Listed, VisibleTasks, MemoryTasks, SchedulerSubjects, ObjectRows,
         VisibleEvents, IssueRows, Turned, Sorted, Matching, Present


\* A row is found by its name, and is the row there.
LEMMA FirstIs ==
  ASSUME NEW P \in SUBSET Nat, P # {}
  PROVE  FirstOf(P) \in P
  <1>1. \E i \in P : \A j \in P : i <= j
    BY Least
  <1> QED BY <1>1 DEF FirstOf

LEMMA PlaceIs ==
  ASSUME NEW list, IsList(list), NEW row \in Range(list)
  PROVE  RowOf(list, row) \in DOMAIN list /\ list[RowOf(list, row)] = row
  <1> DEFINE P == {i \in DOMAIN list : list[i] = row}
  <1>1. P \in SUBSET Nat /\ P # {}
    BY DEF Range, IsList
  <1>2. FirstOf(P) \in P
    BY <1>1, FirstIs
  <1> QED BY <1>2 DEF RowOf

LEMMA FoundIs ==
  ASSUME NEW s, NEW list, IsRows(s, list), NEW row \in Range(list)
  PROVE  Found(list, row) \in DOMAIN list /\ list[Found(list, row)] = row
  <1> DEFINE P == {i \in DOMAIN list : list[i][1] = row[1]}
  <1>1. P \in SUBSET Nat /\ P # {}
    BY DEF Range, IsRows, IsList
  <1>2. FirstOf(P) \in P
    BY <1>1, FirstIs
  <1>3. row = Row(s, row[1])
    BY DEF Range, IsRows
  <1>4. \A i \in P : list[i] = row
    BY <1>3 DEF IsRows
  <1> QED BY <1>2, <1>4 DEF Found

\* A position in a list shows what is there.
LEMMA RowThere ==
  ASSUME NEW list, IsList(list), NEW i \in DOMAIN list
  PROVE  RowAt(list, i) = list[i]
  <1> DEFINE n == Len(list)
  <1>1. n \in Nat /\ DOMAIN list = 1..n
    BY DEF IsList
  <1> HIDE DEF n
  <1>2. ~(i > n)
    BY <1>1
  <1> QED BY <1>2 DEF RowAt, n

-----------------------------------------------------------------------------
(* What the user chose stays chosen, and open.                              *)

\* Events are numbered as they come.
EventsAreInOrder ==
  /\ "events" \in DOMAIN listing
  /\ listing.events \in Seq(Nat) /\ listing.events # <<>>
  /\ \A i, j \in DOMAIN listing.events : i < j => listing.events[i] < listing.events[j]

BrowseInv == SelectionIsKept /\ DetailIsOfOpened /\ EventsAreInOrder

LEMMA BrowseStarts ==
  ASSUME BrowseInit
  PROVE  BrowseInv
  <1>1. listing.events = <<1>>
    BY DEF BrowseInit
  <1>2. EventsAreInOrder
    BY <1>1 DEF BrowseInit, EventsAreInOrder
  <1> QED BY <1>2 DEF BrowseInit, BrowseInv, SelectionIsKept, DetailIsOfOpened

InOrder(e) ==
  /\ e \in Seq(Nat) /\ e # <<>>
  /\ \A i, j \in DOMAIN e : i < j => e[i] < e[j]

LEMMA EventLogged ==
  ASSUME NEW e, InOrder(e)
  PROVE  LET all == Append(e, Last(e) + 1)
         IN  InOrder(IF Len(all) > EventCap THEN Tail(all) ELSE all)
  <1> DEFINE n == Len(e)
             x == e[n]
             all == Append(e, x + 1)
  <1>1. /\ n \in Nat /\ n > 0 /\ x \in Nat /\ all \in Seq(Nat) /\ Len(all) = n + 1
        /\ \A i \in 1..n : e[i] \in Nat /\ all[i] = e[i]
        /\ all[n + 1] = x + 1
    BY DEF InOrder
  <1>2. \A i \in 1..n : e[i] <= x
    BY <1>1 DEF InOrder
  <1>3. \A i, j \in 1..n + 1 : i < j => all[i] < all[j]
    <2> SUFFICES ASSUME NEW i \in 1..n + 1, NEW j \in 1..n + 1, i < j
                 PROVE  all[i] < all[j]
      OBVIOUS
    <2>0. \A k \in 1..n : k \in DOMAIN e
      BY <1>1 DEF InOrder
    <2> HIDE DEF n, x, all
    <2>1. CASE j = n + 1
      <3>1. i \in 1..n
        BY <1>1, <2>1
      <3> QED BY <1>1, <1>2, <2>1, <3>1
    <2>2. CASE j # n + 1
      <3>1. i \in 1..n /\ j \in 1..n
        BY <1>1, <2>2
      <3>2. e[i] < e[j]
        BY <2>0, <3>1 DEF InOrder
      <3> QED BY <1>1, <3>1, <3>2
    <2> QED BY <2>1, <2>2
  <1>4. InOrder(all)
    BY <1>1, <1>3 DEF InOrder
  <1>5. ASSUME n + 1 > EventCap
        PROVE  InOrder(Tail(all))
    <2>1. EventCap \in Nat /\ EventCap >= 1
      BY BrowseAssumption
    <2>2. n + 1 > 1
      BY <1>1, <1>5, <2>1
    <2> DEFINE t == Tail(all)
    <2> HIDE DEF n, x, all
    <2>3. t \in Seq(Nat) /\ Len(t) = n /\ \A i \in 1..n : t[i] = all[i + 1]
      BY <1>1, <2>2
    <2> HIDE DEF t
    <2>4. \A i, j \in 1..n : i < j => t[i] < t[j]
      BY <1>1, <1>3, <2>3
    <2>5. DOMAIN t = 1..n /\ t # <<>>
      BY <1>1, <2>3
    <2>6. InOrder(t)
      BY <2>3, <2>4, <2>5 DEF InOrder
    <2> QED BY <2>6 DEF t
  <1>6. Last(e) = x
    BY DEF Last
  <1> QED BY <1>1, <1>4, <1>5, <1>6

LEMMA NewEvents ==
  ASSUME EventsAreInOrder, NEW s \in NewScreens
  PROVE  "events" \in DOMAIN s /\ InOrder(s.events)
  <1>1. InOrder(listing.events)
    BY DEF EventsAreInOrder, InOrder
  <1> DEFINE all == Append(listing.events, Last(listing.events) + 1)
             e == IF Len(all) > EventCap THEN Tail(all) ELSE all
  <1>2. InOrder(e)
    BY <1>1, EventLogged
  <1> HIDE DEF e
  <1>3. \/ "events" \in DOMAIN s /\ s.events = listing.events
        \/ s = [listing EXCEPT !.events = e]
    BY DEF NewScreens, EventsAreInOrder, e
  <1> QED BY <1>1, <1>2, <1>3 DEF EventsAreInOrder

\* A key chooses.
LEMMA KeysChoose ==
  ASSUME BrowseInv, Pressed, Choosing
  PROVE  BrowseInv'
  <1>1. EventsAreInOrder'
    BY DEF BrowseInv, Pressed, EventsAreInOrder
  <1> QED BY <1>1 DEF BrowseInv, Choosing, SelectionIsKept, DetailIsOfOpened


\* A sample in the views of tasks and of named objects.
LEMMA SampleKeeps ==
  ASSUME BrowseInv, Refresh, tab \in {Tasks, Objects}
  PROVE  (SelectionIsKept /\ DetailIsOfOpened)'
  <1>1. PICK s \in NewScreens :
          /\ listing' = s
          /\ IF Selected # NoRow
             THEN IF SameSubject(s, Selected)
                  THEN selected' = Found(Listed(s), Selected) /\ UNCHANGED detail
                  ELSE selected' = 1 /\ detail' = FALSE
             ELSE UNCHANGED <<selected, detail>>
          /\ chosen' = IF Selected \in Range(Listed(s)) /\ s.boot = listing.boot
                       THEN chosen ELSE RowAt(Listed(s), selected')
          /\ UNCHANGED <<listVars, inspected>>
    BY DEF Refresh, Tasks, Objects, Scheduler, Events
  <1> DEFINE now == Listed(s)
  <1>2. Listed(listing)' = now
    BY <1>1, ListedOfSample
  <1>3. Selected' = RowAt(now, selected')
    <2>1. tab' = tab
      BY <1>1 DEF listVars
    <2> QED BY <1>2, <2>1 DEF Selected, RowAt
  <1>4. tab' = tab
    BY <1>1 DEF listVars
  <1>5. IsRows(s, now)
    BY ListedAreRows
  <1>6. chosen = Selected
    BY DEF BrowseInv, SelectionIsKept
  <1> HIDE DEF now
  <1>7. CASE SameSubject(s, Selected)
    <2>1. Selected \in Range(now) /\ s.boot = listing.boot
      BY <1>7 DEF SameSubject, now
    <2>2. Selected # NoRow
      BY <1>5, <2>1 DEF IsRows, Range, Row, NoRow
    <2>3. selected' = Found(now, Selected) /\ detail' = detail /\ chosen' = chosen
      BY <1>1, <1>7, <2>1, <2>2 DEF now
    <2>4. RowAt(now, selected') = Selected
      BY <1>5, <2>1, <2>3, FoundIs, RowThere DEF IsRows
    <2>5. Selected' = Selected /\ inspected' = inspected
      BY <1>1, <1>3, <2>4
    <2> QED BY <1>4, <1>6, <2>3, <2>5 DEF BrowseInv, SelectionIsKept, DetailIsOfOpened
  <1>8. CASE ~SameSubject(s, Selected)
    <2>1. ~(Selected \in Range(now) /\ s.boot = listing.boot)
      BY <1>8 DEF SameSubject, now
    <2>2. chosen' = Selected'
      BY <1>1, <1>3, <2>1 DEF now
    <2>3. detail' => Selected = NoRow /\ detail' = detail /\ inspected' = inspected
      BY <1>1, <1>8
    <2>4. ~(detail' /\ inspected' # NoRow)
      BY <2>3 DEF BrowseInv, DetailIsOfOpened
    <2> QED BY <2>2, <2>4 DEF SelectionIsKept, DetailIsOfOpened
  <1> QED BY <1>7, <1>8

LEMMA RefreshKeeps ==
  ASSUME BrowseInv, Refresh
  PROVE  BrowseInv'
  <1>1. PICK s \in NewScreens : listing' = s
    BY DEF Refresh
  <1>2. "events" \in DOMAIN listing' /\ InOrder(listing'.events)
    BY <1>1, NewEvents DEF BrowseInv
  <1>3. EventsAreInOrder'
    BY <1>2 DEF EventsAreInOrder, InOrder
  <1>4. tab' = tab
    BY DEF Refresh, listVars
  <1>5. CASE tab \in {Tasks, Objects}
    BY <1>3, <1>5, SampleKeeps DEF BrowseInv
  <1>6. CASE tab \notin {Tasks, Objects}
    BY <1>3, <1>4, <1>6 DEF BrowseInv, SelectionIsKept, DetailIsOfOpened
  <1> QED BY <1>5, <1>6

\* A sample in the view of events.
LEMMA EventsKept ==
  ASSUME BrowseInv
  PROVE  EventsAreFollowed
  <1> SUFFICES ASSUME Refresh, tab = Events, Selected # NoRow, listing'.events # <<>>
               PROVE  IF Selected = Last(VisibleEvents(listing))
                      THEN Selected' = Last(VisibleEvents(listing'))
                      ELSE Selected' = Selected \/ Selected \notin Range(VisibleEvents(listing'))
    BY DEF EventsAreFollowed
  <1>1. PICK s \in NewScreens :
          /\ listing' = s /\ UNCHANGED listVars
          /\ selected' = IF selected >= Len(Listed(listing))
                         THEN IF Len(Listed(s)) = 0 THEN 1 ELSE Len(Listed(s))
                         ELSE IF RowOf(Listed(s), Selected) = 0 THEN 1
                              ELSE RowOf(Listed(s), Selected)
    BY DEF Refresh, Following, Tasks, Objects, Scheduler, Events, IssueView
  <1> DEFINE e == listing.events
             was == VisibleEvents(listing)
             now == VisibleEvents(s)
             n == Len(e)
             m == Len(s.events)
  <1>2. InOrder(e) /\ InOrder(s.events)
    BY <1>1, NewEvents DEF BrowseInv, EventsAreInOrder, InOrder
  <1>3. /\ n \in Nat /\ n > 0 /\ was = [i \in 1..n |-> <<e[i]>>] /\ Len(was) = n
        /\ m \in Nat /\ m > 0 /\ now = [i \in 1..m |-> <<s.events[i]>>] /\ Len(now) = m
    BY <1>2 DEF InOrder, VisibleEvents
  <1>4. tab' = Events /\ Listed(listing) = was /\ Listed(s) = now /\ Listed(listing)' = now
    <2>1. tab' = tab
      BY <1>1 DEF listVars
    <2>2. \A x : Listed(x) = VisibleEvents(x)
      BY DEF Listed, Tasks, Objects, Scheduler, Memory, Events, IssueView
    <2>3. Listed(listing)' = Listed(s)
      BY <1>1, ListedOfSample
    <2> QED BY <2>1, <2>2, <2>3
  <1>5. IsList(was) /\ IsList(now)
    BY <1>3 DEF IsList
  <1>6. VisibleEvents(listing') = now
    BY <1>1
  <1>7. \A i, j \in 1..n : i < j => was[i] # was[j]
    <2>1. \A i, j \in 1..n : i < j => e[i] \in Nat /\ e[j] \in Nat /\ e[i] < e[j]
      BY <1>2, <1>3 DEF InOrder
    <2> HIDE DEF e, n, was
    <2>2. \A i, j \in 1..n : i < j => e[i] # e[j]
      BY <2>1
    <2>3. \A i \in 1..n : was[i] = <<e[i]>>
      BY <1>3
    <2> QED BY <2>2, <2>3
  <1> HIDE DEF e, was, now, n, m
  <1>8. Selected = RowAt(was, selected) /\ Selected' = RowAt(now, selected')
    BY <1>4 DEF Selected, RowAt, Events, Tasks
  <1>9. selected \in 1..n /\ Selected = was[selected]
    BY <1>3, <1>8 DEF RowAt, Events, Tasks
  <1>10. Last(was) = was[n] /\ Last(now) = now[m]
    BY <1>3 DEF Last
  <1>11. CASE selected = n
    <2>1. selected' = m
      BY <1>1, <1>3, <1>4, <1>11
    <2>2. Selected' = now[m]
      BY <1>3, <1>5, <1>8, <2>1, RowThere
    <2> QED BY <1>6, <1>9, <1>10, <1>11, <2>2 DEF was
  <1>12. CASE selected # n
    <2>1. Selected # Last(was) /\ ~(selected >= n)
      BY <1>3, <1>7, <1>9, <1>10, <1>12
    <2>2. selected' = IF RowOf(now, Selected) = 0 THEN 1 ELSE RowOf(now, Selected)
      BY <1>1, <1>3, <1>4, <2>1
    <2>3. ASSUME Selected \in Range(now)
          PROVE  Selected' = Selected
      <3>1. RowOf(now, Selected) \in 1..m /\ now[RowOf(now, Selected)] = Selected
        BY <1>3, <1>5, <2>3, PlaceIs
      <3>2. selected' = RowOf(now, Selected)
        BY <1>3, <2>2, <3>1
      <3> QED BY <1>3, <1>5, <1>8, <3>1, <3>2, RowThere
    <2> QED BY <1>6, <2>1, <2>3 DEF was
  <1> QED BY <1>11, <1>12

LEMMA BrowseStep ==
  ASSUME BrowseInv, [BrowseNext]_browseVars
  PROVE  BrowseInv'
  <1>1. CASE UNCHANGED browseVars
    <2>1. UNCHANGED <<listing, selected, detail, chosen, inspected, tab, filter, sort, reverse, folded>>
      BY <1>1 DEF browseVars, listVars
    <2>2. Listed(listing)' = Listed(listing)
      BY <2>1, ListedOfSample DEF listVars
    <2>3. Selected' = Selected
      BY <2>1, <2>2 DEF Selected, RowAt
    <2>4. EventsAreInOrder'
      BY <2>1 DEF BrowseInv, EventsAreInOrder
    <2> QED BY <2>1, <2>3, <2>4 DEF BrowseInv, SelectionIsKept, DetailIsOfOpened
  <1>2. CASE Refresh
    BY <1>2, RefreshKeeps
  <1>3. CASE BrowseNext /\ ~Refresh
    <2>1. Pressed /\ Choosing
      BY <1>3 DEF BrowseNext, Move, Filter, SortBy, Turn, Fold, Open, OpenProcess, OpenTasks,
                  EscBack, Switch
    <2> QED BY <2>1, KeysChoose
  <1> QED BY <1>1, <1>2, <1>3

\* What the user chose, and opened, stays chosen, and open, across samples:
\* App::update finds the row again by its name, once it is known to be the same
\* subject in the same boot, wherever the row is listed then.
THEOREM BrowseCorrect == BrowseSpec => ChosenIsKept
  <1>1. BrowseInit => BrowseInv
    BY BrowseStarts
  <1>2. BrowseInv /\ [BrowseNext]_browseVars => BrowseInv'
    BY BrowseStep
  <1>3. BrowseInv => SelectionIsKept /\ DetailIsOfOpened
    BY DEF BrowseInv
  <1>4. BrowseInv /\ [BrowseNext]_browseVars => [EventsAreFollowed]_browseVars
    BY EventsKept
  <1> QED BY <1>1, <1>2, <1>3, <1>4, PTL DEF BrowseSpec, ChosenIsKept

=============================================================================
