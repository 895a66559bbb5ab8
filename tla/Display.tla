------------------------------ MODULE Display ------------------------------
(***************************************************************************)
(* What is on the screen: the samples of the sampler thread, freezing, the *)
(* time cursor, replay, and drilling into evidence and back.  The state is *)
(* that of App in src/src/app.rs; frames are reduced to their time and to  *)
(* where they come from.                                                   *)
(*                                                                         *)
(* Which older frames the timeline still holds depends on what frames cost *)
(* (module Timeline).  Here any of them may have gone, and the newest is   *)
(* there: what FrameHistory promises.                                      *)
(***************************************************************************)
EXTENDS Integers, SequencesExt

CONSTANTS
  Modes,         \* modes of the process: TRUE is --demo
  Recordings,    \* recordings that can be replayed, sequences of frames
  ScenarioEnds,  \* times of the demo's scenarios
  Gaps,          \* times between two samples
  Second,        \* what the arrow keys move the time cursor by
  MaxKept,       \* frames the timeline may hold, 600
  MaxRoutes,     \* bound: nested drills
  MaxSampled         \* bound: time

Frame == [at : 0..MaxSampled, demo : BOOLEAN, from : {"host", "file", "fixture"}]

ASSUME DisplayAssumption ==
  /\ Modes \subseteq BOOLEAN /\ MaxKept \in Nat \ {0}
  /\ MaxRoutes \in Nat /\ MaxSampled \in Nat \ {0}
  /\ Recordings \subseteq Seq(Frame) \ {<<>>}
  /\ Gaps \subseteq Nat \ {0} /\ Second \in Nat \ {0}
  /\ ScenarioEnds \subseteq 1..MaxSampled /\ ScenarioEnds # {}

NoCursor  == -1
NoFrame == [at |-> NoCursor]
Forever == MaxSampled + Second   \* u64::MAX: later than every frame

VARIABLES
  demo,      \* the process was started with --demo
  newest_at, \* time of the newest sample of this host
  end,       \* time of App.demo_scenario
  kept,      \* App.timeline_frames
  displayed, \* App.snapshot
  latest,    \* App.latest_snapshot: the newest frame while another is shown
  cursor,    \* App.time_cursor
  frozen,    \* App.frozen
  replay,    \* App.replay, <<>> when there is none
  index,     \* App.replay_index, from 1
  playing,   \* App.replay_playing
  routes,    \* App.routes: the cursor each drill has to restore
  opened,    \* history: the frozen frame each drill was made on, if it was frozen
  fresh      \* history: a sample arrived since the last replay or scenario

screen == <<displayed, latest, cursor>>
displayVars == <<demo, newest_at, end, kept, screen, frozen, replay, index, playing, routes,
            opened, fresh>>

Host(t)    == [at |-> t, demo |-> FALSE, from |-> "host"]
Fixture(t) == [at |-> t, demo |-> TRUE, from |-> "fixture"]

\* With --replay the first recorded frame is also the timeline's first.
DisplayInit ==
  /\ demo \in Modes /\ newest_at = 1 /\ end = Max(ScenarioEnds)
  /\ replay \in {<<>>} \cup IF demo THEN {} ELSE Recordings
  /\ displayed = IF replay # <<>> THEN Head(replay)
             ELSE IF demo THEN Fixture(end) ELSE Host(newest_at)
  /\ kept = <<displayed>> /\ latest = NoFrame /\ cursor = NoCursor
  /\ frozen = (replay # <<>>) /\ index = 1 /\ playing = FALSE
  /\ routes = <<>> /\ opened = <<>>
  /\ fresh = (replay = <<>>)

-----------------------------------------------------------------------------
(* Samples: App::update *)

Held == frozen \/ cursor # NoCursor

\* The positions of frames that stay, as many as leave room for another.
Staying ==
  {f \in UNION {[1..n -> DOMAIN kept] : n \in 0..(MaxKept - 1)} :
     \A i, j \in DOMAIN f : i < j => f[i] < f[j]}

\* retain_frame: a new time is retained, any older frame may go.
Retained(s) ==
  IF Last(kept).at = s.at THEN {kept}
  ELSE {Append([i \in DOMAIN f |-> kept[f[i]]], s) : f \in Staying}

\* Mutant: only a freeze sets the sample aside.
UpdateWhileSeeking(s) ==
  /\ kept' \in Retained(s)
  /\ latest' = IF frozen THEN s ELSE NoFrame
  /\ displayed' = IF Held THEN displayed ELSE s
  /\ fresh' = TRUE
  /\ UNCHANGED <<demo, end, cursor, frozen, replay, index, playing, routes, opened>>

Update(s) ==
  /\ kept' \in Retained(s)
  /\ latest' = IF Held THEN s ELSE NoFrame
  /\ displayed' = IF Held THEN displayed ELSE s
  /\ fresh' = TRUE
  /\ UNCHANGED <<demo, end, cursor, frozen, replay, index, playing, routes, opened>>

\* Mutant: a replay is left to its freeze.
NewSampleInReplay ==
  IF demo THEN newest_at' = newest_at /\ Update(Fixture(end))
          ELSE \E gap \in Gaps : /\ newest_at + gap <= MaxSampled
                                 /\ newest_at' = newest_at + gap /\ Update(Host(newest_at'))

\* A sample that arrives in a replay reaches the recorder only.
NewSample ==
  /\ replay = <<>>
  /\ IF demo THEN newest_at' = newest_at /\ Update(Fixture(end))
             ELSE \E gap \in Gaps : /\ newest_at + gap <= MaxSampled
                                    /\ newest_at' = newest_at + gap /\ Update(Host(newest_at'))

-----------------------------------------------------------------------------
(* The time cursor: App::seek_time *)

Position(at) ==
  Max({i \in DOMAIN replay : replay[i].at <= at} \cup {1})

\* The fixture at some time, under the label of the frame it is put in.
AtTime(at, label) ==
  [at |-> IF at >= end THEN end ELSE at, demo |-> label, from |-> "fixture"]

\* Mutant: the frame on the screen is taken for the newest.
SoughtShown(at) ==
  LET older == {i \in DOMAIN kept : kept[i].at <= at}
      To(frame, time) == [displayed |-> frame, latest |-> displayed, cursor |-> time, index |-> index]
  IN  IF replay # <<>>
        THEN [displayed |-> replay[Position(at)], latest |-> latest,
              cursor |-> NoCursor, index |-> Position(at)]
      ELSE IF at >= displayed.at
        THEN [displayed |-> displayed, latest |-> NoFrame, cursor |-> NoCursor, index |-> index]
      ELSE IF displayed.demo
        THEN To(AtTime(at, displayed.demo), at)
      ELSE IF older # {}
        THEN To(kept[Max(older)], kept[Max(older)].at)
      ELSE To(displayed, cursor)

\* What seek_time leaves in snapshot, latest_snapshot, time_cursor and
\* replay_index.
Sought(at) ==
  LET newest == IF latest = NoFrame THEN displayed ELSE latest
      older  == {i \in DOMAIN kept : kept[i].at <= at}
      To(frame, time) == [displayed |-> frame, latest |-> newest, cursor |-> time, index |-> index]
  IN  IF replay # <<>>
        THEN [displayed |-> replay[Position(at)], latest |-> latest,
              cursor |-> NoCursor, index |-> Position(at)]
      ELSE IF at >= newest.at
        THEN [displayed |-> newest, latest |-> NoFrame, cursor |-> NoCursor, index |-> index]
      ELSE IF displayed.demo
        THEN To(AtTime(at, newest.demo), at)
      ELSE IF older # {}
        THEN To(kept[Max(older)], kept[Max(older)].at)
      ELSE To(displayed, cursor)

Show(result) ==
  /\ displayed' = result.displayed /\ latest' = result.latest
  /\ cursor' = result.cursor /\ index' = result.index

\* App::cursor
CursorTime == IF cursor = NoCursor THEN displayed.at ELSE cursor

\* Left and Right: in a replay one frame, which leaves the cursor alone.
Step(i) ==
  /\ replay # <<>>
  /\ index' = i /\ displayed' = replay[i]
  /\ UNCHANGED <<latest, cursor>>

KeyLeft ==
  /\ \/ Step(Max({1, index - 1}))
     \/ replay = <<>> /\ Show(Sought(Max({0, CursorTime - Second})))
  /\ UNCHANGED <<demo, newest_at, end, kept, frozen, replay, playing, routes, opened, fresh>>

KeyRight ==
  /\ \/ Step(Min({Len(replay), index + 1}))
     \/ replay = <<>> /\ Show(Sought(CursorTime + Second))
  /\ UNCHANGED <<demo, newest_at, end, kept, frozen, replay, playing, routes, opened, fresh>>

-----------------------------------------------------------------------------
(* Freezing, replay and going live *)

\* "f" or the command freeze; verify freezes, too.
Freeze ==
  /\ frozen' = ~frozen
  /\ UNCHANGED <<demo, newest_at, end, kept, screen, replay, index, playing, routes, opened, fresh>>

\* Mutant: the position in the recording before is kept.
ReplayInPlace(r) ==
  /\ replay' = r /\ displayed' = Head(r)
  /\ playing' = FALSE /\ cursor' = NoCursor /\ frozen' = TRUE
  /\ fresh' = FALSE
  /\ UNCHANGED <<demo, newest_at, end, kept, latest, index, routes, opened>>

Replay(r) ==
  /\ replay' = r /\ index' = 1 /\ displayed' = Head(r)
  /\ playing' = FALSE /\ cursor' = NoCursor /\ frozen' = TRUE
  /\ fresh' = FALSE
  /\ UNCHANGED <<demo, newest_at, end, kept, latest, routes, opened>>

Play(b) ==
  /\ playing' = (b /\ replay # <<>>)
  /\ UNCHANGED <<demo, newest_at, end, kept, screen, frozen, replay, index, routes, opened, fresh>>

\* tick: as many frames as the elapsed time covers, one step each.
Tick ==
  /\ playing /\ replay # <<>>
  /\ IF index < Len(replay)
       THEN index' = index + 1 /\ displayed' = replay[index'] /\ cursor' = NoCursor
       ELSE UNCHANGED <<index, displayed, cursor>>
  /\ playing' = (index' < Len(replay))
  /\ UNCHANGED <<demo, newest_at, end, kept, latest, frozen, replay, routes, opened, fresh>>

Live ==
  /\ replay' = <<>> /\ frozen' = FALSE /\ cursor' = NoCursor
  /\ UNCHANGED <<demo, newest_at, end, kept, displayed, latest, index, playing, routes, opened, fresh>>

\* "l" on the Syscalls view starts a capture and releases the display.
TraceSyscalls ==
  /\ replay = <<>> /\ ~displayed.demo
  /\ frozen' = FALSE /\ cursor' = NoCursor
  /\ UNCHANGED <<demo, newest_at, end, kept, displayed, latest, replay, index, playing, routes, opened, fresh>>

\* "scenario NAME": only the telemetry of the displayed frame is replaced.
Scenario(t) ==
  /\ displayed.demo
  /\ end' = t /\ displayed' = Fixture(t) /\ latest' = displayed' /\ cursor' = NoCursor
  /\ fresh' = demo
  /\ UNCHANGED <<demo, newest_at, kept, frozen, replay, index, playing, routes, opened>>

-----------------------------------------------------------------------------
(* Drilling: App::drill, open_subject and back *)

\* The frame a drill must not change.
FrozenFrame == IF frozen THEN displayed ELSE NoFrame

\* Enter on a row: another view of the same frame.
Drill ==
  /\ Len(routes) < MaxRoutes
  /\ routes' = Append(routes, cursor) /\ opened' = Append(opened, FrozenFrame)
  /\ UNCHANGED <<demo, newest_at, end, kept, screen, frozen, replay, index, playing, fresh>>

\* Enter on a piece of evidence: another view at the evidence's time.
OpenSubject(at) ==
  /\ Len(routes) < MaxRoutes
  /\ routes' = Append(routes, cursor) /\ opened' = Append(opened, FrozenFrame)
  /\ Show(Sought(at))
  /\ UNCHANGED <<demo, newest_at, end, kept, frozen, replay, playing, fresh>>

\* Esc: without a cursor to restore it seeks the end of time; the restored
\* cursor replaces the one the seek has set.
Back ==
  /\ routes # <<>>
  /\ LET route == Last(routes)
     IN  Show([Sought(IF route = NoCursor THEN Forever ELSE route)
                 EXCEPT !.cursor = route])
  /\ routes' = Front(routes) /\ opened' = Front(opened)
  /\ UNCHANGED <<demo, newest_at, end, kept, frozen, replay, playing, fresh>>

-----------------------------------------------------------------------------
Keys ==
  \/ KeyLeft \/ KeyRight \/ Freeze \/ TraceSyscalls
  \/ Drill \/ Back
  \/ \E at \in 0..displayed.at : OpenSubject(at)

Commands ==
  \/ \E r \in Recordings : Replay(r)
  \/ \E b \in BOOLEAN : Play(b)
  \/ Live
  \/ \E t \in ScenarioEnds : Scenario(t)

DisplayNext == NewSample \/ Tick \/ Keys \/ Commands

DisplaySpec == DisplayInit /\ [][DisplayNext]_displayVars

-----------------------------------------------------------------------------
(* Properties *)

\* Every variable has its type; a position is one of the replayed recording, and
\* every route has its frame, if that was frozen.
DisplayTypeOK ==
  /\ demo \in BOOLEAN /\ newest_at \in 1..MaxSampled /\ end \in ScenarioEnds
  /\ kept \in Seq(Frame) /\ Len(kept) \in 1..MaxKept
  /\ displayed \in Frame /\ latest \in Frame \cup {NoFrame}
  /\ cursor \in -1..MaxSampled
  /\ frozen \in BOOLEAN /\ playing \in BOOLEAN /\ fresh \in BOOLEAN
  /\ replay \in Recordings \cup {<<>>}
  /\ replay # <<>> => index \in DOMAIN replay
  /\ Len(routes) = Len(opened) /\ Len(routes) <= MaxRoutes

\* The newest sample, or the demo's scenario.
Newest == IF demo THEN Fixture(end) ELSE Host(newest_at)

\* Whatever is frozen, sought or drilled into, the newest sample is at hand: it
\* is displayed or kept aside, and an older one never takes its place (the test
\* freeze_and_history_keep_latest_without_mutating_held_evidence).
LatestIsNewest ==
  fresh /\ replay = <<>> =>
    IF latest = NoFrame THEN displayed = Newest ELSE latest = Newest

\* Esc from evidence of the past that was opened on a live display, and which is
\* not frozen since, shows the newest sample again, not the one the evidence was
\* opened on. (What Esc does to a frozen display is FreezeIsImmutable.)
EscReturnsLive ==
  [][Back /\ replay = <<>> /\ fresh /\ ~frozen /\ Last(opened) = NoFrame
       /\ Last(routes) = NoCursor
     => displayed' = Newest]_displayVars

\* A replayed live recording shows the frame at its position, by whatever keys,
\* commands and ticks it was reached, and no sample gets in.
ReplayShowsIndex ==
  replay # <<>> /\ ~displayed.demo => displayed = replay[index]

\* What is on the display is what is due there: the newest sample, at hand or
\* shown, or the frame at a replay's position.
ShownIsDue == DisplayTypeOK /\ LatestIsNewest /\ ReplayShowsIndex

\* A freeze captures an immutable view (SPEC.md REC-01): entering and leaving a
\* view on the frozen display does not change the frame.
FreezeIsImmutable ==
  [][Back /\ replay = <<>> /\ frozen /\ displayed = Last(opened) => displayed' = displayed]_displayVars

=============================================================================
