------------------------------ MODULE Timeline ------------------------------
(***************************************************************************)
(* The entity timeline behind the time cursor: App::retain_frame of        *)
(* src/src/app.rs.                                                         *)
(*                                                                         *)
(* Every sample is retained as a frame.  Frames cost bytes, and a profile  *)
(* shared by several frames costs its bytes once.  Over budget the older   *)
(* half is thinned, so that the distant past coarsens rather than goes;    *)
(* only when that is not enough are the oldest frames dropped.  The rounds *)
(* of the two loops are steps here; nothing else runs between them.        *)
(*                                                                         *)
(* Time is counted in samples.                                             *)
(***************************************************************************)
EXTENDS Integers, Sequences, FiniteSetsExt, Functions

CONSTANTS
  Hosts,          \* what a frame may cost, on a quiet host and on a busy one
  ProfileBytes,   \* what each version of the profile costs
  Budget,         \* BUDGET, 48 MiB
  MinFull,        \* MIN_FULL_RESOLUTION, 8
  MaxFrames,      \* 600
  MaxNow          \* bound: samples in a behaviour

Profiles == DOMAIN ProfileBytes

ASSUME TimelineAssumption ==
  /\ \A host \in Hosts : host # {} /\ IsFiniteSet(host) /\ host \subseteq Nat \ {0}
  /\ IsFiniteSet(Profiles) /\ ProfileBytes \in [Profiles -> Nat]
  /\ Budget \in Nat /\ MaxNow \in Nat
  /\ MinFull \in Nat \ {0, 1} /\ MaxFrames \in Nat /\ MaxFrames >= MinFull

Frame == [at : Nat, size : UNION Hosts, profile : Profiles]

VARIABLES
  sizes,      \* what a frame may cost on this host
  frames,     \* App.timeline_frames, oldest first
  profiles,   \* App.timeline_profiles: the versions that are counted
  bytes,      \* App.timeline_bytes
  pc          \* "idle" between samples, or the loop that runs

vars == <<sizes, frames, profiles, bytes, pc>>

LastFrame(s) == s[Len(s)]

ProfilesOf(fs) == {fs[i].profile : i \in DOMAIN fs}

\* recount_timeline_bytes: each frame, and each profile still in use, once.
Counted(fs) ==
  SumFunction([i \in DOMAIN fs |-> fs[i].size])
    + SumFunctionOnSet(ProfileBytes, ProfilesOf(fs))

\* App::new retains the first sample without a limit to check against.
Init ==
  /\ sizes \in Hosts
  /\ \E size \in sizes, p \in Profiles :
       frames = <<[at |-> 1, size |-> size, profile |-> p]>>
  /\ profiles = ProfilesOf(frames)
  /\ bytes = Counted(frames)
  /\ pc = "thin"

\* Mutant: a shared profile is counted with every frame.
RetainUnshared(size, p) ==
  /\ pc = "idle" /\ LastFrame(frames).at < MaxNow
  /\ frames' = Append(frames, [at |-> LastFrame(frames).at + 1, size |-> size, profile |-> p])
  /\ profiles' = profiles \cup {p}
  /\ bytes' = bytes + size + ProfileBytes[p]
  /\ pc' = "thin"
  /\ UNCHANGED sizes

\* A new sample: the running total grows by its size, and by its profile's if
\* no retained frame has that version.
Retain(size, p) ==
  /\ pc = "idle" /\ LastFrame(frames).at < MaxNow
  /\ frames' = Append(frames, [at |-> LastFrame(frames).at + 1, size |-> size, profile |-> p])
  /\ profiles' = profiles \cup {p}
  /\ bytes' = bytes + size + IF p \in profiles THEN 0 ELSE ProfileBytes[p]
  /\ pc' = "thin"
  /\ UNCHANGED sizes

\* A sample with the time of the one before is not retained again.
Repeated == pc = "idle" /\ UNCHANGED vars

\* Mutants: of the older half the other frames go; of all frames every second
\* one goes.
ThinnedOldest(fs) ==
  LET half == Len(fs) \div 2
      old  == half \div 2
  IN  [i \in 1..old + Len(fs) - half |->
         IF i <= old THEN fs[2 * i] ELSE fs[i - old + half]]

ThinnedAll(fs) == [i \in 1..(Len(fs) + 1) \div 2 |-> fs[2 * i - 1]]

\* Every second frame of the older half goes; the first one stays.
Thinned(fs) ==
  LET half == Len(fs) \div 2
      old  == (half + 1) \div 2
  IN  [i \in 1..old + Len(fs) - half |->
         IF i <= old THEN fs[2 * i - 1] ELSE fs[i - old + half]]

\* Both loops recount after each round.
Recount(fs) ==
  /\ frames' = fs
  /\ profiles' = ProfilesOf(fs)
  /\ bytes' = Counted(fs)
  /\ UNCHANGED sizes

\* Mutants: the limits end with the count of frames; the last frame may go.
CanDropCount == Len(frames) > MaxFrames
CanDropLast == Len(frames) > MaxFrames \/ bytes > Budget

CanThin == bytes > Budget /\ Len(frames) > MinFull
CanDrop == Len(frames) > MaxFrames \/ (bytes > Budget /\ Len(frames) > 1)

Thin ==
  /\ pc = "thin" /\ CanThin
  /\ Recount(Thinned(frames))
  /\ UNCHANGED pc

\* Mutant: the newest frame makes room.
DropNewest ==
  /\ pc \in {"thin", "drop"} /\ (pc = "thin" => ~CanThin) /\ CanDrop
  /\ Recount(SubSeq(frames, 1, Len(frames) - 1))
  /\ pc' = "drop"

Drop ==
  /\ pc \in {"thin", "drop"} /\ (pc = "thin" => ~CanThin) /\ CanDrop
  /\ Recount(Tail(frames))
  /\ pc' = "drop"

Retained ==
  /\ pc \in {"thin", "drop"} /\ (pc = "thin" => ~CanThin) /\ ~CanDrop
  /\ pc' = "idle"
  /\ UNCHANGED <<sizes, frames, profiles, bytes>>

Next ==
  \/ \E size \in sizes, p \in Profiles : Retain(size, p)
  \/ Repeated
  \/ Thin
  \/ Drop
  \/ Retained

Spec == Init /\ [][Next]_vars

-----------------------------------------------------------------------------
(* Properties *)

\* Every variable has its type: the timeline is never empty.
TypeOK ==
  /\ sizes \in Hosts
  /\ frames \in Seq(Frame) /\ frames # <<>>
  /\ profiles \subseteq Profiles
  /\ bytes \in Nat
  /\ pc \in {"idle", "thin", "drop"}

\* The running total is what a recount would find, a profile that frames share
\* counted once and one that no frame uses any more not at all.
BytesAreCounted == bytes = Counted(frames)

\* Between samples the timeline is within its limits; only a single frame may
\* exceed the budget.
WithinLimits ==
  pc = "idle" => /\ Len(frames) <= MaxFrames
                 /\ bytes > Budget => Len(frames) = 1

\* Thinning, repeated or not, leaves the recent past at full resolution: no gap
\* is among the newest frames, as many as thinning the shortest timeline spares.
Spared == MinFull + 1 - (MinFull + 1) \div 2

RecentPast ==
  \A i \in DOMAIN frames :
    i > 1 /\ i + Spared > Len(frames) + 1 => frames[i].at = frames[i - 1].at + 1

\* On a host whose frames fit the budget, MinFull of them, the timeline reaches
\* back to the first sample or over MaxFrames samples (the ten minutes of the
\* code's comment): the budget costs resolution and never reach.
Affordable ==
  MinFull * Max(sizes) + SumFunction(ProfileBytes) <= Budget

Reach ==
  Affordable /\ pc = "idle" =>
    Head(frames).at = 1 \/ Head(frames).at <= LastFrame(frames).at - (MaxFrames - 1)

\* The timeline is within its limits, whose running total is exact, and what it
\* gave up for them is neither the recent past nor the reach.
TimelineIsKept == TypeOK /\ BytesAreCounted /\ WithinLimits /\ RecentPast /\ Reach

\* The retained times are a FrameHistory: the newest sample is always there and
\* none comes back.
Times == {frames[i].at : i \in DOMAIN frames}

History == INSTANCE FrameHistory WITH kept <- Times

KeepsNewest == History!Spec

=============================================================================
