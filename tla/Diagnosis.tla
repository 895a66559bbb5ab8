----------------------------- MODULE Diagnosis -----------------------------
(***************************************************************************)
(* The life of an issue: Engine::update of src/src/diagnose.rs, run by the *)
(* main thread on every live sample, and the engine's file, which a later  *)
(* process loads, perhaps in another boot.                                 *)
(*                                                                         *)
(* Subjects come and go with the samples.  A value is reduced to how it    *)
(* compares: above the rule's limit, deviant from the subject's baseline,  *)
(* or neither.  An affinity change is observed once per event of the last  *)
(* minute, so one sample may observe a subject several times.              *)
(***************************************************************************)
EXTENDS Integers, FiniteSetsExt

CONSTANTS
  Keys,        \* subjects of the rules
  Repeats,     \* how often one sample may observe a subject
  Scopes,      \* CPUs, cgroups and their limits
  Gaps,        \* times between two samples; long ones after a replay
  Sustained,   \* anomalous observations that open an issue, 3
  ClearTime,   \* 60_000 ms
  ForgetTime,  \* FORGET_MS, 600_000 ms
  ReadyCount,  \* observations of a baseline that is ready, 1800
  ReadyTime,   \* and their time, 1_800_000 ms
  MaxNow,      \* bound: time in a boot
  MaxStarts    \* bound: processes

ASSUME DiagnosisAssumption ==
  /\ Repeats \subseteq Nat \ {0} /\ Gaps \subseteq Nat \ {0} /\ Gaps # {}
  /\ IsFiniteSet(Gaps)
  /\ Sustained \in Nat \ {0} /\ ReadyCount \in Nat \ {0}
  /\ ClearTime \in Nat /\ ForgetTime \in Nat /\ ReadyTime \in Nat
  /\ MaxNow \in Nat /\ MaxStarts \in Nat

NoTime     == -1
NoBaseline == [count |-> 0, since |-> NoTime]
Seconds    == 0..MaxNow

Readings == {"missing", "normal", "deviant", "high"}
Issues   == {"none", "open", "resolved", "data unavailable"}

\* What the maps of Engine hold of a subject.
Unknown ==
  [baseline |-> NoBaseline, issue |-> "none", streak |-> 0,
   clear |-> NoTime, absent |-> NoTime]

NoBoot == 0
Fresh  == [of |-> [k \in Keys |-> Unknown], boot |-> NoBoot, scope |-> NoBoot]

\* History of a subject, in samples: those that found it anomalous since the
\* last that found it normal (some), the last of them with none between that
\* misses it (row), and whether one of them observed it more than once (many);
\* the first of the samples in a row that found it normal (clean); the first
\* since its last observation that misses it (lost); the normal ones of this
\* boot and scope.
NoPast == [some |-> 0, row |-> 0, many |-> FALSE, clean |-> NoTime, lost |-> NoTime,
           normals |-> 0]

VARIABLES
  now,     \* monotonic time of the last sample
  boot,    \* boots of the host
  engine,  \* the engine of the running process
  past,    \* history: what that engine was told
  file,    \* baselines.json: an engine and its past
  starts   \* processes started

vars == <<now, boot, engine, past, file, starts>>

NothingPast == [k \in Keys |-> NoPast]

Init ==
  /\ now = 0 /\ boot = 1
  /\ engine = Fresh /\ past = NothingPast
  /\ file = [engine |-> Fresh, past |-> NothingPast]
  /\ starts = 1

-----------------------------------------------------------------------------
(* Engine::update, subject by subject *)

\* Mutant: the baselines of the boot before are kept.
RebootedPartly(s) == [s EXCEPT !.issue = "none", !.streak = 0, !.clear = NoTime]

\* Another boot: all but the times of absence is cleared.
Rebooted(s) ==
  [s EXCEPT !.baseline = NoBaseline, !.issue = "none", !.streak = 0, !.clear = NoTime]

\* Another scope: the baselines are cleared.
Rescoped(s) == [s EXCEPT !.baseline = NoBaseline]

\* Baseline::ready
Ready(baseline, at) ==
  baseline.count >= ReadyCount /\ at - baseline.since >= ReadyTime

Anomalous(s, reading, at) ==
  reading = "high" \/ (reading = "deviant" /\ Ready(s.baseline, at))

\* Baseline::add.  Counting on beyond ReadyCount makes no difference.
Learned(baseline, at) ==
  IF baseline.count = 0 THEN [count |-> 1, since |-> at]
  ELSE [baseline EXCEPT !.count = Min({@ + 1, ReadyCount})]

\* Mutant: the time below the limit goes on.
RaisedStillClear(s, times) ==
  LET streak == s.streak + times
  IN  [s EXCEPT !.streak = streak, !.absent = NoTime,
                !.issue = IF streak >= Sustained THEN "open" ELSE @]

\* An anomalous subject: its streak grows with every observation.
Raised(s, times) ==
  LET streak == s.streak + times
  IN  [s EXCEPT !.streak = streak, !.clear = NoTime, !.absent = NoTime,
                !.issue = IF streak >= Sustained THEN "open" ELSE @]

\* A normal subject: learned, and clear since its first normal observation.
Cleared(s, at) ==
  LET since == IF s.clear = NoTime THEN at ELSE s.clear
  IN  [s EXCEPT !.streak = 0, !.clear = since, !.absent = NoTime,
                !.baseline = Learned(@, at),
                !.issue = IF @ # "none" /\ at - since >= ClearTime THEN "resolved" ELSE @]

\* Mutants: an issue goes on where it was; a subject's first absence is not
\* noted.
MissedInStreak(s, at) ==
  LET gone == IF s.absent # NoTime THEN s.absent
              ELSE IF s.issue # "none" \/ s.baseline # NoBaseline THEN at ELSE NoTime
      left == IF s.issue = "none" THEN s ELSE [s EXCEPT !.issue = "data unavailable"]
  IN  IF gone # NoTime /\ at >= gone + ForgetTime THEN Unknown
      ELSE [left EXCEPT !.absent = gone]

MissedAnew(s, at) ==
  LET left == IF s.issue = "none" THEN s
              ELSE [s EXCEPT !.issue = "data unavailable", !.clear = NoTime, !.streak = 0]
  IN  IF s.absent # NoTime /\ at >= s.absent + ForgetTime THEN Unknown
      ELSE [left EXCEPT !.absent = at]

\* A subject the sample does not have: its issue is unavailable; ForgetTime
\* after it was missed first, it is forgotten.
Missed(s, at) ==
  LET gone == IF s.absent # NoTime THEN s.absent
              ELSE IF s.issue # "none" \/ s.baseline # NoBaseline THEN at ELSE NoTime
      left == IF s.issue = "none" THEN s
              ELSE [s EXCEPT !.issue = "data unavailable", !.clear = NoTime, !.streak = 0]
  IN  IF gone # NoTime /\ at >= gone + ForgetTime THEN Unknown
      ELSE [left EXCEPT !.absent = gone]

\* A new subject has an empty baseline from its first observation.
Started(s, at) ==
  IF s.baseline = NoBaseline THEN [s EXCEPT !.baseline = [count |-> 0, since |-> at]] ELSE s

Updated(s, reading, times, at) ==
  IF reading = "missing" THEN Missed(s, at)
  ELSE IF Anomalous(s, reading, at) THEN Raised(Started(s, at), times)
  ELSE Cleared(Started(s, at), at)

\* The subject's state when the sample's boot and scope were compared.
Compared(s, sampled) ==
  LET booted == IF engine.boot = boot THEN s ELSE Rebooted(s)
  IN  IF engine.scope = sampled THEN booted ELSE Rescoped(booted)

-----------------------------------------------------------------------------
(* What the engine was told *)

Told(p, anomalous, reading, times, at) ==
  IF reading = "missing"
  THEN [p EXCEPT !.row = 0, !.clean = NoTime, !.lost = IF @ = NoTime THEN at ELSE @]
  ELSE IF anomalous
  THEN [p EXCEPT !.some = Min({@ + 1, Sustained}), !.row = Min({@ + 1, Sustained}),
                 !.many = @ \/ times > 1, !.clean = NoTime, !.lost = NoTime]
  ELSE [p EXCEPT !.some = 0, !.row = 0, !.many = FALSE, !.lost = NoTime,
                 !.clean = IF @ = NoTime THEN at ELSE @,
                 !.normals = Min({@ + 1, ReadyCount})]

\* The past of another boot or scope has no normal observation of this one.
PastOf(p, sampled) ==
  IF engine.boot # boot THEN NoPast
  ELSE IF engine.scope # sampled THEN [p EXCEPT !.normals = 0]
  ELSE p

-----------------------------------------------------------------------------
\* A live sample.  Every minute the engine is saved after it, unless that fails.
Sample(gap, sampled, reading, times, saved) ==
  /\ now + gap <= MaxNow
  /\ saved => starts < MaxStarts    \* bound: no process reads what the last one saves
  /\ times > 1 => \E k \in Keys : reading[k] = "high"    \* softirq > 70, the limit
  /\ now' = now + gap
  /\ engine' = [of    |-> [k \in Keys |-> Updated(Compared(engine.of[k], sampled),
                                                  reading[k], times, now')],
                boot  |-> boot,
                scope |-> sampled]
  /\ past' = [k \in Keys |->
                Told(PastOf(past[k], sampled),
                     Anomalous(Compared(engine.of[k], sampled), reading[k], now'),
                     reading[k], times, now')]
  /\ file' = IF saved THEN [engine |-> engine', past |-> past'] ELSE file
  /\ UNCHANGED <<boot, starts>>

\* The process ends, saving its engine or not, and another one loads the file,
\* in this boot or the next; a file that cannot be read is an empty engine.
Restart(clean, rebooted, readable) ==
  /\ starts < MaxStarts
  /\ starts' = starts + 1
  /\ file' = IF clean THEN [engine |-> engine, past |-> past] ELSE file
  /\ engine' = IF readable THEN file'.engine ELSE Fresh
  /\ past' = IF readable THEN file'.past ELSE NothingPast
  /\ boot' = IF rebooted THEN boot + 1 ELSE boot
  /\ now' = IF rebooted THEN 0 ELSE now

Next ==
  \/ \E gap \in Gaps, sampled \in Scopes, reading \in [Keys -> Readings],
        times \in Repeats, saved \in BOOLEAN :
       Sample(gap, sampled, reading, times, saved)
  \/ \E clean \in BOOLEAN, rebooted \in BOOLEAN, readable \in BOOLEAN :
       Restart(clean, rebooted, readable)

Spec == Init /\ [][Next]_vars

-----------------------------------------------------------------------------
(* Properties *)

Subject ==
  [baseline : [count : 0..ReadyCount, since : Seconds \cup {NoTime}],
   issue    : Issues,
   streak   : Nat,
   clear    : Seconds \cup {NoTime},
   absent   : Seconds \cup {NoTime}]

\* Every variable has its type, and a subject is not counted clear and in a
\* streak at once.
TypeOK ==
  /\ now \in Seconds /\ boot \in Nat /\ starts \in Nat
  /\ engine.of \in [Keys -> Subject] /\ file.engine.of \in [Keys -> Subject]
  /\ engine.boot \in 0..boot
  /\ \A k \in Keys : engine.of[k].streak = 0 \/ engine.of[k].clear = NoTime

Samples == starts' = starts

Opens(k)    == Samples /\ engine.of[k].issue # "open" /\ engine'.of[k].issue = "open"
Resolves(k) == Samples /\ engine.of[k].issue # "resolved" /\ engine'.of[k].issue = "resolved"

\* A subject observed once a sample has an issue opened by no fewer than
\* Sustained anomalous samples with no normal one between; opened again in the
\* same boot, by Sustained in a row.  Two ways to open on less are excepted:
\* several observations of one sample, and, for the first issue, samples before
\* and after an absence (OpensSustained).
OpensOnStreak ==
  \A k \in Keys : Opens(k) /\ ~past'[k].many =>
    /\ past'[k].some >= Sustained
    /\ engine.of[k].issue # "none" /\ engine.boot = boot => past'[k].row >= Sustained

\* An issue is resolved only after samples over ClearTime that all found its
\* subject normal, by whichever process; they need not be more than the first
\* and the last.
ResolvesClear ==
  \A k \in Keys : Resolves(k) =>
    past'[k].clean # NoTime /\ now' - past'[k].clean >= ClearTime

\* An issue opens, and is resolved, on what samples found of its subject, and on
\* enough of it, but for what OpensOnStreak excepts.
IssuesAreEarned == [][OpensOnStreak /\ ResolvesClear]_vars

\* Only sustained deviations open an issue, never the noise of one sample
\* (docs/SPEC.md, DIAG-01): Sustained samples in a row found its subject
\* anomalous, the first time too and however often each observed it.
OpensSustained == [][\A k \in Keys : Opens(k) => past'[k].row >= Sustained]_vars

\* A baseline counts no observation of another boot or scope, saved or not.
BaselineOfScope ==
  engine.boot = boot => \A k \in Keys : engine.of[k].baseline.count <= past[k].normals

\* What the engine holds of a subject is consistent, and of the present scope.
EngineIsOfScope == TypeOK /\ BaselineOfScope

GoneLong(k) == past[k].lost # NoTime /\ now - past[k].lost >= ForgetTime

\* A subject that samples missed for ForgetTime has no issue and no baseline
\* any more, whichever process saw it last and whatever was wiped meanwhile.
GoneIsForgotten ==
  [][\A k \in Keys :
       Samples /\ GoneLong(k)' => engine'.of[k].issue = "none"
                                 /\ engine'.of[k].baseline = NoBaseline]_vars

\* A subject is forgotten once it has been gone long enough, or the saved state
\* grows until it is refused on load (the comment of FORGET_MS).
NothingLingers ==
  [][\A k \in Keys :
       Samples /\ GoneLong(k)' => engine'.of[k].streak = 0
                                 /\ engine'.of[k].clear = NoTime]_vars

=============================================================================
