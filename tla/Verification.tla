--------------------------- MODULE Verification ---------------------------
(***************************************************************************)
(* Did the change help: the sampler's cadence, the series it leaves        *)
(* (domain.rs), the charts drawn of it and the verdict on it (verify of    *)
(* diagnose.rs), bound to the issue on the display and to the action       *)
(* applied for it (preview, apply and verify of app.rs).                   *)
(*                                                                         *)
(* A tick is 500 ms.  A value is a small number; Limit is the engine's     *)
(* limit of the rule, Fallback the one the verify command has of its own.  *)
(***************************************************************************)
EXTENDS Integers, SequencesExt, Filters

CONSTANTS
  Window,     \* ticks a verdict looks back, 120
  LeastSamples,      \* samples it asks for, 60
  Retained,   \* samples of a series, 600
  Measures,   \* values of the metric; 0 is none
  Limit,      \* threshold of the rule
  Fallback,   \* threshold of the verify command
  MayFreeze,  \* the display may be frozen
  MaxTicks    \* bound: time

Second     == 2

\* A window has the samples a verdict asks for, and a series more than those.
ASSUME VerificationAssumption ==
  /\ Window \in Nat /\ LeastSamples \in Nat \ {0} /\ Retained \in Nat
  /\ LeastSamples * Second <= Window /\ Window \div Second < Retained
  /\ Measures \subseteq Nat /\ Limit \in Nat /\ Fallback \in Nat
  /\ MayFreeze \in BOOLEAN /\ MaxTicks \in Nat

Missing    == 0
NoIssue    == [open |-> FALSE, subject |-> Missing, rule |-> TRUE]
NoAction   == [id |-> "none", subject |-> Missing, threshold |-> Limit,
               at |-> 0, applied |-> 0]
NoVerdict  == [result |-> "none", end |-> 0, threshold |-> Limit, bound |-> FALSE, seen |-> <<>>]

VARIABLES
  clock,    \* monotonic time
  due,      \* next_sample of the sampler
  late,     \* history: it missed a deadline
  series,   \* the metric's samples, oldest first
  issue,    \* the engine's issue of the metric
  displayed,    \* the snapshot on the display: its time, series and issue
  latest,   \* App.latest_snapshot
  frozen,   \* App.frozen
  action,   \* the pending plan, then the journal's entry
  verdict   \* what the last verification said, and of which samples

verificationVars ==
  <<clock, due, late, series, issue, displayed, latest, frozen, action, verdict>>

Snapshot(at, s, i) == [at |-> at, series |-> s, issue |-> i]

VerificationInit ==
  /\ clock = 0 /\ due = 0 /\ late = FALSE
  /\ series = <<>> /\ issue = NoIssue
  /\ displayed = Snapshot(0, <<>>, NoIssue) /\ latest = displayed /\ frozen = FALSE
  /\ action = NoAction /\ verdict = NoVerdict

-----------------------------------------------------------------------------
(* Series *)

\* Series::window: what the second from start shows, its last observation.
SecondCell(s, start, stop) ==
  LET upto == {i \in DOMAIN s : s[i].at <= stop}
      last == CHOOSE i \in upto : \A j \in upto : j <= i
  IN  IF upto = {} THEN Missing
      ELSE IF s[last].at < start THEN Missing ELSE s[last].value

\* The seconds of a chart that ends at end, the oldest first; the last one is
\* not over.
Chart(s, end, seconds) ==
  [k \in 1..(seconds + 1) |->
     LET second == end \div Second - (seconds + 1 - k)
         stop   == IF second * Second + Second - 1 < end
                   THEN second * Second + Second - 1 ELSE end
     IN  IF second < 0 THEN Missing ELSE SecondCell(s, second * Second, stop)]

\* Series::push: one sample of a time, and the newest of them.
Pushed(s, at, value) ==
  IF s # <<>> /\ Last(s).at = at THEN s
  ELSE LET all == Append(s, [at |-> at, value |-> value])
       IN  IF Len(all) > Retained THEN Tail(all) ELSE all

-----------------------------------------------------------------------------
(* diagnose::verify *)

Considered(s, end) ==
  LET start == IF end < Window THEN 0 ELSE end - Window
  IN  Filtered(s, {x \in ToSet(s) : x.at >= start /\ x.at <= end})

\* Mutants: a sample without a value counts; as many samples as seconds and one.
UncoveredNoValue(seen, end) ==
  \/ end < Window
  \/ Len(seen) < LeastSamples
  \/ Head(seen).at > end - Window + Second
  \/ end - Last(seen).at > Second
  \/ \E i \in 1..(Len(seen) - 1) : seen[i + 1].at - seen[i].at > Second + 1

UncoveredStrict(seen, end) ==
  \/ end < Window
  \/ Len(seen) <= LeastSamples
  \/ Head(seen).at > end - Window + Second
  \/ end - Last(seen).at > Second
  \/ \E i \in 1..(Len(seen) - 1) : seen[i + 1].at - seen[i].at > Second + 1
  \/ \E i \in DOMAIN seen : seen[i].value = Missing

Uncovered(seen, end) ==
  \/ end < Window
  \/ Len(seen) < LeastSamples
  \/ Head(seen).at > end - Window + Second
  \/ end - Last(seen).at > Second
  \/ \E i \in 1..(Len(seen) - 1) : seen[i + 1].at - seen[i].at > Second + 1
  \/ \E i \in DOMAIN seen : seen[i].value = Missing

Verdict(s, end, threshold) ==
  LET seen == Considered(s, end)
  IN  IF Uncovered(seen, end) THEN "Inconclusive"
      ELSE IF \E i \in DOMAIN seen : seen[i].value > threshold THEN "Failed"
      ELSE "Passed"

-----------------------------------------------------------------------------
(* The sampler and the display *)

Wait ==
  /\ clock < MaxTicks
  /\ clock < due \/ ~late    \* bound: the sampler is held up once
  /\ clock' = clock + 1
  /\ UNCHANGED <<due, late, series, issue, displayed, latest, frozen, action, verdict>>

\* The engine opens the issue, or tells its latest value; sustained deviation
\* and resolution are in Diagnosis.
Observed(value) ==
  IF value > Limit THEN [NoIssue EXCEPT !.open = TRUE, !.subject = value] ELSE issue

\* Mutant: a second of the last sample, whenever that was.
NextDueDrifting(from) == clock + Second

\* A second after the last deadline, or after now when that is over.
NextDue(from) == IF from + Second <= clock THEN clock + Second ELSE from + Second

\* The sampler's frame reaches the main thread and, unless it is frozen, the
\* display.
TakeSample(value) ==
  /\ clock >= due
  /\ due' = NextDue(due)
  /\ late' = (late \/ clock - due >= Second)
  /\ series' = Pushed(series, clock, value)
  /\ issue' = Observed(value)
  /\ latest' = Snapshot(clock, series', issue')
  /\ displayed' = IF frozen THEN displayed ELSE latest'
  /\ UNCHANGED <<clock, frozen, action, verdict>>

\* The display is frozen; or it is not any more and the latest sample shown.
Freeze ==
  /\ MayFreeze
  /\ frozen' = ~frozen
  /\ displayed' = IF frozen THEN latest ELSE displayed
  /\ UNCHANGED <<clock, due, late, series, issue, latest, action, verdict>>

-----------------------------------------------------------------------------
(* Actions and verdicts *)

\* The preview is bound to the issue as it is shown.
Preview ==
  /\ displayed.issue.open /\ action.id = "none"
  /\ action' = [NoAction EXCEPT !.id = "pending", !.subject = displayed.issue.subject,
                                !.threshold = IF displayed.issue.rule THEN Limit ELSE Missing]
  /\ UNCHANGED <<clock, due, late, series, issue, displayed, latest, frozen, verdict>>

\* The reviewed action is written to the host; when is taken from the display.
Apply ==
  /\ action.id = "pending"
  /\ action' = [action EXCEPT !.id = "applied", !.at = displayed.at, !.applied = clock]
  /\ UNCHANGED <<clock, due, late, series, issue, displayed, latest, frozen, verdict>>

\* The journal's entry is the issue's when it was applied for it and for the
\* same subject.
Bound == action.id = "applied" /\ displayed.issue.open /\ action.subject = displayed.issue.subject

\* The threshold is the action's, the rule's as the issue tells it, or the
\* command's own.
Threshold ==
  IF Bound /\ action.threshold # Missing THEN action.threshold
  ELSE IF displayed.issue.rule THEN Limit
  ELSE Fallback

\* The verdict takes the place of the issue's criterion, and freezes the
\* display.  An action is given a whole window before it is judged.
Verify(end) ==
  /\ displayed.issue.open
  /\ end \in displayed.at..clock
  /\ end < displayed.at + Second
  /\ verdict' = [result    |-> IF Bound /\ end < action.at + Window THEN "Inconclusive"
                               ELSE Verdict(displayed.series, end, Threshold),
                 end       |-> end,
                 threshold |-> Threshold,
                 bound     |-> Bound,
                 seen      |-> displayed.series]
  /\ frozen' = TRUE
  /\ displayed' = [displayed EXCEPT !.issue.rule = FALSE]
  /\ UNCHANGED <<clock, due, late, series, issue, latest, action>>

VerificationNext ==
  \/ Wait
  \/ \E value \in Measures : TakeSample(value)
  \/ Freeze
  \/ Preview
  \/ Apply
  \/ \E end \in 0..MaxTicks : Verify(end)

-----------------------------------------------------------------------------
(* Properties *)

\* When verification passes, the chart of the same period on the same display
\* shows no value above the threshold and no two blank seconds on end.
PassedAsCharted ==
  verdict.result = "Passed" =>
    LET chart == Chart(verdict.seen, verdict.end, Window \div Second - 1)
    IN  /\ \A k \in DOMAIN chart : chart[k] <= verdict.threshold
        /\ \A k \in 1..(Len(chart) - 1) : chart[k] # Missing \/ chart[k + 1] # Missing

\* A sampler that never was a second late leaves a series that a verdict can
\* be given on, once a window of it has passed with no value missing: jitter
\* alone makes nothing inconclusive.
SteadyIsConclusive ==
  verdict.result = "Inconclusive" /\ ~verdict.bound =>
    \/ late
    \/ verdict.end < Window
    \/ \E i \in DOMAIN verdict.seen : verdict.seen[i].value = Missing

\* A verdict is that of the chart, and is given whenever the chart is whole.
VerdictIsCharted == PassedAsCharted /\ SteadyIsConclusive

=============================================================================
