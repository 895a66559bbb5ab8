---------------------------- MODULE BpfPrograms ----------------------------
(***************************************************************************)
(* The BPF programs of the host as a worker thread reads them and the      *)
(* sampler shows them (src/src/bpf.rs): requests and results go through    *)
(* channels of one, an enumeration may end early, and a program's rates,   *)
(* helpers and series must be of that program.                             *)
(***************************************************************************)
EXTENDS Integers, Sequences, FiniteSets

CONSTANTS
  MaxId,         \* program ids 1..MaxId
  Inspections,   \* programs whose helpers are read per collection, 8 in the code
  MetadataTtl,   \* how long helpers are kept, a minute
  StaleAfter,    \* when a result is not current any more, ten seconds
  KeepSeries,    \* when the sampler drops a series without samples, ten minutes
  MaxProgramLoads, MaxBpfTime   \* bounds

ASSUME BpfAssumption ==
  /\ MaxId \in Nat /\ Inspections \in Nat /\ MaxProgramLoads \in Nat /\ MaxBpfTime \in Nat
  /\ MetadataTtl \in Nat /\ StaleAfter \in Nat /\ KeepSeries \in Nat

VARIABLES
  programs,  \* the host's programs by id; no two loads have one tag
  loads,
  bpf_now,
  request,   \* the request channel: when it was sent
  work,      \* the request the worker collects for
  results,   \* the result channel
  collector, \* what the worker keeps: previous readings, tags, helpers
  worker_series,
  newest_result,  \* the sampler's newest result
  series,    \* the sampler's history
  shown_programs  \* the sample it made last

bpfVars == <<programs, loads, bpf_now, request, work, results, collector, worker_series,
             newest_result, series, shown_programs>>

Nobody == <<>>
Never == -1
Ids == 1..MaxId
NoResult == [at |-> Never, read |-> Never, rows |-> Nobody, total |-> FALSE, loaded |-> {}, series |-> Nobody]

BpfInit ==
  /\ programs = Nobody /\ loads = 0 /\ bpf_now = 0
  /\ request = Never /\ work = Never /\ results = {}
  /\ collector = [previous |-> Nobody, identities |-> Nobody, metadata |-> Nobody, round |-> 0]
  /\ worker_series = Nobody /\ newest_result = NoResult /\ series = Nobody
  /\ shown_programs = [at |-> Never, result |-> NoResult, rows |-> Nobody, total |-> FALSE]

-----------------------------------------------------------------------------
(* Maps by id *)

Only(f, ids) == [id \in DOMAIN f \cap ids |-> f[id]]

\* HashMap::insert and extend: what f has of an id replaces what g has.
Over(f, g) == [id \in DOMAIN f \cup DOMAIN g |-> IF id \in DOMAIN f THEN f[id] ELSE g[id]]

-----------------------------------------------------------------------------
(* The host *)

\* An id is used again, the cyclic allocator of the kernel permitting.
LoadProgram(id) ==
  /\ id \notin DOMAIN programs /\ loads < MaxProgramLoads
  /\ programs' = Over([i \in {id} |-> loads + 1], programs) /\ loads' = loads + 1
  /\ UNCHANGED <<bpf_now, request, work, results, collector, worker_series, newest_result, series,
                 shown_programs>>

UnloadProgram(id) ==
  /\ id \in DOMAIN programs /\ programs' = Only(programs, Ids \ {id})
  /\ UNCHANGED <<loads, bpf_now, request, work, results, collector, worker_series, newest_result,
                 series, shown_programs>>

PassTime ==
  /\ bpf_now < MaxBpfTime /\ bpf_now' = bpf_now + 1
  /\ UNCHANGED <<programs, loads, request, work, results, collector, worker_series, newest_result,
                 series, shown_programs>>

-----------------------------------------------------------------------------
(* The worker *)

TakeRequest ==
  /\ work = Never /\ request # Never
  /\ work' = request /\ request' = Never
  /\ UNCHANGED <<programs, loads, bpf_now, results, collector, worker_series, newest_result, series,
                 shown_programs>>

\* Mutant: a program is known by its id.
SameById(id) == id \in DOMAIN collector.identities

\* By its tag: loaded_at() of one program differs from reading to reading.
SameProgram(id) ==
  id \in DOMAIN collector.identities /\ collector.identities[id] = programs[id]

\* What was kept of an id is forgotten with the program it was of.
Known(f, listed) == Only(f, (Ids \ listed) \cup {id \in listed : SameProgram(id)})

\* Those without recent helpers, as many as a collection inspects.
Inspected(listed) ==
  LET old == Known(collector.metadata, listed)
      due == {id \in listed :
                ~(id \in DOMAIN old /\ bpf_now - old[id].at < MetadataTtl)}
  IN  {id \in due : Cardinality({i \in due : i <= id}) <= Inspections}

HelpersOf(listed) ==
  Over([id \in Inspected(listed) |-> [of |-> programs[id], at |-> bpf_now]],
       Only(Known(collector.metadata, listed), listed))

\* The reading a rate is taken to, if there is one; no rates without statistics.
RatedBy(listed, enabled) ==
  IF enabled THEN Only(Known(collector.previous, listed), listed) ELSE Nobody

\* Mutant: what is kept of programs that were not reached stays.
KeptForAll(listed) ==
  [previous |-> Over([id \in listed |-> [of |-> programs[id], round |-> collector.round + 1]],
                     collector.previous),
   identities |-> Over(Only(programs, listed), collector.identities),
   metadata |-> HelpersOf(listed), round |-> collector.round + 1]

\* Nothing is kept of programs that were not reached.
Kept(listed) ==
  [previous |-> [id \in listed |-> [of |-> programs[id], round |-> collector.round + 1]],
   identities |-> Only(programs, listed),
   metadata |-> HelpersOf(listed), round |-> collector.round + 1]

\* A series: when its newest sample is of, and the programs its samples are of.
Extended(listed) ==
  LET old == Known(worker_series, listed)
  IN  Over([id \in listed |-> [at |-> work,
              of |-> {programs[id]} \cup IF id \in DOMAIN old THEN old[id].of ELSE {}]],
           old)

\* Mutant: a total of those that were reached.
TotalOfReached(listed, rated, failed) == listed # {} /\ DOMAIN rated = listed

Totalled(listed, rated, failed) == ~failed /\ listed # {} /\ DOMAIN rated = listed

\* An enumeration ends at the first program that cannot be read, or at its limit.
\* It is taken as of one moment: no program is loaded or unloaded inside it.
Collect ==
  /\ work # Never
  /\ \E last \in 0..MaxId, enabled, failed \in BOOLEAN :
       LET listed == {id \in DOMAIN programs : failed => id <= last}
           rated == RatedBy(listed, enabled)
           extended == Extended(listed)
           kept == Kept(listed)
       IN  /\ failed \/ last = MaxId
           /\ collector' = kept
           /\ worker_series' = extended
           /\ results' = IF results # {} THEN results
                ELSE {[at |-> work, read |-> bpf_now, series |-> extended, loaded |-> DOMAIN programs,
                       total |-> enabled /\ Totalled(listed, rated, failed),
                       rows |-> [id \in listed |->
                         [of |-> programs[id], round |-> kept.round,
                          since |-> Only(rated, {id}),
                          helpers |-> Only(kept.metadata, {id})]]]}
  /\ work' = Never
  /\ UNCHANGED <<programs, loads, bpf_now, request, newest_result, series, shown_programs>>

-----------------------------------------------------------------------------
(* The sampler *)

StillSampled == [id \in {i \in DOMAIN series : bpf_now - series[i].at < KeepSeries} |-> series[id]]

\* Mutant: a result is as old as its receipt.
CurrentWhenReceived(result) == results # {}

Current(result) == bpf_now - result.at < StaleAfter

\* Of an old result the rates are not shown, nor the total.
Shown(result) ==
  [at |-> bpf_now, result |-> result, total |-> result.total /\ Current(result),
   rows |-> IF Current(result) THEN result.rows
            ELSE [id \in DOMAIN result.rows |-> [result.rows[id] EXCEPT !.since = Nobody]]]

\* Series of the newest result are put back whatever became of them.
SamplePrograms ==
  /\ shown_programs.at < bpf_now
  /\ newest_result' = IF results = {} THEN newest_result ELSE CHOOSE r \in results : TRUE
  /\ results' = {}
  /\ request' = IF request = Never THEN bpf_now ELSE request
  /\ series' = Over(newest_result'.series, StillSampled)
  /\ shown_programs' = Shown(newest_result')
  /\ UNCHANGED <<programs, loads, bpf_now, work, collector, worker_series>>

BpfNext ==
  \/ PassTime \/ TakeRequest \/ Collect \/ SamplePrograms
  \/ \E id \in Ids : LoadProgram(id) \/ UnloadProgram(id)

BpfSpec == BpfInit /\ [][BpfNext]_bpfVars

-----------------------------------------------------------------------------
\* A row's rate and helpers are of the program the row is of, though its id was
\* another's before.
BpfRowsAreOwn ==
  \A id \in DOMAIN shown_programs.rows :
    LET row == shown_programs.rows[id] IN
    /\ \A i \in DOMAIN row.since : row.since[i].of = row.of
    /\ \A i \in DOMAIN row.helpers : row.helpers[i].of = row.of

\* The runs and the time of a rate are those since the collection before, which
\* is what they are divided by, also after an enumeration that ended early.
BpfRateSpansRound ==
  \A id \in DOMAIN shown_programs.rows :
    LET row == shown_programs.rows[id] IN
    \A i \in DOMAIN row.since : row.since[i].round = row.round - 1

\* A total that is shown is of every program that was loaded at its enumeration,
\* and that was recently, however long the worker took or was not asked.
BpfTotalIsComplete ==
  shown_programs.total =>
    /\ shown_programs.at - shown_programs.result.read < StaleAfter
    /\ shown_programs.result.loaded = {id \in DOMAIN shown_programs.rows :
                             shown_programs.rows[id].since # Nobody}

\* A series that is shown has samples of one program.
BpfSeriesAreOwn == \A id \in DOMAIN series : Cardinality(series[id].of) = 1

\* The figures of a program are its own and of the time they are given for.
BpfFiguresAreOwn ==
  BpfRowsAreOwn /\ BpfRateSpansRound /\ BpfTotalIsComplete /\ BpfSeriesAreOwn

\* "Other series are kept until they go stale" (src/src/enrich.rs:852): while
\* the worker keeps up, no series is without samples for KeepSeries.
SeriesGoStale ==
  shown_programs.at - shown_programs.result.at < StaleAfter =>
    \A id \in DOMAIN series : shown_programs.at - series[id].at < KeepSeries

=============================================================================
