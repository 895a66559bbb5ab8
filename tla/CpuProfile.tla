------------------------------ MODULE CpuProfile ------------------------------
(***************************************************************************)
(* A CPU profile: kw_profile and kw_profile_exec                           *)
(* (src/probes/kernwatch.bpf.c) count stacks in the kernel, Sampler::poll  *)
(* (src/src/cpu_profile.rs) folds the counts into the profile and names    *)
(* the frames from the process's mappings, Probes::finish                  *)
(* (src/src/probes.rs) takes the last counts.                              *)
(*                                                                         *)
(* A process is its PID, its start and the exec generation it runs; a key  *)
(* of the count map is these and whether the user stack could be walked.   *)
(***************************************************************************)
EXTENDS Integers, FiniteSets, Functions

CONSTANTS
  Processes, CPUs,
  Everything,   \* the scope of a capture that has no process
  Entries,      \* keys the count map holds, entries=N, at most 8192
  MaxSamples, MaxHostChanges   \* bounds

ASSUME CpuProfileAssumption == IsFiniteSet(Processes) /\ MaxHostChanges \in Nat

VARIABLES
  target,    \* Sampler.target: the process the capture is of, or Everything
  subjects,      \* life: incarnation or 0, image: exec generation, execing
  hostChanges,
  online,
  links,     \* Sampler.links: the CPUs that sample
  counts,    \* profile_counts
  attempts, failures,     \* profile_stats
  execs,     \* profile_execs
  elapsed,       \* 250 ms since the last scan
  finished,  \* Sampler.finished
  scan,      \* keys this poll has to read; the one whose mappings it reads
  seen,      \* Sampler.seen, which is also the weight in the profile
  naming,    \* Sampler.frames: the process the mappings were of
  moved,     \* keys whose process went on between the check and the read
  attempted, \* profile.quality.attempted
  mapFailures,
  ended,     \* Probes::finish: no, final (its poll), read, failed
  wasTold    \* the profile carries a warning

subjectVars == <<target, subjects, hostChanges, online>>
countVars   == <<counts, attempts, failures>>
profileVars == <<seen, naming, moved, attempted, mapFailures>>
cpuProfileVars == <<subjectVars, links, countVars, execs, elapsed, finished, scan,
                    profileVars, ended, wasTold>>

Keys == Processes \X (1..MaxHostChanges + 1) \X (0..MaxHostChanges) \X BOOLEAN
Pid(k) == k[1]
Start(k) == k[2]
Exec(k) == k[3]
Walked(k) == k[4]

NotRead == <<"not read">>
Unavailable == <<"unavailable">>
Image(k) == <<Start(k), Exec(k)>>
Running(p) == <<subjects.life[p], subjects.image[p]>>
NoScan == [todo |-> {}, key |-> {}, at |-> NotRead]

CpuProfileInit ==
  /\ target \in Processes \cup {Everything}
  /\ subjects = [life |-> [p \in Processes |-> 1],
             image |-> [p \in Processes |-> 0], execing |-> {}]
  /\ hostChanges = 0 /\ online = CPUs /\ links = CPUs
  /\ counts = [k \in Keys |-> 0] /\ attempts = 0 /\ failures = 0
  /\ execs = [p \in Processes |-> -1]
  /\ elapsed = TRUE /\ finished = FALSE /\ scan = NoScan
  /\ seen = [k \in Keys |-> 0] /\ naming = [k \in Keys |-> NotRead]
  /\ moved = {} /\ attempted = 0 /\ mapFailures = 0
  /\ ended = "no" /\ wasTold = FALSE

-----------------------------------------------------------------------------
(* The host and the kernel's programs *)

Changed == hostChanges < MaxHostChanges /\ hostChanges' = hostChanges + 1

HostOnly == UNCHANGED <<target, links, countVars, elapsed, finished, scan,
                        profileVars, ended, wasTold>>

Exits(p) ==
  /\ subjects.life[p] > 0 /\ p \notin subjects.execing
  /\ Changed
  /\ subjects' = [subjects EXCEPT !.life[p] = 0]
  /\ UNCHANGED <<online, execs>> /\ HostOnly

\* The PID is given to another process; what it runs was forked, not exec'd.
Reused(p) ==
  /\ subjects.life[p] = 0
  /\ subjects' = [subjects EXCEPT !.life[p] = hostChanges + 1]
  /\ UNCHANGED <<hostChanges, online, execs>> /\ HostOnly

\* exec: the mappings are the new image's before the tracepoint fires.
Execs(p) ==
  /\ subjects.life[p] > 0 /\ p \notin subjects.execing
  /\ Changed
  /\ subjects' = [subjects EXCEPT !.image[p] = @ + 1, !.execing = @ \cup {p}]
  /\ UNCHANGED <<online, execs>> /\ HostOnly

InScope(p) == target \in {Everything, p}

\* kw_profile_exec
ExecIsTold(p) ==
  /\ p \in subjects.execing
  /\ subjects' = [subjects EXCEPT !.execing = @ \ {p}]
  /\ execs' = IF InScope(p) THEN [execs EXCEPT ![p] = subjects.image[p]] ELSE execs
  /\ UNCHANGED <<hostChanges, online>> /\ HostOnly

Hotplug ==
  /\ Changed
  /\ \E cpus \in SUBSET CPUs \ {{}} : cpus # online /\ online' = cpus
  /\ UNCHANGED <<subjects, execs>> /\ HostOnly

\* kw_profile: counted under its key, or among the failures when the map is
\* full. A target is one incarnation, by its start time.
TakeStack(p) ==
  /\ attempts < MaxSamples
  /\ links \cap online # {}
  /\ subjects.life[p] > 0 /\ InScope(p) /\ (target = p => subjects.life[p] = 1)
  /\ attempts' = attempts + 1
  /\ execs' = [execs EXCEPT ![p] = subjects.image[p]]
  /\ \E walked \in BOOLEAN :
       LET k == <<p, subjects.life[p], subjects.image[p], walked>>
       IN  IF \/ counts[k] > 0
              \/ Cardinality({x \in Keys : counts[x] > 0}) < Entries
             THEN counts' = [counts EXCEPT ![k] = @ + 1] /\ UNCHANGED failures
             ELSE failures' = failures + 1 /\ UNCHANGED counts
  /\ UNCHANGED <<subjectVars, links, elapsed, finished, scan, profileVars,
                 ended, wasTold>>

-----------------------------------------------------------------------------
(* Sampler::poll *)

TargetGone == target # Everything /\ subjects.life[target] # 1

Due ==
  /\ ~elapsed /\ elapsed' = TRUE
  /\ UNCHANGED <<subjectVars, links, countVars, execs, finished,
                 scan, profileVars, ended, wasTold>>

\* Mutant: the last read keeps the cadence too.
ScanDueOnly == elapsed

\* The counts are read four times a second, and once more at the end.
ScanDue == elapsed \/ finished'

\* Mutant: a target that is gone is sampled on, whoever has its PID.
StopsLate == finished

Stops == finished \/ TargetGone

\* Mutant: only the end is told.
EndIsTold == wasTold \/ finished' # finished

IsTold == wasTold \/ links' # links

\* Up to the loop over the counts. A target that is gone ends the sampling, an
\* end or a change of the CPUs is told; the totals are read before the counts.
Poll ==
  /\ scan = NoScan
  /\ ended = "final" \/ (ended = "no" /\ ~finished)
  /\ finished' = Stops
  /\ links' = IF finished' THEN {} ELSE online
  /\ wasTold' = IsTold
  /\ IF ScanDue
       THEN /\ elapsed' = FALSE
            /\ attempted' = attempts /\ mapFailures' = failures
            /\ scan' = [NoScan EXCEPT !.todo = {k \in Keys : counts[k] > 0}]
            /\ ended' = IF ended = "final" /\ scan'.todo = {}
                          THEN "read" ELSE ended
       ELSE /\ UNCHANGED <<elapsed, attempted, mapFailures, scan>>
            /\ ended' = IF ended = "final" THEN "read" ELSE ended
  /\ UNCHANGED <<subjectVars, countVars, execs, seen, naming, moved>>

\* Mutant: an exec that only the map knows is not looked for.
IsCurrentByStart(k) == subjects.life[Pid(k)] = Start(k)

\* valid_user: the process still is the one, and runs the image, of the sample.
IsCurrent(k) ==
  subjects.life[Pid(k)] = Start(k) /\ execs[Pid(k)] = Exec(k)

\* The key is done with; the poll that ends the capture is over with its last.
Folded(k) ==
  /\ scan' = [NoScan EXCEPT !.todo = scan.todo \ {k}]
  /\ ended' = IF ended = "final" /\ scan'.todo = {} THEN "read" ELSE ended

\* One key: what it grew by goes to the profile, under frames known already, or
\* under bare addresses, or the mappings have to be read.
Fold(k) ==
  /\ k \in scan.todo /\ scan.key = {}
  /\ seen' = [seen EXCEPT ![k] = counts[k]]
  /\ IF counts[k] > seen[k] /\ Walked(k) /\ naming[k] = NotRead
       THEN IF IsCurrent(k)
         THEN /\ scan' = [scan EXCEPT !.key = {k},
                            !.at = <<Running(Pid(k)), Pid(k) \in subjects.execing>>]
              /\ UNCHANGED <<naming, ended>>
         ELSE naming' = [naming EXCEPT ![k] = Unavailable] /\ Folded(k)
       ELSE UNCHANGED naming /\ Folded(k)
  /\ UNCHANGED <<subjectVars, links, countVars, execs, elapsed, finished,
                 moved, attempted, mapFailures, wasTold>>

\* symbols.forget, then identified of each address: /proc/<pid>/maps is read.
ReadMappings(k) ==
  /\ k \in scan.key
  /\ naming' = [naming EXCEPT ![k] = IF subjects.life[Pid(k)] = 0 THEN Unavailable
                                     ELSE Running(Pid(k))]
  /\ moved' = IF scan.at = <<Running(Pid(k)), FALSE>> THEN moved
              ELSE moved \cup {k}
  /\ Folded(k)
  /\ UNCHANGED <<subjectVars, links, countVars, execs, elapsed, finished,
                 seen, attempted, mapFailures, wasTold>>

\* Probes::finish, for the time's end, a stop or a target that is gone: the
\* sampling is detached, then poll reads what is left. A detach that fails
\* leaves that out and is told.
Finish ==
  /\ ended = "no" /\ scan = NoScan
  /\ \/ /\ links' = {} /\ finished' = TRUE /\ ended' = "final"
        /\ UNCHANGED wasTold
     \/ /\ links # {} /\ links' = {} /\ ended' = "failed" /\ wasTold' = TRUE
        /\ UNCHANGED finished
  /\ UNCHANGED <<subjectVars, countVars, execs, elapsed, scan,
                 profileVars>>

CpuProfileNext ==
  \/ \E p \in Processes :
       Exits(p) \/ Reused(p) \/ Execs(p) \/ ExecIsTold(p) \/ TakeStack(p)
  \/ Hotplug \/ Due \/ Poll \/ Finish
  \/ \E k \in Keys : Fold(k) \/ ReadMappings(k)

-----------------------------------------------------------------------------

\* When the last counts have been read the profile holds every sample the
\* kernel took: with its stack, among the unresolved, or as a map failure; a
\* last read that failed is told.
EverySampleIsAccounted ==
  ended = "read" =>
    attempts = attempted /\ attempted = SumFunction(seen) + mapFailures

\* A stack is named from the mappings of the process and the image it was
\* sampled in, or keeps its addresses; the one way to another image's names is
\* an exec or an exit between the check and the read of the mappings.
FramesAreOwn ==
  \A k \in Keys : naming[k] \in {NotRead, Unavailable, Image(k)} \/ k \in moved

\* What is sampled is known to the last CPU: a CPU that came or went is told.
CoverageIsTold == ended = "no" /\ links # CPUs => wasTold

\* Every sample is in the profile, under names of its own image, or is told.
ProfileIsAccounted == EverySampleIsAccounted /\ FramesAreOwn /\ CoverageIsTold

\* The capture of a process that is gone ends.
GoneTargetEndsCapture == <>[]TargetGone => []<>(ended \in {"read", "failed"})

=============================================================================
