----------------------------- MODULE MCServices -----------------------------
(* Instances for TLC of what must go on beside the main loop: a source of   *)
(* slow metadata, the helper commands and a CPU profile.  They share no     *)
(* state, so a behaviour is of one of them, with the others at their start. *)
EXTENDS Sources, Helpers, CpuProfile

CONSTANTS a, b, c

VARIABLE part

servicesVars == <<part, sourcesVars, helpersVars, cpuProfileVars>>

\* Subjects are replaced, and demanded, one at a time: of two tasks the first;
\* PSS, which is read of all of them, of both.
Few ==
  /\ host[2] > 1 => kind = "modules/pss"
  /\ kind = "task_metadata" => \A id \in wish : id[1] = 1
  /\ host[1] > 1 => wish \subseteq {<<1, 0>>, <<1, 1>>, <<1, 2>>}

ServicesInit ==
  /\ part \in {"sources", "helpers", "profile"}
  /\ SourcesInit /\ HelpersInit /\ CpuProfileInit
  /\ part # "sources" => kind = "task_metadata"
  /\ part # "profile" => target = Everything

ServicesNext ==
  /\ UNCHANGED part
  /\ IF part = "sources" THEN SourcesNext /\ Few' ELSE UNCHANGED sourcesVars
  /\ IF part = "helpers" THEN HelpersNext ELSE UNCHANGED helpersVars
  /\ IF part = "profile" THEN CpuProfileNext ELSE UNCHANGED cpuProfileVars

\* The sampler, the clock and the worker go on; its reads and commands end by
\* limits and timeouts, unless it dies.
SourcesFairness ==
  /\ WF_sourcesVars(part = "sources" /\ List)
  /\ WF_sourcesVars(part = "sources" /\ Tick)
  /\ WF_sourcesVars(part = "sources" /\ Sample)
  /\ WF_sourcesVars(part = "sources" /\ Receive)
  /\ WF_sourcesVars(part = "sources" /\ WorkerReads)
  /\ WF_sourcesVars(part = "sources" /\ Answer)

\* The tracer polls every 20 ms and ends the capture when the sampler stopped.
CpuProfileFairness ==
  /\ WF_cpuProfileVars(part = "profile" /\ Poll)
  /\ WF_cpuProfileVars(part = "profile" /\ finished /\ Finish)
  /\ WF_cpuProfileVars(part = "profile" /\ \E k \in Keys : Fold(k) \/ ReadMappings(k))

ServicesSpec ==
  /\ ServicesInit /\ [][ServicesNext]_servicesVars
  /\ SourcesFairness /\ CpuProfileFairness

=============================================================================
