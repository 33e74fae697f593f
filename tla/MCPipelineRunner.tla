-------------------------- MODULE MCPipelineRunner --------------------------
(* Instances of PipelineRunner for TLC. *)
EXTENDS PipelineRunner

Risk(dryRun, live, usd, hourly, failPct, stop) ==
  [dryRun |-> dryRun, maxLiveExecutions |-> live, maxSessionNotionalUsd |-> usd,
   maxAttemptsPerBorrowerHour |-> hourly, failRateCapPct |-> failPct, autoStop |-> stop]

\* Caps: each cap alone, both, and a dry run.
CapConfigs == { Risk(FALSE, 2, 0, 1, 0, FALSE), Risk(FALSE, 0, 4, 1, 0, FALSE),
                Risk(FALSE, 2, 3, 1, 0, FALSE), Risk(TRUE, 2, 3, 1, 0, FALSE) }
OneOrThree == {1, 3}

\* Throttle: two attempts per hour, one live execution per process is no cap here.
ThrottleConfigs == { Risk(FALSE, 0, 0, 2, 0, FALSE) }

\* Fail rate: five attempts are a sample; half of them may fail.
FailConfigs == { Risk(FALSE, 0, 0, 1, 50, s) : s \in BOOLEAN }

SafetyConfigs == CapConfigs \cup ThrottleConfigs \cup FailConfigs

OneRepay == {1}
=============================================================================
