--------------------------- MODULE MCOrchestrator ---------------------------
(* Instances of Orchestrator for TLC. *)
EXTENDS Orchestrator, TLC

Risk(live, usd, hourly, bypass, failPct, stop) ==
  [dryRun |-> FALSE, maxLiveExecutions |-> live, maxSessionNotionalUsd |-> usd,
   maxAttemptsPerBorrowerHour |-> hourly, throttleBypass |-> bypass,
   failRateCapPct |-> failPct, autoStop |-> stop]

\* Three callers of one agent can be exchanged; two callers of two agents cannot.
OneAgent == [c \in Callers |-> CHOOSE ch \in Chains : TRUE]
Exchangeable == Permutations(Callers)
TwoAgents == CHOOSE f \in [Callers -> Chains] : \A ch \in Chains : \E c \in Callers : f[c] = ch

CapConfigs == { Risk(1, 0, 0, FALSE, 0, FALSE), Risk(0, 4, 0, FALSE, 0, FALSE),
                [Risk(2, 4, 0, FALSE, 0, FALSE) EXCEPT !.dryRun = TRUE] }
LiveCapConfigs == { Risk(1, 0, 0, FALSE, 0, FALSE) }
ThrottleConfigs == { Risk(2, 0, 1, b, 0, FALSE) : b \in BOOLEAN }
SafetyConfigs == CapConfigs \cup ThrottleConfigs
StopConfigs == { Risk(0, 0, 0, FALSE, 50, TRUE), Risk(0, 0, 0, FALSE, 50, FALSE) }
OneUsd == {1}
ThreeUsd == {3}
=============================================================================
