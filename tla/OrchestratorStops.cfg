SPECIFICATION FairSpec
CONSTANTS
  Callers = {c1, c2}
  Chains = {ch1, ch2}
  ChainOf <- TwoAgents
  Borrowers = {b1}
  NoBorrower = NoBorrower
  RiskConfigs <- StopConfigs
  RepayUsd <- OneUsd
  MaxRepayUsd = 1
  FailSample = 2
  MaxBroadcasts = 2
  MaxErrors = 2
  MaxAttempts = 1
PROPERTIES
  AutoStopEnds
  KillSwitchHalts
CHECK_DEADLOCK FALSE
