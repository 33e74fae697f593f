SPECIFICATION FairSpec
CONSTANTS
  Callers = {c1, c2}
  Chains = {ch}
  ChainOf <- OneAgent
  Borrowers = {b1}
  NoBorrower = NoBorrower
  RiskConfigs <- LiveCapConfigs
  RepayUsd <- OneUsd
  MaxRepayUsd = 1
  FailSample = 5
  MaxBroadcasts = 2
  MaxErrors = 0
  MaxAttempts = 1
INVARIANTS
  BroadcastsWithinCap
CHECK_DEADLOCK FALSE
