SPECIFICATION Spec
CONSTANTS
  Callers = {c1, c2, c3}
  Chains = {ch}
  ChainOf <- OneAgent
  Borrowers = {b1}
  NoBorrower = NoBorrower
  RiskConfigs <- SafetyConfigs
  RepayUsd <- ThreeUsd
  MaxRepayUsd = 3
  FailSample = 5
  MaxBroadcasts = 4
  MaxErrors = 1
  MaxAttempts = 3
SYMMETRY Exchangeable
INVARIANTS
  TypeOK
  WireAccounted
  CountWithinCap
  BroadcastsBounded
  NotionalBounded
  ThrottleBounded
CHECK_DEADLOCK FALSE
