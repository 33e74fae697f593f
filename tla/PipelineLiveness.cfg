SPECIFICATION FairSpec
CONSTANTS
  Runner = runner
  Consumers = {runner}
  Borrowers = {b1}
  Items = {b1}
  Nothing = Nothing
  Done = Done
  NoBorrower = NoBorrower
  RiskConfigs <- ThrottleConfigs
  RepayUsd <- OneRepay
  FailSample = 5
  MaxBuffered = 1
  MaxSent = 1
  MaxErrors = 1
PROPERTIES
  ClosedEndsRun
  KillSwitchHalts
CHECK_DEADLOCK FALSE
