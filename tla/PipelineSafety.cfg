SPECIFICATION Spec
CONSTANTS
  Runner = runner
  Consumers = {runner}
  Borrowers = {b1}
  Items = {b1}
  Nothing = Nothing
  Done = Done
  NoBorrower = NoBorrower
  RiskConfigs <- SafetyConfigs
  RepayUsd <- OneOrThree
  FailSample = 5
  MaxBuffered = 1
  MaxSent = 3
  MaxErrors = 6
INVARIANTS
  TypeOK
  CapsHold
  ThrottleHolds
  AutoStopHolds
PROPERTIES
  ImplementsBudget
CHECK_DEADLOCK FALSE
