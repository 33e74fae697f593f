SPECIFICATION GuardFairSpec
CONSTANTS
  Checks = {c1, c2}
  NoStatus = NoStatus
PROPERTIES
  DownStopsCalls
