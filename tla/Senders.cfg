SPECIFICATION FairSpec
CONSTANTS
  Calls = {"b1", "b2", "b3"}
  Processes = {"p1", "p2"}
  home <- MCHome
  Free = Free
  Liquidations = {"l1"}
  Mixes = {{"b1", "b2", "b3"}, {"b1", "b3", "l1"}}
INVARIANTS
  NonceDiscipline
PROPERTIES
  SoundIsExclusive
  CallsEnd
CHECK_DEADLOCK FALSE
