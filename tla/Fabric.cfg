SPECIFICATION Spec
CONSTANTS
  Workers = {w1, w2}
  Consumers = {w1, w2}
  Pairs = {p1}
  Sources = {singlehop, crosschain}
  Unroutable = {crosschain}
  Items <- Edges
  Nothing = Nothing
  Done = Done
  NoEdge = NoEdge
  Unknown = Unknown
  Limit = 1
  Balance = 1
  FailureBackoff = 2
  MaxEdges = 3
INVARIANTS
  AttemptsBounded
  SentCovered
PROPERTIES
  LockoutIsFinal
  StreamsOverEndsWorkers
CHECK_DEADLOCK FALSE
