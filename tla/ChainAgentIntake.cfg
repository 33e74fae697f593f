SPECIFICATION FairSpec
CONSTANTS
  Streams = {aave, morpho}
  Realtime = Realtime
  MaxProduced = 3
  Items <- Candidates
  Nothing = Nothing
  QueueClosed = QueueClosed
  Done = Done
INVARIANTS
  CandidatesAccounted
PROPERTIES
  QueuedServed
CHECK_DEADLOCK FALSE
