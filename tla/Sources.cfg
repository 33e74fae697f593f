SPECIFICATION Spec
CONSTANTS
  WsUrls = 3
  Http = Http
  Absent = Absent
  Threshold = 4
  MaxOvertaken = 3
  Nothing = Nothing
  MaxRounds = 1
  Reads = {1, 2}
  Window = 2
  Checks = {c1, c2, c3}
  NoStatus = NoStatus
  Pollers = {p1}
  Askers = {a1, a2}
  OwnSubgraph = {a2}
  Concurrency = 1
  PerWindow = 2
  GraphWindow = 2
  FallbackTrigger = 2
  FallbackTime = 2
  BackoffBase = 1
  BackoffMax = 4
  Batches = 1
  Borrowers = {b1, b2, b3}
  NoUrl = {b3}
  NobodyFetched = NobodyFetched
  MaxAttempts = 3
  BaseDelay = 1
  MaxDelay = 2
  Jitter = 1
  Guard = 1
INVARIANTS
  NeverBlind
  OldPriceWasOvertaken
  OkIffEverOk
  SlotsAccounted
PROPERTIES
  StopIsFinal
  AnswersCatchUp
  CallersAnswered
  SubgraphServes
  RetriesKept
  RetriesServed
CHECK_DEADLOCK FALSE
