CONSTANTS
  None = None
  NoLimit = NoLimit
  NoPath = NoPath
  NoPrice = NoPrice
  Failed = Failed
  MIN_SQRT_RATIO = 0
  MAX_SQRT_RATIO = 6
  PoolOut <- MCPoolOut
  NoRouter = NoRouter
  Failure = Failure
  NoOffer = NoOffer
  Unpriced = Unpriced
  Endless = Endless
  Calls = 6
  PriceJump = 1
  Revert = Revert
  SwapDexes = {"UniV3", "UniV2", "UniV3Multi", "SolidlyV2"}
  NoQuote = NoQuote
  CallReverts = CallReverts
  Accepted = Accepted
  Unknown = Unknown
  AbiHasAllowedRouters = FALSE
  PeggedPairs <- MCPeggedPairs
  NoHf = NoHf
  NoAddress = NoAddress
  Ether = "Eth"
  Scale = 1
  RowLimit = 3
  BatchSize = 2
  NoCandidate = NoCandidate
  NoOfferTerms = NoOfferTerms
  Multiplier = 2
  MinPoll = 1
  DefaultPoll = 2
  DefaultSuccess = 2
  DefaultMaxPoll = 6
  Unset = Unset
  NoStats = NoStats
  MinSamples = 2
  HfMargin = 30
  MinGapBps = 200
  HfFloor = 980
  HfCeiling = 1120
  MinDrop = 15
  MinSlope = 10
  Cooldown = 4
SPECIFICATION Spec
INVARIANTS
  FabricSound
  LiquidationSound
  ScoresSound
  ExecutionSound
  PricesSound
  DiscoverySound
