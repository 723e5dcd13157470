SPECIFICATION Spec
CONSTANTS
  Scenarios <- AllScenarios
  Orders <- FlowOrders
  NoOrder = NoOrder
  FairPrices = {24, 32, 640}
  RecordedMids = {24}
  Latencies = {0, 2}
  MaxBatch = 1
  MaxSlot = 4
  MaxTrades = 2
  MaxU64 = 31
  BPS = 20
  MaxI32 = 400
INVARIANT ReportAddsUp
INVARIANT BlameMatchesAge
INVARIANT ImbalanceStaysInBand
INVARIANT UpdatesLandOnTime
INVARIANT EnvelopeKeepsQuotesAlive
CHECK_DEADLOCK FALSE
