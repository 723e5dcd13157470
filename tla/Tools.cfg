SPECIFICATION Spec
CONSTANTS
  MaxU64 = 30000
  BPS = 10000
  MaxI32 = 2000000000
  MinPaths = 1
  PathReports <- SimulatedPaths
  PackPathCounts <- PathCounts
  PackOutcomes <- Outcomes
  MintDecimals = {6, 13}
  SwapMetaBudgets = {12, 15}
  Headers <- SomeHeaders
  Rows <- AllRows
  MaxRows = 3
  Empty = Empty
  Malformed = Malformed
  Drop = Drop
INVARIANT VerdictBetweenPaths
INVARIANT BlockedOnlyIfUnavoidable
INVARIANT ExportCoversScenarios
INVARIANT ImportReadsExport
INVARIANT InferredPolicyIsRunnable
CHECK_DEADLOCK FALSE
