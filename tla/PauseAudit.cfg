SPECIFICATION AuditSpec
CONSTANTS
  maker = maker
  taker = taker
  nobody = nobody
  Keys <- PauseKeys
  Maker = maker
  DefaultKey = nobody
  Vault = Vault
  NoAccount = NoAccount
  QuoteAuthorities = {maker}
  PoolArgs <- PausePoolArgs
  MidPrices = {64}
  Spreads = {}
  Amounts = {0, 2, 4}
  MinimumOuts = {1}
  DepositAmounts = {}
  InitialBase <- PauseTokens
  InitialQuote <- PauseTokens
  MaxSlot = 2
  MaxSequence = 2
  WithheldFee = 0
  MaxU64 = 63
  BPS = 20
  MaxI32 = 40
PROPERTY PauseEndsWithFreshQuote
CHECK_DEADLOCK FALSE
