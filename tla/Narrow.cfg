SPECIFICATION FairSpec
CONSTANTS
  maker = maker
  keeper = keeper
  taker = taker
  nobody = nobody
  Keys <- TradingKeys
  Maker = maker
  DefaultKey = nobody
  Vault = Vault
  NoAccount = NoAccount
  QuoteAuthorities = {taker}
  PoolArgs <- NarrowPoolArgs
  MidPrices = {4, 8}
  Spreads = {}
  Amounts = {0, 1, 2}
  MinimumOuts = {1}
  DepositAmounts = {}
  InitialBase <- NarrowBase
  InitialQuote <- NarrowQuote
  MaxSlot = 2
  MaxSequence = 2
  WithheldFee = 1
  MaxU64 = 7
  BPS = 20
  ByteValues = 8
  MaxI32 = 40
INVARIANT TypeOK
PROPERTY VaultsStayFunded
PROPERTY StaleQuoteExpires
CHECK_DEADLOCK FALSE
