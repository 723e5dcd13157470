SPECIFICATION Spec
CONSTANTS
  maker = maker
  keeper = keeper
  taker = taker
  nobody = nobody
  Keys <- TradingKeys
  Maker = maker
  DefaultKey = nobody
  Vault = Vault
  NoAccount = NoAccount
  QuoteAuthorities = {taker, nobody}
  PoolArgs <- TradingPoolArgs
  MidPrices = {96}
  Spreads = {3}
  Amounts = {0, 2, 5}
  MinimumOuts = {1, 2}
  DepositAmounts = {3}
  InitialBase <- TradingBase
  InitialQuote <- TradingQuote
  MaxSlot = 1
  MaxSequence = 1
  WithheldFee = 1
  MaxU64 = 63
  BPS = 20
  ByteValues = 8
  MaxI32 = 40
INVARIANT TokensConserved
PROPERTY BandLeftOnlyByDeposit
PROPERTY OutflowPriced
PROPERTY SwapSettlesExactly
CHECK_DEADLOCK FALSE
