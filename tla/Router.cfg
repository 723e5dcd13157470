SPECIFICATION RouterSpec
CONSTANTS
  maker = maker
  taker = taker
  nobody = nobody
  Keys <- RouterKeys
  Maker = maker
  DefaultKey = nobody
  Vault = Vault
  NoAccount = NoAccount
  QuoteAuthorities = {taker}
  PoolArgs <- RouterPoolArgs
  MidPrices = {48}
  Spreads = {3}
  Amounts = {4, 5}
  MinimumOuts = {1}
  DepositAmounts = {}
  InitialBase <- RouterBase
  InitialQuote <- RouterQuote
  MaxSlot = 3
  MaxSequence = 2
  WithheldFee = 0
  MaxU64 = 31
  BPS = 20
  MaxI32 = 40
  Taker = taker
  RouteAges = {2}
INVARIANT SdkAgrees
PROPERTY RouteExecutesAsQuoted
CHECK_DEADLOCK FALSE
