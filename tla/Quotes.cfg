SPECIFICATION Spec
CONSTANTS
  maker = maker
  keeper = keeper
  taker = taker
  nobody = nobody
  Keys <- QuotingKeys
  Maker = maker
  DefaultKey = nobody
  Vault = Vault
  NoAccount = NoAccount
  QuoteAuthorities = {keeper, nobody}
  PoolArgs <- QuotingPoolArgs
  MidPrices = {0, 64, 96}
  Spreads = {11, 12}
  Amounts = {0, 2, 4}
  MinimumOuts = {1}
  DepositAmounts = {}
  InitialBase <- QuotingBase
  InitialQuote <- QuotingQuote
  MaxSlot = 5
  MaxSequence = 2
  WithheldFee = 1
  MaxU64 = 63
  BPS = 20
  ByteValues = 8
  MaxI32 = 40
INVARIANT QuoteNotFromFuture
INVARIANT QuoteNeverMisconfigured
PROPERTY SequencePinsQuote
PROPERTY SwapsReadConfiguration
PROPERTY AgingOnlyTightens
PROPERTY OutflowOnlyOnUsableQuote
CHECK_DEADLOCK FALSE
