SPECIFICATION PrimitivesSpec
CONSTANTS
  MaxU64 = 15
  BPS = 20
  FeeBps = 1
  Reserves <- SmallReserves
  Amounts = {0, 1, 2, 3, 5, 8, 14}
  FairPrices = {0, 16, 240}
  SegmentCount = 3
  BidPrices <- Bids
  AskPrices <- Asks
  BidSides <- Fresh
  AskSides <- Fresh
  Policies <- AllPolicies
  BookAmounts = {0, 1, 2, 3, 5, 9}
  BookFairPrices = {0, 16}
  Half = 4
  Bits = 4
  Pow2 <- PowersOfTwo
  Operands <- Words
  Ten = 2
  MaxDecimals = 4
  Decimals = {0, 1, 2, 4, 5}
  Prices <- RawPrices
  Whole = 4
  Drift <- DownDrift
  Volatility = 6
  MaxOrderBaseAtoms = 3
  InitialPrices = {0, 2, 12}
  SlotsPerPath = 5
INVARIANT CpmmTypeOK
PROPERTY KNeverFalls
INVARIANT BookTypeOK
INVARIANT BookStaysUsable
INVARIANT DeeperIsNeverCheaper
PROPERTY DepthMovesAcross
INVARIANT DivisionIsFloor
INVARIANT LoopDividesPrefix
INVARIANT PricesAgree
PROPERTY TripsDoNotDrift
INVARIANT OrdersAreWorthTheirSize
CHECK_DEADLOCK FALSE
