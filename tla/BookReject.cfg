SPECIFICATION BookSpec
CONSTANTS
  MaxU64 = 15
  SegmentCount = 3
  BidPrices <- Bids
  AskPrices <- Asks
  BidSides <- Fresh
  AskSides <- Fresh
  Policies <- AllPolicies
  BookAmounts = {0, 1, 2, 3, 5, 9}
  BookFairPrices = {0, 16}
INVARIANT RejectedOrderLeavesBook
CHECK_DEADLOCK FALSE
