---------------------------- MODULE PiecewiseBook ----------------------------
(***************************************************************************)
(* The bounded piecewise-linear book of                                    *)
(* crates/meta_amm_math/src/piecewise.rs and the simulation that runs a    *)
(* flow through it (simulate_piecewise_prop of                             *)
(* crates/meta_amm_sim/src/lib.rs).                                        *)
(*                                                                         *)
(* A side holds SegmentCount + 1 ascending prices over SegmentCount        *)
(* roughly equal slices of its quantity.  Asks are consumed from the       *)
(* lowest price up, bids from the highest down; a fill of one side         *)
(* replenishes the other by the policy of the scenario.                    *)
(*                                                                         *)
(* The walk of an order over a side is a loop of the code; here it is the  *)
(* iteration of one step on a record of the loop's variables.              *)
(***************************************************************************)
EXTENDS Flow, Sequences

CONSTANTS
  SegmentCount,           \* PIECEWISE_SEGMENT_COUNT, 6 in the code
  BidPrices, AskPrices,   \* raw prices of the two sides, which never change
  BidSides, AskSides,     \* initial quantities of the scenarios
  Policies,               \* PostFillPolicy of the scenarios
  BookAmounts, BookFairPrices     \* the orders of the flow

AllPolicies == {"None", "HealThenAdd", "ProportionalScale", "DepthProportional"}

Side == [total : U64, consumed : U64]

ASSUME PiecewiseBookAssumption ==
  /\ SegmentCount \in Nat \ {0}
  /\ BidPrices \in [1 .. SegmentCount + 1 -> 0 .. MaxU128]
  /\ AskPrices \in [1 .. SegmentCount + 1 -> 0 .. MaxU128]
  /\ BidSides \subseteq Side
  /\ AskSides \subseteq Side
  /\ Policies \subseteq AllPolicies
  /\ BookAmounts \subseteq U64
  /\ BookFairPrices \subseteq 0 .. MaxU128

VARIABLES
  bid, ask,   \* total and consumed quantity of each side
  policy,
  bookResult      \* NoError while the simulation runs, then the error it returns

bookVars == <<bid, ask, policy, bookResult>>

-----------------------------------------------------------------------------
(* Sides and their segments, numbered from 0 at the best price. *)

ValidSide(prices, side) ==
  /\ side.total >= SegmentCount
  /\ side.consumed <= side.total
  /\ prices[1] > 0
  /\ \A i \in 2 .. SegmentCount + 1 : prices[i] > prices[i - 1]

Remaining(side) == SaturatingSub(side.total, side.consumed)

SegmentStart(total, segment) == (total * segment) \div SegmentCount

SegmentEnd(total, segment) == SegmentStart(total, segment + 1)

Segments == 0 .. SegmentCount - 1

(* Mutation: a segment consumed to its end is still the current one. *)
SegmentFromConsumed_Exhausted(side) ==
  CHOOSE s \in Segments :
    /\ side.consumed <= SegmentEnd(side.total, s)
    /\ \A t \in Segments :
         side.consumed <= SegmentEnd(side.total, t) => s <= t

(* The first segment that is not exhausted; every caller has remaining     *)
(* quantity, so there is one.                                              *)
SegmentFromConsumed(side) ==
  CHOOSE s \in Segments :
    /\ side.consumed < SegmentEnd(side.total, s)
    /\ \A t \in Segments :
         side.consumed < SegmentEnd(side.total, t) => s <= t

(* The code interpolates an unsigned distance, up on the ask side and down *)
(* on the bid side; the result lies between the two prices.                *)
InterpolatePrice(start, end, offset, segmentQuantity) ==
  LET moved == (AbsInt(end - start) * offset) \div segmentQuantity
  IN  IF start <= end THEN start + moved ELSE start - moved

SegmentQuantity(side, segment) ==
  SegmentEnd(side.total, segment) - SegmentStart(side.total, segment)

AskPriceAt(side, segment, offset) ==
  InterpolatePrice(AskPrices[segment + 1], AskPrices[segment + 2], offset,
                   SegmentQuantity(side, segment))

(* Mutation: the bid side is read from its lowest prices. *)
BidPriceAt_Unmirrored(side, segment, offset) ==
  InterpolatePrice(BidPrices[segment + 2], BidPrices[segment + 1], offset,
                   SegmentQuantity(side, segment))

(* segment counts from the best price, the table from the lowest one. *)
BidPriceAt(side, segment, offset) ==
  LET actual == SegmentCount - 1 - segment
  IN  InterpolatePrice(BidPrices[actual + 2], BidPrices[actual + 1], offset,
                       SegmentQuantity(side, segment))

LinearQuoteAmount(startPrice, endPrice, quantity) ==
  IF quantity = 0 THEN Ok(0)
  ELSE IF startPrice + endPrice > MaxU128 THEN Err("Overflow")
  ELSE MulAmountFloor((startPrice + endPrice) \div 2, quantity)

AskAmount(side, segment, offset, quantity) ==
  LinearQuoteAmount(AskPriceAt(side, segment, offset),
                    AskPriceAt(side, segment, offset + quantity), quantity)

BidAmount(side, segment, offset, quantity) ==
  LinearQuoteAmount(BidPriceAt(side, segment, offset),
                    BidPriceAt(side, segment, offset + quantity), quantity)

-----------------------------------------------------------------------------
(* buy_base_with_quote.                                                    *)

(* The binary search for the largest affordable quantity, one turn of it   *)
(* and all of them: capacity turns are enough, as each narrows the bounds. *)
(* It treats a cost of zero as too dear, so it can miss an affordable      *)
(* quantity when its probe floors to nothing.  No probe overflows once the *)
(* cost of the whole capacity does not.                                    *)
Narrowed(side, segment, offset, available, bounds) ==
  LET mid  == bounds.low + (bounds.high - bounds.low + 1) \div 2
      cost == AskAmount(side, segment, offset, mid).value
  IN  IF bounds.low >= bounds.high THEN bounds
      ELSE IF cost > 0 /\ cost <= available THEN [bounds EXCEPT !.low = mid]
      ELSE [bounds EXCEPT !.high = mid - 1]

MaxBaseForQuote(side, segment, offset, capacity, available) ==
  LET search[n \in 0 .. capacity] ==
        IF n = 0 THEN [low |-> 0, high |-> capacity]
        ELSE Narrowed(side, segment, offset, available, search[n - 1])
  IN  search[capacity].low

BuyStep(w) ==
  LET segment == SegmentFromConsumed(w.side)
      offset  == w.side.consumed - SegmentStart(w.side.total, segment)
      rest    == SaturatingSub(SegmentEnd(w.side.total, segment), w.side.consumed)
      full    == AskAmount(w.side, segment, offset, rest)
      take    == IF full.value > 0 /\ full.value <= w.left THEN rest
                 ELSE MaxBaseForQuote(w.side, segment, offset, rest, w.left)
      cost    == AskAmount(w.side, segment, offset, take).value
  IN  IF rest = 0 THEN [w EXCEPT !.error = "InvalidConfig", !.over = TRUE]
      ELSE IF full.error # NoError
        THEN [w EXCEPT !.error = full.error, !.over = TRUE]
      ELSE IF cost = 0 THEN [w EXCEPT !.over = TRUE]
      ELSE [w EXCEPT !.side.consumed = @ + take, !.left = @ - cost,
                     !.out = @ + take, !.crossed = @ + 1]

WalkStart(side, amountIn) ==
  [side |-> side, left |-> amountIn, out |-> 0, crossed |-> 0,
   over |-> FALSE, error |-> NoError]

(* Each step of a walk that goes on takes at least one atom of the side. *)
BuyWalk(side, quoteIn) ==
  LET walk[n \in 0 .. Remaining(side)] ==
        IF n = 0 THEN WalkStart(side, quoteIn)
        ELSE LET w == walk[n - 1]
             IN  IF w.over \/ w.left = 0 \/ Remaining(w.side) = 0
                   THEN w ELSE BuyStep(w)
  IN  walk[Remaining(side)]

(* Only a walk that spent the whole order on something is a trade. *)
Bought(w) ==
  IF w.error = NoError /\ (w.out = 0 \/ w.left > 0)
    THEN [w EXCEPT !.error = "InvalidAmount"]
  ELSE w

(* What the call returns, with the side it leaves behind: the walk works   *)
(* on the side itself, also when the call then returns an error.           *)
BuyBaseWithQuote(side, quoteIn) ==
  IF ~ValidSide(AskPrices, side)
    THEN [WalkStart(side, quoteIn) EXCEPT !.error = "InvalidConfig"]
  ELSE IF quoteIn = 0 \/ Remaining(side) = 0
    THEN [WalkStart(side, quoteIn) EXCEPT !.error = "InvalidAmount"]
  ELSE Bought(BuyWalk(side, quoteIn))

-----------------------------------------------------------------------------
(* sell_base_for_quote. *)

SellStep(w) ==
  LET segment == SegmentFromConsumed(w.side)
      offset  == w.side.consumed - SegmentStart(w.side.total, segment)
      rest    == SaturatingSub(SegmentEnd(w.side.total, segment), w.side.consumed)
      take    == Least(w.left, rest)
      amount  == BidAmount(w.side, segment, offset, take)
      after   == [w EXCEPT !.side.consumed = @ + take, !.left = @ - take]
  IN  IF rest = 0 THEN [w EXCEPT !.error = "InvalidConfig"]
      ELSE IF amount.error # NoError THEN [w EXCEPT !.error = amount.error]
      ELSE IF amount.value = 0 THEN [w EXCEPT !.error = "InvalidAmount"]
      ELSE IF w.out + amount.value > MaxU64 THEN [after EXCEPT !.error = "Overflow"]
      ELSE [after EXCEPT !.out = @ + amount.value, !.crossed = @ + 1]

SellWalk(side, baseIn) ==
  LET walk[n \in 0 .. baseIn] ==
        IF n = 0 THEN WalkStart(side, baseIn)
        ELSE LET w == walk[n - 1]
             IN  IF w.error # NoError \/ w.left = 0 THEN w ELSE SellStep(w)
  IN  walk[baseIn]

SellBaseForQuote(side, baseIn) ==
  IF ~ValidSide(BidPrices, side)
    THEN [WalkStart(side, baseIn) EXCEPT !.error = "InvalidConfig"]
  ELSE IF baseIn = 0 \/ baseIn > Remaining(side)
    THEN [WalkStart(side, baseIn) EXCEPT !.error = "InvalidAmount"]
  ELSE SellWalk(side, baseIn)

-----------------------------------------------------------------------------
(* apply_post_fill_to_side. *)

(* Mutation: the total is not checked against its word. *)
Grown_Unchecked(side, quantity) == Ok([side EXCEPT !.total = @ + quantity])

Grown(side, quantity) ==
  IF side.total + quantity > MaxU64 THEN Err("Overflow")
  ELSE Ok([side EXCEPT !.total = @ + quantity])

(* Mutation: what the heal used is added to the total as well. *)
HealThenAdd_AddsAll(side, quantity) ==
  IF quantity <= side.consumed THEN Ok([side EXCEPT !.consumed = @ - quantity])
  ELSE Grown([side EXCEPT !.consumed = 0], quantity)

HealThenAdd(side, quantity) ==
  IF quantity <= side.consumed THEN Ok([side EXCEPT !.consumed = @ - quantity])
  ELSE Grown([side EXCEPT !.consumed = 0], quantity - side.consumed)

ProportionalScale(side, quantity) ==
  LET grown == Grown(side, quantity)
  IN  IF grown.error # NoError THEN grown
      ELSE Ok([grown.value EXCEPT
                 !.consumed = (@ * grown.value.total) \div side.total])

(* The part of the quantity that the depth of the fill adds; the rest      *)
(* heals.                                                                  *)
DepthProportional(side, quantity, crossed) ==
  LET add    == (quantity * Least(crossed, SegmentCount)) \div SegmentCount
      healed == HealThenAdd(side, quantity - add)
  IN  IF healed.error # NoError THEN healed ELSE Grown(healed.value, add)

(* Every policy ends with validate: on a side it was given valid it never  *)
(* fails, as consumed only shrinks against a total that never does.        *)
ApplyPostFill(prices, side, quantity, crossed) ==
  IF ~ValidSide(prices, side) THEN Err("InvalidConfig")
  ELSE IF quantity = 0 \/ policy = "None" THEN Ok(side)
  ELSE IF policy = "HealThenAdd" THEN HealThenAdd(side, quantity)
  ELSE IF policy = "ProportionalScale" THEN ProportionalScale(side, quantity)
  ELSE DepthProportional(side, quantity, crossed)

-----------------------------------------------------------------------------
(* simulate_piecewise_prop. *)

(* A scenario whose sides do not validate is refused before its first      *)
(* order.                                                                  *)
BookInit ==
  /\ bid \in BidSides
  /\ ask \in AskSides
  /\ ValidSide(BidPrices, bid)
  /\ ValidSide(AskPrices, ask)
  /\ policy \in Policies
  /\ bookResult = NoError

FirstError(quote, edge, refill) ==
  IF quote.error # NoError THEN quote.error
  ELSE IF edge.error # NoError THEN edge.error
  ELSE refill.error

(* A filled order takes from one side and replenishes the other; one that  *)
(* is rejected keeps what its walk did to the side; any other error ends   *)
(* the simulation without a report, and its sides are lost.                *)

(* An order that brings base: it consumes bids and replenishes asks. *)
SellOrder(amountIn, fairPrice) ==
  /\ bookResult = NoError
  /\ \E quote \in {SellBaseForQuote(bid, amountIn)} :
     \E refill \in {ApplyPostFill(AskPrices, ask, amountIn, quote.crossed)} :
       LET edge  == TakerEdge(fairPrice, amountIn, quote.out, TRUE)
           error == FirstError(quote, edge, refill)
       IN  \/ /\ error = NoError
              /\ bid' = quote.side
              /\ ask' = refill.value
              /\ UNCHANGED bookResult
           \/ /\ error = "InvalidAmount"
              /\ bid' = quote.side
              /\ UNCHANGED <<ask, bookResult>>
           \/ /\ error \notin {NoError, "InvalidAmount"}
              /\ bookResult' = error
              /\ UNCHANGED <<bid, ask>>
  /\ UNCHANGED policy

(* An order that brings quote: it consumes asks and replenishes bids. *)
BuyOrder(amountIn, fairPrice) ==
  /\ bookResult = NoError
  /\ \E quote \in {BuyBaseWithQuote(ask, amountIn)} :
     \E refill \in {ApplyPostFill(BidPrices, bid, quote.out, quote.crossed)} :
       LET edge  == TakerEdge(fairPrice, amountIn, quote.out, FALSE)
           error == FirstError(quote, edge, refill)
       IN  \/ /\ error = NoError
              /\ ask' = quote.side
              /\ bid' = refill.value
              /\ UNCHANGED bookResult
           \/ /\ error = "InvalidAmount"
              /\ ask' = quote.side
              /\ UNCHANGED <<bid, bookResult>>
           \/ /\ error \notin {NoError, "InvalidAmount"}
              /\ bookResult' = error
              /\ UNCHANGED <<bid, ask>>
  /\ UNCHANGED policy

BookNext == \E amountIn \in BookAmounts, fairPrice \in BookFairPrices :
          SellOrder(amountIn, fairPrice) \/ BuyOrder(amountIn, fairPrice)

BookSpec == BookInit /\ [][BookNext]_bookVars

-----------------------------------------------------------------------------
(* Properties. *)

BookTypeOK ==
  /\ bid \in Side
  /\ ask \in Side
  /\ policy \in Policies
  /\ bookResult \in {NoError, "InvalidConfig", "Overflow", "DivByZero"}

(* No flow of orders brings a side to a state its own validation refuses,  *)
(* and no walk meets a segment it takes for current and finds empty: the   *)
(* boundaries of the segments are rounded, and partial fills, refills and  *)
(* growth of the total move the consumed quantity across them.             *)
BookStaysUsable ==
  /\ bookResult # "InvalidConfig"
  /\ ValidSide(BidPrices, bid)
  /\ ValidSide(AskPrices, ask)

(* Atoms out per atom in, second against first, up to the rounding of the  *)
(* slices crossed: a sale rounds its output down, and a purchase takes     *)
(* whole base atoms of the next one.                                       *)
SaleIsDearer(a, b, first, second) ==
  first.error = NoError /\ second.error = NoError =>
    second.out * a <= (first.out + first.crossed) * b

PurchaseIsDearer(a, b, first, second) ==
  first.error = NoError /\ second.error = NoError =>
    a * second.out <= (b + second.crossed) * first.out

(* An order that follows another on the same side never trades at a better *)
(* average price than the one before it, up to the atom each crossed slice *)
(* may lose to rounding: the curve gets worse with depth, across slices of *)
(* unequal width and in both directions.                                   *)
DeeperIsNeverCheaper ==
  \A a, b \in BookAmounts :
    /\ \A first \in {SellBaseForQuote(bid, a)} :
         SaleIsDearer(a, b, first, SellBaseForQuote(first.side, b))
    /\ \A first \in {BuyBaseWithQuote(ask, a)} :
         PurchaseIsDearer(a, b, first, BuyBaseWithQuote(first.side, b))

Depth == Remaining(bid) + Remaining(ask)

(* Depth only moves from the side an order consumes to the other side: no  *)
(* policy creates any, and healing or adding in proportion to the depth    *)
(* loses none of what was filled.                                          *)
DepthMovesAcross ==
  [][/\ Depth' <= Depth
     /\ (/\ policy \in {"HealThenAdd", "DepthProportional"}
         /\ bid' # bid
         /\ ask' # ask) => Depth' = Depth]_bookVars

(* What an exact-in rejection says: an order the book cannot consume is    *)
(* not traded, so it leaves the book as it was.                            *)
RejectedOrderLeavesBook ==
  \A a \in BookAmounts :
    /\ SellBaseForQuote(bid, a).error = "InvalidAmount" =>
         SellBaseForQuote(bid, a).side = bid
    /\ BuyBaseWithQuote(ask, a).error = "InvalidAmount" =>
         BuyBaseWithQuote(ask, a).side = ask

=============================================================================
