--------------------------- MODULE PathGenerator ---------------------------
(***************************************************************************)
(* The seeded market paths of the simulator (generate_flow_path and        *)
(* generate_reference_market_path of crates/meta_amm_sim/src/lib.rs): an   *)
(* integer fair price walks at random, and some slots carry an order of a  *)
(* random side and size.  The pseudo-random generator is left out: every   *)
(* draw it could make is a choice.                                         *)
(***************************************************************************)
EXTENDS FixedPoint

CONSTANTS
  Whole,               \* 10_000 in the code
  Drift, Volatility,   \* per slot, of the generated scenario
  MaxOrderBaseAtoms,   \* max_trade_base_atoms of the generated scenario
  InitialPrices,       \* integer part of the initial fair prices
  SlotsPerPath

ASSUME PathGeneratorAssumption ==
  /\ Whole \in Nat \ {0}
  /\ Drift \in Int
  /\ Volatility \in Nat
  /\ MaxOrderBaseAtoms \in Nat
  /\ InitialPrices \subseteq U64
  /\ SlotsPerPath \in Nat

VARIABLES
  integerPrice,   \* fair_price, an integer number of quote atoms
  pathSlot,       \* slots generated so far
  flow,           \* the order of the last slot, or NoFlow
  pathResult      \* NoError, or the error that ended the path

pathVars == <<integerPrice, pathSlot, flow, pathResult>>

NoFlow == [size |-> 0, amount_in |-> 0, base_to_quote |-> FALSE]

-----------------------------------------------------------------------------

(* Mutation: the price may reach zero. *)
UpdateIntegerPrice_NoFloor(p, randomDelta) ==
  LET multiplier == Greatest(Whole + Drift + randomDelta, 1)
  IN  Least((p * multiplier) \div Whole, MaxU64)

(* update_integer_price: at least 1 and at most what its word holds.       *)
UpdateIntegerPrice(p, randomDelta) ==
  LET multiplier == Greatest(Whole + Drift + randomDelta, 1)
  IN  Least(Greatest((p * multiplier) \div Whole, 1), MaxU64)

FromInt(n) == n * Q64

AmountIn(p, size, baseToQuote) ==
  IF baseToQuote THEN Ok(size) ELSE MulAmountFloor(FromInt(p), size)

PathInit ==
  /\ \E p \in InitialPrices : integerPrice = Greatest(p, 1)
  /\ pathSlot = 0
  /\ flow = NoFlow
  /\ pathResult = NoError

(* An order that does not fit its word ends the path. *)
PlaceOrder(p, size, baseToQuote) ==
  LET amount == AmountIn(p, size, baseToQuote)
  IN  /\ pathResult' = amount.error
      /\ flow' = IF amount.error = NoError
                   THEN [size |-> size, amount_in |-> amount.value,
                         base_to_quote |-> baseToQuote]
                   ELSE NoFlow

GenerateSlot(randomDelta) ==
  /\ pathResult = NoError
  /\ pathSlot < SlotsPerPath
  /\ pathSlot' = pathSlot + 1
  /\ integerPrice' = UpdateIntegerPrice(integerPrice, randomDelta)
  /\ \/ flow' = NoFlow /\ UNCHANGED pathResult
     \/ \E size \in 1 .. Greatest(MaxOrderBaseAtoms, 1), baseToQuote \in BOOLEAN :
          PlaceOrder(integerPrice', size, baseToQuote)

PathNext == \E randomDelta \in -Volatility .. Volatility : GenerateSlot(randomDelta)

PathSpec == PathInit /\ [][PathNext]_pathVars

-----------------------------------------------------------------------------
(* Properties. *)

(* What flow_distribution reads back from an order: the base it is worth   *)
(* at the fair price of its slot.                                          *)
BaseEquivalent(p, order) ==
  IF order.base_to_quote THEN Ok(order.amount_in)
  ELSE DivAmountFloor(FromInt(p), order.amount_in)

(* Every order a path carries is worth exactly the size that was drawn for *)
(* it, however far the price has walked: none is empty, none exceeds the   *)
(* limit of the scenario, and none has a price that is zero or too wide    *)
(* for the distribution report to divide by.                               *)
OrdersAreWorthTheirSize ==
  flow # NoFlow => BaseEquivalent(integerPrice, flow) = Ok(flow.size)

=============================================================================
