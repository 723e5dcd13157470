------------------------ MODULE ReferenceQuoteProofs ------------------------
(***************************************************************************)
(* What the pricing function guarantees whatever the width of an amount    *)
(* and the parameters of the pool.                                         *)
(***************************************************************************)
EXTENDS ReferenceQuote, ArithmeticProofs

(* The inputs the program can hand to the pricing function. *)
QuotingStates ==
  [base_inventory : Nat, quote_inventory : Nat, target_base_inventory : Nat,
   mid_price : Nat, mid_publish_slot : Nat, now_slot : Nat, paused : BOOLEAN]

-----------------------------------------------------------------------------
(* Inventory. *)

(* Imbalance and skew are integers, and the skew keeps to its maximum.     *)
LEMMA ImbalanceType ==
  ASSUME NEW base \in Nat, NEW target \in Nat
  PROVE  InventoryImbalanceBps(base, target) \in Int
<1>1. CASE target = 0
  BY <1>1 DEF InventoryImbalanceBps
<1>2. CASE target # 0
  <2>1. (base - target) * BPS \in Int
    BY BPSAssumption
  <2>2. TruncDiv((base - target) * BPS, target) \in Int
    BY <1>2, <2>1, TruncDivType
  <2>3. /\ -MaxI32 - 1 \in Int /\ MaxI32 \in Int
        /\ -MaxI32 - 1 <= MaxI32
    BY BPSAssumption
  <2>4. Clamp(TruncDiv((base - target) * BPS, target), -MaxI32 - 1, MaxI32)
          \in Int
    BY <2>2, <2>3 DEF Clamp
  <2>. QED
    BY <1>2, <2>4 DEF InventoryImbalanceBps
<1>. QED
  BY <1>1, <1>2

(* The skew stays within its configured bound.                             *)
LEMMA SkewBounds ==
  ASSUME NEW imbalance \in Int, NEW p \in QuoteParams
  PROVE  InventorySkewBps(imbalance, p)
           \in -p.max_inventory_skew_bps .. p.max_inventory_skew_bps
<1>1. /\ p.max_inventory_skew_bps \in Nat
      /\ p.inventory_skew_bps_per_10k_imbalance \in Nat
  BY DEF QuoteParams
<1>. DEFINE raw == TruncDiv(imbalance * p.inventory_skew_bps_per_10k_imbalance,
                            BPS)
<1>2. imbalance * p.inventory_skew_bps_per_10k_imbalance \in Int
  BY <1>1
<1>3. raw \in Int
  BY <1>2, BPSAssumption, TruncDivType
<1>4. InventorySkewBps(imbalance, p) =
        Clamp(raw, -p.max_inventory_skew_bps, p.max_inventory_skew_bps)
  BY DEF InventorySkewBps
<1>. HIDE DEF raw
<1>. QED
  BY <1>1, <1>3, <1>4 DEF Clamp

(* What the hard band check says of the inventory itself: a band below the *)
(* 32-bit limit bounds the distance from the target although the imbalance *)
(* is rounded toward zero and clamped.                                     *)
LEMMA BandIsExact ==
  ASSUME NEW base \in Nat, NEW target \in Nat \ {0}, NEW band \in Nat,
         band < MaxI32,
         AbsInt(InventoryImbalanceBps(base, target)) <= band
  PROVE  AbsInt(base - target) * BPS < (band + 1) * target
<1>. DEFINE n == (base - target) * BPS
<1>1. n \in Int
  BY BPSAssumption
<1>2. TruncDiv(n, target) \in Int
  BY <1>1, TruncDivType
<1>3. AbsInt(Clamp(TruncDiv(n, target), -MaxI32 - 1, MaxI32)) <= band
  BY DEF InventoryImbalanceBps
<1>4. TruncDiv(n, target) \in -band .. band
  BY <1>2, <1>3, BPSAssumption DEF AbsInt, Clamp
<1>. HIDE DEF n
<1>5. CASE n >= 0
  <2>1. /\ n \div target <= band
        /\ n \div target \in Nat
    BY <1>1, <1>4, <1>5, DivBounds DEF TruncDiv
  <2>2. n < target * ((n \div target) + 1)
    BY <1>1, <1>5, DivBounds
  <2>3. ((n \div target) + 1) * target <= (band + 1) * target
    BY <2>1, ProductMonotone
  <2>4. n < (band + 1) * target
    BY <1>1, <2>1, <2>2, <2>3
  <2>5. AbsInt(base - target) * BPS = n
    BY <1>5, BPSAssumption DEF AbsInt, n
  <2>. QED
    BY <2>4, <2>5
<1>6. CASE n < 0
  <2>1. -n \in Nat
    BY <1>1, <1>6
  <2>2. /\ (-n) \div target <= band
        /\ (-n) \div target \in Nat
    BY <1>1, <1>4, <1>6, <2>1, DivBounds DEF TruncDiv
  <2>3. -n < target * (((-n) \div target) + 1)
    BY <2>1, DivBounds
  <2>4. (((-n) \div target) + 1) * target <= (band + 1) * target
    BY <2>2, ProductMonotone
  <2>5. -n < (band + 1) * target
    BY <2>1, <2>2, <2>3, <2>4
  <2>6. AbsInt(base - target) * BPS = -n
    BY <1>6, BPSAssumption DEF AbsInt, n
  <2>. QED
    BY <2>5, <2>6
<1>. QED
  BY <1>1, <1>5, <1>6

-----------------------------------------------------------------------------
(* The parts of a quote. *)

(* The age of a quote is a natural number, and so is its surcharge, which  *)
(* keeps to its maximum.                                                   *)
LEMMA SurchargeBounds ==
  ASSUME NEW st \in QuotingStates, NEW p \in QuoteParams
  PROVE  /\ AgingSurchargeBps(st, p) \in Nat
         /\ AgingSurchargeBps(st, p) <= p.max_aging_surcharge_bps
<1>1. /\ st.now_slot \in Nat /\ st.mid_publish_slot \in Nat
      /\ p.aging_start_slots \in Nat /\ p.max_aging_surcharge_bps \in Nat
      /\ p.aging_surcharge_bps_per_slot \in Nat
  BY DEF QuotingStates, QuoteParams
<1>2. SaturatingSub(QuoteAge(st), p.aging_start_slots) \in Nat
  BY <1>1 DEF QuoteAge, SaturatingSub
<1>3. SaturatingSub(QuoteAge(st), p.aging_start_slots)
        * p.aging_surcharge_bps_per_slot \in Nat
  BY <1>1, <1>2, ProductNat
<1>. QED
  BY <1>1, <1>3 DEF AgingSurchargeBps, Least

(* Spread and skew of a quote as the price factor takes them.              *)
LEMMA SpreadAndSkew ==
  ASSUME NEW st \in QuotingStates, NEW p \in QuoteParams
  PROVE  LET skew == InventorySkewBps(InventoryImbalanceBps(
                         st.base_inventory, st.target_base_inventory), p)
         IN  /\ AppliedSpreadBps(st, p) \in Nat
             /\ p.base_half_spread_bps <= AppliedSpreadBps(st, p)
             /\ AppliedSpreadBps(st, p)
                  <= p.base_half_spread_bps + p.max_aging_surcharge_bps
             /\ skew \in -p.max_inventory_skew_bps .. p.max_inventory_skew_bps
<1>1. /\ p.base_half_spread_bps \in Nat /\ p.max_aging_surcharge_bps \in Nat
      /\ st.base_inventory \in Nat /\ st.target_base_inventory \in Nat
  BY DEF QuotingStates, QuoteParams
<1>2. InventoryImbalanceBps(st.base_inventory, st.target_base_inventory) \in Int
  BY <1>1, ImbalanceType
<1>. QED
  BY <1>1, <1>2, SkewBounds, SurchargeBounds DEF AppliedSpreadBps

(* Price and output of a quote are natural numbers.                        *)
LEMMA QuotedOutType ==
  ASSUME NEW st \in QuotingStates, NEW p \in QuoteParams,
         NEW amount \in Nat, NEW baseToQuote \in BOOLEAN
  PROVE  /\ QuotedPrice(st, p, baseToQuote).value \in Nat
         /\ QuotedOut(st, p, amount, baseToQuote).value \in Nat
<1>. DEFINE skew   == InventorySkewBps(InventoryImbalanceBps(
                          st.base_inventory, st.target_base_inventory), p)
            spread == AppliedSpreadBps(st, p)
            factor == PriceFactorBps(spread, skew, baseToQuote)
<1>1. /\ st.mid_price \in Nat /\ p.max_inventory_skew_bps \in Nat
  BY DEF QuotingStates, QuoteParams
<1>2. spread \in Nat /\ skew \in Int
  BY <1>1, SpreadAndSkew
<1>3. QuotedPrice(st, p, baseToQuote)
        = EffectivePrice(st.mid_price, spread, skew, baseToQuote)
  BY DEF QuotedPrice
<1>. HIDE DEF skew, spread
<1>4. factor \in Int
  BY <1>2, BPSAssumption DEF PriceFactorBps
<1>5. QuotedPrice(st, p, baseToQuote).value \in Nat
  <2>1. CASE factor <= 0
    BY <1>3, <2>1 DEF EffectivePrice, Err
  <2>2. CASE factor > 0
    <3>1. factor \in Nat
      BY <1>4, <2>2
    <3>2. MulDivFloor(st.mid_price, factor, BPS).value \in Nat
      BY <1>1, <3>1, BPSAssumption, MulDivFloorType
    <3>. QED
      BY <1>3, <1>4, <2>2, <3>2 DEF EffectivePrice
  <2>. QED
    BY <1>4, <2>1, <2>2
<1>6. QuotedOut(st, p, amount, baseToQuote).value \in Nat
  BY <1>5, ConversionType DEF QuotedOut
<1>. QED
  BY <1>5, <1>6

-----------------------------------------------------------------------------
(* Aging. *)

(* The trade limit of a quote that may be traded on lies between the       *)
(* protected and the full limit; while it is aging it never grows.         *)
LEMMA AgingLimit ==
  ASSUME NEW st \in QuotingStates, NEW p \in QuoteParams, MathParamsValid(p)
  PROVE  /\ AgingMaxTrade(st, p) \in Nat
         /\ p.protected_max_trade_base_atoms <= AgingMaxTrade(st, p)
         /\ AgingMaxTrade(st, p) <= p.max_trade_base_atoms
         /\ \A later \in QuotingStates :
              QuoteAge(st) <= QuoteAge(later)
                => AgingMaxTrade(later, p) <= AgingMaxTrade(st, p)
<1>. DEFINE span  == Greatest(p.protected_start_slots - p.aging_start_slots, 1)
            decay == p.max_trade_base_atoms - p.protected_max_trade_base_atoms
            into(s) == Least(SaturatingSub(QuoteAge(s), p.aging_start_slots), span)
            lost(s) == (decay * into(s)) \div span
<1>1. /\ p.max_trade_base_atoms \in Nat
      /\ p.protected_max_trade_base_atoms \in Nat
      /\ decay \in Nat /\ span \in Nat \ {0} /\ p.aging_start_slots \in Nat
  BY DEF QuoteParams, MathParamsValid, Greatest
<1>2. ASSUME NEW s \in QuotingStates
      PROVE  /\ into(s) \in Nat /\ into(s) <= span /\ QuoteAge(s) \in Nat
             /\ AgingMaxTrade(s, p) = p.max_trade_base_atoms - lost(s)
  <2>1. QuoteAge(s) \in Nat
    BY DEF QuotingStates, QuoteAge, SaturatingSub
  <2>2. AgingMaxTrade(s, p) = p.max_trade_base_atoms - lost(s)
    BY DEF AgingMaxTrade
  <2>. HIDE DEF span
  <2>. QED
    BY <1>1, <2>1, <2>2 DEF Least, SaturatingSub
<1>3. ASSUME NEW s \in QuotingStates
      PROVE  lost(s) \in Nat /\ lost(s) <= decay
  <2>. HIDE DEF span, decay, into
  <2>1. /\ into(s) * decay <= span * decay
        /\ decay * into(s) \in Nat
    BY <1>1, <1>2, ProductMonotone, ProductNat
  <2>2. decay * into(s) <= decay * span
    BY <1>1, <1>2, <2>1
  <2>. QED
    BY <1>1, <2>1, <2>2, DivAtMost, DivBounds
<1>4. ASSUME NEW later \in QuotingStates, QuoteAge(st) <= QuoteAge(later)
      PROVE  lost(st) <= lost(later)
  <2>1. into(st) <= into(later)
    <3>. HIDE DEF span
    <3>. QED
      BY <1>1, <1>2, <1>4 DEF Least, SaturatingSub
  <2>. HIDE DEF span, decay, into
  <2>2. /\ into(st) * decay <= into(later) * decay
        /\ decay * into(st) \in Nat /\ decay * into(later) \in Nat
    BY <1>1, <1>2, <2>1, ProductMonotone, ProductNat
  <2>3. decay * into(st) <= decay * into(later)
    BY <1>1, <1>2, <2>2
  <2>. QED
    BY <1>1, <2>2, <2>3, DivMonotone
<1>5. \A s \in QuotingStates : AgingMaxTrade(s, p) = p.max_trade_base_atoms - lost(s)
  BY <1>2
<1>. HIDE DEF span, lost
<1>6. /\ AgingMaxTrade(st, p) \in Nat
      /\ p.protected_max_trade_base_atoms <= AgingMaxTrade(st, p)
      /\ AgingMaxTrade(st, p) <= p.max_trade_base_atoms
  BY <1>1, <1>3, <1>5
<1>7. ASSUME NEW later \in QuotingStates, QuoteAge(st) <= QuoteAge(later)
      PROVE  AgingMaxTrade(later, p) <= AgingMaxTrade(st, p)
  BY <1>1, <1>3, <1>4, <1>5, <1>7
<1>. QED
  BY <1>6, <1>7

(* The trade limit for the age is a natural number within the full limit.  *)
LEMMA LimitType ==
  ASSUME NEW st \in QuotingStates, NEW p \in QuoteParams, MathParamsValid(p)
  PROVE  /\ MaxBaseTradeForAge(st, p) \in Nat
         /\ MaxBaseTradeForAge(st, p) <= p.max_trade_base_atoms
<1>1. /\ p.max_trade_base_atoms \in Nat
      /\ p.protected_max_trade_base_atoms \in Nat
      /\ p.protected_max_trade_base_atoms <= p.max_trade_base_atoms
  BY DEF QuoteParams, MathParamsValid
<1>. QED
  BY <1>1, AgingLimit DEF MaxBaseTradeForAge

(* With nothing but the clock moving on, the spread never narrows and the  *)
(* trade limit never grows.                                                *)
LEMMA Tightens ==
  ASSUME NEW st \in QuotingStates, NEW later \in QuotingStates,
         NEW p \in QuoteParams, MathParamsValid(p),
         later.paused = st.paused, later.mid_publish_slot = st.mid_publish_slot,
         st.now_slot <= later.now_slot
  PROVE  /\ AppliedSpreadBps(st, p) <= AppliedSpreadBps(later, p)
         /\ MaxBaseTradeForAge(later, p) <= MaxBaseTradeForAge(st, p)
<1>1. /\ QuoteAge(st) \in Nat /\ QuoteAge(later) \in Nat
      /\ QuoteAge(st) <= QuoteAge(later)
  BY DEF QuotingStates, QuoteAge, SaturatingSub
<1>2. /\ p.aging_start_slots \in Nat /\ p.protected_start_slots \in Nat
      /\ p.expire_slots \in Nat /\ p.aging_surcharge_bps_per_slot \in Nat
      /\ p.max_aging_surcharge_bps \in Nat /\ p.base_half_spread_bps \in Nat
      /\ p.max_trade_base_atoms \in Nat
      /\ p.protected_max_trade_base_atoms \in Nat
      /\ p.aging_start_slots <= p.protected_start_slots
      /\ p.protected_start_slots < p.expire_slots
      /\ p.protected_max_trade_base_atoms <= p.max_trade_base_atoms
  BY DEF QuoteParams, MathParamsValid
<1>3. AppliedSpreadBps(st, p) <= AppliedSpreadBps(later, p)
  <2>. DEFINE past(s) == SaturatingSub(QuoteAge(s), p.aging_start_slots)
              charge(s) == past(s) * p.aging_surcharge_bps_per_slot
  <2>1. past(st) \in Nat /\ past(later) \in Nat /\ past(st) <= past(later)
    BY <1>1, <1>2 DEF SaturatingSub
  <2>2. /\ charge(st) <= charge(later)
        /\ charge(st) \in Nat /\ charge(later) \in Nat
    <3>. HIDE DEF past
    <3>. QED
      BY <1>2, <2>1, ProductMonotone, ProductNat
  <2>3. \A s : AgingSurchargeBps(s, p) = Least(charge(s), p.max_aging_surcharge_bps)
    BY DEF AgingSurchargeBps
  <2>. HIDE DEF charge
  <2>. QED
    BY <1>2, <2>2, <2>3 DEF AppliedSpreadBps, Least
<1>4. MaxBaseTradeForAge(later, p) <= MaxBaseTradeForAge(st, p)
  <2>1. /\ AgingMaxTrade(st, p) \in Nat /\ AgingMaxTrade(later, p) \in Nat
        /\ AgingMaxTrade(later, p) <= AgingMaxTrade(st, p)
        /\ p.protected_max_trade_base_atoms <= AgingMaxTrade(st, p)
        /\ AgingMaxTrade(later, p) <= p.max_trade_base_atoms
    BY <1>1, AgingLimit
  <2>. QED
    BY <1>1, <1>2, <2>1 DEF MaxBaseTradeForAge, QuoteAgeState
<1>. QED
  BY <1>3, <1>4

(* The fee never adds to an amount. *)
LEMMA LessFeeBounds ==
  ASSUME NEW amount \in Nat, NEW feeBps \in Nat, feeBps < BPS
  PROVE  /\ AmountLessFee(amount, feeBps).value \in Nat
         /\ AmountLessFee(amount, feeBps).value <= amount
<1>1. BPS - feeBps \in Nat /\ BPS - feeBps <= BPS
  BY BPSAssumption
<1>2. /\ amount * (BPS - feeBps) \in Nat
      /\ (BPS - feeBps) * amount <= BPS * amount
  BY <1>1, ProductNat, ProductMonotone, BPSAssumption
<1>3. amount * (BPS - feeBps) <= amount * BPS
  BY <1>1, <1>2, BPSAssumption
<1>4. /\ (amount * (BPS - feeBps)) \div BPS <= amount
      /\ (amount * (BPS - feeBps)) \div BPS \in Nat
  BY <1>2, <1>3, DivAtMost, DivBounds, BPSAssumption
<1>. QED
  BY <1>4 DEF AmountLessFee, Ok, Err

-----------------------------------------------------------------------------
(* The quote. *)

(* A quote pays out a natural number of atoms, none with an error.         *)
LEMMA QuoteType ==
  ASSUME NEW st \in QuotingStates, NEW p \in QuoteParams,
         NEW amountIn \in Nat, NEW baseToQuote \in BOOLEAN
  PROVE  QuoteExactIn(st, p, amountIn, baseToQuote).value \in Nat
<1>. DEFINE equivalent == BaseEquivalentAmount(st.mid_price, amountIn, baseToQuote)
            lessFee    == AmountLessFee(amountIn, p.fee_bps)
            out        == QuotedOut(st, p, lessFee.value, baseToQuote)
<1>. SUFFICES ASSUME MathParamsValid(p)
              PROVE  QuoteExactIn(st, p, amountIn, baseToQuote).value \in Nat
  BY DEF QuoteExactIn, Err
<1>1. /\ st.mid_price \in Nat /\ p.fee_bps \in Nat /\ p.fee_bps < BPS
  BY DEF QuotingStates, QuoteParams, MathParamsValid
<1>2. equivalent.value \in Nat
  BY <1>1, ConversionType DEF BaseEquivalentAmount, Ok
<1>3. lessFee.value \in Nat
  <2>1. BPS - p.fee_bps \in Nat
    BY <1>1, BPSAssumption
  <2>2. (amountIn * (BPS - p.fee_bps)) \div BPS \in Nat
    BY <2>1, ProductNat, DivBounds, BPSAssumption
  <2>. QED
    BY <2>2 DEF AmountLessFee, Ok, Err
<1>4. out.value \in Nat
  BY <1>3, QuotedOutType
<1>5. SettleQuote(st, p, amountIn, out.value, baseToQuote).value \in Nat
  BY <1>4 DEF SettleQuote, Ok, Err
<1>6. PriceTrade(st, p, amountIn, baseToQuote).value \in Nat
  BY <1>2, <1>3, <1>4, <1>5 DEF PriceTrade, Err
<1>. QED
  BY <1>6 DEF QuoteExactIn, Err

(* What lies behind an accepted quote: every check was passed, and the     *)
(* output is the priced one.                                               *)
LEMMA QuoteAccepted ==
  ASSUME NEW st \in QuotingStates, NEW p \in QuoteParams,
         NEW amountIn \in Nat, NEW baseToQuote \in BOOLEAN,
         QuoteExactIn(st, p, amountIn, baseToQuote).error = NoError
  PROVE  LET equivalent == BaseEquivalentAmount(st.mid_price, amountIn,
                                                baseToQuote)
             lessFee    == AmountLessFee(amountIn, p.fee_bps)
             out        == QuotedOut(st, p, lessFee.value, baseToQuote)
             settled    == SettleQuote(st, p, amountIn, out.value, baseToQuote)
         IN  /\ MathParamsValid(p)
             /\ amountIn # 0
             /\ st.target_base_inventory # 0
             /\ QuoteAgeState(st, p) \notin {"Paused", "Expired"}
             /\ equivalent.error = NoError
             /\ ~(equivalent.value > MaxBaseTradeForAge(st, p))
             /\ lessFee.error = NoError
             /\ out.error = NoError
             /\ settled.error = NoError
             /\ settled.value = out.value
             /\ QuoteExactIn(st, p, amountIn, baseToQuote) = settled
<1>. DEFINE equivalent == BaseEquivalentAmount(st.mid_price, amountIn, baseToQuote)
            lessFee    == AmountLessFee(amountIn, p.fee_bps)
            out        == QuotedOut(st, p, lessFee.value, baseToQuote)
            settled    == SettleQuote(st, p, amountIn, out.value, baseToQuote)
<1>1. /\ MathParamsValid(p)
      /\ amountIn # 0
      /\ st.target_base_inventory # 0
      /\ QuoteAgeState(st, p) \notin {"Paused", "Expired"}
      /\ QuoteExactIn(st, p, amountIn, baseToQuote)
           = PriceTrade(st, p, amountIn, baseToQuote)
  BY DEF QuoteExactIn, Err, NoError
<1>2. PriceTrade(st, p, amountIn, baseToQuote).error = NoError
  BY <1>1
<1>. HIDE DEF settled, out, lessFee, equivalent
<1>3. /\ PriceTrade(st, p, amountIn, baseToQuote) = settled
      /\ equivalent.error = NoError
      /\ ~(equivalent.value > MaxBaseTradeForAge(st, p))
      /\ lessFee.error = NoError
      /\ out.error = NoError
  BY <1>2 DEF PriceTrade, Err, NoError, settled, out, lessFee, equivalent
<1>4. settled.value = out.value
  BY <1>2, <1>3 DEF settled, SettleQuote, Ok, Err, NoError
<1>. QED
  BY <1>1, <1>2, <1>3, <1>4 DEF settled, out, lessFee, equivalent

(* An accepted quote pays less than the paying inventory holds, something  *)
(* at that, for an input that fits, and leaves the base inventory within   *)
(* the hard band of a target that is set.                                  *)
LEMMA QuoteSettles ==
  ASSUME NEW st \in QuotingStates, NEW p \in QuoteParams,
         NEW amountIn \in Nat, NEW baseToQuote \in BOOLEAN,
         QuoteExactIn(st, p, amountIn, baseToQuote).error = NoError
  PROVE  LET out     == QuoteExactIn(st, p, amountIn, baseToQuote).value
             newBase == IF baseToQuote THEN st.base_inventory + amountIn
                                       ELSE st.base_inventory - out
         IN  /\ 0 < out
             /\ out < IF baseToQuote THEN st.quote_inventory
                                     ELSE st.base_inventory
             /\ st.target_base_inventory > 0
             /\ QuoteAgeState(st, p) \notin {"Paused", "Expired"}
             /\ AbsInt(InventoryImbalanceBps(newBase, st.target_base_inventory))
                  <= p.hard_inventory_band_bps
<1>. DEFINE lessFee    == AmountLessFee(amountIn, p.fee_bps)
            out        == QuotedOut(st, p, lessFee.value, baseToQuote)
            settled    == SettleQuote(st, p, amountIn, out.value, baseToQuote)
<1>1. /\ st.target_base_inventory # 0
      /\ QuoteAgeState(st, p) \notin {"Paused", "Expired"}
      /\ settled.error = NoError
      /\ QuoteExactIn(st, p, amountIn, baseToQuote) = settled
  BY QuoteAccepted
<1>2. /\ st.base_inventory \in Nat /\ st.quote_inventory \in Nat
      /\ st.target_base_inventory \in Nat
  BY DEF QuotingStates
<1>3. settled.value \in Nat
  BY <1>1, QuoteType
<1>. HIDE DEF out
<1>4. /\ settled.value = out.value
      /\ out.value # 0
      /\ ~(out.value >= IF baseToQuote THEN st.quote_inventory
                                       ELSE st.base_inventory)
      /\ ~(AbsInt(InventoryImbalanceBps(
               IF baseToQuote THEN st.base_inventory + amountIn
                              ELSE st.base_inventory - out.value,
               st.target_base_inventory)) > p.hard_inventory_band_bps)
  BY <1>1 DEF SettleQuote, Ok, Err, NoError
<1>5. p.hard_inventory_band_bps \in Nat
  BY DEF QuoteParams
<1>. DEFINE newBase == IF baseToQuote THEN st.base_inventory + amountIn
                                      ELSE st.base_inventory - out.value
<1>6. newBase \in Nat
  BY <1>2, <1>3, <1>4
<1>7. InventoryImbalanceBps(newBase, st.target_base_inventory) \in Int
  BY <1>2, <1>6, ImbalanceType
<1>. HIDE DEF settled
<1>. QED
  BY <1>1, <1>2, <1>3, <1>4, <1>5, <1>7 DEF AbsInt

(* An accepted quote is within the trade limit at mid, a floor apart.      *)
LEMMA QuoteSized ==
  ASSUME NEW st \in QuotingStates, NEW p \in QuoteParams,
         NEW amountIn \in Nat, NEW baseToQuote \in BOOLEAN,
         st.mid_price > 0,
         QuoteExactIn(st, p, amountIn, baseToQuote).error = NoError
  PROVE  (IF baseToQuote THEN amountIn * st.mid_price ELSE amountIn * Q64)
           < (MaxBaseTradeForAge(st, p) + 1) * st.mid_price
<1>. DEFINE equivalent == BaseEquivalentAmount(st.mid_price, amountIn, baseToQuote)
            limit      == MaxBaseTradeForAge(st, p)
            mid        == st.mid_price
<1>1. /\ MathParamsValid(p)
      /\ equivalent.error = NoError /\ ~(equivalent.value > limit)
  BY QuoteAccepted
<1>2. mid \in Nat /\ limit \in Nat
  BY <1>1, LimitType DEF QuotingStates
<1>. HIDE DEF limit, mid
<1>3. CASE baseToQuote
  <2>1. equivalent.value = amountIn
    BY <1>3 DEF BaseEquivalentAmount, Ok
  <2>2. amountIn + 1 <= limit + 1 /\ amountIn + 1 \in Nat /\ limit + 1 \in Nat
    BY <1>1, <1>2, <2>1
  <2>3. (amountIn + 1) * mid <= (limit + 1) * mid
    BY <1>2, <2>2, ProductMonotone
  <2>4. amountIn * mid < (amountIn + 1) * mid
    BY <1>2 DEF mid
  <2>5. /\ amountIn * mid \in Nat /\ (amountIn + 1) * mid \in Nat
        /\ (limit + 1) * mid \in Nat
    BY <1>2, <2>2, ProductNat
  <2>6. amountIn * mid < (limit + 1) * mid
    BY <2>3, <2>4, <2>5
  <2>. QED
    BY <1>3, <2>6 DEF limit, mid
<1>4. CASE ~baseToQuote
  <2>1. equivalent = DivAmountFloor(mid, amountIn)
    BY <1>4 DEF BaseEquivalentAmount, mid
  <2>2. /\ equivalent.value \in Nat
        /\ amountIn * Q64 < mid * (equivalent.value + 1)
    BY <1>1, <1>2, <2>1, ConversionExact
  <2>. HIDE DEF equivalent
  <2>3. (equivalent.value + 1) * mid <= (limit + 1) * mid
    BY <1>1, <1>2, <2>2, ProductMonotone
  <2>4. /\ amountIn * Q64 \in Nat /\ (equivalent.value + 1) * mid \in Nat
        /\ (limit + 1) * mid \in Nat
        /\ mid * (equivalent.value + 1) = (equivalent.value + 1) * mid
    BY <1>2, <2>2, ProductNat, Q64Positive
  <2>5. amountIn * Q64 < (limit + 1) * mid
    BY <2>2, <2>3, <2>4
  <2>. QED
    BY <1>4, <2>5 DEF limit, mid
<1>. QED
  BY <1>3, <1>4

(* An accepted quote is no better than mid moved by the half spread        *)
(* against the trader and by the largest skew for it, a floor of the       *)
(* effective price apart.                                                  *)
LEMMA QuotePriced ==
  ASSUME NEW st \in QuotingStates, NEW p \in QuoteParams,
         NEW amountIn \in Nat, NEW baseToQuote \in BOOLEAN,
         WorstSpread(p.base_half_spread_bps, p) < BPS,
         QuoteExactIn(st, p, amountIn, baseToQuote).error = NoError
  PROVE  LET out  == QuoteExactIn(st, p, amountIn, baseToQuote).value
             mid  == st.mid_price
             half == p.base_half_spread_bps
             skew == p.max_inventory_skew_bps
         IN  IF baseToQuote
             THEN out * Q64 * BPS <= amountIn * mid * (BPS - half + skew)
             ELSE out * (mid * (BPS + half - skew) - BPS) <= amountIn * Q64 * BPS
<1>. DEFINE lessFee == AmountLessFee(amountIn, p.fee_bps).value
            price   == QuotedPrice(st, p, baseToQuote)
            quoted  == QuotedOut(st, p, lessFee, baseToQuote)
            out     == QuoteExactIn(st, p, amountIn, baseToQuote).value
            mid     == st.mid_price
            half    == p.base_half_spread_bps
            most    == p.max_inventory_skew_bps
            spread  == AppliedSpreadBps(st, p)
            skew    == InventorySkewBps(InventoryImbalanceBps(
                           st.base_inventory, st.target_base_inventory), p)
            factor  == PriceFactorBps(spread, skew, baseToQuote)
<1>1. quoted.error = NoError /\ out = quoted.value /\ MathParamsValid(p)
  BY QuoteAccepted
<1>2. /\ mid \in Nat /\ half \in Nat /\ most \in Nat
      /\ p.max_aging_surcharge_bps \in Nat
      /\ p.fee_bps \in Nat /\ p.fee_bps < BPS
      /\ half + p.max_aging_surcharge_bps + most < BPS
      /\ BPS \in Nat \ {0}
  BY <1>1, BPSAssumption DEF QuotingStates, QuoteParams, MathParamsValid, WorstSpread
<1>3. lessFee \in Nat /\ lessFee <= amountIn
  BY <1>2, LessFeeBounds
<1>4. /\ spread \in Nat /\ half <= spread
      /\ spread <= half + p.max_aging_surcharge_bps
      /\ skew \in -most .. most
  BY SpreadAndSkew
<1>5. /\ price.error = NoError
      /\ quoted = IF baseToQuote THEN MulAmountFloor(price.value, lessFee)
                                 ELSE DivAmountFloor(price.value, lessFee)
  <2>1. quoted = IF price.error # NoError THEN price
                 ELSE IF baseToQuote THEN MulAmountFloor(price.value, lessFee)
                 ELSE DivAmountFloor(price.value, lessFee)
    BY DEF QuotedOut
  <2>. HIDE DEF quoted, price
  <2>. QED
    BY <1>1, <2>1
<1>6. price = EffectivePrice(mid, spread, skew, baseToQuote)
  BY DEF QuotedPrice
<1>. HIDE DEF lessFee, price, quoted, out, mid, half, most, spread, skew
<1>7. factor \in Nat \ {0}
  BY <1>2, <1>4 DEF PriceFactorBps
<1>8. /\ price.value \in Nat
      /\ BPS * price.value <= mid * factor
      /\ mid * factor < BPS * (price.value + 1)
  <2>1. price = MulDivFloor(mid, factor, BPS)
    <3>1. ~(factor <= 0)
      BY <1>7
    <3>. QED
      BY <1>6, <3>1 DEF EffectivePrice
  <2>. QED
    BY <1>2, <1>5, <1>7, <2>1, MulDivFloorExact
<1>9. CASE baseToQuote
  <2>. DEFINE top == BPS - half + most
  <2>1. top \in Nat /\ factor <= top
    BY <1>2, <1>4, <1>9 DEF PriceFactorBps
  <2>2. out \in Nat /\ Q64 * out <= lessFee * price.value
    BY <1>1, <1>3, <1>5, <1>8, <1>9, ConversionExact
  <2>. HIDE DEF factor, top
  <2>3. mid * factor <= mid * top
    BY <1>2, <1>7, <2>1, ProductMonotone
  <2>4. BPS * price.value <= mid * top
    BY <1>2, <1>7, <1>8, <2>1, <2>3
  <2>5. (Q64 * out) * BPS <= (lessFee * price.value) * BPS
    BY <1>2, <1>3, <1>8, <2>2, ProductMonotone, ProductNat, Q64Positive
  <2>6. (lessFee * price.value) * BPS = (BPS * price.value) * lessFee
    BY <1>2, <1>3, <1>8
  <2>7. (BPS * price.value) * lessFee <= (mid * top) * lessFee
    BY <1>2, <1>3, <1>8, <2>1, <2>4, ProductMonotone, ProductNat
  <2>8. lessFee * (mid * top) <= amountIn * (mid * top)
    BY <1>2, <1>3, <2>1, ProductMonotone, ProductNat
  <2>9. /\ (Q64 * out) * BPS = out * Q64 * BPS
        /\ (mid * top) * lessFee = lessFee * (mid * top)
        /\ amountIn * (mid * top) = amountIn * mid * top
    BY <1>2, <1>3, <2>1, <2>2, Q64Positive
  <2>10. /\ (Q64 * out) * BPS \in Nat /\ (BPS * price.value) * lessFee \in Nat
         /\ lessFee * (mid * top) \in Nat /\ amountIn * (mid * top) \in Nat
    BY <1>2, <1>3, <1>8, <2>1, <2>2, ProductNat, Q64Positive
  <2>11. out * Q64 * BPS <= amountIn * mid * top
    BY <2>5, <2>6, <2>7, <2>8, <2>9, <2>10
  <2>. QED
    BY <1>9, <2>11 DEF out, mid, half, most, top
<1>10. CASE ~baseToQuote
  <2>. DEFINE bottom == BPS + half - most
              least  == mid * bottom - BPS
  <2>1. bottom \in Nat /\ bottom <= factor
    BY <1>2, <1>4, <1>10 DEF PriceFactorBps
  <2>2. out \in Nat /\ price.value * out <= lessFee * Q64
    BY <1>1, <1>3, <1>5, <1>8, <1>10, ConversionExact
  <2>. HIDE DEF factor, bottom
  <2>3. mid * bottom <= mid * factor
    BY <1>2, <1>7, <2>1, ProductMonotone
  <2>4. /\ mid * bottom \in Nat /\ mid * factor \in Nat
        /\ BPS * (price.value + 1) = BPS * price.value + BPS
        /\ BPS * price.value \in Nat
    BY <1>2, <1>7, <1>8, <2>1, ProductNat
  <2>5. least \in Int /\ least <= BPS * price.value
    BY <1>2, <1>8, <2>3, <2>4
  <2>. HIDE DEF least
  <2>6. out * least <= out * (BPS * price.value)
    BY <2>2, <2>4, <2>5
  <2>7. out * (BPS * price.value) = (price.value * out) * BPS
    BY <1>2, <1>8, <2>2
  <2>8. (price.value * out) * BPS <= (lessFee * Q64) * BPS
    BY <1>2, <1>3, <1>8, <2>2, ProductMonotone, ProductNat, Q64Positive
  <2>9. lessFee * (Q64 * BPS) <= amountIn * (Q64 * BPS)
    BY <1>2, <1>3, ProductMonotone, ProductNat, Q64Positive
  <2>10. /\ (lessFee * Q64) * BPS = lessFee * (Q64 * BPS)
         /\ amountIn * (Q64 * BPS) = amountIn * Q64 * BPS
    BY <1>2, <1>3, Q64Positive
  <2>11. /\ out * least \in Int /\ (price.value * out) * BPS \in Nat
         /\ lessFee * (Q64 * BPS) \in Nat /\ amountIn * (Q64 * BPS) \in Nat
    BY <1>2, <1>3, <1>8, <2>2, <2>5, ProductNat, Q64Positive
  <2>12. out * least <= amountIn * Q64 * BPS
    BY <2>6, <2>7, <2>8, <2>9, <2>10, <2>11
  <2>. QED
    BY <1>10, <2>12 DEF out, mid, half, most, least, bottom
<1>. QED
  BY <1>9, <1>10

(* Parameters that pass pool validation, with a half spread that keeps the *)
(* worst case below the whole, are never rejected as misconfigured by the  *)
(* math crate: it validates less, and its price factor stays positive.     *)
LEMMA NeverMisconfigured ==
  ASSUME NEW st \in QuotingStates, NEW p \in QuoteParams,
         NEW amountIn \in Nat, NEW baseToQuote \in BOOLEAN,
         MathParamsValid(p), WorstSpread(p.base_half_spread_bps, p) < BPS,
         st.target_base_inventory > 0
  PROVE  QuoteExactIn(st, p, amountIn, baseToQuote).error # "InvalidConfig"
<1>. DEFINE skew   == InventorySkewBps(InventoryImbalanceBps(
                          st.base_inventory, st.target_base_inventory), p)
            spread == AppliedSpreadBps(st, p)
<1>1. PriceFactorBps(spread, skew, baseToQuote) > 0
  <2>1. /\ p.base_half_spread_bps \in Nat /\ p.max_aging_surcharge_bps \in Nat
        /\ p.max_inventory_skew_bps \in Nat
    BY DEF QuoteParams
  <2>2. /\ spread \in Nat
        /\ spread <= p.base_half_spread_bps + p.max_aging_surcharge_bps
        /\ skew \in -p.max_inventory_skew_bps .. p.max_inventory_skew_bps
    BY SpreadAndSkew
  <2>. HIDE DEF skew, spread
  <2>. QED
    BY <2>1, <2>2, BPSAssumption DEF PriceFactorBps, WorstSpread
<1>2. QuotedPrice(st, p, baseToQuote).error # "InvalidConfig"
  <2>1. QuotedPrice(st, p, baseToQuote)
          = EffectivePrice(st.mid_price, spread, skew, baseToQuote)
    BY DEF QuotedPrice
  <2>. HIDE DEF skew, spread
  <2>2. EffectivePrice(st.mid_price, spread, skew, baseToQuote)
          = MulDivFloor(st.mid_price,
                        PriceFactorBps(spread, skew, baseToQuote), BPS)
    <3>1. ~(PriceFactorBps(spread, skew, baseToQuote) <= 0)
      <4>1. spread \in Nat /\ skew \in Int
        BY SpreadAndSkew DEF spread, skew, QuoteParams
      <4>2. PriceFactorBps(spread, skew, baseToQuote) \in Int
        BY <4>1, BPSAssumption DEF PriceFactorBps
      <4>. QED
        BY <1>1, <4>2
    <3>. QED
      BY <3>1 DEF EffectivePrice
  <2>. QED
    BY <2>1, <2>2 DEF MulDivFloor, Ok, Err, NoError
<1>3. \A amount : QuotedOut(st, p, amount, baseToQuote).error # "InvalidConfig"
  BY <1>2 DEF QuotedOut, MulAmountFloor, DivAmountFloor, ToU64, MulDivFloor,
              Ok, Err, NoError
<1>4. PriceTrade(st, p, amountIn, baseToQuote).error # "InvalidConfig"
  BY <1>3 DEF PriceTrade, BaseEquivalentAmount, AmountLessFee, SettleQuote,
              DivAmountFloor, ToU64, MulDivFloor, Ok, Err, NoError
<1>5. st.target_base_inventory # 0
  BY DEF QuotingStates
<1>. QED
  BY <1>4, <1>5 DEF QuoteExactIn, Err

=============================================================================
