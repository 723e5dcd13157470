--------------------------- MODULE ReferenceQuote ---------------------------
(***************************************************************************)
(* The pure pricing function of crates/meta_amm_math/src/reference.rs and  *)
(* the parameter validation of crates/meta_amm_config/src/lib.rs.          *)
(*                                                                         *)
(* A quoting state st has the fields of the code's ReferenceQuoteState:    *)
(* base_inventory, quote_inventory, target_base_inventory, mid_price,      *)
(* mid_publish_slot, now_slot, paused.  A parameter record p has those of  *)
(* ReferenceQuoteParams.  BPS is the code's 10_000.                        *)
(***************************************************************************)
EXTENDS FixedPoint

CONSTANTS BPS, MaxI32

(* BASIS_POINTS fits an i32 with room to spare. *)
ASSUME BPSAssumption == BPS \in Nat \ {0} /\ MaxI32 \in Nat /\ BPS < MaxI32

RequiredSwapMetas == 13
MaxDecimals       == 12

-----------------------------------------------------------------------------
(* Parameter validation. *)

(* The fields of ReferenceQuoteParams. *)
QuoteParams ==
  [fee_bps : Nat, base_half_spread_bps : Nat, aging_start_slots : Nat,
   protected_start_slots : Nat, expire_slots : Nat,
   aging_surcharge_bps_per_slot : Nat, max_aging_surcharge_bps : Nat,
   max_trade_base_atoms : Nat, protected_max_trade_base_atoms : Nat,
   inventory_skew_bps_per_10k_imbalance : Nat, max_inventory_skew_bps : Nat,
   hard_inventory_band_bps : Nat]

(* validate_params of the math crate, run again on every quote.  It knows  *)
(* neither the inventory band nor the worst case of the spread stack.      *)
MathParamsValid(p) ==
  /\ p.fee_bps < BPS
  /\ p.base_half_spread_bps < BPS
  /\ p.max_aging_surcharge_bps < BPS
  /\ p.inventory_skew_bps_per_10k_imbalance < BPS
  /\ p.max_inventory_skew_bps < BPS
  /\ p.aging_start_slots <= p.protected_start_slots
  /\ p.protected_start_slots < p.expire_slots
  /\ 0 < p.protected_max_trade_base_atoms
  /\ p.protected_max_trade_base_atoms <= p.max_trade_base_atoms

(* Base half spread, aging surcharge and inventory skew at their maxima. *)
WorstSpread(baseHalfSpreadBps, p) ==
  baseHalfSpreadBps + p.max_aging_surcharge_bps + p.max_inventory_skew_bps

(* validate_reference_quote_params, run when a pool is initialized. *)
ConfigParamsValid(p) ==
  /\ MathParamsValid(p)
  /\ p.aging_surcharge_bps_per_slot < BPS
  /\ p.hard_inventory_band_bps \in 1 .. BPS
  /\ WorstSpread(p.base_half_spread_bps, p) < BPS

(* Mutation: the envelope may reach the expiry. *)
EnvelopeValid_UpToExpiry(e, expireSlots) ==
  /\ e.max_maker_update_period_slots > 0
  /\ e.min_update_success_probability_bps \in 1 .. BPS
  /\ e.max_maker_update_period_slots + e.max_landing_latency_slots <= expireSlots

(* validate_quote_update_envelope. *)
EnvelopeValid(e, expireSlots) ==
  /\ e.max_maker_update_period_slots > 0
  /\ e.min_update_success_probability_bps \in 1 .. BPS
  /\ e.max_maker_update_period_slots + e.max_landing_latency_slots < expireSlots

(* validate_account_budget: a swap names RequiredSwapMetas accounts.       *)
BudgetValid(budget) ==
  /\ budget.required_swap_account_metas >= RequiredSwapMetas
  /\ budget.required_swap_account_metas <= budget.max_swap_account_metas

(* compile_reference_quote_config; DecimalScale::new accepts up to         *)
(* MaxDecimals decimals on either side.                                    *)
ConfigCompiles(params, envelope, budget, baseMint, quoteMint) ==
  /\ ConfigParamsValid(params)
  /\ EnvelopeValid(envelope, params.expire_slots)
  /\ BudgetValid(budget)
  /\ baseMint.decimals <= MaxDecimals
  /\ quoteMint.decimals <= MaxDecimals

-----------------------------------------------------------------------------
(* Quote age. *)

QuoteAge(st) == SaturatingSub(st.now_slot, st.mid_publish_slot)

(* Mutation: the quote expires one slot late. *)
QuoteAgeState_ExpiresLate(st, p) ==
  IF st.paused THEN "Paused"
  ELSE IF QuoteAge(st) > p.expire_slots THEN "Expired"
  ELSE IF QuoteAge(st) >= p.protected_start_slots THEN "Protected"
  ELSE IF QuoteAge(st) >= p.aging_start_slots THEN "Aging"
  ELSE "Fresh"

QuoteAgeState(st, p) ==
  IF st.paused THEN "Paused"
  ELSE IF QuoteAge(st) >= p.expire_slots THEN "Expired"
  ELSE IF QuoteAge(st) >= p.protected_start_slots THEN "Protected"
  ELSE IF QuoteAge(st) >= p.aging_start_slots THEN "Aging"
  ELSE "Fresh"

(* The trade limit decays linearly while the quote is aging. *)
AgingMaxTrade(st, p) ==
  LET span == Greatest(p.protected_start_slots - p.aging_start_slots, 1)
      into == Least(SaturatingSub(QuoteAge(st), p.aging_start_slots), span)
  IN  p.max_trade_base_atoms
        - ((p.max_trade_base_atoms - p.protected_max_trade_base_atoms) * into)
            \div span

MaxBaseTradeForAge(st, p) ==
  CASE QuoteAgeState(st, p) = "Fresh"     -> p.max_trade_base_atoms
    [] QuoteAgeState(st, p) = "Aging"     -> AgingMaxTrade(st, p)
    [] QuoteAgeState(st, p) = "Protected" -> p.protected_max_trade_base_atoms
    [] OTHER                              -> 0

(* Mutation: the surcharge is charged in the aging state only. *)
AgingSurchargeBps_AgingOnly(st, p) ==
  IF QuoteAgeState(st, p) # "Aging" THEN 0
  ELSE Least((QuoteAge(st) - p.aging_start_slots)
               * p.aging_surcharge_bps_per_slot,
             p.max_aging_surcharge_bps)

AgingSurchargeBps(st, p) ==
  Least(SaturatingSub(QuoteAge(st), p.aging_start_slots)
          * p.aging_surcharge_bps_per_slot,
        p.max_aging_surcharge_bps)

-----------------------------------------------------------------------------
(* Inventory and price. *)

InventoryImbalanceBps(base, target) ==
  IF target = 0 THEN 0
  ELSE Clamp(TruncDiv((base - target) * BPS, target), -MaxI32 - 1, MaxI32)

InventorySkewBps(imbalance, p) ==
  Clamp(TruncDiv(imbalance * p.inventory_skew_bps_per_10k_imbalance, BPS),
        -p.max_inventory_skew_bps, p.max_inventory_skew_bps)

(* Mutation: the spread is added on both sides. *)
PriceFactorBps_SpreadAdded(spread, skew, baseToQuote) == BPS + spread - skew

(* A seller of base gets mid less the spread, a buyer pays mid plus it; a  *)
(* pool long of base lowers both prices.                                   *)
PriceFactorBps(spread, skew, baseToQuote) ==
  IF baseToQuote THEN BPS - spread - skew ELSE BPS + spread - skew

EffectivePrice(mid, spread, skew, baseToQuote) ==
  IF PriceFactorBps(spread, skew, baseToQuote) <= 0 THEN Err("InvalidConfig")
  ELSE MulDivFloor(mid, PriceFactorBps(spread, skew, baseToQuote), BPS)

AmountLessFee(amount, feeBps) ==
  LET result == (amount * (BPS - feeBps)) \div BPS
  IN  IF result = 0 THEN Err("InvalidAmount") ELSE Ok(result)

BaseEquivalentAmount(mid, amountIn, baseToQuote) ==
  IF baseToQuote THEN Ok(amountIn) ELSE DivAmountFloor(mid, amountIn)

-----------------------------------------------------------------------------
(* quote_exact_in.  Its checks are taken in the order of the code, so that *)
(* an error is the first one the code meets.                               *)

(* Applied spread: the half spread plus the surcharge for the age. *)
AppliedSpreadBps(st, p) == p.base_half_spread_bps + AgingSurchargeBps(st, p)

QuotedPrice(st, p, baseToQuote) ==
  EffectivePrice(st.mid_price, AppliedSpreadBps(st, p),
                 InventorySkewBps(InventoryImbalanceBps(
                     st.base_inventory, st.target_base_inventory), p),
                 baseToQuote)

QuotedOut(st, p, amountLessFee, baseToQuote) ==
  LET price == QuotedPrice(st, p, baseToQuote)
  IN  IF price.error # NoError THEN price
      ELSE IF baseToQuote THEN MulAmountFloor(price.value, amountLessFee)
      ELSE DivAmountFloor(price.value, amountLessFee)

(* Mutation: the band is checked on the inventory before the trade. *)
SettleQuote_BandBeforeTrade(st, p, amountIn, amountOut, baseToQuote) ==
  LET pays  == IF baseToQuote THEN st.quote_inventory ELSE st.base_inventory
      takes == IF baseToQuote THEN st.base_inventory ELSE st.quote_inventory
  IN  IF amountOut = 0 \/ amountOut >= pays THEN Err("InvalidAmount")
      ELSE IF takes + amountIn > MaxU64 THEN Err("Overflow")
      ELSE IF AbsInt(InventoryImbalanceBps(st.base_inventory,
                                           st.target_base_inventory))
                > p.hard_inventory_band_bps
        THEN Err("InventoryBand")
      ELSE Ok(amountOut)

(* Mutation: the output may be the whole inventory. *)
SettleQuote_MayDrain(st, p, amountIn, amountOut, baseToQuote) ==
  LET pays    == IF baseToQuote THEN st.quote_inventory ELSE st.base_inventory
      takes   == IF baseToQuote THEN st.base_inventory ELSE st.quote_inventory
      newBase == IF baseToQuote THEN st.base_inventory + amountIn
                                ELSE st.base_inventory - amountOut
  IN  IF amountOut = 0 \/ amountOut > pays THEN Err("InvalidAmount")
      ELSE IF takes + amountIn > MaxU64 THEN Err("Overflow")
      ELSE IF AbsInt(InventoryImbalanceBps(newBase, st.target_base_inventory))
                > p.hard_inventory_band_bps
        THEN Err("InventoryBand")
      ELSE Ok(amountOut)

(* The inventories after the trade and the hard band check on them. *)
SettleQuote(st, p, amountIn, amountOut, baseToQuote) ==
  LET pays    == IF baseToQuote THEN st.quote_inventory ELSE st.base_inventory
      takes   == IF baseToQuote THEN st.base_inventory ELSE st.quote_inventory
      newBase == IF baseToQuote THEN st.base_inventory + amountIn
                                ELSE st.base_inventory - amountOut
  IN  IF amountOut = 0 \/ amountOut >= pays THEN Err("InvalidAmount")
      ELSE IF takes + amountIn > MaxU64 THEN Err("Overflow")
      ELSE IF AbsInt(InventoryImbalanceBps(newBase, st.target_base_inventory))
                > p.hard_inventory_band_bps
        THEN Err("InventoryBand")
      ELSE Ok(amountOut)

(* Size, fee and price checks once the quote may be traded on. *)
PriceTrade(st, p, amountIn, baseToQuote) ==
  LET equivalent == BaseEquivalentAmount(st.mid_price, amountIn, baseToQuote)
      lessFee    == AmountLessFee(amountIn, p.fee_bps)
      out        == QuotedOut(st, p, lessFee.value, baseToQuote)
  IN  IF equivalent.error # NoError THEN equivalent
      ELSE IF \/ equivalent.value = 0
              \/ equivalent.value > MaxBaseTradeForAge(st, p)
        THEN Err(IF QuoteAgeState(st, p) = "Protected"
                   THEN "QuoteProtected" ELSE "InvalidAmount")
      ELSE IF lessFee.error # NoError THEN lessFee
      ELSE IF out.error # NoError THEN out
      ELSE SettleQuote(st, p, amountIn, out.value, baseToQuote)

QuoteExactIn(st, p, amountIn, baseToQuote) ==
  IF ~MathParamsValid(p) THEN Err("InvalidConfig")
  ELSE IF amountIn = 0 THEN Err("InvalidAmount")
  ELSE IF st.base_inventory = 0 \/ st.quote_inventory = 0
    THEN Err("EmptyLiquidity")
  ELSE IF st.target_base_inventory = 0 THEN Err("InvalidConfig")
  ELSE IF QuoteAgeState(st, p) = "Paused" THEN Err("PoolPaused")
  ELSE IF QuoteAgeState(st, p) = "Expired" THEN Err("StaleQuote")
  ELSE PriceTrade(st, p, amountIn, baseToQuote)

=============================================================================
