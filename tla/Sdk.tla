-------------------------------- MODULE Sdk ---------------------------------
(***************************************************************************)
(* quoteReferenceExactIn of the TypeScript SDK (sdk/ts/src/index.ts), the  *)
(* second implementation of the pricing function: in integers without a    *)
(* width, with its own checks.  It takes the same quoting state and        *)
(* parameters as ReferenceQuote, whose constants it shares; a thrown error *)
(* is the error of the result.                                             *)
(***************************************************************************)
EXTENDS ReferenceQuote

(* validateParams. *)
SdkParamsValid(p) ==
  /\ \A bps \in {p.fee_bps, p.base_half_spread_bps, p.max_aging_surcharge_bps,
                 p.inventory_skew_bps_per_10k_imbalance,
                 p.max_inventory_skew_bps} : bps \in 0 .. BPS - 1
  /\ p.aging_start_slots <= p.protected_start_slots
  /\ p.protected_start_slots < p.expire_slots
  /\ 0 \notin {p.expire_slots, p.max_trade_base_atoms,
               p.protected_max_trade_base_atoms}
  /\ p.protected_max_trade_base_atoms <= p.max_trade_base_atoms

SdkAge(st) == Greatest(st.now_slot - st.mid_publish_slot, 0)

SdkQuoteAgeState(st, p) ==
  IF st.paused THEN "Paused"
  ELSE IF SdkAge(st) >= p.expire_slots THEN "Expired"
  ELSE IF SdkAge(st) >= p.protected_start_slots THEN "Protected"
  ELSE IF SdkAge(st) >= p.aging_start_slots THEN "Aging"
  ELSE "Fresh"

SdkAmountLessFee(amount, feeBps) ==
  LET result == (amount * (BPS - feeBps)) \div BPS
  IN  IF feeBps >= BPS THEN Err("InvalidFee")
      ELSE IF result = 0 THEN Err("InvalidAmount")
      ELSE Ok(result)

SdkMaxBaseTrade(st, p) ==
  LET span  == Greatest(p.protected_start_slots - p.aging_start_slots, 1)
      into  == Least(Greatest(SdkAge(st) - p.aging_start_slots, 0), span)
      decay == p.max_trade_base_atoms - p.protected_max_trade_base_atoms
      ageState == SdkQuoteAgeState(st, p)
  IN  CASE ageState = "Fresh"     -> p.max_trade_base_atoms
        [] ageState = "Protected" -> p.protected_max_trade_base_atoms
        [] ageState = "Aging"     -> p.max_trade_base_atoms - (decay * into) \div span
        [] OTHER                  -> 0

SdkSurchargeBps(st, p) ==
  Least(Greatest(SdkAge(st) - p.aging_start_slots, 0)
          * p.aging_surcharge_bps_per_slot,
        p.max_aging_surcharge_bps)

SdkImbalanceBps(base, target) ==
  IF target = 0 THEN 0
  ELSE Greatest(-MaxI32 - 1, Least(MaxI32, TruncDiv((base - target) * BPS, target)))

(* Mutation: the skew of a short pool is rounded away from zero. *)
SdkSkewBps_Floored(imbalance, p) ==
  Least(Greatest((imbalance * p.inventory_skew_bps_per_10k_imbalance) \div BPS,
                 -p.max_inventory_skew_bps),
        p.max_inventory_skew_bps)

(* Math.trunc of a quotient of doubles, exact on the products of an i32    *)
(* and some basis points.                                                  *)
SdkSkewBps(imbalance, p) ==
  Least(Greatest(TruncDiv(imbalance * p.inventory_skew_bps_per_10k_imbalance, BPS),
                 -p.max_inventory_skew_bps),
        p.max_inventory_skew_bps)

-----------------------------------------------------------------------------
(* quoteReferenceExactIn. *)

SdkFactorBps(st, p, baseToQuote) ==
  LET spread == p.base_half_spread_bps + SdkSurchargeBps(st, p)
      skew   == SdkSkewBps(SdkImbalanceBps(st.base_inventory,
                                           st.target_base_inventory), p)
  IN  (IF baseToQuote THEN BPS - spread ELSE BPS + spread) - skew

(* effectivePrice, once its factor is known to be positive.                *)
SdkPrice(st, p, baseToQuote) ==
  (st.mid_price * SdkFactorBps(st, p, baseToQuote)) \div BPS

SdkMulAmountFloor(price, amount) == Ok((amount * price) \div Q64)

SdkDivAmountFloor(price, amount) ==
  IF price = 0 THEN Err("DivByZero") ELSE Ok((amount * Q64) \div price)

SdkOut(st, p, amountLessFee, baseToQuote) ==
  IF SdkFactorBps(st, p, baseToQuote) <= 0 THEN Err("InvalidConfig")
  ELSE IF baseToQuote
    THEN SdkMulAmountFloor(SdkPrice(st, p, baseToQuote), amountLessFee)
  ELSE SdkDivAmountFloor(SdkPrice(st, p, baseToQuote), amountLessFee)

(* The inventories after the trade, in integers that cannot overflow.      *)
SdkSettle(st, p, amountIn, amountOut, baseToQuote) ==
  LET pays    == IF baseToQuote THEN st.quote_inventory ELSE st.base_inventory
      newBase == IF baseToQuote THEN st.base_inventory + amountIn
                                ELSE st.base_inventory - amountOut
  IN  IF amountOut = 0 \/ amountOut >= pays THEN Err("InvalidAmount")
      ELSE IF AbsInt(SdkImbalanceBps(newBase, st.target_base_inventory))
                > p.hard_inventory_band_bps
        THEN Err("InventoryBand")
      ELSE Ok(amountOut)

SdkBaseEquivalent(mid, amountIn, baseToQuote) ==
  IF baseToQuote THEN amountIn ELSE SdkDivAmountFloor(mid, amountIn).value

(* Size, fee and price checks once the quote may be traded on.             *)
SdkPriceTrade(st, p, amountIn, baseToQuote) ==
  LET equivalent == SdkBaseEquivalent(st.mid_price, amountIn, baseToQuote)
      lessFee    == SdkAmountLessFee(amountIn, p.fee_bps)
      out        == SdkOut(st, p, lessFee.value, baseToQuote)
  IN  IF equivalent = 0 \/ equivalent > SdkMaxBaseTrade(st, p)
        THEN Err(IF SdkQuoteAgeState(st, p) = "Protected"
                   THEN "QuoteProtected" ELSE "InvalidAmount")
      ELSE IF lessFee.error # NoError THEN lessFee
      ELSE IF out.error # NoError THEN out
      ELSE SdkSettle(st, p, amountIn, out.value, baseToQuote)

(* quoteReferenceExactIn. *)
SdkQuoteExactIn(st, p, amountIn, baseToQuote) ==
  IF ~SdkParamsValid(p) THEN Err("InvalidConfig")
  ELSE IF amountIn = 0 THEN Err("InvalidAmount")
  ELSE IF st.base_inventory = 0 \/ st.quote_inventory = 0
    THEN Err("EmptyLiquidity")
  ELSE IF st.target_base_inventory = 0 \/ st.mid_price = 0
    THEN Err("InvalidConfig")
  ELSE IF SdkQuoteAgeState(st, p) = "Paused" THEN Err("PoolPaused")
  ELSE IF SdkQuoteAgeState(st, p) = "Expired" THEN Err("StaleQuote")
  ELSE SdkPriceTrade(st, p, amountIn, baseToQuote)

=============================================================================
