----------------------------- MODULE MCMetaAmm ------------------------------
(***************************************************************************)
(* Small instances of MetaAmm.  A machine word holds 0..63, so a raw price *)
(* of 64 is one quote atom per base atom, and there are 20 basis points to *)
(* the whole.                                                              *)
(***************************************************************************)
EXTENDS MetaAmmProperties, StoredConfig, TLC

CONSTANTS maker, keeper, taker, nobody

(* Half spread 1, surcharge 3 a slot up to 4, skew up to 4: worst case 9   *)
(* of 20.  Fresh for one slot, aging for two, protected for one.           *)
Parameters ==
  [fee_bps |-> 1, base_half_spread_bps |-> 1,
   aging_start_slots |-> 1, protected_start_slots |-> 3, expire_slots |-> 4,
   aging_surcharge_bps_per_slot |-> 3, max_aging_surcharge_bps |-> 4,
   max_trade_base_atoms |-> 5, protected_max_trade_base_atoms |-> 2,
   inventory_skew_bps_per_10k_imbalance |-> 10, max_inventory_skew_bps |-> 4,
   hard_inventory_band_bps |-> 10]

Envelope == [max_maker_update_period_slots |-> 1,
             max_landing_latency_slots |-> 1,
             min_update_success_probability_bps |-> 18,
             same_slot_order |-> 0]

Budget == [required_swap_account_metas |-> 13, max_swap_account_metas |-> 15]

ExactMint == [decimals |-> 9, transfer_fee |-> FALSE]
FeeMint   == [decimals |-> 6, transfer_fee |-> TRUE]

Args == [params |-> Parameters, envelope |-> Envelope, budget |-> Budget,
         base_mint |-> ExactMint, quote_mint |-> ExactMint]

TradingPoolArgs ==
  {Args,
   [Args EXCEPT !.base_mint = FeeMint],
   [Args EXCEPT !.quote_mint = FeeMint]}

(* The second pool starts at the largest spread stack that is accepted,    *)
(* the third would be one basis point past it; the fourth could not be     *)
(* refreshed before its quotes expire; the last ages straight from fresh   *)
(* to protected and trades in either same-slot order.                      *)
QuotingPoolArgs ==
  {Args,
   [Args EXCEPT !.params.base_half_spread_bps = 11],
   [Args EXCEPT !.params.base_half_spread_bps = 12],
   [Args EXCEPT !.envelope.max_maker_update_period_slots = 3],
   [Args EXCEPT !.params.aging_start_slots = 3,
                !.envelope.same_slot_order = 1]}

(* The widest band, no fee and no spread: the pool trades down to the last *)
(* atom, and the target outgrows a three-bit word.  Quotes live for two    *)
(* slots.                                                                  *)
NarrowPoolArgs ==
  {[Args EXCEPT !.params.fee_bps = 0,
                !.params.base_half_spread_bps = 0,
                !.params.protected_start_slots = 1,
                !.params.expire_slots = 2,
                !.params.hard_inventory_band_bps = 20,
                !.envelope.max_landing_latency_slots = 0]}

NarrowBase  == (maker :> 4) @@ (taker :> 2)
NarrowQuote == (maker :> 4) @@ (taker :> 3)

TradingKeys  == {maker, taker}
TradingBase  == (maker :> 8) @@ (taker :> 4)
TradingQuote == (maker :> 10) @@ (taker :> 6)

QuotingKeys  == {maker, keeper, taker}
QuotingBase  == (maker :> 4) @@ (keeper :> 0) @@ (taker :> 4)
QuotingQuote == (maker :> 4) @@ (keeper :> 0) @@ (taker :> 4)

=============================================================================
