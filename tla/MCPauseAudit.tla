---------------------------- MODULE MCPauseAudit ----------------------------
(***************************************************************************)
(* A small instance of PauseAudit: one pool, one price, one trade size.    *)
(***************************************************************************)
EXTENDS PauseAudit, TLC

CONSTANTS maker, taker, nobody

Parameters ==
  [fee_bps |-> 0, base_half_spread_bps |-> 1,
   aging_start_slots |-> 1, protected_start_slots |-> 2, expire_slots |-> 3,
   aging_surcharge_bps_per_slot |-> 1, max_aging_surcharge_bps |-> 1,
   max_trade_base_atoms |-> 4, protected_max_trade_base_atoms |-> 1,
   inventory_skew_bps_per_10k_imbalance |-> 0, max_inventory_skew_bps |-> 0,
   hard_inventory_band_bps |-> 20]

Mint == [decimals |-> 6, transfer_fee |-> FALSE]

PausePoolArgs ==
  {[params |-> Parameters,
    envelope |-> [max_maker_update_period_slots |-> 1,
                  max_landing_latency_slots |-> 0,
                  min_update_success_probability_bps |-> 20,
                  same_slot_order |-> 0],
    budget |-> [required_swap_account_metas |-> 13,
                max_swap_account_metas |-> 13],
    base_mint |-> Mint, quote_mint |-> Mint]}

PauseKeys   == {maker, taker}
PauseTokens == (maker :> 4) @@ (taker :> 4)

=============================================================================
