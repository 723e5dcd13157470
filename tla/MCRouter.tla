------------------------------ MODULE MCRouter ------------------------------
(***************************************************************************)
(* A small instance of Router.  A machine word holds 0..31 and there are   *)
(* 20 basis points to the whole.  The pool is wide enough that routes in   *)
(* both directions compete for the last atoms of a vault.                  *)
(***************************************************************************)
EXTENDS Router, TLC

CONSTANTS maker, taker, nobody

Parameters ==
  [fee_bps |-> 1, base_half_spread_bps |-> 1,
   aging_start_slots |-> 1, protected_start_slots |-> 2, expire_slots |-> 3,
   aging_surcharge_bps_per_slot |-> 2, max_aging_surcharge_bps |-> 3,
   max_trade_base_atoms |-> 5, protected_max_trade_base_atoms |-> 2,
   inventory_skew_bps_per_10k_imbalance |-> 8, max_inventory_skew_bps |-> 4,
   hard_inventory_band_bps |-> 20]

Mint == [decimals |-> 6, transfer_fee |-> FALSE]

Args == [params |-> Parameters,
         envelope |-> [max_maker_update_period_slots |-> 1,
                       max_landing_latency_slots |-> 1,
                       min_update_success_probability_bps |-> 20,
                       same_slot_order |-> 1],
         budget |-> [required_swap_account_metas |-> 13,
                     max_swap_account_metas |-> 13],
         base_mint |-> Mint, quote_mint |-> Mint]

(* The second pool ages from the first slot on, with a limit that decays   *)
(* for two slots and a skew that does not divide.                          *)
RouterPoolArgs ==
  {Args,
   [Args EXCEPT !.params.aging_start_slots = 0,
                !.params.inventory_skew_bps_per_10k_imbalance = 7]}

RouterKeys  == {maker, taker}
RouterBase  == (maker :> 4) @@ (taker :> 5)
RouterQuote == (maker :> 5) @@ (taker :> 5)

=============================================================================
