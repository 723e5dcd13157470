----------------------------- MODULE MCSimulator --------------------------
(***************************************************************************)
(* Scenarios for small simulations.  A word holds 0..31, a raw price of 32 *)
(* is one quote atom per base atom, and the whole is 20 basis points.      *)
(***************************************************************************)
EXTENDS Simulator

(* Fresh for one slot, aging for one, protected for one, then expired. *)
Parameters ==
  [fee_bps |-> 1, base_half_spread_bps |-> 1,
   aging_start_slots |-> 1, protected_start_slots |-> 2, expire_slots |-> 3,
   aging_surcharge_bps_per_slot |-> 2, max_aging_surcharge_bps |-> 4,
   max_trade_base_atoms |-> 5, protected_max_trade_base_atoms |-> 2,
   inventory_skew_bps_per_10k_imbalance |-> 10, max_inventory_skew_bps |-> 4,
   hard_inventory_band_bps |-> 10]

InstantPolicy ==
  [maker_update_period_slots |-> 1, landing_latency_slots |-> 0,
   update_success_probability_bps |-> 20, same_slot_order |-> "UpdateBeforeSwap"]

Scenario ==
  [params |-> Parameters, quote_update_policy |-> InstantPolicy,
   base |-> 8, quote |-> 12, target |-> 8, mid_price |-> 32,
   recorded |-> FALSE]

(* The largest latency the envelope accepts in either order, the first one *)
(* it refuses, two slow makers, and updates that may be dropped or always  *)
(* are.                                                                    *)
MarketScenarios ==
  {Scenario,
   [Scenario EXCEPT !.quote_update_policy.landing_latency_slots = 1],
   [Scenario EXCEPT !.quote_update_policy.landing_latency_slots = 1,
                    !.quote_update_policy.same_slot_order = "SwapBeforeUpdate"],
   [Scenario EXCEPT !.quote_update_policy.landing_latency_slots = 2,
                    !.quote_update_policy.same_slot_order = "SwapBeforeUpdate"],
   [Scenario EXCEPT !.quote_update_policy.maker_update_period_slots = 2],
   [Scenario EXCEPT !.quote_update_policy.maker_update_period_slots = 4],
   [Scenario EXCEPT !.quote_update_policy.update_success_probability_bps = 10,
                    !.quote_update_policy.landing_latency_slots = 1],
   [Scenario EXCEPT !.quote_update_policy.update_success_probability_bps = 0],
   [Scenario EXCEPT !.quote = 30]}

(* Recorded updates, read in either same-slot order. *)
ReplayScenarios ==
  {[Scenario EXCEPT !.recorded = TRUE],
   [Scenario EXCEPT !.recorded = TRUE,
                    !.quote_update_policy.same_slot_order = "SwapBeforeUpdate",
                    !.base = 4]}

FlowOrders == {[base_to_quote |-> TRUE, amount_in |-> 2],
               [base_to_quote |-> TRUE, amount_in |-> 4],
               [base_to_quote |-> FALSE, amount_in |-> 3]}

AllScenarios == MarketScenarios \cup ReplayScenarios

=============================================================================
