----------------------------- MODULE MarketPath ------------------------------
(***************************************************************************)
(* simulate_reference_quote_market_path of crates/meta_amm_sim/src/lib.rs: *)
(* the maker publishes on a fixed period, an update lands after a fixed    *)
(* latency or is dropped by chance, and the mid it carries is the fair     *)
(* price of the row at which the simulation catches up with it.            *)
(***************************************************************************)
EXTENDS QuoteSimulation

MarketInit ==
  /\ ~scenario.recorded
  /\ nextUpdateSlot = policy.maker_update_period_slots

(* The publish slots a row at this slot catches up with. *)
DueCount(slot) ==
  IF nextUpdateSlot > slot THEN 0
  ELSE (slot - nextUpdateSlot) \div policy.maker_update_period_slots + 1

DueSlot(i) == nextUpdateSlot + (i - 1) * policy.maker_update_period_slots

(* quote_update_should_land: each publish slot draws its own chance, which *)
(* is certain at the two ends.                                             *)
LandingChoices(due) ==
  IF policy.update_success_probability_bps = BPS THEN {due}
  ELSE IF policy.update_success_probability_bps = 0 THEN {{}}
  ELSE SUBSET due

(* Those that will land, by their number among the due. *)
Published(landing, fairPrice) ==
  [i \in landing |->
     [publish_slot |-> DueSlot(i),
      landing_slot |-> DueSlot(i) + policy.landing_latency_slots,
      mid_price    |-> fairPrice]]

MarketRow(slot, fairPrice, order) ==
  /\ ~scenario.recorded
  /\ \E landing \in LandingChoices(1 .. DueCount(slot)) :
       Row(slot, fairPrice, order, Published(landing, fairPrice), DueCount(slot))
  /\ nextUpdateSlot' = nextUpdateSlot
       + DueCount(slot) * policy.maker_update_period_slots

-----------------------------------------------------------------------------
(* Properties. *)

Envelope ==
  [max_maker_update_period_slots |-> policy.maker_update_period_slots,
   max_landing_latency_slots |-> policy.landing_latency_slots,
   min_update_success_probability_bps |-> BPS]

(* The envelope the configuration demands is enough: a maker that updates  *)
(* within it and loses no update never has a quote expire under an order,  *)
(* in either same-slot order and however far apart the rows are.           *)
EnvelopeKeepsQuotesAlive ==
  /\ ~scenario.recorded
  /\ policy.update_success_probability_bps = BPS
  /\ EnvelopeValid(Envelope, scenario.params.expire_slots)
  => /\ report.rejected_stale = 0
     /\ report.max_quote_age_slots < scenario.params.expire_slots

=============================================================================
