-------------------------- MODULE QuoteSimulation ---------------------------
(***************************************************************************)
(* What the two ReferenceQuote simulations of crates/meta_amm_sim/src/     *)
(* lib.rs share: the quoting state, the updates in flight, the report, and *)
(* the steps of one row of market data - land updates, age the quote,      *)
(* execute the row's order, and in the other same-slot order land updates  *)
(* again.  MarketPath and ReplayPath add where the updates come from, and  *)
(* Simulator puts them together.                                           *)
(*                                                                         *)
(* An error other than a rejection ends a simulation without a report; its *)
(* state is lost, and the model keeps the one before.                      *)
(***************************************************************************)
EXTENDS ReferenceQuote, Flow, FiniteSets

CONSTANTS
  Scenarios,    \* parameters, update policy, initial inventories, and
                \* whether the updates are recorded
  Orders,       \* FlowOrder: [base_to_quote, amount_in]
  NoOrder,      \* a row without flow
  FairPrices,   \* fair prices of the rows
  MaxSlot,      \* bound on the slots of the rows
  MaxTrades     \* bound on the orders of a run

OrderModes == {"UpdateBeforeSwap", "SwapBeforeUpdate"}

UpdatePolicies == [maker_update_period_slots : Nat,
                   landing_latency_slots : Nat,
                   update_success_probability_bps : Nat,
                   same_slot_order : OrderModes]

ASSUME QuoteSimulationAssumption ==
  /\ \A s \in Scenarios :
       /\ s.params \in QuoteParams
       /\ s.params.hard_inventory_band_bps < MaxI32   \* a u16 fits an i32
       /\ s.quote_update_policy \in UpdatePolicies
       /\ s.recorded \in BOOLEAN
       /\ s.base \in U64 /\ s.quote \in U64 /\ s.mid_price \in Nat
       /\ s.target \in Nat \ {0}   \* without a target no order is quoted
  /\ Orders \subseteq [base_to_quote : BOOLEAN, amount_in : U64]
  /\ NoOrder \notin Orders
  /\ FairPrices \subseteq 0 .. MaxU128
  /\ MaxSlot \in Nat /\ MaxTrades \in Nat

VARIABLES
  scenario,   \* never changes
  state,      \* ReferenceQuoteState of the math crate
  pending,    \* updates in flight, by the number they were sent as
  report,     \* counters of ReferenceQuoteReport
  result,     \* NoError while the simulation runs, then the error it returns
  nextUpdateSlot   \* updates published from here on have not been read

policy == scenario.quote_update_policy

-----------------------------------------------------------------------------
(* inventory_imbalance_abs_bps.  Its u16 is saturated far above the band   *)
(* of any quote that fills, and no scenario has a target of zero.          *)
AbsImbalanceBps(base, target) == (AbsInt(base - target) * BPS) \div target

(* validate_quote_update_policy. *)
PolicyValid(p) ==
  /\ p.maker_update_period_slots > 0
  /\ p.update_success_probability_bps <= BPS

EmptyReport(imbalance) ==
  [trades_attempted |-> 0, trades_filled |-> 0, rejected_stale |-> 0,
   rejected_protected |-> 0, rejected_inventory |-> 0, rejected_other |-> 0,
   quote_updates_sent |-> 0, quote_updates_landed |-> 0,
   quote_updates_dropped |-> 0, max_quote_age_slots |-> 0,
   fresh_fills |-> 0, aging_fills |-> 0, protected_fills |-> 0,
   max_abs_inventory_imbalance_bps |-> imbalance]

SimInit ==
  /\ scenario \in Scenarios
  /\ PolicyValid(policy)
  /\ state = [base_inventory |-> scenario.base, quote_inventory |-> scenario.quote,
              target_base_inventory |-> scenario.target,
              mid_price |-> scenario.mid_price, mid_publish_slot |-> 0,
              now_slot |-> 0, paused |-> FALSE]
  /\ pending = [i \in {} |-> 0]
  /\ report = EmptyReport(AbsImbalanceBps(scenario.base, scenario.target))
  /\ result = NoError

-----------------------------------------------------------------------------
(* apply_landed_quote_updates. *)

LandedBy(updates, through) ==
  {i \in DOMAIN updates : updates[i].landing_slot <= through}

Refreshed(st, update) ==
  [st EXCEPT !.mid_price = update.mid_price,
             !.mid_publish_slot = update.publish_slot]

(* The last of the landed updates in the order they were sent. *)
LatestOf(landed) == CHOOSE i \in landed : \A j \in landed : j <= i

(* Mutation: an update that landed stays in flight. *)
Land_KeepsPending(st, updates, through) ==
  LET landed == LandedBy(updates, through)
  IN  [landed  |-> Cardinality(landed),
       pending |-> updates,
       state   |-> IF landed = {} THEN st
                   ELSE Refreshed(st, updates[LatestOf(landed)])]

(* Every update that has landed leaves; the last of them in the order of   *)
(* publication becomes the quote, without a look at the quote it replaces. *)
Land(st, updates, through) ==
  LET landed == LandedBy(updates, through)
  IN  [landed  |-> Cardinality(landed),
       pending |-> [i \in DOMAIN updates \ landed |-> updates[i]],
       state   |-> IF landed = {} THEN st
                   ELSE Refreshed(st, updates[LatestOf(landed)])]

-----------------------------------------------------------------------------
(* execute_reference_quote_slot, as the error, report and state it leaves. *)

FillCounter(ageState) ==
  CASE ageState = "Fresh"     -> "fresh_fills"
    [] ageState = "Aging"     -> "aging_fills"
    [] ageState = "Protected" -> "protected_fills"

(* Mutation: a protected quote that turns a trade away counts as stale. *)
RejectCounter_ProtectedStale(error) ==
  CASE error \in {"StaleQuote", "QuoteProtected"}     -> "rejected_stale"
    [] error = "InventoryBand"                        -> "rejected_inventory"
    [] error \in {"InvalidAmount", "EmptyLiquidity"}  -> "rejected_other"

RejectCounter(error) ==
  CASE error = "StaleQuote"                           -> "rejected_stale"
    [] error = "QuoteProtected"                       -> "rejected_protected"
    [] error = "InventoryBand"                        -> "rejected_inventory"
    [] error \in {"InvalidAmount", "EmptyLiquidity"}  -> "rejected_other"

Rejections == {"StaleQuote", "QuoteProtected", "InventoryBand",
               "InvalidAmount", "EmptyLiquidity"}

Traded(st, order, out) ==
  IF order.base_to_quote
    THEN [st EXCEPT !.base_inventory = @ + order.amount_in,
                    !.quote_inventory = @ - out]
    ELSE [st EXCEPT !.base_inventory = @ - out,
                    !.quote_inventory = @ + order.amount_in]

(* Mutation: the imbalance is measured before the trade. *)
Fill_MeasuredBefore(st, rep, fairPrice, order, out) ==
  LET lessFee == AmountLessFee(order.amount_in, scenario.params.fee_bps).value
      fee     == FeeInQuoteAtoms(fairPrice, order.amount_in, lessFee,
                                 order.base_to_quote)
      edge    == TakerEdge(fairPrice, order.amount_in, out, order.base_to_quote)
      counter == FillCounter(QuoteAgeState(st, scenario.params))
  IN  [error  |-> IF fee.error # NoError THEN fee.error ELSE edge.error,
       state  |-> Traded(st, order, out),
       report |-> [rep EXCEPT
         !.trades_filled = @ + 1,
         ![counter] = @ + 1,
         !.max_abs_inventory_imbalance_bps =
           Greatest(@, AbsImbalanceBps(st.base_inventory,
                                       st.target_base_inventory))]]

(* A filled order: its fee and the taker's edge at the fair price of the   *)
(* row are computed before the inventories are replaced.                   *)
Fill(st, rep, fairPrice, order, out) ==
  LET lessFee == AmountLessFee(order.amount_in, scenario.params.fee_bps).value
      fee     == FeeInQuoteAtoms(fairPrice, order.amount_in, lessFee,
                                 order.base_to_quote)
      edge    == TakerEdge(fairPrice, order.amount_in, out, order.base_to_quote)
      after   == Traded(st, order, out)
      counter == FillCounter(QuoteAgeState(st, scenario.params))
  IN  [error  |-> IF fee.error # NoError THEN fee.error ELSE edge.error,
       state  |-> after,
       report |-> [rep EXCEPT
         !.trades_filled = @ + 1,
         ![counter] = @ + 1,
         !.max_abs_inventory_imbalance_bps =
           Greatest(@, AbsImbalanceBps(after.base_inventory,
                                       after.target_base_inventory))]]

Execute(st, rep, fairPrice, order) ==
  LET attempt == [rep EXCEPT !.trades_attempted = @ + 1]
      quote   == QuoteExactIn(st, scenario.params, order.amount_in,
                              order.base_to_quote)
  IN  IF order = NoOrder THEN [error |-> NoError, state |-> st, report |-> rep]
      ELSE IF quote.error = NoError
        THEN Fill(st, attempt, fairPrice, order, quote.value)
      ELSE IF quote.error \in Rejections
        THEN [error |-> NoError, state |-> st,
              report |-> [attempt EXCEPT ![RejectCounter(quote.error)] = @ + 1]]
      ELSE [error |-> quote.error, state |-> st, report |-> attempt]

-----------------------------------------------------------------------------
(* One row, once the updates published up to it are known. *)

(* At slot 0 there is no slot before: its updates land first in either     *)
(* order.                                                                  *)
LandThroughBeforeSwap(slot) ==
  IF policy.same_slot_order = "UpdateBeforeSwap" THEN slot
  ELSE SaturatingSub(slot, 1)

(* Mutation: the second landing is forgotten. *)
LandAfterSwap_Never(st, updates, slot) ==
  [landed |-> 0, pending |-> updates, state |-> st]

LandAfterSwap(st, updates, slot) ==
  IF policy.same_slot_order = "SwapBeforeUpdate" THEN Land(st, updates, slot)
  ELSE [landed |-> 0, pending |-> updates, state |-> st]

(* The updates a row sends join those in flight and are numbered on.       *)
InFlight(published) ==
  LET first == report.quote_updates_sent
      joining == {first + i : i \in DOMAIN published}
  IN  [n \in DOMAIN pending \cup joining |->
         IF n \in DOMAIN pending THEN pending[n] ELSE published[n - first]]

(* The report of a row once its updates are counted and the quote has aged. *)
Aged(st, published, sent) ==
  [report EXCEPT !.quote_updates_sent = @ + sent,
                 !.quote_updates_dropped =
                   @ + (sent - Cardinality(DOMAIN published)),
                 !.max_quote_age_slots = Greatest(@, QuoteAge(st))]

(* The row sends a number of updates; published are those of them that     *)
(* will land, the others are dropped.                                      *)
Row(slot, fairPrice, order, published, sent) ==
  /\ result = NoError
  /\ slot >= state.now_slot
  /\ order # NoOrder => report.trades_attempted < MaxTrades
  /\ \E before \in {Land(state, InFlight(published), LandThroughBeforeSwap(slot))} :
     \E now \in {[before.state EXCEPT !.now_slot = slot]} :
     \E executed \in {Execute(now, Aged(now, published, sent), fairPrice, order)} :
     \E after \in {LandAfterSwap(executed.state, before.pending, slot)} :
       /\ result' = executed.error
       /\ IF executed.error = NoError
            THEN /\ state' = after.state
                 /\ pending' = after.pending
                 /\ report' = [executed.report EXCEPT
                      !.quote_updates_landed = @ + before.landed + after.landed]
            ELSE UNCHANGED <<state, pending, report>>
  /\ UNCHANGED scenario

(* Rows are sorted by slot; one that goes back ends the simulation. *)
RowOutOfOrder(slot) ==
  /\ result = NoError
  /\ slot < state.now_slot
  /\ result' = "InvalidConfig"
  /\ UNCHANGED <<scenario, state, pending, report, nextUpdateSlot>>

-----------------------------------------------------------------------------
(* Properties of both simulations. *)

(* The report adds up: every update that was sent landed, was dropped or   *)
(* is still in flight, and every order was filled in exactly one age state *)
(* or rejected for exactly one reason.                                     *)
ReportAddsUp ==
  /\ report.quote_updates_sent =
       report.quote_updates_landed + report.quote_updates_dropped
         + Cardinality(DOMAIN pending)
  /\ report.trades_filled =
       report.fresh_fills + report.aging_fills + report.protected_fills
  /\ report.trades_attempted =
       report.trades_filled + report.rejected_stale + report.rejected_protected
         + report.rejected_inventory + report.rejected_other

(* What the report blames on a stale quote it saw as stale: a run whose    *)
(* quote never reached its expiry when a row was executed counts no stale  *)
(* rejection, and one that never left the first two states of age counts   *)
(* neither a protected fill nor a protected rejection.                     *)
BlameMatchesAge ==
  /\ report.rejected_stale > 0 =>
       report.max_quote_age_slots >= scenario.params.expire_slots
  /\ report.protected_fills + report.rejected_protected > 0 =>
       report.max_quote_age_slots >= scenario.params.protected_start_slots

(* No sequence of fills leaves the pool outside its hard band, whatever    *)
(* landed between them, and the report knows it: its largest imbalance     *)
(* covers the one the pool has now, as the last fill left it, and is       *)
(* within the band unless the run began outside.                           *)
ImbalanceStaysInBand ==
  /\ AbsImbalanceBps(state.base_inventory, state.target_base_inventory)
       <= report.max_abs_inventory_imbalance_bps
  /\ report.max_abs_inventory_imbalance_bps <=
       Greatest(scenario.params.hard_inventory_band_bps,
                AbsImbalanceBps(scenario.base, scenario.target))

(* No update that has landed by the current slot is left in flight, and    *)
(* none is in force that was published after it.                           *)
UpdatesLandOnTime ==
  /\ \A i \in DOMAIN pending : pending[i].landing_slot > state.now_slot
  /\ state.mid_publish_slot <= state.now_slot

(* What the program promises and a simulation of its races should show:    *)
(* the publish slot of the quote in force never moves backward.            *)
QuoteNeverGoesBack ==
  [][state'.mid_publish_slot >= state.mid_publish_slot]_state

=============================================================================
