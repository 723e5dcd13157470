--------------------------- MODULE SimulatorProofs ---------------------------
(***************************************************************************)
(* What both ReferenceQuote simulations guarantee whatever the market, the *)
(* update policy and the parameters of the pool.                           *)
(***************************************************************************)
EXTENDS Simulator, ReferenceQuoteProofs, FiniteSetTheorems,
        WellFoundedInduction, TLAPS

-----------------------------------------------------------------------------
(* Types. *)

Counters ==
  {"trades_attempted", "trades_filled", "rejected_stale", "rejected_protected",
   "rejected_inventory", "rejected_other", "quote_updates_sent",
   "quote_updates_landed", "quote_updates_dropped", "max_quote_age_slots",
   "fresh_fills", "aging_fills", "protected_fills",
   "max_abs_inventory_imbalance_bps"}

Reports == [Counters -> Nat]

QuoteUpdates == [publish_slot : Nat, landing_slot : Nat, mid_price : Nat]

(* Updates numbered up to n, none of which lands before it is published.   *)
Numbered(updates, n) ==
  /\ updates = [i \in DOMAIN updates |-> updates[i]]
  /\ DOMAIN updates \subseteq 1 .. n
  /\ \A i \in DOMAIN updates :
       /\ updates[i] \in QuoteUpdates
       /\ updates[i].publish_slot <= updates[i].landing_slot

TypeInv ==
  /\ scenario \in Scenarios
  /\ PolicyValid(policy)
  /\ state \in QuotingStates
  /\ state.target_base_inventory = scenario.target
  /\ report \in Reports
  /\ Numbered(pending, report.quote_updates_sent)
  /\ nextUpdateSlot \in Nat

(* The conjuncts of the report's balance. *)
UpdatesAddUp ==
  report.quote_updates_sent =
    report.quote_updates_landed + report.quote_updates_dropped
      + Cardinality(DOMAIN pending)

OrdersAddUp(rep) ==
  /\ rep.trades_filled = rep.fresh_fills + rep.aging_fills + rep.protected_fills
  /\ rep.trades_attempted =
       rep.trades_filled + rep.rejected_stale + rep.rejected_protected
         + rep.rejected_inventory + rep.rejected_other

(* What a report blames on the age of a quote, the largest age being given.*)
BlameBounded(rep, age) ==
  /\ rep.rejected_stale > 0 => age >= scenario.params.expire_slots
  /\ rep.protected_fills + rep.rejected_protected > 0 =>
       age >= scenario.params.protected_start_slots

-----------------------------------------------------------------------------
(* Constants. *)

(* A scenario's parameters, policy and inventories are what they claim.    *)
LEMMA ScenarioFacts ==
  ASSUME scenario \in Scenarios
  PROVE  /\ scenario.params \in QuoteParams
         /\ scenario.params.hard_inventory_band_bps < MaxI32
         /\ policy \in UpdatePolicies
         /\ scenario.base \in Nat /\ scenario.quote \in Nat
         /\ scenario.mid_price \in Nat
         /\ scenario.target \in Nat \ {0}
  BY QuoteSimulationAssumption, MaxU64Assumption DEF U64, policy

(* Fair prices are natural numbers.                                        *)
LEMMA FairPricesNat == FairPrices \subseteq Nat
<1>1. Q64 * Q64 - 1 \in Nat
  BY Q64Positive
<1>. QED
  BY <1>1, QuoteSimulationAssumption DEF MaxU128

-----------------------------------------------------------------------------
(* Landing updates. *)

(* A set of numbers below a bound that is not empty has a largest member.  *)
LEMMA LatestIsLast ==
  ASSUME NEW n \in Nat, NEW S \in SUBSET (1 .. n), S # {}
  PROVE  /\ LatestOf(S) \in S
         /\ \A j \in S : j <= LatestOf(S)
<1>. DEFINE From(i) == {j \in S : i <= j}
            T == {From(i) : i \in S}
<1>1. T \subseteq FiniteSubsetsOf(1 .. n) /\ T # {}
  <2>1. IsFiniteSet(1 .. n)
    BY FS_Interval
  <2>2. FiniteSubsetsOf(1 .. n) = SUBSET (1 .. n)
    BY <2>1, FS_FiniteSubsetsOfFinite
  <2>3. \A i \in S : From(i) \in SUBSET (1 .. n)
    OBVIOUS
  <2>4. T \subseteq SUBSET (1 .. n)
    BY <2>3
  <2>5. T # {}
    BY Zenon
  <2>. QED
    BY <2>2, <2>4, <2>5
<1>2. PICK least \in T :
        \A t \in T : <<t, least>> \notin StrictSubsetOrdering(1 .. n)
  BY <1>1, FS_StrictSubsetOrderingWellFounded, WFMin
<1>3. PICK i \in S : least = From(i)
  OBVIOUS
<1>4. \A j \in S : j <= i
  <2>. SUFFICES ASSUME NEW j \in S, ~(j <= i) PROVE FALSE
    OBVIOUS
  <2>1. i \in Nat /\ j \in Nat /\ i < j
    OBVIOUS
  <2>2. /\ From(j) \subseteq From(i)
        /\ i \in From(i) /\ i \notin From(j)
    <3>1. \A k \in S : k \in Nat
      OBVIOUS
    <3>2. \A k \in S : j <= k => i <= k
      BY <2>1, <3>1
    <3>3. i <= i /\ ~(j <= i)
      BY <2>1
    <3>. QED
      BY <3>2, <3>3
  <2>3. <<From(j), From(i)>> \in StrictSubsetOrdering(1 .. n)
    BY <2>2 DEF StrictSubsetOrdering
  <2>4. From(j) \in T
    OBVIOUS
  <2>. QED
    BY <1>2, <1>3, <2>3, <2>4
<1>. QED
  BY <1>4 DEF LatestOf

(* Numbered updates are finitely many.                                     *)
LEMMA NumberedFinite ==
  ASSUME NEW updates, NEW n \in Nat, Numbered(updates, n)
  PROVE  /\ IsFiniteSet(DOMAIN updates)
         /\ Cardinality(DOMAIN updates) \in Nat
<1>1. IsFiniteSet(1 .. n)
  BY FS_Interval
<1>2. IsFiniteSet(DOMAIN updates)
  BY <1>1, FS_Subset DEF Numbered
<1>. QED
  BY <1>2, FS_CardinalityType

(* What landing leaves: it takes the updates that are due off those in     *)
(* flight and counts them, and changes nothing of the state but the quote, *)
(* which it replaces by the last of them.                                  *)
Landing(l, st, updates, n, through) ==
  LET landed == LandedBy(updates, through)
  IN  /\ l.landed \in Nat
      /\ Cardinality(DOMAIN updates) = l.landed + Cardinality(DOMAIN l.pending)
      /\ Numbered(l.pending, n)
      /\ DOMAIN l.pending = DOMAIN updates \ landed
      /\ \A i \in DOMAIN l.pending : /\ l.pending[i] = updates[i]
                                     /\ l.pending[i].landing_slot > through
      /\ l.state \in QuotingStates
      /\ l.state.now_slot = st.now_slot
      /\ l.state.base_inventory = st.base_inventory
      /\ l.state.quote_inventory = st.quote_inventory
      /\ l.state.target_base_inventory = st.target_base_inventory
      /\ landed = {} => l.state = st
      /\ landed # {} =>
           \E i \in landed :
             /\ \A j \in landed : j <= i
             /\ l.state.mid_publish_slot = updates[i].publish_slot

(* The landing of updates does what is said above.                         *)
LEMMA LandFacts ==
  ASSUME NEW st \in QuotingStates, NEW updates, NEW n \in Nat,
         Numbered(updates, n), NEW through \in Nat
  PROVE  Landing(Land(st, updates, through), st, updates, n, through)
<1>. DEFINE l == Land(st, updates, through)
            landed == LandedBy(updates, through)
            rest == DOMAIN updates \ landed
<1>1. /\ landed \subseteq DOMAIN updates
      /\ landed \subseteq 1 .. n
  BY DEF LandedBy, Numbered
<1>2. /\ l.landed = Cardinality(landed)
      /\ l.pending = [i \in rest |-> updates[i]]
      /\ DOMAIN l.pending = rest
      /\ l.state = IF landed = {} THEN st
                   ELSE Refreshed(st, updates[LatestOf(landed)])
  BY DEF Land
<1>3. /\ Cardinality(landed) \in Nat
      /\ Cardinality(DOMAIN updates) = Cardinality(landed) + Cardinality(rest)
  <2>1. IsFiniteSet(DOMAIN updates) /\ Cardinality(DOMAIN updates) \in Nat
    BY NumberedFinite
  <2>2. IsFiniteSet(landed) /\ Cardinality(landed) \in Nat
    BY <1>1, <2>1, FS_Subset, FS_CardinalityType
  <2>3. DOMAIN updates \cap landed = landed
    BY <1>1
  <2>4. /\ IsFiniteSet(rest)
        /\ Cardinality(rest) = Cardinality(DOMAIN updates) - Cardinality(landed)
    BY <2>1, <2>3, FS_Difference
  <2>5. Cardinality(rest) \in Nat
    BY <2>4, FS_CardinalityType
  <2>. HIDE DEF rest, landed
  <2>. QED
    BY <2>1, <2>2, <2>4, <2>5
<1>4. \A i \in rest : updates[i].landing_slot > through
  <2>. SUFFICES ASSUME NEW i \in rest PROVE updates[i].landing_slot > through
    OBVIOUS
  <2>1. updates[i].landing_slot \in Nat
    BY DEF Numbered, QuoteUpdates
  <2>2. ~(updates[i].landing_slot <= through)
    BY DEF LandedBy
  <2>. QED
    BY <2>1, <2>2
<1>5. Numbered(l.pending, n)
  BY <1>2 DEF Numbered
<1>6. CASE landed = {}
  BY <1>2, <1>3, <1>4, <1>5, <1>6 DEF Landing
<1>7. CASE landed # {}
  <2>1. /\ LatestOf(landed) \in landed
        /\ \A j \in landed : j <= LatestOf(landed)
    BY <1>1, <1>7, LatestIsLast
  <2>2. PICK update \in QuoteUpdates : update = updates[LatestOf(landed)]
    BY <1>1, <2>1 DEF Numbered
  <2>3. l.state = Refreshed(st, update)
    BY <1>2, <1>7, <2>2
  <2>4. /\ l.state \in QuotingStates
        /\ l.state.now_slot = st.now_slot
        /\ l.state.base_inventory = st.base_inventory
        /\ l.state.quote_inventory = st.quote_inventory
        /\ l.state.target_base_inventory = st.target_base_inventory
        /\ l.state.mid_publish_slot = update.publish_slot
    <3>. HIDE DEF l
    <3>. QED
      BY <2>3 DEF Refreshed, QuotingStates, QuoteUpdates
  <2>. HIDE DEF l, landed
  <2>5. \E i \in landed :
          /\ \A j \in landed : j <= i
          /\ l.state.mid_publish_slot = updates[i].publish_slot
    BY <2>1, <2>2, <2>4
  <2>. QED
    BY <1>2, <1>3, <1>4, <1>5, <1>7, <2>4, <2>5 DEF Landing, l, landed
<1>. QED
  BY <1>6, <1>7

-----------------------------------------------------------------------------
(* Executing an order. *)

(* A quote is in an age state only once it has the age.                    *)
LEMMA AgeStateMeaning ==
  ASSUME NEW st \in QuotingStates, NEW p \in QuoteParams
  PROVE  /\ QuoteAge(st) \in Nat
         /\ QuoteAgeState(st, p)
              \in {"Paused", "Expired", "Protected", "Aging", "Fresh"}
         /\ QuoteAgeState(st, p) = "Expired" => QuoteAge(st) >= p.expire_slots
         /\ QuoteAgeState(st, p) = "Protected" =>
              QuoteAge(st) >= p.protected_start_slots
<1>1. QuoteAge(st) \in Nat
  BY DEF QuoteAge, SaturatingSub, QuotingStates
<1>. QED
  BY <1>1 DEF QuoteAgeState, QuotingStates, QuoteParams

(* A quote is refused as stale only when it has expired, and as protected  *)
(* only when it is.                                                        *)
LEMMA RefusalMeaning ==
  ASSUME NEW st \in QuotingStates, NEW p \in QuoteParams,
         NEW amountIn \in Nat, NEW baseToQuote \in BOOLEAN
  PROVE  LET error == QuoteExactIn(st, p, amountIn, baseToQuote).error
         IN  /\ error = "StaleQuote" => QuoteAgeState(st, p) = "Expired"
             /\ error = "QuoteProtected" => QuoteAgeState(st, p) = "Protected"
<1>. DEFINE equivalent == BaseEquivalentAmount(st.mid_price, amountIn, baseToQuote)
            lessFee    == AmountLessFee(amountIn, p.fee_bps)
            out        == QuotedOut(st, p, lessFee.value, baseToQuote)
            Numeric    == {NoError, "InvalidAmount", "InvalidConfig",
                           "Overflow", "DivByZero", "InventoryBand"}
<1>1. /\ equivalent.error \in Numeric
      /\ lessFee.error \in Numeric
  BY DEF BaseEquivalentAmount, AmountLessFee, DivAmountFloor, ToU64,
         MulDivFloor, Ok, Err, NoError
<1>2. QuotedPrice(st, p, baseToQuote).error \in Numeric
  BY DEF QuotedPrice, EffectivePrice, MulDivFloor, Ok, Err, NoError
<1>3. \A v : /\ MulAmountFloor(v, lessFee.value).error \in Numeric
             /\ DivAmountFloor(v, lessFee.value).error \in Numeric
  BY DEF MulAmountFloor, DivAmountFloor, ToU64, MulDivFloor, Ok, Err, NoError
<1>4. out.error \in Numeric
  BY <1>2, <1>3 DEF QuotedOut
<1>5. SettleQuote(st, p, amountIn, out.value, baseToQuote).error \in Numeric
  BY DEF SettleQuote, Ok, Err, NoError
<1>. HIDE DEF equivalent, lessFee, out
<1>6. LET error == PriceTrade(st, p, amountIn, baseToQuote).error
      IN  /\ error # "StaleQuote"
          /\ error = "QuoteProtected" => QuoteAgeState(st, p) = "Protected"
  BY <1>1, <1>4, <1>5 DEF PriceTrade, Err, NoError, equivalent, lessFee, out
<1>. QED
  BY <1>6 DEF QuoteExactIn, Err

(* One more order in a report, filled or rejected: it stays balanced, it   *)
(* leaves the counts of the updates alone, and blames no more on the age   *)
(* of the quote than that age warrants.                                    *)
OrderCounted(before, after) ==
  /\ after \in Reports
  /\ after.quote_updates_sent = before.quote_updates_sent
  /\ after.quote_updates_landed = before.quote_updates_landed
  /\ after.quote_updates_dropped = before.quote_updates_dropped
  /\ after.max_quote_age_slots = before.max_quote_age_slots
  /\ OrdersAddUp(before) => OrdersAddUp(after)

(* A rejection counts one attempt and one reason.                          *)
LEMMA RejectionCounted ==
  ASSUME NEW rep \in Reports, NEW error \in Rejections
  PROVE  LET attempt == [rep EXCEPT !.trades_attempted = @ + 1]
             after == [attempt EXCEPT ![RejectCounter(error)] = @ + 1]
         IN  /\ OrderCounted(rep, after)
             /\ after.max_abs_inventory_imbalance_bps
                  = rep.max_abs_inventory_imbalance_bps
             /\ after.rejected_stale =
                  rep.rejected_stale + (IF error = "StaleQuote" THEN 1 ELSE 0)
             /\ after.protected_fills = rep.protected_fills
             /\ after.rejected_protected =
                  rep.rejected_protected
                    + (IF error = "QuoteProtected" THEN 1 ELSE 0)
  BY DEF RejectCounter, Rejections, OrderCounted, OrdersAddUp, Reports, Counters

(* Replacing one counter leaves a report, and every other counter.         *)
LEMMA CounterReplaced ==
  ASSUME NEW rep \in Reports, NEW counter \in Counters, NEW n \in Nat
  PROVE  LET after == [rep EXCEPT ![counter] = n]
         IN  /\ after \in Reports
             /\ after[counter] = n
             /\ \A c \in Counters : c # counter => after[c] = rep[c]
  BY DEF Reports

(* A fill counts one attempt, one fill and one age state.                  *)
LEMMA FillCounted ==
  ASSUME NEW rep \in Reports, NEW imbalance \in Nat,
         NEW ageState \in {"Fresh", "Aging", "Protected"}
  PROVE  LET attempt == [rep EXCEPT !.trades_attempted = @ + 1]
             after == [attempt EXCEPT
                !.trades_filled = @ + 1,
                ![FillCounter(ageState)] = @ + 1,
                !.max_abs_inventory_imbalance_bps = Greatest(@, imbalance)]
         IN  /\ OrderCounted(rep, after)
             /\ after.max_abs_inventory_imbalance_bps
                  = Greatest(rep.max_abs_inventory_imbalance_bps, imbalance)
             /\ after.rejected_stale = rep.rejected_stale
             /\ after.rejected_protected = rep.rejected_protected
             /\ after.protected_fills =
                  rep.protected_fills
                    + (IF ageState = "Protected" THEN 1 ELSE 0)
<1>. DEFINE attempt == [rep EXCEPT !.trades_attempted = @ + 1]
            filled  == [attempt EXCEPT !.trades_filled = @ + 1]
            counted == [filled EXCEPT ![FillCounter(ageState)] = @ + 1]
            after   == [counted EXCEPT
                          !.max_abs_inventory_imbalance_bps = Greatest(@, imbalance)]
<1>0. FillCounter(ageState) \in {"fresh_fills", "aging_fills", "protected_fills"}
  BY DEF FillCounter
<1>1. /\ counted \in Reports
      /\ \A c \in Counters \ {"trades_attempted", "trades_filled",
                              FillCounter(ageState)} : counted[c] = rep[c]
      /\ counted.trades_attempted = rep.trades_attempted + 1
      /\ counted.trades_filled = rep.trades_filled + 1
      /\ counted[FillCounter(ageState)] = rep[FillCounter(ageState)] + 1
  <2>1. /\ filled \in Reports
        /\ filled.trades_attempted = rep.trades_attempted + 1
        /\ filled.trades_filled = rep.trades_filled + 1
        /\ \A c \in Counters \ {"trades_attempted", "trades_filled"} :
             filled[c] = rep[c]
    <3>1. /\ attempt \in Reports
          /\ attempt.trades_attempted = rep.trades_attempted + 1
          /\ \A c \in Counters : c # "trades_attempted" => attempt[c] = rep[c]
      <4>1. "trades_attempted" \in Counters /\ rep["trades_attempted"] + 1 \in Nat
        BY DEF Counters, Reports
      <4>. QED
        BY <4>1, CounterReplaced
    <3>. HIDE DEF attempt
    <3>2. /\ filled \in Reports
          /\ filled.trades_filled = attempt.trades_filled + 1
          /\ \A c \in Counters : c # "trades_filled" => filled[c] = attempt[c]
      <4>1. "trades_filled" \in Counters /\ attempt["trades_filled"] + 1 \in Nat
        BY <3>1 DEF Counters, Reports
      <4>. QED
        BY <3>1, <4>1, CounterReplaced
    <3>. QED
      BY <3>1, <3>2 DEF Counters
  <2>. HIDE DEF filled
  <2>2. /\ counted \in Reports
        /\ counted[FillCounter(ageState)] = filled[FillCounter(ageState)] + 1
        /\ \A c \in Counters \ {FillCounter(ageState)} : counted[c] = filled[c]
    BY <1>0, <2>1 DEF Reports, Counters
  <2>. HIDE DEF counted
  <2>. QED
    BY <1>0, <2>1, <2>2 DEF Counters
<1>2. [attempt EXCEPT
         !.trades_filled = @ + 1,
         ![FillCounter(ageState)] = @ + 1,
         !.max_abs_inventory_imbalance_bps = Greatest(@, imbalance)]
      = after
  BY DEF FillCounter
<1>. HIDE DEF counted
<1>3. /\ after \in Reports
      /\ after.max_abs_inventory_imbalance_bps
           = Greatest(counted.max_abs_inventory_imbalance_bps, imbalance)
      /\ \A c \in Counters \ {"max_abs_inventory_imbalance_bps"} :
           after[c] = counted[c]
  BY <1>1 DEF Reports, Counters, Greatest
<1>. HIDE DEF after
<1>4. OrderCounted(rep, after)
  BY <1>1, <1>3 DEF FillCounter, OrderCounted, OrdersAddUp, Reports, Counters
<1>5. /\ after.max_abs_inventory_imbalance_bps
           = Greatest(rep.max_abs_inventory_imbalance_bps, imbalance)
      /\ after.rejected_stale = rep.rejected_stale
      /\ after.rejected_protected = rep.rejected_protected
      /\ after.protected_fills =
           rep.protected_fills + (IF ageState = "Protected" THEN 1 ELSE 0)
  BY <1>1, <1>3 DEF FillCounter, Reports, Counters
<1>. QED
  BY <1>2, <1>4, <1>5

ImbalanceBound ==
  Greatest(scenario.params.hard_inventory_band_bps,
           AbsImbalanceBps(scenario.base, scenario.target))

(* The largest imbalance of a report covers the one of a state.            *)
Measured(rep, st) ==
  AbsImbalanceBps(st.base_inventory, st.target_base_inventory)
    <= rep.max_abs_inventory_imbalance_bps

(* The imbalance of a report is a number, and one that the hard band check *)
(* let through is within the band.                                         *)
LEMMA AbsImbalanceType ==
  ASSUME NEW base \in Nat, NEW target \in Nat \ {0}
  PROVE  AbsImbalanceBps(base, target) \in Nat
<1>1. AbsInt(base - target) \in Nat
  BY DEF AbsInt
<1>2. AbsInt(base - target) * BPS \in Nat
  BY <1>1, ProductNat, BPSAssumption
<1>. QED
  BY <1>2, DivBounds DEF AbsImbalanceBps

(* A band on the truncated imbalance is a band on the reported one.        *)
LEMMA BandBoundsReport ==
  ASSUME NEW base \in Nat, NEW target \in Nat \ {0}, NEW band \in Nat,
         band < MaxI32,
         AbsInt(InventoryImbalanceBps(base, target)) <= band
  PROVE  AbsImbalanceBps(base, target) <= band
<1>. DEFINE distance == AbsInt(base - target) * BPS
            quotient == distance \div target
<1>1. distance \in Nat
  <2>1. AbsInt(base - target) \in Nat
    BY DEF AbsInt
  <2>. QED
    BY <2>1, ProductNat, BPSAssumption
<1>2. distance < (band + 1) * target
  BY BandIsExact
<1>. HIDE DEF distance
<1>3. quotient \in Nat /\ target * quotient <= distance
  BY <1>1, DivBounds
<1>. HIDE DEF quotient
<1>4. SUFFICES ASSUME ~(quotient <= band) PROVE FALSE
  BY DEF AbsImbalanceBps, quotient, distance
<1>5. band + 1 <= quotient
  BY <1>3, <1>4
<1>6. (band + 1) * target <= quotient * target
  BY <1>3, <1>5, ProductMonotone
<1>7. quotient * target = target * quotient
  BY <1>3
<1>. QED
  BY <1>1, <1>2, <1>3, <1>6, <1>7

(* An order that does not end the simulation leaves the quote, the slot    *)
(* and the target as they were, is counted, stays in the band, and blames  *)
(* the quote's age only as far as it reaches.                              *)
LEMMA ExecuteFacts ==
  ASSUME scenario \in Scenarios, NEW st \in QuotingStates, NEW rep \in Reports,
         NEW fairPrice, NEW order \in Orders \cup {NoOrder},
         st.target_base_inventory = scenario.target,
         rep.max_abs_inventory_imbalance_bps <= ImbalanceBound,
         Measured(rep, st),
         NEW age \in Nat, QuoteAge(st) <= age, BlameBounded(rep, age),
         Execute(st, rep, fairPrice, order).error = NoError
  PROVE  LET ex == Execute(st, rep, fairPrice, order)
         IN  /\ ex.state \in QuotingStates
             /\ ex.state.now_slot = st.now_slot
             /\ ex.state.mid_publish_slot = st.mid_publish_slot
             /\ ex.state.target_base_inventory = st.target_base_inventory
             /\ OrderCounted(rep, ex.report)
             /\ ex.report.max_abs_inventory_imbalance_bps <= ImbalanceBound
             /\ Measured(ex.report, ex.state)
             /\ BlameBounded(ex.report, age)
<1>. DEFINE ex      == Execute(st, rep, fairPrice, order)
            attempt == [rep EXCEPT !.trades_attempted = @ + 1]
            p       == scenario.params
            quote   == QuoteExactIn(st, p, order.amount_in, order.base_to_quote)
<1>1. CASE order = NoOrder
  <2>1. ex.state = st /\ ex.report = rep
    BY <1>1 DEF Execute
  <2>. QED
    BY <2>1 DEF OrderCounted
<1>2. CASE order # NoOrder
  <2>1. /\ order.amount_in \in Nat /\ order.base_to_quote \in BOOLEAN
    BY <1>2, QuoteSimulationAssumption, MaxU64Assumption DEF U64
  <2>2. /\ p \in QuoteParams /\ p.hard_inventory_band_bps < MaxI32
        /\ scenario.target \in Nat \ {0}
        /\ scenario.base \in Nat
    BY ScenarioFacts
  <2>. HIDE DEF p
  <2>3. /\ QuoteAge(st) \in Nat
        /\ QuoteAgeState(st, p) \in {"Paused", "Expired", "Protected", "Aging", "Fresh"}
        /\ QuoteAgeState(st, p) = "Expired" => age >= p.expire_slots
        /\ QuoteAgeState(st, p) = "Protected" => age >= p.protected_start_slots
    <3>1. p.expire_slots \in Nat /\ p.protected_start_slots \in Nat
      BY <2>2 DEF QuoteParams
    <3>. QED
      BY <2>2, <3>1, AgeStateMeaning
  <2>4. CASE quote.error = NoError
    <3>1. ex = Fill(st, attempt, fairPrice, order, quote.value)
      BY <1>2, <2>4 DEF Execute, p
    <3>. DEFINE out       == quote.value
                after     == Traded(st, order, out)
                imbalance == AbsImbalanceBps(after.base_inventory,
                                             after.target_base_inventory)
    <3>2. /\ out \in Nat
          /\ out < IF order.base_to_quote THEN st.quote_inventory
                                          ELSE st.base_inventory
          /\ QuoteAgeState(st, p) \in {"Protected", "Aging", "Fresh"}
          /\ AbsInt(InventoryImbalanceBps(
               IF order.base_to_quote THEN st.base_inventory + order.amount_in
                                      ELSE st.base_inventory - out,
               st.target_base_inventory)) <= p.hard_inventory_band_bps
      BY <2>1, <2>2, <2>3, <2>4, QuoteType, QuoteSettles
    <3>. HIDE DEF quote
    <3>3. /\ after \in QuotingStates
          /\ after.now_slot = st.now_slot
          /\ after.mid_publish_slot = st.mid_publish_slot
          /\ after.target_base_inventory = st.target_base_inventory
          /\ after.base_inventory =
               IF order.base_to_quote THEN st.base_inventory + order.amount_in
                                      ELSE st.base_inventory - out
      <4>1. CASE order.base_to_quote
        <5>1. after = [st EXCEPT !.base_inventory = @ + order.amount_in,
                                 !.quote_inventory = @ - out]
          BY <4>1 DEF Traded
        <5>2. /\ st.quote_inventory - out \in Nat
              /\ st.base_inventory + order.amount_in \in Nat
          BY <2>1, <3>2, <4>1 DEF QuotingStates
        <5>. HIDE DEF after, out
        <5>. QED
          BY <4>1, <5>1, <5>2 DEF QuotingStates
      <4>2. CASE ~order.base_to_quote
        <5>1. after = [st EXCEPT !.base_inventory = @ - out,
                                 !.quote_inventory = @ + order.amount_in]
          BY <4>2 DEF Traded
        <5>2. /\ st.base_inventory - out \in Nat
              /\ st.quote_inventory + order.amount_in \in Nat
          BY <2>1, <3>2, <4>2 DEF QuotingStates
        <5>. HIDE DEF after, out
        <5>. QED
          BY <4>2, <5>1, <5>2 DEF QuotingStates
      <4>. QED
        BY <4>1, <4>2
    <3>. HIDE DEF after
    <3>4. /\ imbalance \in Nat /\ imbalance <= p.hard_inventory_band_bps
          /\ imbalance = AbsImbalanceBps(after.base_inventory,
                                         after.target_base_inventory)
      <4>1. after.base_inventory \in Nat
        BY <3>3 DEF QuotingStates
      <4>2. p.hard_inventory_band_bps \in Nat
        BY <2>2 DEF QuoteParams
      <4>. QED
        BY <2>2, <3>2, <3>3, <4>1, <4>2, AbsImbalanceType, BandBoundsReport
    <3>. HIDE DEF imbalance
    <3>5. /\ ex.state = after
          /\ ex.report = [attempt EXCEPT
               !.trades_filled = @ + 1,
               ![FillCounter(QuoteAgeState(st, p))] = @ + 1,
               !.max_abs_inventory_imbalance_bps = Greatest(@, imbalance)]
      BY <3>1 DEF Fill, after, imbalance, p
    <3>6. /\ OrderCounted(rep, ex.report)
          /\ ex.report.max_abs_inventory_imbalance_bps
               = Greatest(rep.max_abs_inventory_imbalance_bps, imbalance)
          /\ ex.report.rejected_stale = rep.rejected_stale
          /\ ex.report.rejected_protected = rep.rejected_protected
          /\ ex.report.protected_fills =
               rep.protected_fills
                 + (IF QuoteAgeState(st, p) = "Protected" THEN 1 ELSE 0)
      <4>. HIDE DEF ex
      <4>1. PICK ageState \in {"Fresh", "Aging", "Protected"} :
              ageState = QuoteAgeState(st, p)
        BY <3>2
      <4>. DEFINE counted == [attempt EXCEPT
                    !.trades_filled = @ + 1,
                    ![FillCounter(ageState)] = @ + 1,
                    !.max_abs_inventory_imbalance_bps = Greatest(@, imbalance)]
      <4>2. /\ OrderCounted(rep, counted)
            /\ counted.max_abs_inventory_imbalance_bps
                 = Greatest(rep.max_abs_inventory_imbalance_bps, imbalance)
            /\ counted.rejected_stale = rep.rejected_stale
            /\ counted.rejected_protected = rep.rejected_protected
            /\ counted.protected_fills =
                 rep.protected_fills
                   + (IF ageState = "Protected" THEN 1 ELSE 0)
        BY <3>4, FillCounted
      <4>3. ex.report = counted
        BY <3>5, <4>1
      <4>. HIDE DEF counted
      <4>. QED
        BY <4>1, <4>2, <4>3
    <3>7. ex.report.max_abs_inventory_imbalance_bps <= ImbalanceBound
      <4>1. /\ p.hard_inventory_band_bps \in Nat
            /\ AbsImbalanceBps(scenario.base, scenario.target) \in Nat
            /\ rep.max_abs_inventory_imbalance_bps \in Nat
        BY <2>2, AbsImbalanceType DEF QuoteParams, Reports, Counters
      <4>2. p.hard_inventory_band_bps <= ImbalanceBound /\ ImbalanceBound \in Nat
        BY <4>1 DEF ImbalanceBound, Greatest, p
      <4>. QED
        BY <3>4, <3>6, <4>1, <4>2 DEF Greatest
    <3>8. BlameBounded(ex.report, age)
      <4>1. /\ rep.protected_fills \in Nat /\ rep.rejected_protected \in Nat
        BY DEF Reports, Counters
      <4>. QED
        BY <2>3, <3>6, <4>1 DEF BlameBounded, p
    <3>9. Measured(ex.report, ex.state)
      <4>1. rep.max_abs_inventory_imbalance_bps \in Nat
        BY DEF Reports, Counters
      <4>2. imbalance <= ex.report.max_abs_inventory_imbalance_bps
        BY <3>4, <3>6, <4>1 DEF Greatest
      <4>. QED
        BY <3>4, <3>5, <4>2 DEF Measured
    <3>. HIDE DEF ex
    <3>. QED
      BY <3>3, <3>5, <3>6, <3>7, <3>8, <3>9 DEF ex
  <2>5. CASE quote.error # NoError
    <3>1. /\ quote.error \in Rejections
          /\ ex.state = st
          /\ ex.report = [attempt EXCEPT ![RejectCounter(quote.error)] = @ + 1]
      BY <1>2, <2>5 DEF Execute, p
    <3>2. /\ quote.error = "StaleQuote" => age >= p.expire_slots
          /\ quote.error = "QuoteProtected" => age >= p.protected_start_slots
      BY <2>1, <2>2, <2>3, RefusalMeaning
    <3>. HIDE DEF quote
    <3>3. /\ OrderCounted(rep, ex.report)
          /\ ex.report.max_abs_inventory_imbalance_bps
               = rep.max_abs_inventory_imbalance_bps
          /\ ex.report.rejected_stale =
               rep.rejected_stale + (IF quote.error = "StaleQuote" THEN 1 ELSE 0)
          /\ ex.report.protected_fills = rep.protected_fills
          /\ ex.report.rejected_protected =
               rep.rejected_protected
                 + (IF quote.error = "QuoteProtected" THEN 1 ELSE 0)
      <4>. HIDE DEF ex
      <4>1. PICK error \in Rejections : error = quote.error
        BY <3>1
      <4>. DEFINE counted == [attempt EXCEPT ![RejectCounter(error)] = @ + 1]
      <4>2. /\ OrderCounted(rep, counted)
            /\ counted.max_abs_inventory_imbalance_bps
                 = rep.max_abs_inventory_imbalance_bps
            /\ counted.rejected_stale =
                 rep.rejected_stale + (IF error = "StaleQuote" THEN 1 ELSE 0)
            /\ counted.protected_fills = rep.protected_fills
            /\ counted.rejected_protected =
                 rep.rejected_protected
                   + (IF error = "QuoteProtected" THEN 1 ELSE 0)
        BY RejectionCounted
      <4>3. ex.report = counted
        BY <3>1, <4>1
      <4>. HIDE DEF counted
      <4>. QED
        BY <4>1, <4>2, <4>3
    <3>4. BlameBounded(ex.report, age)
      <4>1. /\ rep.protected_fills \in Nat /\ rep.rejected_protected \in Nat
            /\ rep.rejected_stale \in Nat
        BY DEF Reports, Counters
      <4>. QED
        BY <3>2, <3>3, <4>1 DEF BlameBounded, p
    <3>5. Measured(ex.report, ex.state)
      BY <3>1, <3>3 DEF Measured
    <3>. HIDE DEF ex
    <3>. QED
      BY <3>1, <3>3, <3>4, <3>5 DEF ex
  <2>. QED
    BY <2>4, <2>5
<1>. QED
  BY <1>1, <1>2

-----------------------------------------------------------------------------
(* One row. *)

(* The updates of a row join those in flight under numbers of their own.   *)
LEMMA InFlightFacts ==
  ASSUME report.quote_updates_sent \in Nat,
         Numbered(pending, report.quote_updates_sent),
         NEW published, NEW sent \in Nat, Numbered(published, sent)
  PROVE  LET first == report.quote_updates_sent
         IN  /\ Numbered(InFlight(published), first + sent)
             /\ DOMAIN InFlight(published)
                  = DOMAIN pending \cup {first + i : i \in DOMAIN published}
             /\ Cardinality(DOMAIN InFlight(published))
                  = Cardinality(DOMAIN pending) + Cardinality(DOMAIN published)
             /\ \A i \in DOMAIN pending : InFlight(published)[i] = pending[i]
             /\ \A i \in DOMAIN published :
                  InFlight(published)[first + i] = published[i]
             /\ Cardinality(DOMAIN published) <= sent
             /\ Cardinality(DOMAIN published) \in Nat
<1>. DEFINE first   == report.quote_updates_sent
            joining == {first + i : i \in DOMAIN published}
            flying  == InFlight(published)
<1>1. /\ DOMAIN pending \subseteq 1 .. first
      /\ DOMAIN published \subseteq 1 .. sent
  BY DEF Numbered
<1>2. /\ DOMAIN flying = DOMAIN pending \cup joining
      /\ flying = [n \in DOMAIN pending \cup joining |->
           IF n \in DOMAIN pending THEN pending[n] ELSE published[n - first]]
  BY DEF InFlight
<1>3. \A i \in DOMAIN pending : flying[i] = pending[i]
  BY <1>2
<1>4. \A i \in DOMAIN published :
        first + i \in joining /\ first + i \notin DOMAIN pending
          /\ flying[first + i] = published[i]
  <2>. SUFFICES ASSUME NEW i \in DOMAIN published
                PROVE  first + i \in joining /\ first + i \notin DOMAIN pending
                         /\ flying[first + i] = published[i]
    OBVIOUS
  <2>1. i \in 1 .. sent /\ first \in Nat
    BY <1>1
  <2>2. first + i \notin DOMAIN pending /\ (first + i) - first = i
    BY <1>1, <2>1
  <2>3. first + i \in joining
    OBVIOUS
  <2>. QED
    BY <1>2, <2>2, <2>3
<1>5. Numbered(flying, first + sent)
  <2>1. flying = [i \in DOMAIN flying |-> flying[i]]
    BY <1>2
  <2>2. DOMAIN flying \subseteq 1 .. (first + sent)
    BY <1>1, <1>2
  <2>3. ASSUME NEW n \in DOMAIN flying
        PROVE  /\ flying[n] \in QuoteUpdates
               /\ flying[n].publish_slot <= flying[n].landing_slot
    <3>1. CASE n \in DOMAIN pending
      BY <1>3, <3>1 DEF Numbered
    <3>2. CASE n \notin DOMAIN pending
      <4>1. PICK i \in DOMAIN published : n = first + i
        BY <1>2, <3>2
      <4>. QED
        BY <1>4, <4>1 DEF Numbered
    <3>. QED
      BY <3>1, <3>2
  <2>. HIDE DEF flying
  <2>. QED
    BY <2>1, <2>2, <2>3 DEF Numbered
<1>6. /\ IsFiniteSet(DOMAIN pending) /\ Cardinality(DOMAIN pending) \in Nat
      /\ IsFiniteSet(DOMAIN published) /\ Cardinality(DOMAIN published) \in Nat
  BY NumberedFinite
<1>7. Cardinality(DOMAIN published) <= sent
  <2>1. IsFiniteSet(1 .. sent) /\ Cardinality(1 .. sent) = sent
    <3>1. IsFiniteSet(1 .. sent)
            /\ Cardinality(1 .. sent) = IF 1 > sent THEN 0 ELSE sent - 1 + 1
      BY FS_Interval
    <3>. QED
      BY <3>1
  <2>. QED
    BY <1>1, <2>1, FS_Subset
<1>8. IsFiniteSet(joining) /\ Cardinality(joining) = Cardinality(DOMAIN published)
  <2>. DEFINE f == [i \in DOMAIN published |-> first + i]
  <2>1. f \in [DOMAIN published -> joining]
    OBVIOUS
  <2>2. \A i, j \in DOMAIN published : f[i] = f[j] => i = j
    BY <1>1
  <2>3. \A n \in joining : \E i \in DOMAIN published : f[i] = n
    OBVIOUS
  <2>. HIDE DEF f, joining
  <2>4. f \in Bijection(DOMAIN published, joining)
    BY <2>1, <2>2, <2>3 DEF Bijection, Injection, Surjection, IsInjective
  <2>5. ExistsBijection(DOMAIN published, joining)
    BY <2>4 DEF ExistsBijection
  <2>. QED
    BY <1>6, <2>5, FS_Bijection
<1>9. Cardinality(DOMAIN flying)
        = Cardinality(DOMAIN pending) + Cardinality(DOMAIN published)
  <2>1. DOMAIN pending \cap joining = {}
    BY <1>4
  <2>2. Cardinality(DOMAIN pending \cap joining) = 0
    BY <2>1, FS_EmptySet
  <2>3. Cardinality(DOMAIN pending \cup joining)
          = Cardinality(DOMAIN pending) + Cardinality(joining)
              - Cardinality(DOMAIN pending \cap joining)
    BY <1>6, <1>8, FS_Union
  <2>. HIDE DEF joining, flying
  <2>. QED
    BY <1>2, <1>6, <1>8, <2>2, <2>3
<1>. QED
  BY <1>2, <1>3, <1>4, <1>5, <1>6, <1>7, <1>9

(* The steps of a row: what lands before its order, the state the order is *)
(* executed at, its execution, and what lands after it.                    *)
Before(slot, published) ==
  Land(state, InFlight(published), LandThroughBeforeSwap(slot))

AtOrder(slot, published) == [Before(slot, published).state EXCEPT !.now_slot = slot]

Executed(slot, fairPrice, order, published, sent) ==
  Execute(AtOrder(slot, published),
          Aged(AtOrder(slot, published), published, sent), fairPrice, order)

After(slot, fairPrice, order, published, sent) ==
  LandAfterSwap(Executed(slot, fairPrice, order, published, sent).state,
                Before(slot, published).pending, slot)

(* A row either ends the simulation, with nothing of it kept, or takes all *)
(* four steps.                                                             *)
LEMMA RowSteps ==
  ASSUME NEW slot, NEW fairPrice, NEW order, NEW published, NEW sent,
         Row(slot, fairPrice, order, published, sent)
  PROVE  LET executed == Executed(slot, fairPrice, order, published, sent)
             after == After(slot, fairPrice, order, published, sent)
         IN  /\ slot >= state.now_slot
             /\ scenario' = scenario
             /\ result' = executed.error
             /\ executed.error # NoError => UNCHANGED <<state, pending, report>>
             /\ executed.error = NoError =>
                  /\ state' = after.state
                  /\ pending' = after.pending
                  /\ report' = [executed.report EXCEPT
                       !.quote_updates_landed =
                         @ + Before(slot, published).landed + after.landed]
  BY DEF Row, Before, AtOrder, Executed, After

(* What lands before the order is all up to its slot, or all but the last. *)
LEMMA LandThroughFacts ==
  ASSUME scenario \in Scenarios, NEW slot \in Nat
  PROVE  /\ LandThroughBeforeSwap(slot) \in Nat
         /\ LandThroughBeforeSwap(slot) <= slot
         /\ slot <= LandThroughBeforeSwap(slot) + 1
         /\ policy.same_slot_order \in OrderModes
         /\ policy.same_slot_order = "UpdateBeforeSwap" =>
              LandThroughBeforeSwap(slot) = slot
<1>1. policy.same_slot_order \in OrderModes
  BY ScenarioFacts DEF UpdatePolicies
<1>. QED
  BY <1>1 DEF LandThroughBeforeSwap, SaturatingSub

(* What no row may break. *)
Inv ==
  /\ TypeInv
  /\ UpdatesAddUp
  /\ OrdersAddUp(report)
  /\ BlameBounded(report, report.max_quote_age_slots)
  /\ report.max_abs_inventory_imbalance_bps <= ImbalanceBound
  /\ Measured(report, state)
  /\ UpdatesLandOnTime

(* The state an order is executed at, and the report so far. *)
LEMMA AtOrderFacts ==
  ASSUME Inv, NEW slot \in Nat, slot >= state.now_slot,
         NEW published, NEW sent \in Nat, Numbered(published, sent)
  PROVE  LET before == Before(slot, published)
             now == AtOrder(slot, published)
             aged == Aged(now, published, sent)
         IN  /\ before.landed \in Nat
             /\ Cardinality(DOMAIN pending) + Cardinality(DOMAIN published)
                  = before.landed + Cardinality(DOMAIN before.pending)
             /\ Numbered(before.pending, report.quote_updates_sent + sent)
             /\ \A i \in DOMAIN before.pending :
                  before.pending[i].landing_slot > LandThroughBeforeSwap(slot)
             /\ now \in QuotingStates
             /\ now.now_slot = slot
             /\ now.mid_publish_slot = before.state.mid_publish_slot
             /\ now.mid_publish_slot <= slot
             /\ now.target_base_inventory = scenario.target
             /\ aged \in Reports
             /\ aged.quote_updates_sent = report.quote_updates_sent + sent
             /\ aged.quote_updates_landed = report.quote_updates_landed
             /\ aged.quote_updates_dropped =
                  report.quote_updates_dropped
                    + (sent - Cardinality(DOMAIN published))
             /\ QuoteAge(now) <= aged.max_quote_age_slots
             /\ aged.max_quote_age_slots =
                  Greatest(report.max_quote_age_slots, QuoteAge(now))
             /\ OrdersAddUp(aged)
             /\ BlameBounded(aged, aged.max_quote_age_slots)
             /\ aged.max_abs_inventory_imbalance_bps <= ImbalanceBound
             /\ Measured(aged, now)
             /\ aged.rejected_stale = report.rejected_stale
<1>. DEFINE through == LandThroughBeforeSwap(slot)
            flying  == InFlight(published)
            before  == Before(slot, published)
            now     == AtOrder(slot, published)
            aged    == Aged(now, published, sent)
            n       == report.quote_updates_sent + sent
<1>1. /\ scenario \in Scenarios
      /\ state \in QuotingStates
      /\ report \in Reports
      /\ report.quote_updates_sent \in Nat
      /\ n \in Nat
      /\ Numbered(pending, report.quote_updates_sent)
  BY DEF Inv, TypeInv, Reports, Counters
<1>2. /\ Numbered(flying, n)
      /\ Cardinality(DOMAIN flying)
           = Cardinality(DOMAIN pending) + Cardinality(DOMAIN published)
      /\ Cardinality(DOMAIN published) \in Nat
      /\ Cardinality(DOMAIN published) <= sent
  BY <1>1, InFlightFacts
<1>3. through \in Nat /\ through <= slot
  BY <1>1, LandThroughFacts
<1>. DEFINE landed == LandedBy(flying, through)
<1>4. /\ before.landed \in Nat
      /\ Cardinality(DOMAIN flying) = before.landed + Cardinality(DOMAIN before.pending)
      /\ Numbered(before.pending, n)
      /\ \A i \in DOMAIN before.pending : before.pending[i].landing_slot > through
      /\ before.state \in QuotingStates
      /\ before.state.now_slot = state.now_slot
      /\ before.state.target_base_inventory = state.target_base_inventory
      /\ before.state.base_inventory = state.base_inventory
      /\ landed = {} => before.state = state
      /\ landed # {} =>
           \E i \in landed :
             before.state.mid_publish_slot = flying[i].publish_slot
  <2>1. before = Land(state, flying, through)
    BY DEF Before
  <2>. HIDE DEF before, through, flying, n
  <2>2. Landing(before, state, flying, n, through)
    BY <1>1, <1>2, <1>3, <2>1, LandFacts
  <2>. QED
    BY <2>2 DEF Landing
<1>5. before.state.mid_publish_slot <= slot
  <2>1. CASE landed = {}
    <3>1. /\ before.state.mid_publish_slot = state.mid_publish_slot
          /\ state.mid_publish_slot <= state.now_slot
      BY <1>4, <2>1 DEF Inv, UpdatesLandOnTime
    <3>2. state.mid_publish_slot \in Nat /\ state.now_slot \in Nat
      BY <1>1 DEF QuotingStates
    <3>. QED
      BY <3>1, <3>2
  <2>2. CASE landed # {}
    <3>1. PICK i \in landed :
            before.state.mid_publish_slot = flying[i].publish_slot
      BY <1>4, <2>2
    <3>2. i \in DOMAIN flying /\ flying[i].landing_slot <= through
      BY DEF LandedBy
    <3>3. /\ flying[i].publish_slot <= flying[i].landing_slot
          /\ flying[i].publish_slot \in Nat /\ flying[i].landing_slot \in Nat
      BY <1>2, <3>2 DEF Numbered, QuoteUpdates
    <3>. QED
      BY <1>3, <3>1, <3>2, <3>3
  <2>. QED
    BY <2>1, <2>2
<1>. HIDE DEF before, landed
<1>6. /\ now \in QuotingStates
      /\ now.now_slot = slot
      /\ now.mid_publish_slot = before.state.mid_publish_slot
      /\ now.target_base_inventory = before.state.target_base_inventory
      /\ now.base_inventory = before.state.base_inventory
  BY <1>4 DEF AtOrder, before, QuotingStates
<1>7. QuoteAge(now) \in Nat
  BY <1>6 DEF QuoteAge, SaturatingSub, QuotingStates
<1>. HIDE DEF now
<1>8. /\ aged \in Reports
      /\ aged.quote_updates_sent = n
      /\ aged.quote_updates_dropped =
           report.quote_updates_dropped + (sent - Cardinality(DOMAIN published))
      /\ aged.max_quote_age_slots =
           Greatest(report.max_quote_age_slots, QuoteAge(now))
      /\ \A c \in Counters \ {"quote_updates_sent", "quote_updates_dropped",
                              "max_quote_age_slots"} : aged[c] = report[c]
  <2>1. sent - Cardinality(DOMAIN published) \in Nat
    BY <1>2
  <2>. DEFINE dropped == report.quote_updates_dropped
                           + (sent - Cardinality(DOMAIN published))
              age == Greatest(report.max_quote_age_slots, QuoteAge(now))
  <2>2. dropped \in Nat /\ age \in Nat
    BY <1>1, <1>7, <2>1 DEF Reports, Counters, Greatest
  <2>3. aged = [[[report EXCEPT !.quote_updates_sent = n]
                         EXCEPT !.quote_updates_dropped = dropped]
                         EXCEPT !.max_quote_age_slots = age]
    BY DEF Aged
  <2>. HIDE DEF aged, n, dropped, age
  <2>. DEFINE r1 == [report EXCEPT !.quote_updates_sent = n]
              r2 == [r1 EXCEPT !.quote_updates_dropped = dropped]
              r3 == [r2 EXCEPT !.max_quote_age_slots = age]
  <2>4. {"quote_updates_sent", "quote_updates_dropped", "max_quote_age_slots"}
          \subseteq Counters
    BY DEF Counters
  <2>5. /\ r1 \in Reports /\ r1.quote_updates_sent = n
        /\ \A c \in Counters : c # "quote_updates_sent" => r1[c] = report[c]
    BY <1>1, <2>4, CounterReplaced
  <2>. HIDE DEF r1
  <2>6. /\ r2 \in Reports /\ r2.quote_updates_dropped = dropped
        /\ \A c \in Counters : c # "quote_updates_dropped" => r2[c] = r1[c]
    BY <2>2, <2>4, <2>5, CounterReplaced
  <2>. HIDE DEF r2
  <2>7. /\ r3 \in Reports /\ r3.max_quote_age_slots = age
        /\ \A c \in Counters : c # "max_quote_age_slots" => r3[c] = r2[c]
    BY <2>2, <2>4, <2>6, CounterReplaced
  <2>8. aged = r3
    BY <2>3 DEF r1, r2
  <2>. HIDE DEF r3
  <2>. QED
    BY <2>4, <2>5, <2>6, <2>7, <2>8 DEF dropped, age
<1>. HIDE DEF aged
<1>9. /\ QuoteAge(now) <= aged.max_quote_age_slots
      /\ report.max_quote_age_slots <= aged.max_quote_age_slots
      /\ aged.max_quote_age_slots \in Nat /\ report.max_quote_age_slots \in Nat
  BY <1>1, <1>7, <1>8 DEF Reports, Counters, Greatest
<1>10. /\ OrdersAddUp(aged)
       /\ aged.max_abs_inventory_imbalance_bps <= ImbalanceBound
       /\ aged.rejected_stale = report.rejected_stale
       /\ aged.quote_updates_landed = report.quote_updates_landed
  BY <1>8 DEF Inv, OrdersAddUp, Counters
<1>11. BlameBounded(aged, aged.max_quote_age_slots)
  <2>1. /\ scenario.params.expire_slots \in Nat
        /\ scenario.params.protected_start_slots \in Nat
    BY <1>1, ScenarioFacts DEF QuoteParams
  <2>. QED
    BY <1>8, <1>9, <2>1 DEF Inv, BlameBounded, Counters
<1>12. now.target_base_inventory = scenario.target
  BY <1>4, <1>6 DEF Inv, TypeInv
<1>13. Measured(aged, now)
  <2>1. aged.max_abs_inventory_imbalance_bps
          = report.max_abs_inventory_imbalance_bps
    BY <1>8 DEF Counters
  <2>2. Measured(report, state)
    BY DEF Inv
  <2>. QED
    BY <1>4, <1>6, <2>1, <2>2 DEF Measured
<1>. QED
  BY <1>2, <1>4, <1>5, <1>6, <1>8, <1>9, <1>10, <1>11, <1>12, <1>13
     DEF before, now, aged

(* What lands after the order. *)
LEMMA AfterFacts ==
  ASSUME scenario \in Scenarios, NEW slot \in Nat,
         NEW st \in QuotingStates, st.now_slot = slot, st.mid_publish_slot <= slot,
         NEW updates, NEW n \in Nat, Numbered(updates, n),
         \A i \in DOMAIN updates :
           updates[i].landing_slot > LandThroughBeforeSwap(slot)
  PROVE  LET l == LandAfterSwap(st, updates, slot)
         IN  /\ l.landed \in Nat
             /\ Cardinality(DOMAIN updates)
                  = l.landed + Cardinality(DOMAIN l.pending)
             /\ Numbered(l.pending, n)
             /\ \A i \in DOMAIN l.pending : l.pending[i].landing_slot > slot
             /\ l.state \in QuotingStates
             /\ l.state.now_slot = slot
             /\ l.state.mid_publish_slot <= slot
             /\ l.state.target_base_inventory = st.target_base_inventory
             /\ l.state.base_inventory = st.base_inventory
<1>. DEFINE l == LandAfterSwap(st, updates, slot)
<1>1. /\ policy.same_slot_order \in OrderModes
      /\ policy.same_slot_order = "UpdateBeforeSwap" =>
           LandThroughBeforeSwap(slot) = slot
  BY LandThroughFacts
<1>2. CASE policy.same_slot_order = "UpdateBeforeSwap"
  <2>1. l = [landed |-> 0, pending |-> updates, state |-> st]
    BY <1>2 DEF LandAfterSwap
  <2>2. Cardinality(DOMAIN updates) \in Nat
    BY NumberedFinite
  <2>. HIDE DEF l
  <2>. QED
    BY <1>1, <1>2, <2>1, <2>2 DEF l
<1>3. CASE policy.same_slot_order = "SwapBeforeUpdate"
  <2>1. l = Land(st, updates, slot)
    BY <1>3 DEF LandAfterSwap
  <2>. HIDE DEF l
  <2>2. Landing(l, st, updates, n, slot)
    BY <2>1, LandFacts
  <2>3. l.state.mid_publish_slot <= slot
    <3>1. CASE LandedBy(updates, slot) = {}
      BY <2>2, <3>1 DEF Landing
    <3>2. CASE LandedBy(updates, slot) # {}
      <4>1. PICK i \in LandedBy(updates, slot) :
              l.state.mid_publish_slot = updates[i].publish_slot
        BY <2>2, <3>2 DEF Landing
      <4>2. i \in DOMAIN updates /\ updates[i].landing_slot <= slot
        BY DEF LandedBy
      <4>3. /\ updates[i].publish_slot <= updates[i].landing_slot
            /\ updates[i].publish_slot \in Nat /\ updates[i].landing_slot \in Nat
        BY <4>2 DEF Numbered, QuoteUpdates
      <4>. QED
        BY <4>1, <4>2, <4>3
    <3>. QED
      BY <3>1, <3>2
  <2>. QED
    BY <2>2, <2>3 DEF Landing, l
<1>. QED
  BY <1>1, <1>2, <1>3 DEF OrderModes

(* A row breaks nothing, whatever the updates it publishes. *)
LEMMA RowKeepsInv ==
  ASSUME Inv, NEW slot \in Nat, NEW fairPrice,
         NEW order \in Orders \cup {NoOrder},
         NEW published, NEW sent \in Nat, Numbered(published, sent),
         Row(slot, fairPrice, order, published, sent),
         nextUpdateSlot' \in Nat
  PROVE  /\ Inv'
         /\ result' = NoError =>
              LET executed == Executed(slot, fairPrice, order, published, sent)
              IN  /\ executed.state \in QuotingStates
                  /\ executed.state.mid_publish_slot
                       = AtOrder(slot, published).mid_publish_slot
                  /\ state'.now_slot = slot
                  /\ report'.quote_updates_sent = report.quote_updates_sent + sent
                  /\ report'.max_quote_age_slots =
                       Greatest(report.max_quote_age_slots,
                                QuoteAge(AtOrder(slot, published)))
<1>. DEFINE before   == Before(slot, published)
            now      == AtOrder(slot, published)
            aged     == Aged(now, published, sent)
            executed == Executed(slot, fairPrice, order, published, sent)
            after    == After(slot, fairPrice, order, published, sent)
            n        == report.quote_updates_sent + sent
            age      == aged.max_quote_age_slots
<1>1. /\ slot >= state.now_slot
      /\ scenario' = scenario
      /\ result' = executed.error
      /\ executed.error # NoError => UNCHANGED <<state, pending, report>>
      /\ executed.error = NoError =>
           /\ state' = after.state
           /\ pending' = after.pending
           /\ report' = [executed.report EXCEPT
                !.quote_updates_landed = @ + before.landed + after.landed]
  BY RowSteps
<1>2. CASE executed.error # NoError
  <2>1. UNCHANGED <<scenario, state, pending, report>>
    BY <1>1, <1>2
  <2>. QED
    BY <1>1, <1>2, <2>1 DEF Inv, TypeInv, UpdatesAddUp, OrdersAddUp,
       BlameBounded, ImbalanceBound, Measured, UpdatesLandOnTime, policy
<1>3. CASE executed.error = NoError
  <2>1. /\ scenario \in Scenarios
        /\ report.quote_updates_sent \in Nat
        /\ report.quote_updates_landed \in Nat
        /\ report.quote_updates_dropped \in Nat
        /\ Numbered(pending, report.quote_updates_sent)
        /\ UpdatesAddUp
        /\ PolicyValid(policy)
    BY DEF Inv, TypeInv, Reports, Counters
  <2>2. /\ Cardinality(DOMAIN published) \in Nat
        /\ Cardinality(DOMAIN pending) \in Nat
    BY <2>1, NumberedFinite
  <2>3. /\ before.landed \in Nat
        /\ Cardinality(DOMAIN pending) + Cardinality(DOMAIN published)
             = before.landed + Cardinality(DOMAIN before.pending)
        /\ Numbered(before.pending, n)
        /\ \A i \in DOMAIN before.pending :
             before.pending[i].landing_slot > LandThroughBeforeSwap(slot)
    BY <1>1, AtOrderFacts
  <2>4. /\ now \in QuotingStates
        /\ now.now_slot = slot
        /\ now.mid_publish_slot <= slot
        /\ now.target_base_inventory = scenario.target
        /\ QuoteAge(now) <= age
        /\ age = Greatest(report.max_quote_age_slots, QuoteAge(now))
    BY <1>1, AtOrderFacts
  <2>5. /\ aged \in Reports
        /\ aged.quote_updates_sent = n
        /\ aged.quote_updates_landed = report.quote_updates_landed
        /\ aged.quote_updates_dropped =
             report.quote_updates_dropped + (sent - Cardinality(DOMAIN published))
        /\ OrdersAddUp(aged)
        /\ BlameBounded(aged, age)
        /\ aged.max_abs_inventory_imbalance_bps <= ImbalanceBound
        /\ Measured(aged, now)
    BY <1>1, AtOrderFacts
  <2>6. executed = Execute(now, aged, fairPrice, order)
    BY DEF Executed
  <2>7. after = LandAfterSwap(executed.state, before.pending, slot)
    BY DEF After
  <2>. HIDE DEF before, now, aged, executed, after, n
  <2>8. n \in Nat /\ age \in Nat
    BY <2>1, <2>5 DEF n, Reports, Counters
  <2>9. /\ executed.state \in QuotingStates
        /\ executed.state.now_slot = now.now_slot
        /\ executed.state.mid_publish_slot = now.mid_publish_slot
        /\ executed.state.target_base_inventory = now.target_base_inventory
        /\ OrderCounted(aged, executed.report)
        /\ executed.report.max_abs_inventory_imbalance_bps <= ImbalanceBound
        /\ Measured(executed.report, executed.state)
        /\ BlameBounded(executed.report, age)
    BY <1>3, <2>1, <2>4, <2>5, <2>6, <2>8, ExecuteFacts
  <2>10. /\ after.landed \in Nat
         /\ Cardinality(DOMAIN before.pending)
              = after.landed + Cardinality(DOMAIN after.pending)
         /\ Numbered(after.pending, n)
         /\ \A i \in DOMAIN after.pending : after.pending[i].landing_slot > slot
         /\ after.state \in QuotingStates
         /\ after.state.now_slot = slot
         /\ after.state.mid_publish_slot <= slot
         /\ after.state.target_base_inventory = executed.state.target_base_inventory
         /\ after.state.base_inventory = executed.state.base_inventory
    BY <2>1, <2>3, <2>4, <2>7, <2>8, <2>9, AfterFacts
  <2>11. Cardinality(DOMAIN after.pending) \in Nat
    BY <2>8, <2>10, NumberedFinite
  <2>. DEFINE counted == executed.report
              landed  == counted.quote_updates_landed + before.landed + after.landed
  <2>12. /\ counted \in Reports
         /\ landed \in Nat
         /\ "quote_updates_landed" \in Counters
    BY <2>3, <2>9, <2>10 DEF OrderCounted, Reports, Counters
  <2>13. report' = [counted EXCEPT !.quote_updates_landed = landed]
    BY <1>1, <1>3
  <2>. HIDE DEF landed
  <2>14. /\ report' \in Reports
         /\ report'.quote_updates_landed = landed
         /\ \A c \in Counters : c # "quote_updates_landed" => report'[c] = counted[c]
    BY <2>12, <2>13, CounterReplaced
  <2>15. TypeInv'
    <3>1. report'.quote_updates_sent = n
      BY <2>5, <2>9, <2>14 DEF OrderCounted, Counters
    <3>2. Numbered(pending', n)
      BY <1>1, <1>3, <2>10
    <3>3. /\ state' \in QuotingStates
          /\ state'.target_base_inventory = scenario.target
      BY <1>1, <1>3, <2>4, <2>9, <2>10
    <3>. QED
      BY <1>1, <2>1, <2>14, <3>1, <3>2, <3>3 DEF TypeInv, policy, Numbered
  <2>16. UpdatesAddUp'
    <3>1. /\ report'.quote_updates_sent = report.quote_updates_sent + sent
          /\ report'.quote_updates_dropped =
               report.quote_updates_dropped + (sent - Cardinality(DOMAIN published))
          /\ report'.quote_updates_landed =
               report.quote_updates_landed + before.landed + after.landed
      BY <2>5, <2>9, <2>14 DEF OrderCounted, Counters, landed, n
    <3>2. pending' = after.pending
      BY <1>1, <1>3
    <3>3. report.quote_updates_sent =
            report.quote_updates_landed + report.quote_updates_dropped
              + Cardinality(DOMAIN pending)
      BY <2>1 DEF UpdatesAddUp
    <3>4. Cardinality(DOMAIN before.pending) \in Nat
      BY <2>3, <2>8, NumberedFinite
    <3>5. n = report.quote_updates_landed + before.landed + after.landed
                + (report.quote_updates_dropped
                     + (sent - Cardinality(DOMAIN published)))
                + Cardinality(DOMAIN after.pending)
      <4>1. /\ report.quote_updates_sent \in Nat
            /\ report.quote_updates_landed \in Nat
            /\ report.quote_updates_dropped \in Nat
            /\ before.landed \in Nat /\ after.landed \in Nat
        BY <2>1, <2>3, <2>10
      <4>2. /\ Cardinality(DOMAIN pending) + Cardinality(DOMAIN published)
                 = before.landed + Cardinality(DOMAIN before.pending)
            /\ Cardinality(DOMAIN before.pending)
                 = after.landed + Cardinality(DOMAIN after.pending)
        BY <2>3, <2>10
      <4>3. n = report.quote_updates_sent + sent
        BY DEF n
      <4>. QED
        BY <2>2, <2>11, <3>3, <3>4, <4>1, <4>2, <4>3
    <3>. QED
      BY <3>1, <3>2, <3>5 DEF UpdatesAddUp, n
  <2>17. OrdersAddUp(report)'
    BY <2>5, <2>9, <2>14 DEF OrderCounted, OrdersAddUp, Counters
  <2>18. BlameBounded(report, report.max_quote_age_slots)'
    BY <1>1, <2>9, <2>14 DEF OrderCounted, BlameBounded, Counters
  <2>19. (report.max_abs_inventory_imbalance_bps <= ImbalanceBound)'
    BY <1>1, <2>9, <2>14 DEF ImbalanceBound, Counters
  <2>20. Measured(report, state)'
    <3>1. report'.max_abs_inventory_imbalance_bps
            = executed.report.max_abs_inventory_imbalance_bps
      BY <2>14 DEF Counters
    <3>. QED
      BY <1>1, <1>3, <2>9, <2>10, <3>1 DEF Measured
  <2>21. UpdatesLandOnTime'
    BY <1>1, <1>3, <2>10 DEF UpdatesLandOnTime
  <2>22. Inv'
    BY <2>15, <2>16, <2>17, <2>18, <2>19, <2>20, <2>21 DEF Inv
  <2>23. /\ report'.quote_updates_sent = n
         /\ report'.max_quote_age_slots = age
    BY <2>5, <2>9, <2>14 DEF OrderCounted, Counters
  <2>. QED
    BY <1>1, <1>3, <2>4, <2>9, <2>10, <2>22, <2>23 DEF n, now, executed
<1>. QED
  BY <1>2, <1>3

-----------------------------------------------------------------------------
(* The rows of either simulation. *)

(* A row catches up with every publish slot that is due.                   *)
LEMMA DueFacts ==
  ASSUME TypeInv, NEW slot \in Nat
  PROVE  /\ DueCount(slot) \in Nat
         /\ DueCount(slot) * policy.maker_update_period_slots \in Nat
         /\ nextUpdateSlot + DueCount(slot) * policy.maker_update_period_slots
              > slot
<1>. DEFINE P == policy.maker_update_period_slots
            d == DueCount(slot)
<1>1. P \in Nat \ {0} /\ nextUpdateSlot \in Nat
  BY ScenarioFacts DEF TypeInv, PolicyValid, UpdatePolicies
<1>2. CASE nextUpdateSlot > slot
  BY <1>1, <1>2 DEF DueCount
<1>3. CASE ~(nextUpdateSlot > slot)
  <2>. DEFINE late == slot - nextUpdateSlot
              q    == late \div P
  <2>1. late \in Nat
    BY <1>1, <1>3
  <2>2. d = q + 1
    BY <1>3 DEF DueCount
  <2>. HIDE DEF P, late, d
  <2>3. q \in Nat /\ late < P * (q + 1)
    BY <1>1, <2>1, DivBounds
  <2>. HIDE DEF q
  <2>4. d \in Nat /\ late < d * P /\ d * P \in Nat
    BY <1>1, <2>2, <2>3, ProductNat
  <2>. QED
    BY <1>1, <2>1, <2>4 DEF late, d, P
<1>. QED
  BY <1>2, <1>3

(* What a row of a market path publishes is numbered among the due.        *)
LEMMA MarketPublishes ==
  ASSUME TypeInv, NEW slot \in Nat, NEW fairPrice \in FairPrices,
         NEW landing \in LandingChoices(1 .. DueCount(slot))
  PROVE  Numbered(Published(landing, fairPrice), DueCount(slot))
<1>. DEFINE P == policy.maker_update_period_slots
            L == policy.landing_latency_slots
            d == DueCount(slot)
            u == Published(landing, fairPrice)
<1>1. P \in Nat /\ L \in Nat /\ nextUpdateSlot \in Nat /\ fairPrice \in Nat
  BY ScenarioFacts, FairPricesNat DEF TypeInv, UpdatePolicies
<1>2. d \in Nat
  BY DueFacts
<1>3. landing \subseteq 1 .. d
  BY DEF LandingChoices
<1>. HIDE DEF d
<1>4. ASSUME NEW i \in landing
      PROVE  /\ u[i] \in QuoteUpdates
             /\ u[i].publish_slot <= u[i].landing_slot
  <2>1. i \in Nat /\ i - 1 \in Nat
    BY <1>2, <1>3
  <2>2. (i - 1) * P \in Nat
    BY <1>1, <2>1, ProductNat
  <2>3. DueSlot(i) \in Nat
    BY <1>1, <2>2 DEF DueSlot
  <2>4. u[i] = [publish_slot |-> DueSlot(i), landing_slot |-> DueSlot(i) + L,
                mid_price |-> fairPrice]
    BY DEF Published
  <2>. HIDE DEF u, L
  <2>. QED
    BY <1>1, <2>3, <2>4 DEF QuoteUpdates
<1>5. DOMAIN u = landing /\ u = [i \in DOMAIN u |-> u[i]]
  BY DEF Published
<1>. HIDE DEF u
<1>. QED
  BY <1>3, <1>4, <1>5 DEF Numbered, u, d

(* What a recorded row publishes is numbered among the sent.               *)
LEMMA ReplayPublishes ==
  ASSUME TypeInv, NEW slot \in Nat,
         NEW published \in Batches(nextUpdateSlot, slot), NEW dropped \in Nat
  PROVE  /\ Len(published) \in Nat
         /\ Numbered(published, Len(published) + dropped)
<1>1. PICK n \in 0 .. MaxBatch :
        published \in [1 .. n -> Updates(nextUpdateSlot, slot)]
  BY DEF Batches
<1>2. n \in Nat
  BY <1>1, ReplayPathAssumption
<1>3. Len(published) = n /\ DOMAIN published = 1 .. n
  BY <1>1, <1>2
<1>4. ASSUME NEW u \in Updates(nextUpdateSlot, slot)
      PROVE  u \in QuoteUpdates /\ u.publish_slot <= u.landing_slot
  <2>1. PICK s \in nextUpdateSlot .. slot, l \in Latencies, m \in RecordedMids :
          u = [publish_slot |-> s, landing_slot |-> s + l, mid_price |-> m]
    BY DEF Updates, Update
  <2>2. s \in Nat /\ l \in Nat /\ m \in Nat
    BY ReplayPathAssumption DEF TypeInv
  <2>. QED
    BY <2>1, <2>2 DEF QuoteUpdates
<1>5. published = [i \in DOMAIN published |-> published[i]]
  BY <1>1
<1>6. \A i \in DOMAIN published :
        published[i] \in Updates(nextUpdateSlot, slot)
  BY <1>1, <1>3
<1>. QED
  BY <1>2, <1>3, <1>4, <1>5, <1>6 DEF Numbered

(* The invariant holds to begin with.                                      *)
LEMMA InitInv == Init => Inv
<1>. SUFFICES ASSUME Init PROVE Inv
  OBVIOUS
<1>. DEFINE imbalance == AbsImbalanceBps(scenario.base, scenario.target)
<1>1. /\ scenario \in Scenarios /\ PolicyValid(policy)
      /\ report = EmptyReport(imbalance)
      /\ pending = [i \in {} |-> 0]
  BY DEF Init, SimInit
<1>2. /\ policy \in UpdatePolicies
      /\ scenario.base \in Nat /\ scenario.quote \in Nat
      /\ scenario.mid_price \in Nat
      /\ scenario.target \in Nat \ {0}
      /\ scenario.params \in QuoteParams
  BY <1>1, ScenarioFacts
<1>3. imbalance \in Nat
  BY <1>2, AbsImbalanceType
<1>. HIDE DEF imbalance
<1>4. /\ report \in Reports
      /\ report.quote_updates_sent = 0 /\ report.quote_updates_landed = 0
      /\ report.quote_updates_dropped = 0
      /\ report.max_abs_inventory_imbalance_bps = imbalance
      /\ OrdersAddUp(report)
      /\ BlameBounded(report, report.max_quote_age_slots)
  BY <1>1, <1>3 DEF EmptyReport, Reports, Counters, OrdersAddUp, BlameBounded
<1>5. DOMAIN pending = {}
  BY <1>1
<1>6. UpdatesAddUp
  BY <1>4, <1>5, FS_EmptySet DEF UpdatesAddUp
<1>7. /\ state \in QuotingStates
      /\ state.target_base_inventory = scenario.target
      /\ state.mid_publish_slot = 0 /\ state.now_slot = 0
  BY <1>2 DEF Init, SimInit, QuotingStates
<1>8. nextUpdateSlot \in Nat
  BY <1>2 DEF Init, MarketInit, ReplayInit, UpdatePolicies
<1>9. Numbered(pending, report.quote_updates_sent)
  BY <1>1, <1>5 DEF Numbered
<1>10. UpdatesLandOnTime
  BY <1>5, <1>7 DEF UpdatesLandOnTime
<1>11. report.max_abs_inventory_imbalance_bps <= ImbalanceBound
  BY <1>2, <1>3, <1>4 DEF ImbalanceBound, Greatest, imbalance, QuoteParams
<1>12. Measured(report, state)
  <2>1. /\ state.base_inventory = scenario.base
        /\ state.target_base_inventory = scenario.target
    BY DEF Init, SimInit
  <2>. QED
    BY <1>3, <1>4, <2>1 DEF Measured, imbalance
<1>. QED
  BY <1>1, <1>4, <1>6, <1>7, <1>8, <1>9, <1>10, <1>11, <1>12 DEF Inv, TypeInv

(* Every row of a market path is a row with numbered updates. *)
LEMMA MarketRowKeepsInv ==
  ASSUME Inv, NEW slot \in 0 .. MaxSlot, NEW fairPrice \in FairPrices,
         NEW order \in Orders \cup {NoOrder},
         MarketRow(slot, fairPrice, order)
  PROVE  Inv'
<1>1. slot \in Nat /\ TypeInv
  BY QuoteSimulationAssumption DEF Inv
<1>2. PICK landing \in LandingChoices(1 .. DueCount(slot)) :
        Row(slot, fairPrice, order, Published(landing, fairPrice), DueCount(slot))
  BY DEF MarketRow
<1>3. /\ Numbered(Published(landing, fairPrice), DueCount(slot))
      /\ DueCount(slot) \in Nat
  BY <1>1, DueFacts, MarketPublishes
<1>4. nextUpdateSlot' \in Nat
  <2>1. nextUpdateSlot' =
          nextUpdateSlot + DueCount(slot) * policy.maker_update_period_slots
    BY DEF MarketRow
  <2>2. /\ DueCount(slot) * policy.maker_update_period_slots \in Nat
        /\ nextUpdateSlot \in Nat
    BY <1>1, DueFacts DEF TypeInv
  <2>. QED
    BY <2>1, <2>2
<1>. QED
  BY <1>1, <1>2, <1>3, <1>4, RowKeepsInv

(* Every recorded row is a row with numbered updates.                      *)
LEMMA ReplayRowKeepsInv ==
  ASSUME Inv, NEW slot \in 0 .. MaxSlot, NEW fairPrice \in FairPrices,
         NEW order \in Orders \cup {NoOrder},
         ReplayRow(slot, fairPrice, order)
  PROVE  Inv'
<1>1. slot \in Nat /\ TypeInv
  BY QuoteSimulationAssumption DEF Inv
<1>2. PICK published \in Batches(nextUpdateSlot, slot),
           dropped \in 0 .. (IF slot >= nextUpdateSlot THEN 1 ELSE 0) :
        Row(slot, fairPrice, order, published, Len(published) + dropped)
  BY DEF ReplayRow
<1>3. dropped \in Nat
  OBVIOUS
<1>4. /\ Len(published) \in Nat
      /\ Numbered(published, Len(published) + dropped)
  BY <1>1, <1>3, ReplayPublishes
<1>5. nextUpdateSlot' \in Nat
  BY <1>1 DEF ReplayRow
<1>. QED
  BY <1>1, <1>2, <1>3, <1>4, <1>5, RowKeepsInv

(* No step of a simulation breaks the invariant.                           *)
LEMMA StepKeepsInv == Inv /\ [Next]_vars => Inv'
<1>. SUFFICES ASSUME Inv, [Next]_vars PROVE Inv'
  OBVIOUS
<1>1. ASSUME NEW slot \in 0 .. MaxSlot, NEW fairPrice \in FairPrices,
             NEW order \in Orders \cup {NoOrder},
             MarketRow(slot, fairPrice, order)
      PROVE  Inv'
  BY <1>1, MarketRowKeepsInv
<1>2. ASSUME NEW slot \in 0 .. MaxSlot, NEW fairPrice \in FairPrices,
             NEW order \in Orders \cup {NoOrder},
             ReplayRow(slot, fairPrice, order)
      PROVE  Inv'
  BY <1>2, ReplayRowKeepsInv
<1>3. ASSUME UNCHANGED <<scenario, state, pending, report, nextUpdateSlot>>
      PROVE  Inv'
  BY <1>3 DEF Inv, TypeInv, UpdatesAddUp, OrdersAddUp, BlameBounded,
     ImbalanceBound, Measured, UpdatesLandOnTime, policy
<1>4. ASSUME NEW slot \in 0 .. MaxSlot, RowOutOfOrder(slot)
      PROVE  Inv'
  BY <1>3, <1>4 DEF RowOutOfOrder
<1>5. CASE UNCHANGED vars
  BY <1>3, <1>5 DEF vars
<1>. QED
  BY <1>1, <1>2, <1>4, <1>5 DEF Next

(* The invariant of both simulations: everything is typed, the report adds *)
(* up, blames and imbalances are bounded, and no update is overdue.        *)
THEOREM SimulationInv == Spec => []Inv
  BY InitInv, StepKeepsInv, PTL DEF Spec

(* A report always adds up: no update and no order of a simulation is      *)
(* counted twice or lost, in flight included.                              *)
THEOREM ReportsAddUp == Spec => []ReportAddsUp
<1>1. Inv => ReportAddsUp
  BY DEF Inv, UpdatesAddUp, OrdersAddUp, ReportAddsUp
<1>. QED
  BY <1>1, SimulationInv, PTL

(* A report blames on an old quote only what a quote of that age can do.   *)
THEOREM BlameIsEarned == Spec => []BlameMatchesAge
<1>1. Inv => BlameMatchesAge
  BY DEF Inv, BlameBounded, BlameMatchesAge
<1>. QED
  BY <1>1, SimulationInv, PTL

(* Fills keep the pool within its hard band, whatever updates land between *)
(* them, unless the simulation began outside.                              *)
THEOREM BandHolds == Spec => []ImbalanceStaysInBand
<1>1. Inv => ImbalanceStaysInBand
  BY DEF Inv, Measured, ImbalanceBound, ImbalanceStaysInBand
<1>. QED
  BY <1>1, SimulationInv, PTL

(* Updates land on time, in either same-slot order.                        *)
THEOREM LandingOnTime == Spec => []UpdatesLandOnTime
<1>1. Inv => UpdatesLandOnTime
  BY DEF Inv
<1>. QED
  BY <1>1, SimulationInv, PTL

-----------------------------------------------------------------------------
(* A maker within the envelope.  An update numbered i is published at i    *)
(* periods, so that those in flight are the last ones sent and the quote   *)
(* in force is the one before them.                                        *)

Period  == policy.maker_update_period_slots
Latency == policy.landing_latency_slots

Reliable ==
  /\ ~scenario.recorded
  /\ policy.update_success_probability_bps = BPS
  /\ EnvelopeValid(Envelope, scenario.params.expire_slots)

Chain(updates, n, midPublishSlot) ==
  \E k \in 0 .. n :
    /\ DOMAIN updates = (k + 1) .. n
    /\ midPublishSlot = k * Period
    /\ \A i \in DOMAIN updates :
         /\ updates[i].publish_slot = i * Period
         /\ updates[i].landing_slot = i * Period + Latency

ChainInv ==
  /\ report.max_quote_age_slots < scenario.params.expire_slots
  /\ result = NoError =>
       LET n == report.quote_updates_sent
       IN  /\ nextUpdateSlot = (n + 1) * Period
           /\ state.now_slot < nextUpdateSlot
           /\ Chain(pending, n, state.mid_publish_slot)

(* What the envelope says of period, latency and expiry.                   *)
LEMMA ReliableFacts ==
  ASSUME scenario \in Scenarios, PolicyValid(policy), Reliable
  PROVE  /\ Period \in Nat \ {0}
         /\ Latency \in Nat
         /\ scenario.params.expire_slots \in Nat
         /\ Period + Latency < scenario.params.expire_slots
  BY ScenarioFacts DEF Reliable, EnvelopeValid, Envelope, Period, Latency,
     UpdatePolicies, QuoteParams, PolicyValid

(* Landing takes a first part of the chain off.                            *)
LEMMA LandKeepsChain ==
  ASSUME Period \in Nat, Latency \in Nat,
         NEW st \in QuotingStates, NEW updates, NEW n \in Nat,
         Numbered(updates, n), NEW through \in Nat,
         Chain(updates, n, st.mid_publish_slot)
  PROVE  LET l == Land(st, updates, through)
         IN  Chain(l.pending, n, l.state.mid_publish_slot)
<1>. DEFINE l == Land(st, updates, through)
            landed == LandedBy(updates, through)
<1>1. PICK k \in 0 .. n :
        /\ DOMAIN updates = (k + 1) .. n
        /\ st.mid_publish_slot = k * Period
        /\ \A i \in DOMAIN updates :
             /\ updates[i].publish_slot = i * Period
             /\ updates[i].landing_slot = i * Period + Latency
  BY DEF Chain
<1>2. Landing(l, st, updates, n, through)
  BY LandFacts
<1>. HIDE DEF l
<1>. SUFFICES Chain(l.pending, n, l.state.mid_publish_slot)
  BY DEF l
<1>3. /\ DOMAIN l.pending = DOMAIN updates \ landed
      /\ \A i \in DOMAIN l.pending : l.pending[i] = updates[i]
      /\ landed = {} => l.state = st
  BY <1>2 DEF Landing
<1>4. CASE landed = {}
  <2>1. /\ DOMAIN l.pending = (k + 1) .. n
        /\ l.state.mid_publish_slot = k * Period
    BY <1>1, <1>3, <1>4
  <2>2. \A i \in DOMAIN l.pending :
          /\ l.pending[i].publish_slot = i * Period
          /\ l.pending[i].landing_slot = i * Period + Latency
    BY <1>1, <1>3
  <2>. QED
    BY <2>1, <2>2 DEF Chain
<1>5. CASE landed # {}
  <2>1. PICK m \in landed : /\ \A j \in landed : j <= m
                            /\ l.state.mid_publish_slot = updates[m].publish_slot
    BY <1>2, <1>5 DEF Landing
  <2>2. m \in (k + 1) .. n /\ m * Period + Latency <= through
    BY <1>1 DEF LandedBy
  <2>3. m \in 0 .. n /\ l.state.mid_publish_slot = m * Period
    BY <1>1, <2>1, <2>2
  <2>4. \A j \in (k + 1) .. m : j \in landed
    <3>. SUFFICES ASSUME NEW j \in (k + 1) .. m PROVE j \in landed
      OBVIOUS
    <3>1. j \in Nat /\ m \in Nat /\ j <= m /\ j \in DOMAIN updates
      BY <1>1, <2>2
    <3>2. j * Period <= m * Period
      BY <3>1, ProductMonotone
    <3>3. j * Period \in Nat /\ m * Period \in Nat
      BY <3>1, ProductNat
    <3>4. j * Period + Latency <= through
      BY <2>2, <3>2, <3>3
    <3>. QED
      BY <1>1, <3>1, <3>4 DEF LandedBy
  <2>5. \A j \in landed : j \in (k + 1) .. m
    <3>. SUFFICES ASSUME NEW j \in landed PROVE j \in (k + 1) .. m
      OBVIOUS
    <3>1. j \in (k + 1) .. n /\ j <= m
      BY <1>1, <2>1 DEF LandedBy
    <3>. QED
      BY <2>2, <3>1
  <2>6. DOMAIN l.pending = (m + 1) .. n
    <3>1. landed = (k + 1) .. m
      BY <2>4, <2>5
    <3>2. ((k + 1) .. n) \ ((k + 1) .. m) = (m + 1) .. n
      BY <2>2
    <3>. QED
      BY <1>1, <1>3, <3>1, <3>2
  <2>7. \A i \in DOMAIN l.pending :
          /\ l.pending[i].publish_slot = i * Period
          /\ l.pending[i].landing_slot = i * Period + Latency
    BY <1>1, <1>3
  <2>. QED
    BY <2>3, <2>6, <2>7 DEF Chain
<1>. QED
  BY <1>4, <1>5

(* The quote in force is no older than a period and a latency once all     *)
(* that was due the slot before has landed.                                *)
LEMMA ChainBoundsAge ==
  ASSUME Period \in Nat, Latency \in Nat, NEW updates, NEW n \in Nat,
         NEW mid, Chain(updates, n, mid), NEW slot \in Nat,
         NEW through \in Nat, slot <= through + 1,
         \A i \in DOMAIN updates : updates[i].landing_slot > through,
         slot < (n + 1) * Period
  PROVE  mid \in Nat /\ slot <= mid + Period + Latency
<1>1. PICK k \in 0 .. n :
        /\ DOMAIN updates = (k + 1) .. n
        /\ mid = k * Period
        /\ \A i \in DOMAIN updates :
             updates[i].landing_slot = i * Period + Latency
  BY DEF Chain
<1>2. /\ k \in Nat /\ mid \in Nat
      /\ (k + 1) * Period = mid + Period
  BY <1>1, ProductNat
<1>3. CASE k = n
  BY <1>2, <1>3
<1>4. CASE k # n
  <2>1. k + 1 \in DOMAIN updates
    BY <1>1, <1>4
  <2>2. (k + 1) * Period + Latency > through
    BY <1>1, <2>1
  <2>. QED
    BY <1>2, <2>2
<1>. QED
  BY <1>3, <1>4

(* The updates a row publishes carry the chain on. *)
LEMMA PublishingExtendsChain ==
  ASSUME Inv, Reliable, NEW slot \in Nat, NEW fairPrice \in FairPrices,
         nextUpdateSlot = (report.quote_updates_sent + 1) * Period,
         Chain(pending, report.quote_updates_sent, state.mid_publish_slot)
  PROVE  LET n == report.quote_updates_sent
             d == DueCount(slot)
         IN  /\ Chain(InFlight(Published(1 .. d, fairPrice)), n + d,
                      state.mid_publish_slot)
             /\ nextUpdateSlot + d * Period = (n + d + 1) * Period
             /\ slot < (n + d + 1) * Period
<1>. DEFINE n == report.quote_updates_sent
            d == DueCount(slot)
            u == Published(1 .. d, fairPrice)
            flying == InFlight(u)
<1>1. /\ Period \in Nat /\ Latency \in Nat
      /\ n \in Nat /\ d \in Nat /\ nextUpdateSlot \in Nat
      /\ TypeInv
      /\ Numbered(pending, n)
  BY ReliableFacts, DueFacts DEF Inv, TypeInv, Reports, Counters
<1>2. 1 .. d \in LandingChoices(1 .. d)
  BY DEF LandingChoices, Reliable
<1>3. Numbered(u, d)
  BY <1>1, <1>2, MarketPublishes
<1>4. /\ DOMAIN flying = DOMAIN pending \cup {n + i : i \in DOMAIN u}
      /\ \A i \in DOMAIN pending : flying[i] = pending[i]
      /\ \A i \in DOMAIN u : flying[n + i] = u[i]
  BY <1>1, <1>3, InFlightFacts
<1>5. /\ nextUpdateSlot + d * Period = (n + d + 1) * Period
      /\ slot < (n + d + 1) * Period
  <2>1. nextUpdateSlot + d * Period > slot
    BY <1>1, DueFacts DEF Period
  <2>2. (n + 1) * Period + d * Period = (n + d + 1) * Period
    BY <1>1
  <2>. QED
    BY <2>1, <2>2
<1>6. PICK k \in 0 .. n :
        /\ DOMAIN pending = (k + 1) .. n
        /\ state.mid_publish_slot = k * Period
        /\ \A i \in DOMAIN pending :
             /\ pending[i].publish_slot = i * Period
             /\ pending[i].landing_slot = i * Period + Latency
  BY DEF Chain
<1>7. \A i \in 1 .. d : /\ u[i].publish_slot = (n + i) * Period
                        /\ u[i].landing_slot = (n + i) * Period + Latency
  <2>. SUFFICES ASSUME NEW i \in 1 .. d
                PROVE  /\ u[i].publish_slot = (n + i) * Period
                       /\ u[i].landing_slot = (n + i) * Period + Latency
    OBVIOUS
  <2>1. u[i] = [publish_slot |-> DueSlot(i),
                landing_slot |-> DueSlot(i) + policy.landing_latency_slots,
                mid_price |-> fairPrice]
    BY DEF Published
  <2>2. DueSlot(i) = (n + 1) * Period + (i - 1) * Period
    BY DEF DueSlot, Period
  <2>3. (n + 1) * Period + (i - 1) * Period = (n + i) * Period
    <3>1. i - 1 \in Nat /\ i = (i - 1) + 1
      BY <1>1
    <3>. QED
      BY <1>1, <3>1
  <2>. HIDE DEF u
  <2>. QED
    BY <2>1, <2>2, <2>3 DEF Latency
<1>8. DOMAIN u = 1 .. d
  BY DEF Published
<1>. HIDE DEF u, flying, d, n
<1>9. DOMAIN flying = (k + 1) .. (n + d)
  <2>1. \A j \in (k + 1) .. (n + d) : j \in DOMAIN flying
    <3>. SUFFICES ASSUME NEW j \in (k + 1) .. (n + d) PROVE j \in DOMAIN flying
      OBVIOUS
    <3>1. CASE j <= n
      BY <1>1, <1>4, <1>6, <3>1
    <3>2. CASE j > n
      <4>1. j - n \in DOMAIN u /\ j = n + (j - n)
        BY <1>1, <1>6, <1>8, <3>2
      <4>. QED
        BY <1>4, <4>1
    <3>. QED
      BY <1>1, <3>1, <3>2
  <2>2. \A j \in DOMAIN flying : j \in (k + 1) .. (n + d)
    BY <1>1, <1>4, <1>6, <1>8
  <2>. QED
    BY <2>1, <2>2
<1>10. \A j \in DOMAIN flying :
         /\ flying[j].publish_slot = j * Period
         /\ flying[j].landing_slot = j * Period + Latency
  BY <1>4, <1>6, <1>7, <1>8
<1>11. k \in 0 .. (n + d)
  BY <1>1, <1>6
<1>12. Chain(flying, n + d, state.mid_publish_slot)
  BY <1>6, <1>9, <1>10, <1>11 DEF Chain
<1>. QED
  BY <1>5, <1>12 DEF u, flying, d, n

(* A row of a maker within the envelope keeps the chain and the age bound. *)
LEMMA MarketRowKeepsChain ==
  ASSUME Inv, Reliable, ChainInv,
         NEW slot \in 0 .. MaxSlot, NEW fairPrice \in FairPrices,
         NEW order \in Orders \cup {NoOrder},
         MarketRow(slot, fairPrice, order)
  PROVE  ChainInv'
<1>. DEFINE n         == report.quote_updates_sent
            d         == DueCount(slot)
            published == Published(1 .. d, fairPrice)
            flying    == InFlight(published)
            through   == LandThroughBeforeSwap(slot)
            before    == Before(slot, published)
            now       == AtOrder(slot, published)
            executed  == Executed(slot, fairPrice, order, published, d)
            after     == After(slot, fairPrice, order, published, d)
            expire    == scenario.params.expire_slots
<1>1. /\ slot \in Nat /\ TypeInv /\ scenario \in Scenarios
      /\ n \in Nat /\ d \in Nat
      /\ state \in QuotingStates
      /\ Numbered(pending, n)
      /\ report.max_quote_age_slots \in Nat
  BY QuoteSimulationAssumption, DueFacts DEF Inv, TypeInv, Reports, Counters
<1>2. /\ Period \in Nat \ {0} /\ Latency \in Nat /\ expire \in Nat
      /\ Period + Latency < expire
  BY <1>1, ReliableFacts DEF TypeInv
<1>3. /\ Row(slot, fairPrice, order, published, d)
      /\ nextUpdateSlot' = nextUpdateSlot + d * Period
  <2>1. LandingChoices(1 .. d) = {1 .. d}
    BY DEF LandingChoices, Reliable
  <2>. QED
    BY <2>1 DEF MarketRow, Period
<1>4. /\ result = NoError
      /\ slot >= state.now_slot
      /\ scenario' = scenario
      /\ result' = executed.error
      /\ executed.error # NoError => UNCHANGED <<state, pending, report>>
      /\ executed.error = NoError =>
           state' = after.state /\ pending' = after.pending
  <2>1. result = NoError
    BY <1>3 DEF Row
  <2>. QED
    BY <1>3, <2>1, RowSteps
<1>5. CASE executed.error # NoError
  <2>1. UNCHANGED <<scenario, report>> /\ result' # NoError
    BY <1>4, <1>5
  <2>. QED
    BY <2>1 DEF ChainInv
<1>6. CASE executed.error = NoError
  <2>1. /\ Chain(flying, n + d, state.mid_publish_slot)
        /\ nextUpdateSlot' = (n + d + 1) * Period
        /\ slot < (n + d + 1) * Period
    <3>1. /\ nextUpdateSlot = (n + 1) * Period
          /\ Chain(pending, n, state.mid_publish_slot)
      BY <1>4 DEF ChainInv
    <3>. QED
      BY <1>1, <1>3, <3>1, PublishingExtendsChain
  <2>2. Numbered(published, d)
    <3>1. 1 .. d \in LandingChoices(1 .. d)
      BY DEF LandingChoices, Reliable
    <3>. QED
      BY <1>1, <3>1, MarketPublishes
  <2>3. Numbered(flying, n + d)
    BY <1>1, <2>2, InFlightFacts
  <2>4. through \in Nat /\ through <= slot /\ slot <= through + 1
    BY <1>1, LandThroughFacts
  <2>5. Chain(before.pending, n + d, before.state.mid_publish_slot)
    <3>1. before = Land(state, flying, through)
      BY DEF Before
    <3>. HIDE DEF before, flying, through, n, d
    <3>. QED
      BY <1>1, <1>2, <2>1, <2>3, <2>4, <3>1, LandKeepsChain
  <2>6. /\ Numbered(before.pending, n + d)
        /\ \A i \in DOMAIN before.pending :
             before.pending[i].landing_slot > through
        /\ now \in QuotingStates
        /\ now.now_slot = slot
        /\ now.mid_publish_slot = before.state.mid_publish_slot
    BY <1>1, <1>4, <2>2, AtOrderFacts
  <2>7. nextUpdateSlot' \in Nat
    BY <1>1, <1>2, <2>1, ProductNat
  <2>8. /\ executed.state \in QuotingStates
        /\ executed.state.mid_publish_slot = now.mid_publish_slot
        /\ state'.now_slot = slot
        /\ report'.quote_updates_sent = n + d
        /\ report'.max_quote_age_slots =
             Greatest(report.max_quote_age_slots, QuoteAge(now))
        /\ Inv'
    BY <1>1, <1>3, <1>4, <1>6, <2>2, <2>7, RowKeepsInv
  <2>9. after = LandAfterSwap(executed.state, before.pending, slot)
    BY DEF After
  <2>. HIDE DEF before, now, executed, after, flying, through, n, d, expire
  <2>10. QuoteAge(now) \in Nat /\ QuoteAge(now) < expire
    <3>. DEFINE mid == now.mid_publish_slot
    <3>1. mid \in Nat /\ slot <= mid + Period + Latency
      BY <1>1, <1>2, <2>1, <2>4, <2>5, <2>6, ChainBoundsAge
    <3>2. QuoteAge(now) = IF slot >= mid THEN slot - mid ELSE 0
      BY <2>6 DEF QuoteAge, SaturatingSub
    <3>. HIDE DEF mid
    <3>. QED
      BY <1>1, <1>2, <3>1, <3>2
  <2>11. Chain(after.pending, n + d, after.state.mid_publish_slot)
    <3>1. Chain(before.pending, n + d, executed.state.mid_publish_slot)
      BY <2>5, <2>6, <2>8
    <3>2. CASE policy.same_slot_order = "SwapBeforeUpdate"
      <4>1. after = Land(executed.state, before.pending, slot)
        BY <2>9, <3>2 DEF LandAfterSwap
      <4>. QED
        BY <1>1, <1>2, <2>6, <2>8, <3>1, <4>1, LandKeepsChain
    <3>3. CASE policy.same_slot_order # "SwapBeforeUpdate"
      <4>1. /\ after.pending = before.pending
            /\ after.state = executed.state
        BY <2>9, <3>3 DEF LandAfterSwap
      <4>. QED
        BY <3>1, <4>1
    <3>. QED
      BY <3>2, <3>3
  <2>12. Chain(pending, report.quote_updates_sent, state.mid_publish_slot)'
    <3>1. PICK k \in 0 .. (n + d) :
            /\ DOMAIN after.pending = (k + 1) .. (n + d)
            /\ after.state.mid_publish_slot = k * Period
            /\ \A i \in DOMAIN after.pending :
                 /\ after.pending[i].publish_slot = i * Period
                 /\ after.pending[i].landing_slot = i * Period + Latency
      BY <2>11 DEF Chain
    <3>2. /\ pending' = after.pending /\ state' = after.state
          /\ report'.quote_updates_sent = n + d
          /\ Period' = Period /\ Latency' = Latency
      BY <1>4, <1>6, <2>8 DEF Period, Latency, policy
    <3>. QED
      BY <3>1, <3>2 DEF Chain
  <2>13. (report.max_quote_age_slots < scenario.params.expire_slots)'
    BY <1>1, <1>4, <2>8, <2>10 DEF ChainInv, Greatest, expire
  <2>14. /\ nextUpdateSlot' = (report'.quote_updates_sent + 1) * Period'
         /\ state'.now_slot < nextUpdateSlot'
    BY <1>4, <2>1, <2>8 DEF Period, policy
  <2>. QED
    BY <2>12, <2>13, <2>14 DEF ChainInv
<1>. QED
  BY <1>5, <1>6

(* The envelope the configuration demands is enough: whatever the rows and *)
(* the orders, a maker that updates within it and loses no update never    *)
(* has its quote expire under an order, in either same-slot order.         *)
THEOREM EnvelopeSuffices == Spec => []EnvelopeKeepsQuotesAlive
<1>1. Init => (Reliable => ChainInv)
  <2>. SUFFICES ASSUME Init, Reliable PROVE ChainInv
    OBVIOUS
  <2>1. /\ scenario \in Scenarios /\ PolicyValid(policy)
        /\ pending = [i \in {} |-> 0]
        /\ state.mid_publish_slot = 0 /\ state.now_slot = 0
        /\ report.quote_updates_sent = 0 /\ report.max_quote_age_slots = 0
    BY DEF Init, SimInit, EmptyReport
  <2>2. /\ Period \in Nat \ {0} /\ Latency \in Nat
        /\ scenario.params.expire_slots \in Nat
        /\ Period + Latency < scenario.params.expire_slots
    BY <2>1, ReliableFacts
  <2>3. nextUpdateSlot = Period
    BY DEF Init, MarketInit, ReplayInit, Reliable, Period
  <2>4. Chain(pending, 0, 0)
    <3>1. DOMAIN pending = {} /\ (0 + 1) .. 0 = {}
      BY <2>1
    <3>2. 0 \in 0 .. 0 /\ 0 = 0 * Period
      BY <2>2
    <3>. QED
      BY <3>1, <3>2 DEF Chain
  <2>. QED
    BY <2>1, <2>2, <2>3, <2>4 DEF ChainInv
<1>2. Inv /\ (Reliable => ChainInv) /\ [Next]_vars => (Reliable => ChainInv)'
  <2>. SUFFICES ASSUME Inv, Reliable => ChainInv, [Next]_vars, Reliable'
                PROVE  ChainInv'
    OBVIOUS
  <2>1. scenario' = scenario
    <3>1. \A slot \in 0 .. MaxSlot, fairPrice \in FairPrices,
             order \in Orders \cup {NoOrder} :
             MarketRow(slot, fairPrice, order) => scenario' = scenario
      BY DEF MarketRow, Row
    <3>2. \A slot \in 0 .. MaxSlot, fairPrice \in FairPrices,
             order \in Orders \cup {NoOrder} :
             ReplayRow(slot, fairPrice, order) => scenario' = scenario
      BY DEF ReplayRow, Row
    <3>3. \A slot \in 0 .. MaxSlot :
             RowOutOfOrder(slot) => scenario' = scenario
      BY DEF RowOutOfOrder
    <3>4. UNCHANGED vars => scenario' = scenario
      BY DEF vars
    <3>. QED
      BY <3>1, <3>2, <3>3, <3>4 DEF Next
  <2>2. Reliable
    BY <2>1 DEF Reliable, Envelope, policy
  <2>3. ASSUME NEW slot \in 0 .. MaxSlot, NEW fairPrice \in FairPrices,
               NEW order \in Orders \cup {NoOrder},
               MarketRow(slot, fairPrice, order)
        PROVE  ChainInv'
    BY <2>2, <2>3, MarketRowKeepsChain
  <2>4. ASSUME NEW slot \in 0 .. MaxSlot, NEW fairPrice \in FairPrices,
               NEW order \in Orders \cup {NoOrder},
               ReplayRow(slot, fairPrice, order)
        PROVE  ChainInv'
    BY <2>2, <2>4 DEF ReplayRow, Reliable
  <2>5. ASSUME NEW slot \in 0 .. MaxSlot, RowOutOfOrder(slot)
        PROVE  ChainInv'
    <3>1. result' # NoError
      BY <2>5 DEF RowOutOfOrder, NoError
    <3>2. UNCHANGED <<scenario, report>>
      BY <2>5 DEF RowOutOfOrder
    <3>. QED
      BY <2>2, <3>1, <3>2 DEF ChainInv
  <2>6. CASE UNCHANGED vars
    BY <2>2, <2>6 DEF vars, ChainInv, Chain, Period, Latency, policy
  <2>. QED
    BY <2>3, <2>4, <2>5, <2>6 DEF Next
<1>3. Inv /\ (Reliable => ChainInv) => EnvelopeKeepsQuotesAlive
  <2>. SUFFICES ASSUME Inv, Reliable, ChainInv
                PROVE  /\ report.rejected_stale = 0
                       /\ report.max_quote_age_slots < scenario.params.expire_slots
    BY DEF EnvelopeKeepsQuotesAlive, Reliable
  <2>1. /\ report.rejected_stale \in Nat
        /\ report.max_quote_age_slots \in Nat
        /\ scenario.params.expire_slots \in Nat
    BY ScenarioFacts DEF Inv, TypeInv, Reports, Counters, QuoteParams
  <2>. QED
    BY <2>1 DEF Inv, BlameBounded, ChainInv
<1>. QED
  BY <1>1, <1>2, <1>3, SimulationInv, PTL DEF Spec

=============================================================================
