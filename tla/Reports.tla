------------------------------ MODULE Reports ------------------------------
(***************************************************************************)
(* Scenario packs of crates/meta_amm_sim/src/lib.rs: the paths of a        *)
(* scenario are simulated one after another, their reports are summarized  *)
(* field by field, and gates grade each summary.  What a path does is the  *)
(* subject of Simulator; here it ends with any one of PathReports, or with *)
(* an error that ends the pack without a report.                           *)
(***************************************************************************)
EXTENDS ReferenceQuote, SequencesExt, FiniteSets

MaxU16 == 65535

CONSTANTS
  MinPaths,       \* min_paths of the thresholds, 32 in the code
  PathReports,    \* the ReferenceQuoteReport a path may end with
  PackPathCounts  \* path_count of each scenario of the pack

(* The numbers of a ReferenceQuoteReport that are summarized.  Only what   *)
(* the takers lost or won has a sign; orders and updates add up, as        *)
(* OutcomesAddUp of Simulator has it.                                      *)
CountFields ==
  {"trades_attempted", "trades_filled", "rejected_stale", "rejected_protected",
   "rejected_inventory", "rejected_other", "quote_updates_sent",
   "quote_updates_landed", "quote_updates_dropped", "max_quote_age_slots",
   "fees_quote_atoms", "max_abs_inventory_imbalance_bps"}

ReportFields == CountFields \cup {"taker_edge_quote_atoms"}

ReferenceQuoteReports ==
  {r \in [ReportFields -> Int] :
     /\ \A f \in CountFields : r[f] \in Nat
     /\ r.trades_attempted =
          r.trades_filled + r.rejected_stale + r.rejected_protected
            + r.rejected_inventory + r.rejected_other
     /\ r.quote_updates_landed + r.quote_updates_dropped <= r.quote_updates_sent}

ASSUME ReportsAssumption ==
  /\ BPS <= MaxU16
  /\ MinPaths \in Nat
  /\ PackPathCounts \in Seq(Nat)
  /\ PathReports \subseteq ReferenceQuoteReports

VARIABLES
  packPaths,    \* the path reports so far, scenario by scenario
  packResult    \* NoError, or the error that ended the pack

packVars == <<packPaths, packResult>>

-----------------------------------------------------------------------------
(* Summaries. *)

RateBps(numerator, denominator) ==
  IF denominator = 0 THEN 0
  ELSE Least((numerator * BPS) \div denominator, MaxU16)

FillRateBps(r) == RateBps(r.trades_filled, r.trades_attempted)

(* percentile_index, counted from 1: it rounds down. *)
PercentileIndex(len, percentile) == ((len - 1) * percentile) \div 100 + 1

(* What stands at a place, counted from 1, once the values are sorted.     *)
AtPlace(values, place) ==
  CHOOSE v \in Range(values) :
    /\ Cardinality({i \in DOMAIN values : values[i] < v}) < place
    /\ place <= Cardinality({i \in DOMAIN values : values[i] <= v})

SumOf(values) == FoldFunction(+, 0, values)

(* summarize_u16, _u64, _u128 and _i128 differ in their words only.  The   *)
(* values are a finite family; how it is indexed does not matter.          *)
Summary(values) ==
  LET count == Cardinality(DOMAIN values)
      At(percentile) == AtPlace(values, PercentileIndex(count, percentile))
  IN  IF count = 0
        THEN [min |-> 0, p05 |-> 0, mean |-> 0, p50 |-> 0, p95 |-> 0, max |-> 0]
        ELSE [min  |-> AtPlace(values, 1), p05 |-> At(5), p50 |-> At(50),
              p95  |-> At(95), mean |-> TruncDiv(SumOf(values), count),
              max  |-> AtPlace(values, count)]

(* aggregate_reference_reports.  A scenario has at least one path.         *)
Aggregate(reports) ==
  LET Summarized(F(_)) == Summary([i \in DOMAIN reports |-> F(reports[i])])
  IN  [f \in ReportFields \cup {"fill_rate_bps", "paths"} |->
         CASE f = "paths" -> Len(reports)
           [] f = "fill_rate_bps" -> Summarized(FillRateBps)
           [] OTHER -> Summarized(LAMBDA r : r[f])]

-----------------------------------------------------------------------------
(* Gates.  GateSeverity is ordered. *)

Pass == 0
Warn == 1
Block == 2

(* ScenarioGateThresholds::reference_quote_default. *)
DefaultThresholds ==
  [min_paths              |-> MinPaths,
   fill_rate              |-> [warn |-> 7000, block |-> 5000],
   stale_reject_rate      |-> [warn |-> 1500, block |-> 2500],
   protected_reject_rate  |-> [warn |-> 2000, block |-> 3500],
   update_drop_rate       |-> [warn |-> 2500, block |-> 3500],
   quote_age              |-> [warn |-> 32,   block |-> 40],
   inventory_imbalance    |-> [warn |-> 2000, block |-> 2800]]

MinGate(observed, threshold) ==
  IF observed < threshold.block THEN Block
  ELSE IF observed < threshold.warn THEN Warn ELSE Pass

MaxGate(observed, threshold) ==
  IF observed > threshold.block THEN Block
  ELSE IF observed > threshold.warn THEN Warn ELSE Pass

(* Mutation: the rate is taken of the fewest attempts. *)
TailRate_OfTheFewest(summary, of) == RateBps(summary.p95, of.p05)

(* A rate in the tail is the ratio of two percentiles, each of its own     *)
(* path.                                                                   *)
TailRate(summary, of) == RateBps(summary.p95, of.p95)

(* evaluate_reference_quote_report, as the severity of each metric; one    *)
(* that passes leaves no finding.                                          *)
Findings(report, t) ==
  [paths |-> IF report.paths < t.min_paths THEN Block ELSE Pass,
   fill_rate_p05_bps |-> MinGate(report.fill_rate_bps.p05, t.fill_rate),
   stale_reject_rate_p95_bps |->
     MaxGate(TailRate(report.rejected_stale, report.trades_attempted),
             t.stale_reject_rate),
   protected_reject_rate_p95_bps |->
     MaxGate(TailRate(report.rejected_protected, report.trades_attempted),
             t.protected_reject_rate),
   update_drop_rate_p95_bps |->
     MaxGate(TailRate(report.quote_updates_dropped, report.quote_updates_sent),
             t.update_drop_rate),
   max_quote_age_p95_slots |->
     MaxGate(report.max_quote_age_slots.p95, t.quote_age),
   inventory_imbalance_p95_bps |->
     MaxGate(report.max_abs_inventory_imbalance_bps.p95, t.inventory_imbalance)]

ScenarioSeverity(report, t) ==
  LET findings == Findings(report, t)
  IN  Max({findings[m] : m \in DOMAIN findings})

(* ScenarioPackEvaluation::severity: an empty pack passes. *)
PackSeverity(reports, t) ==
  Max({Pass} \cup {ScenarioSeverity(reports[i], t) : i \in DOMAIN reports})

-----------------------------------------------------------------------------
(* simulate_reference_quote_scenario_pack and, of a single scenario,       *)
(* simulate_generated_reference_quote.                                     *)

PackInit == packPaths = <<>> /\ packResult = NoError

PathsOf(count) == Greatest(count, 1)

ScenarioDone(pathCounts) ==
  packPaths = <<>> \/ Len(Last(packPaths)) = PathsOf(pathCounts[Len(packPaths)])

PackDone(pathCounts) ==
  Len(packPaths) = Len(pathCounts) /\ ScenarioDone(pathCounts)

SimulatePath(pathCounts) ==
  /\ packResult = NoError
  /\ ~PackDone(pathCounts)
  /\ \E r \in PathReports :
       packPaths' = IF ScenarioDone(pathCounts) THEN Append(packPaths, <<r>>)
                    ELSE [packPaths EXCEPT ![Len(packPaths)] = Append(@, r)]
  /\ UNCHANGED packResult

PathFails(pathCounts) ==
  /\ packResult = NoError
  /\ ~PackDone(pathCounts)
  /\ packResult' = "Overflow"
  /\ UNCHANGED packPaths

PackReports == [i \in DOMAIN packPaths |-> Aggregate(packPaths[i])]

-----------------------------------------------------------------------------
(* Properties. *)

(* Many paths are graded no better than the best of them and no worse than *)
(* the worst: whatever a gate says of a scenario lies, metric by metric,   *)
(* between what it says of the scenario's paths taken one by one, although *)
(* its rates divide the percentile of one path by that of another.  (The   *)
(* number of paths is the one metric about the whole.)                     *)
VerdictBetweenPaths ==
  \A i \in DOMAIN packPaths :
    LET t       == DefaultThresholds
        verdict == Findings(Aggregate(packPaths[i]), t)
        Alone(m) == {Findings(Aggregate(<<r>>), t)[m] : r \in ToSet(packPaths[i])}
    IN  \A m \in DOMAIN verdict \ {"paths"} :
          /\ Min(Alone(m)) <= verdict[m]
          /\ verdict[m] <= Max(Alone(m))

=============================================================================
