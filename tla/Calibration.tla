---------------------------- MODULE Calibration ----------------------------
(***************************************************************************)
(* calibrate_reference_quote of crates/meta_amm_sim/src/calibration.rs:    *)
(* five candidates, each the default scenario pack with other parameters   *)
(* or another update policy, are simulated, graded, scored and ranked.     *)
(* Of a scenario the model keeps what calibration reads and changes.       *)
(***************************************************************************)
EXTENDS Reports

CONSTANT PackOutcomes   \* path reports, per scenario, a pack may end with

ASSUME CalibrationAssumption ==
  \A paths \in PackOutcomes :
    /\ paths \in Seq(Seq(ReferenceQuoteReports))
    /\ \A i \in DOMAIN paths : paths[i] # <<>>

VARIABLES
  calibrated,          \* reports of the candidates so far, then all, ranked
  calibrationResult    \* NoError, "Ranked", or the error that ended it

calibrationVars == <<calibrated, calibrationResult>>

-----------------------------------------------------------------------------
(* The candidates. *)

(* default_reference_quote_scenario_pack. *)
DefaultParams ==
  [fee_bps |-> 30, base_half_spread_bps |-> 10,
   aging_start_slots |-> 5, protected_start_slots |-> 10, expire_slots |-> 15,
   aging_surcharge_bps_per_slot |-> 2, max_aging_surcharge_bps |-> 20,
   max_trade_base_atoms |-> 10000, protected_max_trade_base_atoms |-> 500,
   inventory_skew_bps_per_10k_imbalance |-> 1000, max_inventory_skew_bps |-> 500,
   hard_inventory_band_bps |-> 3000]

PackScenario(name, period, latency, success) ==
  [name   |-> name,
   params |-> DefaultParams,
   policy |-> [maker_update_period_slots |-> period,
               landing_latency_slots |-> latency,
               update_success_probability_bps |-> success,
               same_slot_order |-> "SwapBeforeUpdate"]]

DefaultPack ==
  <<PackScenario("calm-fast-updates", 4, 1, 9900),
    PackScenario("trending-slow-updates", 9, 4, 8500),
    PackScenario("volatile-dropped-updates", 8, 6, 6500)>>

(* map_params; changed says which fields are replaced. *)
MapParams(pack, changed) ==
  [i \in DOMAIN pack |->
     [pack[i] EXCEPT !.params =
        [f \in DOMAIN @ |-> IF f \in DOMAIN changed THEN changed[f] ELSE @[f]]]]

FasterPolicy(p) ==
  [p EXCEPT !.maker_update_period_slots = Greatest(@ \div 2, 2),
            !.landing_latency_slots = Greatest(@ \div 2, 1),
            !.update_success_probability_bps = Least(@ + 900, 9950)]

(* map_policy, of the one policy it is asked for. *)
Faster(pack) ==
  [i \in DOMAIN pack |-> [pack[i] EXCEPT !.policy = FasterPolicy(@)]]

Wider(halfSpread) ==
  [base_half_spread_bps |-> halfSpread, aging_surcharge_bps_per_slot |-> 4,
   max_aging_surcharge_bps |-> 40, protected_max_trade_base_atoms |-> 400]

Tighter ==
  [aging_start_slots |-> 3, protected_start_slots |-> 7, expire_slots |-> 11,
   aging_surcharge_bps_per_slot |-> 5, max_aging_surcharge_bps |-> 50,
   protected_max_trade_base_atoms |-> 300]

(* default_reference_quote_calibration_candidates. *)
Candidates ==
  LET Candidate(name, pack) == [name |-> name, scenarios |-> pack]
  IN  <<Candidate("baseline", DefaultPack),
        Candidate("wider-spread", MapParams(DefaultPack, Wider(20))),
        Candidate("faster-updates", Faster(DefaultPack)),
        Candidate("wide-and-fast", Faster(MapParams(DefaultPack, Wider(18)))),
        Candidate("tight-freshness", Faster(MapParams(DefaultPack, Tighter)))>>

-----------------------------------------------------------------------------
(* strategy_config_from_scenarios. *)

PolicyField(pack, f) == {pack[i].policy[f] : i \in DOMAIN pack}

(* Mutation: the envelope is that of the last scenario. *)
EnvelopeOf_Last(pack) ==
  LET p == Last(pack).policy
  IN  [max_maker_update_period_slots |-> p.maker_update_period_slots,
       max_landing_latency_slots |-> p.landing_latency_slots,
       min_update_success_probability_bps |-> p.update_success_probability_bps,
       same_slot_order |-> p.same_slot_order]

(* The slowest maker of the pack on its worst link. *)
EnvelopeOf(pack) ==
  [max_maker_update_period_slots |->
     Max(PolicyField(pack, "maker_update_period_slots")),
   max_landing_latency_slots |-> Max(PolicyField(pack, "landing_latency_slots")),
   min_update_success_probability_bps |->
     Min(PolicyField(pack, "update_success_probability_bps")),
   same_slot_order |-> pack[1].policy.same_slot_order]

StrategyConfig(pack) ==
  IF \E i \in DOMAIN pack :
       \/ pack[i].params # pack[1].params
       \/ pack[i].policy.same_slot_order # pack[1].policy.same_slot_order
    THEN Err("InvalidConfig")
    ELSE Ok([params |-> pack[1].params,
             quote_update_envelope |-> EnvelopeOf(pack)])

-----------------------------------------------------------------------------
(* Scores and ranks. *)

(* score_candidate: means over the scenarios, truncated. *)
ScoreCandidate(reports) ==
  LET MeanOf(F(_)) ==
        TruncDiv(SumOf([i \in DOMAIN reports |-> F(reports[i])]),
                 Greatest(Len(reports), 1))
  IN  [mean_p05_fill_rate_bps |-> MeanOf(LAMBDA r : r.fill_rate_bps.p05),
       mean_fill_rate_bps |-> MeanOf(LAMBDA r : r.fill_rate_bps.mean),
       mean_update_drop_rate_bps |->
         MeanOf(LAMBDA r : RateBps(r.quote_updates_dropped.mean,
                                   r.quote_updates_sent.mean)),
       rough_maker_score_quote_atoms |->
         MeanOf(LAMBDA r : r.fees_quote_atoms.mean - r.taker_edge_quote_atoms.mean)]

(* The order of the names as strings. *)
NameRank(name) ==
  CHOOSE i \in 1 .. 5 :
    <<"baseline", "faster-updates", "tight-freshness", "wide-and-fast",
      "wider-spread">>[i] = name

(* Mutation: the tail of the fill rate comes first. *)
RankKey_TailFirst(c) ==
  <<-c.score.mean_p05_fill_rate_bps, c.severity,
    -c.score.rough_maker_score_quote_atoms, NameRank(c.name)>>

(* compare_candidates, as the key that is least for the best. *)
RankKey(c) ==
  <<c.severity, -c.score.mean_p05_fill_rate_bps,
    -c.score.rough_maker_score_quote_atoms, NameRank(c.name)>>

Before(left, right) ==
  LET l == RankKey(left)
      r == RankKey(right)
  IN  \E i \in 1 .. 4 : l[i] < r[i] /\ \A j \in 1 .. i - 1 : l[j] = r[j]

-----------------------------------------------------------------------------
CalibrationInit == calibrated = <<>> /\ calibrationResult = NoError

CandidateReport(candidate, reports) ==
  [name      |-> candidate.name,
   scenarios |-> candidate.scenarios,
   strategy  |-> StrategyConfig(candidate.scenarios).value,
   score     |-> ScoreCandidate(reports),
   severity  |-> PackSeverity(reports, DefaultThresholds)]

(* The next candidate; an error in any of them ends the calibration. *)
CalibrateCandidate ==
  /\ calibrationResult = NoError
  /\ Len(calibrated) < Len(Candidates)
  /\ \E candidate \in {Candidates[Len(calibrated) + 1]}, paths \in PackOutcomes :
       /\ calibrationResult' = StrategyConfig(candidate.scenarios).error
       /\ calibrated' =
            Append(calibrated,
                   CandidateReport(candidate,
                                   [i \in DOMAIN paths |-> Aggregate(paths[i])]))

CandidateFails ==
  /\ calibrationResult = NoError
  /\ Len(calibrated) < Len(Candidates)
  /\ calibrationResult' = "Overflow"
  /\ calibrated' = <<>>

(* The ways to arrange the candidates. *)
Places == Bijection(DOMAIN Candidates, DOMAIN Candidates)

RankCandidates ==
  /\ calibrationResult = NoError
  /\ Len(calibrated) = Len(Candidates)
  /\ \E place \in Places :
       /\ \A k, l \in DOMAIN place :
            k < l => ~Before(calibrated[place[l]], calibrated[place[k]])
       /\ calibrated' = [k \in DOMAIN place |-> calibrated[place[k]]]
  /\ calibrationResult' = "Ranked"

Best == calibrated[1]

-----------------------------------------------------------------------------
(* Properties. *)

(* What is exported passed every gate that blocks, whenever some candidate *)
(* did, and no candidate of the same severity keeps a better tail of fill  *)
(* rates: a high score never carries a candidate past its gates.           *)
BlockedOnlyIfUnavoidable ==
  calibrationResult = "Ranked" =>
    \A i \in DOMAIN calibrated :
      /\ Best.severity <= calibrated[i].severity
      /\ Best.severity = calibrated[i].severity =>
           Best.score.mean_p05_fill_rate_bps
             >= calibrated[i].score.mean_p05_fill_rate_bps

(* The envelope a candidate is exported with covers the scenarios its      *)
(* figures come from: if the compiler accepts it, a maker as slow as any   *)
(* of them, on a link as slow as any of them, still refreshes the quote    *)
(* before it expires, and no scenario lost more updates than it declares.  *)
ExportCoversScenarios ==
  \A c \in ToSet(calibrated) :
    /\ ConfigParamsValid(c.strategy.params)
    /\ EnvelopeValid(c.strategy.quote_update_envelope,
                     c.strategy.params.expire_slots)
    => \A i, j \in DOMAIN c.scenarios :
         LET maker == c.scenarios[i].policy
             link  == c.scenarios[j].policy
         IN  /\ maker.maker_update_period_slots + link.landing_latency_slots
                  < c.scenarios[i].params.expire_slots
             /\ link.update_success_probability_bps
                  >= c.strategy.quote_update_envelope.min_update_success_probability_bps

=============================================================================
