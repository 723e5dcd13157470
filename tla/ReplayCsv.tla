----------------------------- MODULE ReplayCsv -----------------------------
(***************************************************************************)
(* Historical replay, crates/meta_amm_sim/src/replay.rs: a recorded market *)
(* is read row by row, its flow and the landings of its quote updates are  *)
(* summarized, and a quote update policy is inferred from them.  What the  *)
(* simulation then does with the rows is the subject of ReplayPath.        *)
(*                                                                         *)
(* A row is a record of cells; the text of a cell matters only in that it  *)
(* is empty, malformed, the word for a dropped update, or a number.        *)
(***************************************************************************)
EXTENDS Reports

CONSTANTS
  Headers,   \* sets of columns a file may have
  Rows,      \* rows it may have
  MaxRows,   \* bound on the rows read
  Empty, Malformed, Drop   \* cells that are not numbers

Columns == {"slot", "fair_price", "side", "amount_in", "quote_landing_slot"}

Cells == Nat \cup {Empty, Malformed}
Sides == {"base_to_quote", "quote_to_base", Empty, Malformed}

ASSUME ReplayCsvAssumption ==
  /\ Headers \subseteq SUBSET Columns
  /\ Rows \subseteq [slot : Cells, fair_price : Cells, side : Sides,
                     amount_in : Cells, quote_landing_slot : Cells \cup {Drop},
                     quoted : BOOLEAN]
  /\ {Empty, Malformed, Drop} \cap Nat = {} /\ Drop \notin {Empty, Malformed}
  /\ MaxRows \in Nat

VARIABLES
  columns,        \* the header, once read
  recording,      \* ReplayMarketPath: slots and quote_updates
  inferred,       \* the policy inferred from it
  replayStage,    \* "header", "rows", "flow", "policy", "scenario", "report"
  replayResult    \* NoError, or the error that ended the replay

replayVars == <<columns, recording, inferred, replayStage, replayResult>>

NoFlowOrder == [base_to_quote |-> FALSE, amount_in |-> Empty]

EmptyRecording == [slots |-> <<>>, quote_updates |-> <<>>]

ReplayInit ==
  /\ columns = {}
  /\ recording = EmptyRecording
  /\ inferred = Empty
  /\ replayStage = "header"
  /\ replayResult = NoError

(* Every error ends the replay and leaves nothing of it. *)
ReplayFails(error) ==
  /\ replayResult' = error
  /\ recording' = EmptyRecording
  /\ UNCHANGED <<columns, inferred, replayStage>>

-----------------------------------------------------------------------------
(* parse_replay_csv. *)

(* No file, a file without a line that counts, or a quoted header. *)
NoHeader ==
  /\ replayStage = "header" /\ replayResult = NoError
  /\ \E error \in {"Unreadable", "EmptyInput", "QuotedCsvUnsupported"} :
       ReplayFails(error)

ReadHeader ==
  /\ replayStage = "header" /\ replayResult = NoError
  /\ \E header \in Headers :
       IF {"slot", "fair_price"} \subseteq header
         THEN /\ columns' = header
              /\ replayStage' = "rows"
              /\ UNCHANGED <<recording, inferred, replayResult>>
         ELSE ReplayFails("MissingColumn")

(* A column the header lacks and a cell the row lacks are both empty.      *)
Cell(row, column) == IF column \in columns THEN row[column] ELSE Empty

(* parse_optional_flow: an order needs both of its cells. *)
FlowError(row) ==
  LET side   == Cell(row, "side")
      amount == Cell(row, "amount_in")
  IN  IF side = Empty /\ amount = Empty THEN NoError
      ELSE IF side = Empty \/ amount = Empty THEN "InvalidField"
      ELSE IF side = Malformed THEN "InvalidSide"
      ELSE IF amount = Malformed THEN "InvalidField" ELSE NoError

RowError(row) ==
  IF row.quoted THEN "QuotedCsvUnsupported"
  ELSE IF \E c \in {"slot", "fair_price"} : row[c] \in {Empty, Malformed}
    THEN "InvalidField"
  ELSE IF FlowError(row) # NoError THEN FlowError(row)
  ELSE IF Cell(row, "quote_landing_slot") = Malformed THEN "InvalidField"
  ELSE NoError

FlowOf(row) ==
  IF Cell(row, "side") = Empty THEN NoFlowOrder
  ELSE [base_to_quote |-> row.side = "base_to_quote", amount_in |-> row.amount_in]

(* The update is published in the slot of its row, at the fair price.      *)
UpdatesOf(row) ==
  IF Cell(row, "quote_landing_slot") = Empty THEN <<>>
  ELSE << [publish_slot |-> row.slot, landing_slot |-> row.quote_landing_slot] >>

ReadRow ==
  /\ replayStage = "rows" /\ replayResult = NoError
  /\ Len(recording.slots) < MaxRows
  /\ \E row \in Rows :
       IF RowError(row) # NoError THEN ReplayFails(RowError(row))
       ELSE /\ recording' =
                 [slots |-> Append(recording.slots,
                                   [slot |-> row.slot, fair_price |-> row.fair_price,
                                    flow |-> FlowOf(row)]),
                  quote_updates |-> recording.quote_updates \o UpdatesOf(row)]
            /\ UNCHANGED <<columns, inferred, replayStage, replayResult>>

EndOfFile ==
  /\ replayStage = "rows" /\ replayResult = NoError
  /\ replayStage' = "flow"
  /\ UNCHANGED <<columns, recording, inferred, replayResult>>

-----------------------------------------------------------------------------
(* Distributions. *)

(* flow_distribution, as the base each order is worth at its fair price.   *)
BaseEquivalents(path) ==
  LET Worth(s) == IF s.flow.base_to_quote THEN Ok(s.flow.amount_in)
                  ELSE DivAmountFloor(s.fair_price * Q64, s.flow.amount_in)
  IN  [i \in {j \in DOMAIN path.slots : path.slots[j].flow # NoFlowOrder} |->
         Worth(path.slots[i])]

(* The first order without a worth ends the replay. *)
FlowDistribution(path) ==
  LET worths == BaseEquivalents(path)
      trades == DOMAIN worths
      failed == {i \in trades : worths[i].error # NoError}
  IN  IF failed # {} THEN worths[Min(failed)]
      ELSE Ok([trade_probability_bps |->
                 RateBps(Cardinality(trades), Len(path.slots)),
               base_equivalent_amount |->
                 Summary([i \in trades |-> worths[i].value])])

Landed(updates) == {i \in DOMAIN updates : updates[i].landing_slot # Drop}

Latencies(updates) ==
  [i \in Landed(updates) |->
     SaturatingSub(updates[i].landing_slot, updates[i].publish_slot)]

(* landing_distribution. *)
LandingDistribution(updates) ==
  [success_probability_bps |-> RateBps(Cardinality(Landed(updates)), Len(updates)),
   latency_slots |-> Summary(Latencies(updates))]

(* The slots between consecutive updates; updates of one slot do not       *)
(* count, for a period is at least one slot.                               *)
AllDeltas(updates) ==
  [i \in 2 .. Len(updates) |->
     updates[i].publish_slot - updates[i - 1].publish_slot]

(* Mutation: updates of one slot count as a period of no slots. *)
Deltas_WithZeros(updates) == AllDeltas(updates)

Deltas(updates) ==
  LET all == AllDeltas(updates)
  IN  Restrict(all, {i \in DOMAIN all : all[i] > 0})

(* validate_quote_updates, and the same two checks of the inference. *)
UpdatesInOrder(updates) ==
  /\ \A i \in 2 .. Len(updates) :
       updates[i - 1].publish_slot <= updates[i].publish_slot
  /\ \A i \in DOMAIN updates :
       updates[i].landing_slot = Drop
         \/ updates[i].landing_slot >= updates[i].publish_slot

(* quote_update_policy_from_replay. *)
PolicyFromReplay(updates) ==
  LET deltas  == Deltas(updates)
      landing == LandingDistribution(updates)
  IN  IF ~UpdatesInOrder(updates) \/ DOMAIN deltas = {} THEN Err("InvalidConfig")
      ELSE Ok([maker_update_period_slots |->
                 SumOf(deltas) \div Cardinality(DOMAIN deltas),
               landing_latency_slots |-> landing.latency_slots.mean,
               update_success_probability_bps |-> landing.success_probability_bps])

-----------------------------------------------------------------------------
(* run_replay_csv of main.rs, once the file is read. *)

SummarizeFlow ==
  /\ replayStage = "flow" /\ replayResult = NoError
  /\ IF FlowDistribution(recording).error # NoError
       THEN ReplayFails(FlowDistribution(recording).error)
       ELSE /\ replayStage' = "policy"
            /\ UNCHANGED <<columns, recording, inferred, replayResult>>

InferPolicy ==
  /\ replayStage = "policy" /\ replayResult = NoError
  /\ \E p \in {PolicyFromReplay(recording.quote_updates)} :
       IF p.error # NoError THEN ReplayFails(p.error)
       ELSE /\ inferred' = p.value
            /\ replayStage' = "scenario"
            /\ UNCHANGED <<columns, recording, replayResult>>

RowsInOrder ==
  \A i \in 2 .. Len(recording.slots) :
    recording.slots[i - 1].slot <= recording.slots[i].slot

(* simulate_reference_quote_replay; an amount may not fit its word. *)
SimulateRows ==
  /\ replayStage = "scenario" /\ replayResult = NoError
  /\ \/ /\ RowsInOrder
        /\ replayStage' = "report"
        /\ UNCHANGED <<columns, recording, inferred, replayResult>>
     \/ ReplayFails("Overflow")
     \/ ~RowsInOrder /\ ReplayFails("InvalidConfig")

ReplayNext ==
  NoHeader \/ ReadHeader \/ ReadRow \/ EndOfFile \/ SummarizeFlow
    \/ InferPolicy \/ SimulateRows

-----------------------------------------------------------------------------
(* Properties. *)

Between(n, values) == \E lo, hi \in values : lo <= n /\ n <= hi

(* A policy inferred from a recording is one the simulation runs: its      *)
(* period is never zero (the maker would publish without end) and lies     *)
(* among the periods recorded, its latency among the latencies of the      *)
(* updates that landed, and its chance is whole exactly when none was      *)
(* dropped.  The recording itself passes the simulation's own checks, and  *)
(* has the row whose fair price the scenario starts from.                  *)
InferredPolicyIsRunnable ==
  replayStage \in {"scenario", "report"} /\ replayResult = NoError =>
    LET updates == recording.quote_updates
    IN  /\ inferred.maker_update_period_slots > 0
        /\ Between(inferred.maker_update_period_slots,
                   {d \in Range(AllDeltas(updates)) : d > 0})
        /\ Landed(updates) # {} =>
             Between(inferred.landing_latency_slots, Range(Latencies(updates)))
        /\ inferred.update_success_probability_bps = BPS
             <=> Landed(updates) = DOMAIN updates
        /\ UpdatesInOrder(updates)
        /\ recording.slots # <<>>

=============================================================================
