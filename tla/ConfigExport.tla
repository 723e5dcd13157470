---------------------------- MODULE ConfigExport ----------------------------
(***************************************************************************)
(* The way of a calibrated strategy into a pool: calibration.rs writes it  *)
(* out as a JSON document, an operator carries the document over by hand,  *)
(* and crates/meta_amm_config/src/lib.rs reads its fields back, validates  *)
(* and compiles them.  The reader is not a JSON parser: it takes the first *)
(* place where the quoted name of a field stands, wherever that is.        *)
(*                                                                         *)
(* A document is the sequence of its fields in the order of the writer.  A *)
(* field has a number or a text; NoText is the text of a number.           *)
(***************************************************************************)
EXTENDS Calibration

CONSTANTS
  MintDecimals,    \* decimals of a mint of the pool
  SwapMetaBudgets  \* max_swap_account_metas of the account budget

VARIABLES
  exported,    \* the candidate report that was written out, or <<>>
  document,    \* the document as it reaches the compiler
  imported     \* what compiling it for a pool returned, or <<>>

exportVars == <<exported, document, imported>>

ExportInit == exported = <<>> /\ document = <<>> /\ imported = <<>>

NoText == ""

Number(key, n) == [key |-> key, number |-> n, text |-> NoText]
Text(key, s)   == [key |-> key, number |-> 0, text |-> s]

-----------------------------------------------------------------------------
(* export_reference_quote_config. *)

ParamFields ==
  <<"fee_bps", "base_half_spread_bps", "aging_start_slots",
    "protected_start_slots", "expire_slots", "aging_surcharge_bps_per_slot",
    "max_aging_surcharge_bps", "max_trade_base_atoms",
    "protected_max_trade_base_atoms", "inventory_skew_bps_per_10k_imbalance",
    "max_inventory_skew_bps", "hard_inventory_band_bps">>

EnvelopeFields ==
  <<"max_maker_update_period_slots", "max_landing_latency_slots",
    "min_update_success_probability_bps">>

ScoreFields ==
  <<"mean_p05_fill_rate_bps", "mean_fill_rate_bps", "mean_update_drop_rate_bps",
    "rough_maker_score_quote_atoms">>

SameSlotOrderStr(order) ==
  CASE order = "UpdateBeforeSwap" -> "update_before_swap"
    [] order = "SwapBeforeUpdate" -> "swap_before_update"

SeverityStr(severity) == <<"pass", "warn", "block">>[severity + 1]

Numbers(fields, values) ==
  [i \in DOMAIN fields |-> Number(fields[i], values[fields[i]])]

(* Of the findings and assumptions the names of the scenarios are kept. *)
ExportConfig(c) ==
  LET envelope == c.strategy.quote_update_envelope
  IN  <<Number("version", 1), Text("mode", "ReferenceQuote"),
        Text("candidate_name", c.name), Text("warning", "generated")>>
      \o Numbers(ParamFields, c.strategy.params)
      \o Numbers(EnvelopeFields, envelope)
      \o <<Text("same_slot_order", SameSlotOrderStr(envelope.same_slot_order))>>
      \o Numbers(ScoreFields, c.score)
      \o <<Text("severity", SeverityStr(c.severity))>>
      \o [i \in DOMAIN c.scenarios |-> Text("scenario", c.scenarios[i].name)]
      \o [i \in DOMAIN c.scenarios |-> Text("name", c.scenarios[i].name)]

-----------------------------------------------------------------------------
(* parse_reference_quote_strategy_export. *)

(* Mutation: the name is looked for without the quote that opens it. *)
Stands_Unanchored(field, key) ==
  \/ field.key = key
  \/ key = "max_trade_base_atoms" /\ field.key = "protected_max_trade_base_atoms"

(* The name of a field stands quoted as the key or as the text.            *)
Stands(field, key) == field.key = key \/ field.text = key

(* field_value: the value after the colon that follows the name; after a   *)
(* text that is the value of the next field.  0 when there is none.        *)
FieldIndex(doc, key) ==
  LET i == SelectInSeq(doc, LAMBDA field : Stands(field, key))
  IN  IF i = 0 THEN 0
      ELSE IF doc[i].text # key THEN i
      ELSE IF i < Len(doc) THEN i + 1 ELSE 0

NumberError(doc, key) ==
  IF FieldIndex(doc, key) = 0 THEN "MissingField"
  ELSE IF doc[FieldIndex(doc, key)].text # NoText THEN "InvalidNumber"
  ELSE NoError

TextError(doc, key) ==
  IF FieldIndex(doc, key) = 0 THEN "MissingField"
  ELSE IF doc[FieldIndex(doc, key)].text = NoText THEN "InvalidString"
  ELSE NoError

NumberAt(doc, key) == doc[FieldIndex(doc, key)].number
TextAt(doc, key)   == doc[FieldIndex(doc, key)].text

Record(doc, fields) == [f \in ToSet(fields) |-> NumberAt(doc, f)]

(* The first of several errors, in the order the code meets them. *)
FirstError(errors) ==
  LET i == SelectInSeq(errors, LAMBDA e : e # NoError)
  IN  IF i = 0 THEN NoError ELSE errors[i]

NumberErrors(doc, fields) == [i \in DOMAIN fields |-> NumberError(doc, fields[i])]

VersionError(doc) ==
  IF NumberError(doc, "version") # NoError THEN NumberError(doc, "version")
  ELSE IF NumberAt(doc, "version") # 1 THEN "UnsupportedVersion" ELSE NoError

ModeError(doc) ==
  IF TextError(doc, "mode") # NoError THEN TextError(doc, "mode")
  ELSE IF TextAt(doc, "mode") # "ReferenceQuote" THEN "UnsupportedMode"
  ELSE NoError

ParamsError(doc) ==
  LET read == FirstError(NumberErrors(doc, ParamFields))
  IN  IF read # NoError THEN read
      ELSE IF ~ConfigParamsValid(Record(doc, ParamFields)) THEN "Config"
      ELSE NoError

OrderError(doc) ==
  IF TextError(doc, "same_slot_order") # NoError
    THEN TextError(doc, "same_slot_order")
  ELSE IF TextAt(doc, "same_slot_order")
            \notin {"update_before_swap", "swap_before_update"}
    THEN "UnknownSameSlotOrder" ELSE NoError

ExportedOrder(doc) ==
  IF TextAt(doc, "same_slot_order") = "update_before_swap"
    THEN "UpdateBeforeSwap" ELSE "SwapBeforeUpdate"

ExportedEnvelope(doc) ==
  [max_maker_update_period_slots |-> NumberAt(doc, "max_maker_update_period_slots"),
   max_landing_latency_slots |-> NumberAt(doc, "max_landing_latency_slots"),
   min_update_success_probability_bps |->
     NumberAt(doc, "min_update_success_probability_bps"),
   same_slot_order |-> ExportedOrder(doc)]

EnvelopeError(doc) ==
  LET read == FirstError(NumberErrors(doc, EnvelopeFields))
  IN  IF read # NoError THEN read
      ELSE IF ~EnvelopeValid(ExportedEnvelope(doc), NumberAt(doc, "expire_slots"))
        THEN "Config"
      ELSE NoError

(* Later checks are made only when the earlier ones passed. *)
ParseError(doc) ==
  IF VersionError(doc) # NoError THEN VersionError(doc)
  ELSE IF ModeError(doc) # NoError THEN ModeError(doc)
  ELSE IF ParamsError(doc) # NoError THEN ParamsError(doc)
  ELSE IF OrderError(doc) # NoError THEN OrderError(doc)
  ELSE EnvelopeError(doc)

ParseStrategyExport(doc) ==
  IF ParseError(doc) # NoError THEN Err(ParseError(doc))
  ELSE Ok([params |-> Record(doc, ParamFields),
           quote_update_envelope |-> ExportedEnvelope(doc)])

(* compile_reference_quote_export: read, check the budget and the decimals *)
(* of the pool, and validate everything once more.                         *)
CompileExport(doc, budget, baseMint, quoteMint) ==
  LET parsed == ParseStrategyExport(doc)
      strategy == parsed.value
  IN  IF parsed.error # NoError THEN parsed
      ELSE IF ~ConfigCompiles(strategy.params, strategy.quote_update_envelope,
                              budget, baseMint, quoteMint) THEN Err("Config")
      ELSE parsed

-----------------------------------------------------------------------------
(* export_best_config; the process ends with it. *)
ExportBest ==
  /\ calibrationResult = "Ranked"
  /\ exported' = Best
  /\ document' = ExportConfig(Best)
  /\ calibrated' = <<>>
  /\ calibrationResult' = "Exported"
  /\ UNCHANGED imported

(* On its way the document may lose a line. *)
LoseLine ==
  /\ document # <<>> /\ imported = <<>>
  /\ document = ExportConfig(exported)
  /\ \E i \in DOMAIN document : document' = RemoveAt(document, i)
  /\ UNCHANGED <<exported, imported, calibrationVars>>

ImportDocument ==
  /\ exported # <<>> /\ imported = <<>>
  /\ \E metas \in SwapMetaBudgets, decimals \in MintDecimals :
       LET budget == [required_swap_account_metas |-> RequiredSwapMetas,
                      max_swap_account_metas |-> metas]
           mint   == [decimals |-> decimals]
       IN  imported' = << CompileExport(document, budget, mint, mint),
                          budget, mint >>
  /\ UNCHANGED <<exported, document, calibrationVars>>

-----------------------------------------------------------------------------
(* Properties. *)

(* The pool is compiled with the strategy that was calibrated or not at    *)
(* all: whatever line of the document is lost on the way, the reader never *)
(* finds another field in its place.  A document that arrives whole is     *)
(* refused exactly if the compiler refuses the strategy itself, the budget *)
(* or the decimals.                                                        *)
ImportReadsExport ==
  imported # <<>> =>
    LET got      == imported[1]
        strategy == exported.strategy
    IN  /\ got.error = NoError => got.value = strategy
        /\ document = ExportConfig(exported) =>
             (got.error = NoError <=>
                ConfigCompiles(strategy.params, strategy.quote_update_envelope,
                               imported[2], imported[3], imported[3]))

=============================================================================
