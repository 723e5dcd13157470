------------------------------- MODULE Layout -------------------------------
(***************************************************************************)
(* The fixed-width bytes a pool configuration is stored in                 *)
(* (crates/meta_amm_config/src/lib.rs): to_bytes writes them field after   *)
(* field when a pool is initialized, and every swap reads parameters and   *)
(* same-slot order back, by offsets and a field order of their own.        *)
(*                                                                         *)
(* A byte holds ByteValues values, 256 in the code, so that small numbers  *)
(* use more than one byte of their field.  What the program never reads    *)
(* back, keys and names, is one opaque token a byte.                       *)
(***************************************************************************)
EXTENDS Integers, SequencesExt

CONSTANT ByteValues

ASSUME ByteAssumption == ByteValues \in Nat /\ ByteValues > 1

Field(name, width) == [name |-> name, width |-> width]

-----------------------------------------------------------------------------
(* The writer. *)

HeaderFields ==
  << Field("schema_version", 2), Field("mode", 1), Field("paused", 1),
     Field("authority_bump", 1), Field("header_padding", 3) >>

ParamsFields ==
  << Field("aging_start_slots", 8), Field("protected_start_slots", 8),
     Field("expire_slots", 8), Field("max_trade_base_atoms", 8),
     Field("protected_max_trade_base_atoms", 8),
     Field("fee_bps", 2), Field("base_half_spread_bps", 2),
     Field("aging_surcharge_bps_per_slot", 2),
     Field("max_aging_surcharge_bps", 2),
     Field("inventory_skew_bps_per_10k_imbalance", 2),
     Field("max_inventory_skew_bps", 2), Field("hard_inventory_band_bps", 2),
     Field("params_padding", 2) >>

EnvelopeFields ==
  << Field("max_maker_update_period_slots", 8),
     Field("max_landing_latency_slots", 8),
     Field("min_update_success_probability_bps", 2),
     Field("same_slot_order", 1), Field("envelope_padding", 5) >>

BudgetFields == << Field("required_swap_account_metas", 1),
                   Field("max_swap_account_metas", 1) >>

(* DecimalScalePreimage::to_bytes: a domain of 25 bytes, the identities    *)
(* once more, both decimals and the price domain.                          *)
PreimageFields ==
  << Field("decimal_scale_domain", 25),
     Field("base_mint", 32), Field("quote_mint", 32),
     Field("base_token_program", 32), Field("quote_token_program", 32),
     Field("base_decimals", 1), Field("quote_decimals", 1),
     Field("price_domain", 1) >>

WriterFields ==
  << Field("discriminator", 8) >>
  \o HeaderFields \o ParamsFields \o EnvelopeFields \o BudgetFields
  \o << Field("base_mint", 32), Field("quote_mint", 32),
        Field("base_token_program", 32), Field("quote_token_program", 32) >>
  \o PreimageFields
  \o << Field("reserved", 64), Field("trailing_padding", 2) >>

(* What a one is worth at each place of a number; u64 is the widest.       *)
Weight[place \in 0 .. 8] ==
  IF place = 0 THEN 1 ELSE ByteValues * Weight[place - 1]

(* put_u8, put_u16 and put_u64: the low byte first. *)
PutNumber(value, width) ==
  [i \in 1 .. width |-> (value \div Weight[i - 1]) % ByteValues]

(* A configuration gives numbers to some of the fields. *)
Put(config, field) ==
  IF field.name \in DOMAIN config THEN PutNumber(config[field.name], field.width)
  ELSE [i \in 1 .. field.width |-> field.name]

ToBytes(config) ==
  FlattenSeq([i \in 1 .. Len(WriterFields) |-> Put(config, WriterFields[i])])

-----------------------------------------------------------------------------
(* The readers, with offsets counted from 0. *)

ParamsOffset == 8 + 8

SameSlotOrderOffset == 8 + 8 + 56 + 8 + 8 + 2

(* read_u16 and read_u64. *)
ReadNumber(bytes, offset, width) ==
  FoldFunction(+, 0, [i \in 1 .. width |-> bytes[offset + i] * Weight[i - 1]])

(* Mutation: the reader takes the band before the skew limit. *)
ReaderOrder_BandFirst ==
  << Field("aging_start_slots", 8), Field("protected_start_slots", 8),
     Field("expire_slots", 8), Field("max_trade_base_atoms", 8),
     Field("protected_max_trade_base_atoms", 8),
     Field("fee_bps", 2), Field("base_half_spread_bps", 2),
     Field("aging_surcharge_bps_per_slot", 2),
     Field("max_aging_surcharge_bps", 2),
     Field("inventory_skew_bps_per_10k_imbalance", 2),
     Field("hard_inventory_band_bps", 2), Field("max_inventory_skew_bps", 2) >>

(* The order reference_quote_params_from_pool_config_bytes reads in; it    *)
(* drops the padding that follows.                                         *)
ReaderOrder ==
  << Field("aging_start_slots", 8), Field("protected_start_slots", 8),
     Field("expire_slots", 8), Field("max_trade_base_atoms", 8),
     Field("protected_max_trade_base_atoms", 8),
     Field("fee_bps", 2), Field("base_half_spread_bps", 2),
     Field("aging_surcharge_bps_per_slot", 2),
     Field("max_aging_surcharge_bps", 2),
     Field("inventory_skew_bps_per_10k_imbalance", 2),
     Field("max_inventory_skew_bps", 2), Field("hard_inventory_band_bps", 2) >>

WidthBefore(fields, n) ==
  FoldFunction(+, 0, [m \in 1 .. n - 1 |-> fields[m].width])

ParamsFromBytes(bytes) ==
  [name \in {ReaderOrder[n].name : n \in DOMAIN ReaderOrder} |->
     LET n == CHOOSE m \in DOMAIN ReaderOrder : ReaderOrder[m].name = name
     IN  ReadNumber(bytes, ParamsOffset + WidthBefore(ReaderOrder, n),
                    ReaderOrder[n].width)]

SameSlotOrderFromBytes(bytes) == ReadNumber(bytes, SameSlotOrderOffset, 1)

=============================================================================
