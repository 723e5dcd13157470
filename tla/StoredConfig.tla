---------------------------- MODULE StoredConfig ----------------------------
(***************************************************************************)
(* The bytes behind the pool account of MetaAmm.  MetaAmm keeps parameters *)
(* and same-slot order as values; the program keeps what from_compiled and *)
(* to_bytes make of them, and decodes them again in every swap.            *)
(***************************************************************************)
EXTENDS MetaAmm, Layout

(* A parameter is a word as wide as the field that stores it: the fields   *)
(* of ReferenceQuoteParams are u64 and u16.                                *)
ASSUME WordsAssumption ==
  \A args \in PoolArgs : \A n \in DOMAIN ReaderOrder :
    args.params[ReaderOrder[n].name] < Weight[ReaderOrder[n].width]

(* Two structures as one. *)
Beside(f, g) ==
  [name \in DOMAIN f \cup DOMAIN g |-> IF name \in DOMAIN f THEN f[name] ELSE g[name]]

(* The fields from_compiled fills with numbers of the configuration.       *)
Compiled(args) ==
  Beside(Beside(Beside(args.params, args.envelope), args.budget),
         [schema_version |-> 1, mode |-> 1, paused |-> 0,
          base_decimals |-> args.base_mint.decimals,
          quote_decimals |-> args.quote_mint.decimals])

(* A pool trades by the configuration it was given: the parameters and the *)
(* same-slot order that swaps decode from the stored bytes are those that  *)
(* passed validation, although writer and readers find the fields by       *)
(* separate rules.                                                         *)
SwapsReadConfiguration ==
  [][\A args \in PoolArgs :
       InitializeReferenceQuotePool(args) =>
         LET layout == ToBytes(Compiled(args))
         IN  /\ ParamsFromBytes(layout) = poolConfig'.params
             /\ SameSlotOrderFromBytes(layout) = poolConfig'.same_slot_order]_vars

=============================================================================
