------------------------------ MODULE MCTools ------------------------------
(***************************************************************************)
(* A small instance of CommandLine.  Basis points, parameters, policies    *)
(* and gates are those of the code; counters are small.                    *)
(*                                                                         *)
(* Path reports: a quiet path, busy paths that lose different shares of    *)
(* their orders and updates, and paths that attempt and send nothing, so   *)
(* that percentiles of one field belong to other paths than those of the   *)
(* next.  Outcomes of a pack: passing, warned about, blocked, and blocked  *)
(* with the best tail of all.  Rows: updates of one slot, updates that     *)
(* land at once, late, before they are published or never, slots that go   *)
(* back, halves of orders, a price of zero, malformed and quoted rows.     *)
(***************************************************************************)
EXTENDS CommandLine

Path(filled, stale, protected, sent, dropped, age, imbalance, maker) ==
  [trades_attempted |-> filled + stale + protected, trades_filled |-> filled,
   rejected_stale |-> stale, rejected_protected |-> protected,
   rejected_inventory |-> 0, rejected_other |-> 0,
   quote_updates_sent |-> sent, quote_updates_landed |-> sent - dropped,
   quote_updates_dropped |-> dropped, max_quote_age_slots |-> age,
   fees_quote_atoms |-> 5, taker_edge_quote_atoms |-> 5 - maker,
   max_abs_inventory_imbalance_bps |-> imbalance]

Quiet     == Path(0, 0, 0, 0, 0, 0, 0, 0)
Calm      == Path(19, 1, 0, 20, 1, 5, 500, 3)
Busy      == Path(70, 18, 12, 100, 28, 33, 2100, 9)
Stale     == Path(5, 4, 1, 10, 1, 41, 900, -2)
Protected == Path(4, 0, 6, 40, 30, 20, 2900, 4)
Few       == Path(2, 0, 0, 2, 1, 3, 100, 1)

SimulatedPaths == {Quiet, Calm, Busy, Stale, Protected, Few}
PathCounts == <<4, 1>>

Outcomes ==
  { <<<<Calm>>, <<Calm, Calm>>, <<Calm>>>>,
    <<<<Calm>>, <<Calm, Busy>>, <<Busy>>>>,
    <<<<Busy>>, <<Protected>>, <<Few>>>>,
    <<<<Few>>, <<Few>>, <<Few, Few>>>> }

FullHeader == Columns
SomeHeaders == {FullHeader, FullHeader \ {"quote_landing_slot"},
                FullHeader \ {"amount_in"}, FullHeader \ {"fair_price"}}

Row0 == [slot |-> 1, fair_price |-> 2, side |-> Empty, amount_in |-> Empty,
         quote_landing_slot |-> Empty, quoted |-> FALSE]

UpdateRows ==
  {[Row0 EXCEPT !.slot = slot, !.quote_landing_slot = landing] :
     slot \in {1, 3, 6}, landing \in {Drop, 2, 3, 6}}

FlowRows ==
  {[Row0 EXCEPT !.slot = 3, !.side = side, !.amount_in = amount] :
     side \in {Empty, "base_to_quote", "quote_to_base"},
     amount \in {Empty, Malformed, 5}}

OddRows ==
  {[Row0 EXCEPT !.fair_price = 0, !.side = "quote_to_base", !.amount_in = 5],
   [Row0 EXCEPT !.slot = Malformed], [Row0 EXCEPT !.quoted = TRUE],
   [Row0 EXCEPT !.side = Malformed, !.amount_in = 5],
   [Row0 EXCEPT !.quote_landing_slot = Malformed],
   [Row0 EXCEPT !.slot = 6, !.quote_landing_slot = 6, !.side = "base_to_quote",
                !.amount_in = 1]}

AllRows == UpdateRows \cup FlowRows \cup OddRows

=============================================================================
