----------------------------- MODULE ReplayPath ------------------------------
(***************************************************************************)
(* simulate_reference_quote_replay of crates/meta_amm_sim/src/lib.rs: rows *)
(* and quote updates recorded from a market.  Each update has its own mid  *)
(* and its own landing slot, or was dropped, so that updates may land in   *)
(* another order than they were published in.                              *)
(***************************************************************************)
EXTENDS QuoteSimulation, Sequences

CONSTANTS
  RecordedMids,   \* mids and latencies of the recorded updates
  Latencies,
  MaxBatch        \* bound on the updates a row catches up with

ASSUME ReplayPathAssumption ==
  RecordedMids \subseteq Nat /\ Latencies \subseteq Nat /\ MaxBatch \in Nat

(* Nothing has been read; the first row reads from slot 0. *)
ReplayInit ==
  /\ scenario.recorded
  /\ nextUpdateSlot = 0

Update(publishSlot, latency, midPrice) ==
  [publish_slot |-> publishSlot, landing_slot |-> publishSlot + latency,
   mid_price |-> midPrice]

Updates(from, to) ==
  {Update(s, l, m) : s \in from .. to, l \in Latencies, m \in RecordedMids}

(* The recordings validate_quote_updates accepts: publish slots never go   *)
(* back and no update lands before it is published.                        *)
Batches(from, to) ==
  {b \in UNION {[1 .. n -> Updates(from, to)] : n \in 0 .. MaxBatch} :
     \A i \in 2 .. Len(b) : b[i - 1].publish_slot <= b[i].publish_slot}

(* A row reads the updates published up to it that earlier rows have not,  *)
(* those that were dropped among them.                                     *)
ReplayRow(slot, fairPrice, order) ==
  /\ scenario.recorded
  /\ \E published \in Batches(nextUpdateSlot, slot),
        dropped \in 0 .. (IF slot >= nextUpdateSlot THEN 1 ELSE 0) :
       Row(slot, fairPrice, order, published, Len(published) + dropped)
  /\ nextUpdateSlot' = slot + 1

=============================================================================
