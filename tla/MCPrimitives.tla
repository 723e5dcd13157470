---------------------------- MODULE MCPrimitives ----------------------------
(***************************************************************************)
(* A small instance of Primitives on a machine whose amounts are 0..15 and *)
(* whose raw prices are 0..255.                                            *)
(*                                                                         *)
(* Baseline: reserves run from empty to the top of their word, and fair    *)
(* prices from zero to one the word cannot carry.  Book: three slices over *)
(* quantities that do not divide by three, asks from one to three quote    *)
(* atoms per base atom, bids from a quarter to one, so that small fills    *)
(* cost nothing, refills reach the top of the word and walks cross every   *)
(* slice.  Division: limbs of two bits, words of four, every operand.      *)
(* Decimals: powers of two, so that a few decimals reach the top of the    *)
(* word, and every price.  Paths: a fair price that drifts down to its     *)
(* floor or starts close to the top of its word.                           *)
(***************************************************************************)
EXTENDS Primitives

SmallReserves == {[base |-> 10, quote |-> 12], [base |-> 0, quote |-> 5],
                  [base |-> 15, quote |-> 2]}

Bids == <<4, 8, 12, 16>>
Asks == <<16, 24, 32, 48>>

Fresh == {[total |-> 7, consumed |-> 0], [total |-> 4, consumed |-> 1]}

PowersOfTwo == [i \in 0 .. 4 |-> 2 ^ i]
Words == 0 .. 15

RawPrices == 0 .. 255

DownDrift == -1

=============================================================================
