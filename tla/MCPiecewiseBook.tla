--------------------------- MODULE MCPiecewiseBook ---------------------------
(***************************************************************************)
(* A small instance of PiecewiseBook: three slices over quantities that do *)
(* not divide by three, asks from one to three quote atoms per base atom,  *)
(* bids from a quarter to one, so that small fills cost nothing, refills   *)
(* reach the top of the word and walks cross every slice.                  *)
(***************************************************************************)
EXTENDS PiecewiseBook

Bids == <<4, 8, 12, 16>>
Asks == <<16, 24, 32, 48>>

Fresh == {[total |-> 7, consumed |-> 0], [total |-> 4, consumed |-> 1]}

=============================================================================
