-------------------------------- MODULE Flow --------------------------------
(***************************************************************************)
(* What the simulator (crates/meta_amm_sim/src/lib.rs) computes about one  *)
(* order of the flow at the fair price of its slot.  A report adds these   *)
(* amounts up, saturating; what the models keep of them is the error with  *)
(* which they end a simulation.                                            *)
(***************************************************************************)
EXTENDS FixedPoint

(* fee_in_quote_atoms. *)
FeeInQuoteAtoms(fairPrice, amountIn, amountInLessFee, baseToQuote) ==
  LET fee == SaturatingSub(amountIn, amountInLessFee)
  IN  IF baseToQuote THEN MulAmountFloor(fairPrice, fee) ELSE Ok(fee)

(* taker_edge_quote_atoms: what the taker gained against the fair price.   *)
FairOut(fairPrice, amountIn, baseToQuote) ==
  IF baseToQuote THEN MulAmountFloor(fairPrice, amountIn)
                 ELSE DivAmountFloor(fairPrice, amountIn)

TakerEdge(fairPrice, amountIn, amountOut, baseToQuote) ==
  LET fair  == FairOut(fairPrice, amountIn, baseToQuote)
      edge  == amountOut - fair.value
      worth == MulAmountFloor(fairPrice, AbsInt(edge))
  IN  IF fair.error # NoError THEN fair
      ELSE IF baseToQuote THEN Ok(edge)
      ELSE IF worth.error # NoError THEN worth
      ELSE Ok(IF edge >= 0 THEN worth.value ELSE -worth.value)

=============================================================================
