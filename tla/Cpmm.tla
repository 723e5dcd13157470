-------------------------------- MODULE Cpmm --------------------------------
(***************************************************************************)
(* The constant-product baseline: quote_exact_in of                        *)
(* crates/meta_amm_math/src/cpmm.rs and the simulation that runs a flow of *)
(* orders through it (simulate_cpmm of crates/meta_amm_sim/src/lib.rs).    *)
(* An order is quoted and settled in one step; one that cannot be filled   *)
(* is rejected and changes nothing, and an arithmetic error ends the       *)
(* simulation without a report.                                            *)
(***************************************************************************)
EXTENDS Flow

CONSTANTS
  BPS,             \* 10_000 in the code
  FeeBps,          \* the fee of the scenario
  Reserves,        \* initial reserves of the scenarios
  Amounts, FairPrices   \* the orders of the flow

ASSUME CpmmAssumption ==
  /\ BPS \in Nat \ {0}
  /\ FeeBps \in Nat
  /\ Reserves \subseteq [base : U64, quote : U64]
  /\ Amounts \subseteq Nat
  /\ FairPrices \subseteq Nat

VARIABLES
  reserves,   \* CpmmReserves
  cpmmResult      \* NoError while the simulation runs, then the error it returns

cpmmVars == <<reserves, cpmmResult>>

CpmmInit == reserves \in Reserves /\ cpmmResult = NoError

-----------------------------------------------------------------------------
(* quote_exact_in. *)

AmountLessFee(amountIn) == (amountIn * (BPS - FeeBps)) \div BPS

(* Mutation: the output is rounded up. *)
CpmmOut_RoundedUp(inReserve, outReserve, lessFee) ==
  (outReserve * lessFee + inReserve + lessFee - 1) \div (inReserve + lessFee)

CpmmOut(inReserve, outReserve, lessFee) ==
  (outReserve * lessFee) \div (inReserve + lessFee)

OutputInvalid(amountOut, outReserve) == amountOut = 0 \/ amountOut >= outReserve

(* Mutation: the sum is not checked against its field. *)
ReserveOverflows_Unchecked(reserve, amountIn) == FALSE

(* The checked_add of the reserve that receives the input. *)
ReserveOverflows(reserve, amountIn) == reserve + amountIn > MaxU64

NewReserves(r, amountIn, amountOut, baseToQuote) ==
  IF baseToQuote
    THEN [base |-> r.base + amountIn, quote |-> r.quote - amountOut]
    ELSE [base |-> r.base - amountOut, quote |-> r.quote + amountIn]

(* The checks in code order.  The effective price the code also returns    *)
(* always fits: its operands are amounts, its divisor is not zero.         *)
CpmmQuoteError(r, amountIn, baseToQuote) ==
  LET inReserve  == IF baseToQuote THEN r.base ELSE r.quote
      outReserve == IF baseToQuote THEN r.quote ELSE r.base
      lessFee    == AmountLessFee(amountIn)
  IN  IF r.base = 0 \/ r.quote = 0 THEN "EmptyLiquidity"
      ELSE IF amountIn = 0 THEN "InvalidAmount"
      ELSE IF FeeBps >= BPS THEN "InvalidFee"
      ELSE IF lessFee = 0 THEN "InvalidAmount"
      ELSE IF OutputInvalid(CpmmOut(inReserve, outReserve, lessFee), outReserve)
        THEN "InvalidAmount"
      ELSE IF ReserveOverflows(inReserve, amountIn) THEN "Overflow"
      ELSE NoError

CpmmAmountOut(r, amountIn, baseToQuote) ==
  IF baseToQuote THEN CpmmOut(r.base, r.quote, AmountLessFee(amountIn))
                 ELSE CpmmOut(r.quote, r.base, AmountLessFee(amountIn))

-----------------------------------------------------------------------------
(* simulate_cpmm, one order at a time. *)

(* A filled order: both report amounts are computed before the reserves    *)
(* are replaced.                                                           *)
Fill(amountIn, fairPrice, baseToQuote) ==
  LET out  == CpmmAmountOut(reserves, amountIn, baseToQuote)
      fee  == FeeInQuoteAtoms(fairPrice, amountIn, AmountLessFee(amountIn),
                              baseToQuote)
      edge == TakerEdge(fairPrice, amountIn, out, baseToQuote)
  IN
  /\ CpmmQuoteError(reserves, amountIn, baseToQuote) = NoError
  /\ cpmmResult' = IF fee.error # NoError THEN fee.error ELSE edge.error
  /\ reserves' = IF cpmmResult' = NoError
                   THEN NewReserves(reserves, amountIn, out, baseToQuote)
                   ELSE reserves

Reject(amountIn, baseToQuote) ==
  /\ CpmmQuoteError(reserves, amountIn, baseToQuote)
       \in {"InvalidAmount", "EmptyLiquidity"}
  /\ UNCHANGED cpmmVars

Abort(amountIn, baseToQuote) ==
  /\ CpmmQuoteError(reserves, amountIn, baseToQuote)
       \in {"InvalidFee", "Overflow"}
  /\ cpmmResult' = CpmmQuoteError(reserves, amountIn, baseToQuote)
  /\ UNCHANGED reserves

Order(amountIn, fairPrice, baseToQuote) ==
  /\ cpmmResult = NoError
  /\ \/ Fill(amountIn, fairPrice, baseToQuote)
     \/ Reject(amountIn, baseToQuote)
     \/ Abort(amountIn, baseToQuote)

CpmmNext == \E amountIn \in Amounts, fairPrice \in FairPrices,
           baseToQuote \in BOOLEAN : Order(amountIn, fairPrice, baseToQuote)

CpmmSpec == CpmmInit /\ [][CpmmNext]_cpmmVars

-----------------------------------------------------------------------------
(* Properties. *)

CpmmTypeOK ==
  /\ reserves \in [base : U64, quote : U64]
  /\ cpmmResult \in {NoError, "InvalidFee", "Overflow", "DivByZero"}

(* The product of the reserves never falls, whatever the flow, the fee and *)
(* the roundings: no sequence of orders in both directions takes value out *)
(* of the pool.                                                            *)
KNeverFalls ==
  [][reserves'.base * reserves'.quote >= reserves.base * reserves.quote]_cpmmVars

=============================================================================
