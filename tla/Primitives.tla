----------------------------- MODULE Primitives -----------------------------
(***************************************************************************)
(* The building blocks that share nothing but the arithmetic: the          *)
(* constant-product baseline, the piecewise book, the long division below  *)
(* mul_div_floor, decimal scaling, and the simulator's walk of fair        *)
(* prices.  A behavior chooses one of them and runs it; the other four     *)
(* stand still.                                                            *)
(***************************************************************************)
EXTENDS Cpmm, PiecewiseBook, WideDivision, Decimal, PathGenerator

VARIABLE unit   \* the machine that runs

Units == {"cpmm", "book", "division", "decimal", "path"}

primitiveVars == <<unit, cpmmVars, bookVars, divisionVars, decimalVars,
                   pathVars>>

(* A machine that does not run is in any one of its initial states. *)
CpmmStill ==
  cpmmResult = NoError /\ reserves = CHOOSE r \in Reserves : TRUE

BookStill ==
  /\ bid = [total |-> SegmentCount, consumed |-> SegmentCount]
  /\ ask = bid
  /\ policy = CHOOSE p \in Policies : TRUE
  /\ bookResult = NoError

DivisionStill ==
  /\ operands = [a |-> 0, b |-> 0, denominator |-> 0]
  /\ at = "entry"
  /\ high = 0 /\ low = 0 /\ remainder = 0 /\ quotient = 0 /\ bit = 0
  /\ outcome = Fixed!Ok(0)

DecimalStill ==
  /\ decimals = [base |-> 0, quote |-> 0]
  /\ price = [human |-> 0, atom |-> NoPrice]
  /\ domain = "human"

PathStill ==
  integerPrice = 1 /\ pathSlot = 0 /\ flow = NoFlow /\ pathResult = NoError

PrimitivesInit ==
  /\ unit \in Units
  /\ IF unit = "cpmm" THEN CpmmInit ELSE CpmmStill
  /\ IF unit = "book" THEN BookInit ELSE BookStill
  /\ IF unit = "division" THEN DivideInit ELSE DivisionStill
  /\ IF unit = "decimal" THEN DecimalInit ELSE DecimalStill
  /\ IF unit = "path" THEN PathInit ELSE PathStill

PrimitivesNext ==
  /\ UNCHANGED unit
  /\ \/ /\ unit = "cpmm"
        /\ CpmmNext
        /\ UNCHANGED <<bookVars, divisionVars, decimalVars, pathVars>>
     \/ /\ unit = "book"
        /\ BookNext
        /\ UNCHANGED <<cpmmVars, divisionVars, decimalVars, pathVars>>
     \/ /\ unit = "division"
        /\ DivideNext
        /\ UNCHANGED <<cpmmVars, bookVars, decimalVars, pathVars>>
     \/ /\ unit = "decimal"
        /\ DecimalNext
        /\ UNCHANGED <<cpmmVars, bookVars, divisionVars, pathVars>>
     \/ /\ unit = "path"
        /\ PathNext
        /\ UNCHANGED <<cpmmVars, bookVars, divisionVars, decimalVars>>

PrimitivesSpec == PrimitivesInit /\ [][PrimitivesNext]_primitiveVars

=============================================================================
