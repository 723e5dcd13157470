----------------------------- MODULE FixedPoint -----------------------------
(***************************************************************************)
(* The checked Q64.64 arithmetic of crates/meta_amm_math/src/fixed.rs.     *)
(* A fallible function of the code returns Result<T, MathError>; here it   *)
(* returns a record whose error field is NoError or the MathError variant. *)
(*                                                                         *)
(* The width of an amount is a parameter: an amount is 0..MaxU64, Q64 is   *)
(* MaxU64 + 1 and a raw price is 0..MaxU128 with MaxU128 = Q64^2 - 1, the  *)
(* relation between u64, 1u128 << 64 and u128.  The program has            *)
(* MaxU64 = 2^64 - 1; model checking takes a narrower machine on which     *)
(* overflows are met with small numbers.                                   *)
(***************************************************************************)
EXTENDS Integers

CONSTANT MaxU64

ASSUME MaxU64Assumption == MaxU64 \in Nat \ {0}

Q64     == MaxU64 + 1
MaxU128 == Q64 * Q64 - 1

U64 == 0 .. MaxU64

NoError == "NoError"

Ok(v)  == [error |-> NoError, value |-> v]
Err(e) == [error |-> e, value |-> 0]

(***************************************************************************)
(* mul_div_floor: the product is formed exactly (through 256 bits when it  *)
(* does not fit 128) and only a quotient wider than u128 is an error.      *)
(***************************************************************************)
MulDivFloor(a, b, denominator) ==
  IF denominator = 0 THEN Err("DivByZero")
  ELSE LET quotient == (a * b) \div denominator
       IN  IF quotient > MaxU128 THEN Err("Overflow") ELSE Ok(quotient)

(* The u64::try_from that ends both amount conversions. *)
ToU64(result) ==
  IF result.error = NoError /\ result.value > MaxU64
    THEN Err("Overflow") ELSE result

(* Base atoms to quote atoms at a raw price, and back. *)
MulAmountFloor(price, amount) == ToU64(MulDivFloor(amount, price, Q64))
DivAmountFloor(price, amount) == ToU64(MulDivFloor(amount, Q64, price))

-----------------------------------------------------------------------------
(* Machine arithmetic shared by the callers. *)

SaturatingSub(a, b) == IF a >= b THEN a - b ELSE 0

Least(a, b) == IF a <= b THEN a ELSE b

Greatest(a, b) == IF a >= b THEN a ELSE b

AbsInt(n) == IF n < 0 THEN -n ELSE n

Clamp(n, low, high) == IF n < low THEN low ELSE IF n > high THEN high ELSE n

(* Signed division truncates toward zero; the divisor is positive. *)
TruncDiv(n, d) == IF n >= 0 THEN n \div d ELSE -((-n) \div d)

=============================================================================
