---------------------------- MODULE WideDivision ----------------------------
(***************************************************************************)
(* The arithmetic below mul_div_floor (crates/meta_amm_math/src/fixed.rs): *)
(* a product that does not fit a u128 is formed from 64-bit limbs as two   *)
(* u128 words, and divided bit by bit.  FixedPoint takes the quotient this *)
(* is meant to compute; here it is computed, one turn of the loop a step.  *)
(*                                                                         *)
(* A limb counts Half values (2^64 in the code) and a word Word = Half^2;  *)
(* Bits is the number of bits of a word (128) and Pow2 their powers of     *)
(* two, so that a shift is a product or quotient by one of them.           *)
(***************************************************************************)
EXTENDS Integers

CONSTANTS Half, Bits, Pow2, Operands

Word == Half * Half

ASSUME WideAssumption ==
  /\ Half \in Nat \ {0}
  /\ Bits \in Nat \ {0}
  /\ Pow2 \in [0 .. Bits -> Nat]
  /\ Pow2[0] = 1
  /\ \A i \in 1 .. Bits : Pow2[i] = 2 * Pow2[i - 1]
  /\ Pow2[Bits] = Word
  /\ Operands \subseteq 0 .. Word - 1

(* The quotient the rest of the specifications take. *)
Fixed == INSTANCE FixedPoint WITH MaxU64 <- Half - 1

VARIABLES
  operands,    \* the arguments a, b and denominator
  at,          \* where the call stands: "entry", "wide", "loop" or "done"
  high, low,   \* the two words of the product
  remainder, quotient, bit,   \* the loop; bit counts the bits not yet read
  outcome      \* what the call returns, once it is done

divisionVars ==
  <<operands, at, high, low, remainder, quotient, bit, outcome>>

-----------------------------------------------------------------------------
(* mul_128_to_256. *)

LowLimb(n)  == n % Half
HighLimb(n) == n \div Half

(* overflowing_add: the sum as it wraps, and the carry out of it. *)
Wrapped(sum)  == sum % Word
CarryOut(sum) == IF sum >= Word THEN 1 ELSE 0

CrossSum(a, b) == LowLimb(a) * HighLimb(b) + HighLimb(a) * LowLimb(b)

LowSum(a, b) ==
  LowLimb(a) * LowLimb(b) + LowLimb(Wrapped(CrossSum(a, b))) * Half

ProductLow(a, b) == Wrapped(LowSum(a, b))

(* Mutation: the carry out of the two middle products is lost. *)
ProductHigh_NoMidCarry(a, b) ==
  HighLimb(a) * HighLimb(b) + HighLimb(Wrapped(CrossSum(a, b)))
    + CarryOut(LowSum(a, b))

ProductHigh(a, b) ==
  HighLimb(a) * HighLimb(b) + HighLimb(Wrapped(CrossSum(a, b)))
    + Half * CarryOut(CrossSum(a, b)) + CarryOut(LowSum(a, b))

-----------------------------------------------------------------------------
(* mul_div_floor, and div_256_by_128 which it ends in. *)

DivideInit ==
  /\ operands \in [a : Operands, b : Operands, denominator : Operands]
  /\ at = "entry"
  /\ high = 0 /\ low = 0 /\ remainder = 0 /\ quotient = 0 /\ bit = 0
  /\ outcome = Fixed!Ok(0)

Return(result) ==
  /\ at' = "done"
  /\ outcome' = result
  /\ UNCHANGED <<operands, high, low, remainder, quotient, bit>>

(* A zero denominator, or a product that fits one word. *)
DivideNarrow ==
  /\ at = "entry"
  /\ \/ /\ operands.denominator = 0
        /\ Return(Fixed!Err("DivByZero"))
     \/ /\ operands.denominator # 0
        /\ operands.a * operands.b < Word
        /\ Return(Fixed!Ok((operands.a * operands.b) \div operands.denominator))

(* The product as two words.  checked_add guards the high word. *)
Multiply ==
  /\ at = "entry"
  /\ operands.denominator # 0
  /\ operands.a * operands.b >= Word
  /\ IF ProductHigh(operands.a, operands.b) >= Word
       THEN Return(Fixed!Err("Overflow"))
       ELSE /\ at' = "wide"
            /\ high' = ProductHigh(operands.a, operands.b)
            /\ low'  = ProductLow(operands.a, operands.b)
            /\ UNCHANGED <<operands, remainder, quotient, bit, outcome>>

(* Before the loop: a quotient too wide for a word, or the loop's first    *)
(* state.  The code also looks for a zero denominator and a zero high      *)
(* word, which cannot come from mul_div_floor: it has returned on both.    *)
EnterDivision ==
  /\ at = "wide"
  /\ \/ /\ high >= operands.denominator
        /\ Return(Fixed!Err("Overflow"))
     \/ /\ high < operands.denominator
        /\ at' = "loop"
        /\ remainder' = high
        /\ quotient' = 0
        /\ bit' = Bits
        /\ UNCHANGED <<operands, high, low, outcome>>

(* The remainder shifted left with the next bit of the low word, without   *)
(* the bit that leaves it.                                                 *)
Shifted == ((2 * remainder) % Word) + ((low \div Pow2[bit - 1]) % 2)
Carry   == remainder \div Pow2[Bits - 1]

(* Mutation: the bit that leaves the remainder is lost. *)
Subtracts_NoCarry == Shifted >= operands.denominator

Subtracts == Carry = 1 \/ Shifted >= operands.denominator

(* wrapping_add of the wrapped negation after a carry, a plain difference  *)
(* without one.                                                            *)
Reduced ==
  IF Carry = 1 THEN (Shifted + (Word - operands.denominator)) % Word
               ELSE Shifted - operands.denominator

(* One turn of the loop. *)
DivideBit ==
  /\ at = "loop"
  /\ bit > 0
  /\ bit' = bit - 1
  /\ IF Subtracts
       THEN remainder' = Reduced /\ quotient' = ((2 * quotient) % Word) + 1
       ELSE remainder' = Shifted /\ quotient' = (2 * quotient) % Word
  /\ UNCHANGED <<operands, at, high, low, outcome>>

FinishDivision ==
  /\ at = "loop"
  /\ bit = 0
  /\ Return(Fixed!Ok(quotient))

DivideNext ==
  \/ DivideNarrow
  \/ Multiply
  \/ EnterDivision
  \/ DivideBit
  \/ FinishDivision

DivideSpec == DivideInit /\ [][DivideNext]_divisionVars

-----------------------------------------------------------------------------
(* Properties. *)

(* mul_div_floor returns the floor of a * b / denominator whenever that    *)
(* fits a word, and the errors it promises otherwise: no carry is lost     *)
(* between the limbs or in the loop.                                       *)
DivisionIsFloor ==
  at = "done" =>
    outcome = Fixed!MulDivFloor(operands.a, operands.b, operands.denominator)

(* In the loop, quotient and remainder are those of the bits read so far   *)
(* (div_256_by_128), and no word has wrapped: what has been divided is the *)
(* high word followed by the leading bits of the low one.                  *)
LoopDividesPrefix ==
  at = "loop" =>
    /\ high * Pow2[Bits - bit] + low \div Pow2[bit]
         = quotient * operands.denominator + remainder
    /\ remainder < operands.denominator

=============================================================================
