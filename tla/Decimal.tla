------------------------------ MODULE Decimal ------------------------------
(***************************************************************************)
(* Decimal scaling (crates/meta_amm_math/src/decimal.rs): a price between  *)
(* whole tokens, as people quote it, and a price between atoms, as the     *)
(* engine uses it, differ by a power of ten.  The machine carries a price  *)
(* from one domain to the other and back for as long as it likes, each     *)
(* conversion on the price the last one gave.                              *)
(***************************************************************************)
EXTENDS FixedPoint

CONSTANTS
  Ten,            \* the base of a decimal, 10
  MaxDecimals,    \* DecimalScale::MAX_DECIMALS, 12 in the code
  Decimals,       \* decimals of the mints
  Prices          \* prices the journeys start from

ASSUME DecimalAssumption ==
  /\ Ten \in Nat \ {0, 1}
  /\ MaxDecimals \in Nat
  /\ Decimals \subseteq Nat
  /\ Prices \subseteq 0 .. MaxU128

Domains == {"human", "atom"}

NoPrice == -1

VARIABLES
  decimals,   \* of the base and quote mint
  price,      \* the last price in each domain
  domain      \* where the journey is, or the error that ended it

decimalVars == <<decimals, price, domain>>

-----------------------------------------------------------------------------
(* DecimalScale::new: the decimals are checked, then their difference is   *)
(* raised to a price, which must fit one.                                  *)

QuoteGeBase == decimals.quote >= decimals.base

(* pow10.  Its own overflow is the one of the price its result becomes.    *)
Pow10[exponent \in 0 .. MaxDecimals] ==
  IF exponent = 0 THEN 1 ELSE Ten * Pow10[exponent - 1]

Factor ==
  IF decimals.base > MaxDecimals \/ decimals.quote > MaxDecimals
    THEN Err("DecimalsOutOfRange")
  ELSE MulDivFloor(Pow10[AbsInt(decimals.quote - decimals.base)], Q64, 1)

CheckedMul(a, b) == MulDivFloor(a, b, Q64)
CheckedDiv(a, b) == MulDivFloor(a, Q64, b)

HumanToAtom(p) ==
  IF QuoteGeBase THEN CheckedMul(p, Factor.value) ELSE CheckedDiv(p, Factor.value)

(* Mutation: the way back is the way there. *)
AtomToHuman_SameWay(p) ==
  IF QuoteGeBase THEN CheckedMul(p, Factor.value) ELSE CheckedDiv(p, Factor.value)

AtomToHuman(p) ==
  IF QuoteGeBase THEN CheckedDiv(p, Factor.value) ELSE CheckedMul(p, Factor.value)

-----------------------------------------------------------------------------
(* Journeys. *)

DecimalInit ==
  /\ decimals \in [base : Decimals, quote : Decimals]
  /\ \E start \in Prices : price = [human |-> start, atom |-> NoPrice]
  /\ domain = IF Factor.error = NoError THEN "human" ELSE Factor.error

Arrive(to, converted) ==
  /\ UNCHANGED decimals
  /\ IF converted.error = NoError
       THEN domain' = to /\ price' = [price EXCEPT ![to] = converted.value]
       ELSE domain' = converted.error /\ UNCHANGED price

ToAtoms == domain = "human" /\ Arrive("atom", HumanToAtom(price.human))
ToHuman == domain = "atom" /\ Arrive("human", AtomToHuman(price.atom))

DecimalNext == ToAtoms \/ ToHuman

DecimalSpec == DecimalInit /\ [][DecimalNext]_decimalVars

-----------------------------------------------------------------------------
(* Properties. *)

(* What a whole base token is worth, in the finest unit of both prices.    *)
HumanWorth(p) == p * Pow10[decimals.quote]
AtomWorth(p)  == p * Pow10[decimals.base]

(* Both prices say the same of a whole base token: after any number of     *)
(* conversions they differ by less than one step of the coarser domain,    *)
(* and never in favour of the price that was converted last.               *)
PricesAgree ==
  domain \in Domains /\ price.atom # NoPrice =>
    IF domain = "atom"
      THEN /\ AtomWorth(price.atom) <= HumanWorth(price.human)
           /\ HumanWorth(price.human) < AtomWorth(price.atom + 1)
      ELSE /\ HumanWorth(price.human) <= AtomWorth(price.atom)
           /\ AtomWorth(price.atom) < HumanWorth(price.human + 1)

(* A price that comes back to a domain has lost what the first trip        *)
(* floored off and nothing since: it never rises, and in the coarser       *)
(* domain, where every price survives the trip, it is the one that left.   *)
TripsDoNotDrift ==
  [][\A d \in Domains :
       domain' = d /\ price[d] # NoPrice =>
         /\ price'[d] <= price[d]
         /\ (d = "human" <=> QuoteGeBase) \/ decimals.base = decimals.quote
              => price'[d] = price[d]]_decimalVars

=============================================================================
