-------------------------- MODULE PrimitivesProofs --------------------------
(***************************************************************************)
(* The building blocks but for the book, each for every value of its       *)
(* constants: the constant product never falls, generated orders can be    *)
(* read back, prices carried between decimal domains do not drift, and     *)
(* mul_div_floor computes the floor it promises.                           *)
(***************************************************************************)
EXTENDS Cpmm, WideDivision, Decimal, PathGenerator, ArithmeticProofs

-----------------------------------------------------------------------------
(* The constant-product baseline.                                          *)

(* What is left of an input after the fee.                                 *)
LEMMA LessFeeBounds ==
  ASSUME NEW amountIn \in Nat, FeeBps < BPS
  PROVE  AmountLessFee(amountIn) \in 0 .. amountIn
<1>. DEFINE kept == BPS - FeeBps
            less == (amountIn * kept) \div BPS
<1>1. BPS \in Nat \ {0} /\ kept \in Nat /\ kept <= BPS
  BY CpmmAssumption
<1>2. amountIn * kept \in Nat /\ kept * amountIn <= BPS * amountIn
  BY <1>1, ProductNat, ProductMonotone
<1>3. less \in Nat /\ BPS * less <= amountIn * kept
  BY <1>1, <1>2, DivBounds
<1>4. ASSUME less > amountIn PROVE FALSE
  <2>1. (amountIn + 1) * BPS <= less * BPS
    BY <1>1, <1>3, <1>4, ProductMonotone
  <2>. QED
    BY <1>1, <1>2, <1>3, <2>1
<1>. QED
  BY <1>3, <1>4 DEF AmountLessFee

(* The heart of it: rounding the output down keeps the product even when   *)
(* only the input less its fee is counted.                                 *)
LEMMA ProductKept ==
  ASSUME NEW inReserve \in Nat, NEW outReserve \in Nat,
         NEW lessFee \in Nat, NEW amountIn \in Nat,
         lessFee <= amountIn, inReserve + lessFee > 0,
         CpmmOut(inReserve, outReserve, lessFee) < outReserve
  PROVE  (inReserve + amountIn)
           * (outReserve - CpmmOut(inReserve, outReserve, lessFee))
             >= inReserve * outReserve
<1>. DEFINE d   == inReserve + lessFee
            out == (outReserve * lessFee) \div d
            rest == outReserve - out
<1>1. outReserve * lessFee \in Nat /\ d \in Nat \ {0}
  BY ProductNat
<1>2. out \in Nat /\ d * out <= outReserve * lessFee
  BY <1>1, DivBounds
<1>3. rest \in Nat
  BY <1>2 DEF CpmmOut
<1>4. d * rest = d * outReserve - d * out
  BY <1>1, <1>2, <1>3
<1>5. d * outReserve = inReserve * outReserve + outReserve * lessFee
  BY <1>1
<1>6. d * rest >= inReserve * outReserve
  <2>. DEFINE a == d * rest
              b == d * outReserve
              c == d * out
              e == inReserve * outReserve
              g == outReserve * lessFee
  <2>1. a \in Int /\ b \in Int /\ c \in Int /\ e \in Int /\ g \in Int
    BY <1>1, <1>2, <1>3
  <2>2. a = b - c /\ b = e + g /\ c <= g
    BY <1>2, <1>4, <1>5
  <2>. HIDE DEF a, b, c, e, g
  <2>3. a >= e
    BY <2>1, <2>2
  <2>. QED
    BY <2>3 DEF a, e
<1>7. d * rest <= (inReserve + amountIn) * rest
  BY <1>1, <1>3, ProductMonotone
<1>8. d * rest \in Int /\ inReserve * outReserve \in Int
      /\ (inReserve + amountIn) * rest \in Int
  BY <1>1, <1>3
<1>. QED
  BY <1>6, <1>7, <1>8 DEF CpmmOut

-----------------------------------------------------------------------------

(* A filled order leaves reserves that fit and a product no smaller.       *)
LEMMA FillMoves ==
  ASSUME CpmmTypeOK, NEW amountIn \in Nat, NEW baseToQuote \in BOOLEAN,
         CpmmQuoteError(reserves, amountIn, baseToQuote) = NoError
  PROVE  LET new == NewReserves(reserves, amountIn,
                                CpmmAmountOut(reserves, amountIn, baseToQuote),
                                baseToQuote)
         IN  /\ new \in [base : U64, quote : U64]
             /\ new.base * new.quote >= reserves.base * reserves.quote
<1>. DEFINE inR  == IF baseToQuote THEN reserves.base ELSE reserves.quote
            outR == IF baseToQuote THEN reserves.quote ELSE reserves.base
            less == AmountLessFee(amountIn)
            out  == CpmmOut(inR, outR, less)
            new  == NewReserves(reserves, amountIn,
                                CpmmAmountOut(reserves, amountIn, baseToQuote),
                                baseToQuote)
<1>1. /\ inR # 0 /\ outR # 0 /\ FeeBps < BPS
      /\ out # 0 /\ ~(out >= outR)
      /\ ~(inR + amountIn > MaxU64)
  BY CpmmAssumption
     DEF CpmmQuoteError, OutputInvalid, ReserveOverflows, NoError
<1>2. inR \in U64 /\ outR \in U64 /\ reserves \in [base : U64, quote : U64]
  BY DEF CpmmTypeOK
<1>3. less \in 0 .. amountIn
  BY <1>1, LessFeeBounds
<1>4. out \in Nat
  <2>1. outR * less \in Nat /\ inR + less \in Nat \ {0}
    BY <1>1, <1>2, <1>3, ProductNat DEF U64
  <2>. QED
    BY <2>1, DivBounds DEF CpmmOut
<1>5. (inR + amountIn) * (outR - out) >= inR * outR
  BY <1>1, <1>2, <1>3, <1>4, ProductKept DEF U64
<1>6. out = CpmmAmountOut(reserves, amountIn, baseToQuote)
  BY DEF CpmmAmountOut
<1>7. CASE baseToQuote
  <2>1. new = [base |-> inR + amountIn, quote |-> outR - out]
    BY <1>6, <1>7 DEF NewReserves
  <2>2. inR + amountIn \in U64 /\ outR - out \in U64
    BY <1>1, <1>2, <1>4, MaxU64Assumption DEF U64
  <2>3. reserves.base = inR /\ reserves.quote = outR
    BY <1>7
  <2>4. new.base = inR + amountIn /\ new.quote = outR - out
    BY <2>1
  <2>. HIDE DEF new, inR, outR, out
  <2>. QED
    BY <1>5, <2>1, <2>2, <2>3, <2>4 DEF new
<1>8. CASE ~baseToQuote
  <2>1. new = [base |-> outR - out, quote |-> inR + amountIn]
    BY <1>6, <1>8 DEF NewReserves
  <2>2. inR + amountIn \in U64 /\ outR - out \in U64
    BY <1>1, <1>2, <1>4, MaxU64Assumption DEF U64
  <2>3. /\ (inR + amountIn) * (outR - out) = (outR - out) * (inR + amountIn)
        /\ inR * outR = outR * inR
    BY <1>2, <1>4 DEF U64
  <2>. QED
    BY <1>5, <1>8, <2>1, <2>2, <2>3
<1>. QED
  BY <1>7, <1>8

(* A step of the flow: both reserves fit and the product has not fallen.   *)
LEMMA OrderMoves ==
  ASSUME CpmmTypeOK, NEW amountIn \in Amounts, NEW fairPrice \in FairPrices,
         NEW baseToQuote \in BOOLEAN, Order(amountIn, fairPrice, baseToQuote)
  PROVE  /\ CpmmTypeOK'
         /\ reserves'.base * reserves'.quote >= reserves.base * reserves.quote
<1>1. amountIn \in Nat /\ fairPrice \in Nat
  BY CpmmAssumption
<1>2. reserves.base * reserves.quote \in Int
  BY DEF CpmmTypeOK, U64
<1>3. CASE Fill(amountIn, fairPrice, baseToQuote)
  <2>1. cpmmResult' \in {NoError, "Overflow", "DivByZero"}
    BY <1>1, <1>3, ReportErrors DEF Fill
  <2>2. CASE cpmmResult' = NoError
    BY <1>1, <1>3, <2>1, <2>2, FillMoves DEF Fill, CpmmTypeOK, CpmmAmountOut
  <2>3. CASE cpmmResult' # NoError
    BY <1>2, <1>3, <2>1, <2>3 DEF Fill, CpmmTypeOK
  <2>. QED
    BY <2>2, <2>3
<1>4. CASE Reject(amountIn, baseToQuote)
  BY <1>2, <1>4 DEF Reject, cpmmVars, CpmmTypeOK
<1>5. CASE Abort(amountIn, baseToQuote)
  BY <1>2, <1>5 DEF Abort, CpmmTypeOK
<1>. QED
  BY <1>3, <1>4, <1>5 DEF Order

(* Both reserves fit their words in every reachable state: the checked     *)
(* addition of cpmm.rs is enough.                                          *)
THEOREM CpmmTypeCorrect == CpmmSpec => []CpmmTypeOK
<1>1. CpmmInit => CpmmTypeOK
  BY CpmmAssumption DEF CpmmInit, CpmmTypeOK
<1>2. CpmmTypeOK /\ [CpmmNext]_cpmmVars => CpmmTypeOK'
  BY OrderMoves DEF CpmmNext, cpmmVars, CpmmTypeOK
<1>. QED
  BY <1>1, <1>2, PTL DEF CpmmSpec

(* The product of the reserves never falls: quote_exact_in rounds every    *)
(* output against the taker, whatever the fee.                             *)
THEOREM ProductNeverFalls == CpmmSpec => KNeverFalls
<1>1. CpmmTypeOK /\ [CpmmNext]_cpmmVars
        => [reserves'.base * reserves'.quote
              >= reserves.base * reserves.quote]_cpmmVars
  BY OrderMoves DEF CpmmNext
<1>. QED
  BY <1>1, CpmmTypeCorrect, PTL DEF CpmmSpec, KNeverFalls

-----------------------------------------------------------------------------
(* The orders of generated paths.  The invariant adds to the property that  *)
(* the price is never zero, which is what the division in it needs, and    *)
(* that amounts fit their word.                                            *)

(* At an integer price a conversion multiplies by that integer, and its    *)
(* inverse divides by it.                                                  *)
LEMMA IntegerPrice ==
  ASSUME NEW p \in Nat \ {0}, NEW size \in Nat
  PROVE  /\ MulAmountFloor(FromInt(p), size).error = NoError
              => MulAmountFloor(FromInt(p), size).value = size * p
                   /\ size * p <= MaxU64
         /\ size * p <= MaxU64 => DivAmountFloor(FromInt(p), size * p) = Ok(size)
<1>1. Q64 \in Nat \ {0} /\ Q64 = MaxU64 + 1 /\ MaxU64 \in Nat
  BY Q64Positive, MaxU64Assumption DEF Q64
<1>2. size * p \in Nat /\ p * Q64 \in Nat /\ MaxU64 <= MaxU128
  <2>1. 1 * Q64 <= Q64 * Q64 /\ Q64 * Q64 \in Nat
    BY <1>1, ProductMonotone, ProductNat
  <2>. QED
    BY <1>1, <2>1, ProductNat DEF MaxU128
<1>3. (size * (p * Q64)) \div Q64 = size * p
  <2>1. size * (p * Q64) = (size * p) * Q64
    BY <1>1
  <2>. QED
    BY <1>1, <1>2, <2>1, ExactQuotient
<1>4. ((size * p) * Q64) \div (p * Q64) = size
  <2>1. (size * p) * Q64 = size * (p * Q64)
    BY <1>1
  <2>2. p * Q64 \in Nat \ {0}
    <3>1. 1 * Q64 <= p * Q64
      BY <1>1, ProductMonotone
    <3>. QED
      BY <1>1, <1>2, <3>1
  <2>. QED
    BY <2>1, <2>2, ExactQuotient
<1>5. p * Q64 # 0
  <2>1. 1 * Q64 <= p * Q64
    BY <1>1, ProductMonotone
  <2>. QED
    BY <1>1, <1>2, <2>1
<1>6. ASSUME MulAmountFloor(FromInt(p), size).error = NoError
      PROVE  MulAmountFloor(FromInt(p), size).value = size * p /\ size * p <= MaxU64
  <2>1. MulDivFloor(size, p * Q64, Q64)
          = IF size * p > MaxU128 THEN Err("Overflow") ELSE Ok(size * p)
    BY <1>1, <1>3 DEF MulDivFloor
  <2>. QED
    BY <1>1, <1>2, <1>6, <2>1 DEF MulAmountFloor, ToU64, FromInt, Ok, Err, NoError
<1>7. ASSUME size * p <= MaxU64
      PROVE  DivAmountFloor(FromInt(p), size * p) = Ok(size)
  <2>1. size <= size * p
    <3>1. 1 * size <= p * size /\ p * size = size * p
      BY ProductMonotone
    <3>. QED
      BY <3>1, <1>2
  <2>2. ~(size > MaxU128) /\ ~(size > MaxU64)
    BY <1>1, <1>2, <1>7, <2>1 DEF MaxU128
  <2>3. MulDivFloor(size * p, Q64, p * Q64) = Ok(size)
    BY <1>4, <1>5, <2>2 DEF MulDivFloor
  <2>. QED
    BY <2>2, <2>3 DEF DivAmountFloor, ToU64, FromInt, Ok
<1>. QED
  BY <1>6, <1>7

-----------------------------------------------------------------------------

PathInv ==
  /\ integerPrice \in 1 .. MaxU64
  /\ OrdersAreWorthTheirSize

(* A walk keeps the price in its word and above zero. *)
LEMMA WalkStaysPositive ==
  ASSUME NEW p \in 1 .. MaxU64, NEW randomDelta \in Int
  PROVE  UpdateIntegerPrice(p, randomDelta) \in 1 .. MaxU64
<1> DEFINE multiplier == Greatest(Whole + Drift + randomDelta, 1)
           moved == (p * multiplier) \div Whole
<1>1. multiplier \in Nat
  BY PathGeneratorAssumption DEF Greatest
<1>2. moved \in Nat
  BY <1>1, PathGeneratorAssumption, MaxU64Assumption, ProductNat, DivBounds
<1> HIDE DEF moved
<1>3. Least(Greatest(moved, 1), MaxU64) \in 1 .. MaxU64
  BY <1>2, MaxU64Assumption DEF Least, Greatest
<1>. QED
  BY <1>3 DEF UpdateIntegerPrice, moved

(* An order that is placed can be read back. *)
LEMMA PlacedOrderReadsBack ==
  ASSUME NEW p \in 1 .. MaxU64, NEW size \in Nat, NEW baseToQuote \in BOOLEAN,
         PlaceOrder(p, size, baseToQuote)
  PROVE  flow' # NoFlow => BaseEquivalent(p, flow') = Ok(flow'.size)
<1>1. p \in Nat \ {0}
  BY MaxU64Assumption
<1>2. CASE AmountIn(p, size, baseToQuote).error # NoError
  BY <1>2 DEF PlaceOrder
<1>3. CASE AmountIn(p, size, baseToQuote).error = NoError
  <2>1. /\ flow'.size = size
        /\ flow'.amount_in = AmountIn(p, size, baseToQuote).value
        /\ flow'.base_to_quote = baseToQuote
    BY <1>3 DEF PlaceOrder
  <2>2. CASE baseToQuote
    BY <2>1, <2>2 DEF BaseEquivalent, AmountIn, Ok
  <2>3. CASE ~baseToQuote
    <3>1. AmountIn(p, size, baseToQuote) = MulAmountFloor(FromInt(p), size)
      BY <2>3 DEF AmountIn
    <3>2. flow'.amount_in = size * p /\ size * p <= MaxU64
      BY <1>1, <1>3, <2>1, <3>1, IntegerPrice
    <3>. QED
      BY <1>1, <2>1, <2>3, <3>2, IntegerPrice DEF BaseEquivalent
  <2>. QED
    BY <2>2, <2>3
<1>. QED
  BY <1>2, <1>3

(* Every generated order is worth the size drawn for it. *)
THEOREM GeneratedOrdersReadBack == PathSpec => []OrdersAreWorthTheirSize
<1>1. PathInit => PathInv
  BY PathGeneratorAssumption, MaxU64Assumption
     DEF PathInit, PathInv, OrdersAreWorthTheirSize, Greatest, U64
<1>2. PathInv /\ [PathNext]_pathVars => PathInv'
  <2>1. SUFFICES ASSUME PathInv, [PathNext]_pathVars PROVE PathInv'
    OBVIOUS
  <2>2. CASE UNCHANGED pathVars
    BY <2>1, <2>2 DEF pathVars, PathInv, OrdersAreWorthTheirSize
  <2>3. CASE PathNext
    <3>1. PICK randomDelta \in -Volatility .. Volatility : GenerateSlot(randomDelta)
      BY <2>3 DEF PathNext
    <3>2. integerPrice' \in 1 .. MaxU64
      <4>1. randomDelta \in Int
        BY PathGeneratorAssumption
      <4>. QED
        BY <2>1, <3>1, <4>1, WalkStaysPositive DEF PathInv, GenerateSlot
    <3>3. CASE flow' = NoFlow
      BY <3>2, <3>3 DEF PathInv, OrdersAreWorthTheirSize
    <3>4. CASE flow' # NoFlow
      <4>1. PICK size \in 1 .. Greatest(MaxOrderBaseAtoms, 1), baseToQuote \in BOOLEAN :
              PlaceOrder(integerPrice', size, baseToQuote)
        BY <3>1, <3>4 DEF GenerateSlot
      <4>2. size \in Nat
        BY PathGeneratorAssumption DEF Greatest
      <4>3. BaseEquivalent(integerPrice', flow') = Ok(flow'.size)
        BY <3>2, <3>4, <4>1, <4>2, PlacedOrderReadsBack
      <4>. QED
        BY <3>2, <4>3 DEF PathInv, OrdersAreWorthTheirSize, BaseEquivalent
    <3>. QED
      BY <3>3, <3>4
  <2>. QED
    BY <2>1, <2>2, <2>3
<1>3. PathInv => OrdersAreWorthTheirSize
  BY DEF PathInv
<1>. QED
  BY <1>1, <1>2, <1>3, PTL DEF PathSpec

-----------------------------------------------------------------------------
(* Decimal scaling.                                                        *)

(* The loop of pow10 multiplies once a turn; it never gives zero.          *)
LEMMA Pow10Turns ==
  /\ Pow10 \in [0 .. MaxDecimals -> Nat \ {0}]
  /\ \A n \in 0 .. MaxDecimals :
       Pow10[n] = IF n = 0 THEN 1 ELSE Ten * Pow10[n - 1]
<1>. DEFINE D == Nat \ {0}
            next == [x \in D |-> Ten * x]
            IsPow(g) == g = [n \in 0 .. MaxDecimals |->
                               IF n = 0 THEN 1 ELSE Ten * g[n - 1]]
<1>1. MaxDecimals \in Nat /\ Ten \in Nat /\ Ten # 0
  BY DecimalAssumption
<1>2. next \in [D -> D] /\ 1 \in D
  <2>1. ASSUME NEW x \in D PROVE Ten * x \in D
    <3>1. 1 * x <= Ten * x /\ Ten * x \in Nat
      BY <1>1, ProductMonotone, ProductNat
    <3>. QED
      BY <3>1
  <2>. QED
    BY <2>1
<1>3. PICK g \in [0 .. MaxDecimals -> D] : Iterates(g, MaxDecimals, 1, next)
  <2>. HIDE DEF D, next
  <2>. QED
    BY <1>1, <1>2, IterationExists
<1>4. IsPow(g)
  <2>1. ASSUME NEW n \in 0 .. MaxDecimals
        PROVE  g[n] = IF n = 0 THEN 1 ELSE Ten * g[n - 1]
    <3>1. n # 0 => n - 1 \in 0 .. MaxDecimals
      BY <1>1
    <3>. QED
      BY <1>3, <3>1 DEF Iterates
  <2>. QED
    BY <2>1
<1>5. IsPow(Pow10)
  BY <1>4 DEF Pow10
<1>. DEFINE p == Pow10
            Good == {n \in Nat : n <= MaxDecimals => p[n] \in D}
<1>6. \A n \in 0 .. MaxDecimals : p[n] = IF n = 0 THEN 1 ELSE Ten * p[n - 1]
  BY <1>5
<1>7. p = [n \in 0 .. MaxDecimals |-> p[n]]
  BY <1>5
<1>. HIDE DEF p
<1>8. 0 \in Good
  BY <1>1, <1>6
<1>9. ASSUME NEW n \in Nat, n \in Good PROVE n + 1 \in Good
  <2>. SUFFICES ASSUME n + 1 <= MaxDecimals PROVE p[n + 1] \in D
    OBVIOUS
  <2>1. p[n + 1] = Ten * p[n] /\ p[n] \in D
    BY <1>1, <1>6, <1>9
  <2>. QED
    BY <1>2, <2>1
<1>10. Nat \subseteq Good
  <2>. HIDE DEF Good
  <2>. QED
    BY <1>8, <1>9, NumbersByInduction
<1>11. p \in [0 .. MaxDecimals -> D]
  <2>1. \A n \in 0 .. MaxDecimals : p[n] \in D
    BY <1>1, <1>10
  <2>. QED
    BY <1>7, <2>1
<1>. QED
  BY <1>6, <1>11 DEF p

(* Powers of ten multiply as their exponents add.                          *)
LEMMA Pow10Adds ==
  ASSUME NEW m \in Nat, NEW n \in Nat, m + n <= MaxDecimals
  PROVE  Pow10[m] * Pow10[n] = Pow10[m + n]
<1>1. MaxDecimals \in Nat /\ Ten \in Nat
  BY DecimalAssumption
<1>. DEFINE Good == {k \in Nat : m + k <= MaxDecimals =>
                                   Pow10[m] * Pow10[k] = Pow10[m + k]}
<1>2. 0 \in Good
  BY <1>1, Pow10Turns
<1>3. ASSUME NEW k \in Nat, k \in Good PROVE k + 1 \in Good
  <2>. SUFFICES ASSUME m + (k + 1) <= MaxDecimals
                PROVE  Pow10[m] * Pow10[k + 1] = Pow10[m + (k + 1)]
    OBVIOUS
  <2>1. /\ k + 1 \in 0 .. MaxDecimals /\ k + 1 # 0 /\ (k + 1) - 1 = k
        /\ m + (k + 1) \in 0 .. MaxDecimals /\ m + (k + 1) # 0
        /\ (m + (k + 1)) - 1 = m + k
        /\ m \in 0 .. MaxDecimals /\ k \in 0 .. MaxDecimals
        /\ m + k <= MaxDecimals
    BY <1>1
  <2>2. Pow10[k + 1] = Ten * Pow10[k] /\ Pow10[m + (k + 1)] = Ten * Pow10[m + k]
    BY <2>1, Pow10Turns
  <2>3. Pow10[m] * Pow10[k] = Pow10[m + k]
    BY <1>3, <2>1
  <2>4. Pow10[m] \in Nat /\ Pow10[k] \in Nat
    BY <2>1, Pow10Turns
  <2>5. Pow10[m] * (Ten * Pow10[k]) = Ten * (Pow10[m] * Pow10[k])
    BY <1>1, <2>4
  <2>. QED
    BY <2>2, <2>3, <2>5
<1>4. Nat \subseteq Good
  <2>. HIDE DEF Good
  <2>. QED
    BY <1>2, <1>3, NumbersByInduction
<1>. QED
  BY <1>4

-----------------------------------------------------------------------------
(* The factor as a number of atoms.                                        *)

DecimalsInRange ==
  /\ decimals \in [base : Nat, quote : Nat]
  /\ decimals.base <= MaxDecimals /\ decimals.quote <= MaxDecimals

ScaleFactor == Pow10[AbsInt(decimals.quote - decimals.base)]

(* The scale is the step between the domains, and the worths of a token    *)
(* differ by it.                                                           *)
LEMMA FactorIsStep ==
  ASSUME DecimalsInRange, Factor.error = NoError
  PROVE  /\ ScaleFactor \in Nat \ {0}
         /\ Factor.value = ScaleFactor * Q64
         /\ Pow10[decimals.base] \in Nat \ {0}
         /\ Pow10[decimals.quote] \in Nat \ {0}
         /\ QuoteGeBase => ScaleFactor * Pow10[decimals.base] = Pow10[decimals.quote]
         /\ ~QuoteGeBase => ScaleFactor * Pow10[decimals.quote] = Pow10[decimals.base]
         /\ decimals.base = decimals.quote => ScaleFactor = 1
<1>. DEFINE b == decimals.base
            q == decimals.quote
            d == AbsInt(q - b)
<1>1. MaxDecimals \in Nat /\ b \in 0 .. MaxDecimals /\ q \in 0 .. MaxDecimals
  BY DecimalAssumption DEF DecimalsInRange
<1>2. /\ d \in 0 .. MaxDecimals
      /\ q >= b => d = q - b
      /\ ~(q >= b) => d = b - q
  BY <1>1 DEF AbsInt
<1>3. /\ Pow10[d] \in Nat \ {0} /\ Pow10[b] \in Nat \ {0}
      /\ Pow10[q] \in Nat \ {0}
      /\ d = 0 => Pow10[d] = 1
  BY <1>1, <1>2, Pow10Turns
<1>4. Factor.value = Pow10[d] * Q64
  <2>1. Pow10[d] * Q64 \in Nat
    BY <1>3, Q64Positive, ProductNat
  <2>2. (Pow10[d] * Q64) \div 1 = Pow10[d] * Q64
    BY <2>1
  <2>3. Factor = MulDivFloor(Pow10[d], Q64, 1)
    BY <1>1 DEF Factor
  <2>. QED
    BY <2>2, <2>3 DEF MulDivFloor, Ok, Err, NoError
<1>5. QuoteGeBase => Pow10[d] * Pow10[b] = Pow10[q]
  <2>. SUFFICES ASSUME QuoteGeBase PROVE Pow10[d] * Pow10[b] = Pow10[q]
    OBVIOUS
  <2>1. d \in Nat /\ b \in Nat /\ d + b = q /\ d + b <= MaxDecimals
    BY <1>1, <1>2 DEF QuoteGeBase
  <2>. QED
    BY <2>1, Pow10Adds
<1>6. ~QuoteGeBase => Pow10[d] * Pow10[q] = Pow10[b]
  <2>. SUFFICES ASSUME ~QuoteGeBase PROVE Pow10[d] * Pow10[q] = Pow10[b]
    OBVIOUS
  <2>1. d \in Nat /\ q \in Nat /\ d + q = b /\ d + q <= MaxDecimals
    BY <1>1, <1>2 DEF QuoteGeBase
  <2>. QED
    BY <2>1, Pow10Adds
<1>7. b = q => d = 0
  BY <1>1 DEF AbsInt
<1>. QED
  BY <1>3, <1>4, <1>5, <1>6, <1>7 DEF ScaleFactor

(* Multiplying by the scale multiplies by the step, and dividing floors    *)
(* the quotient by the step.                                               *)
LEMMA ScaleConverts ==
  ASSUME DecimalsInRange, Factor.error = NoError, NEW p \in Nat
  PROVE  /\ CheckedMul(p, Factor.value).error = NoError
              => CheckedMul(p, Factor.value).value = p * ScaleFactor
         /\ CheckedDiv(p, Factor.value).error = NoError
              => CheckedDiv(p, Factor.value).value = p \div ScaleFactor
<1>1. ScaleFactor \in Nat \ {0} /\ Factor.value = ScaleFactor * Q64 /\ Q64 \in Nat \ {0}
  BY FactorIsStep, Q64Positive
<1>2. (p * (ScaleFactor * Q64)) \div Q64 = p * ScaleFactor
  <2>1. p * (ScaleFactor * Q64) = (p * ScaleFactor) * Q64 /\ p * ScaleFactor \in Nat
    BY <1>1, ProductNat
  <2>. QED
    BY <1>1, <2>1, ExactQuotient
<1>3. (p * Q64) \div (ScaleFactor * Q64) = p \div ScaleFactor
  BY <1>1, CommonFactorCancels
<1>4. ASSUME NEW a, NEW c, NEW d, MulDivFloor(a, c, d).error = NoError
      PROVE  MulDivFloor(a, c, d).value = (a * c) \div d
  BY <1>4 DEF MulDivFloor, Ok, Err, NoError
<1>. QED
  BY <1>1, <1>2, <1>3, <1>4 DEF CheckedMul, CheckedDiv

-----------------------------------------------------------------------------
(* The inductive invariant: once both prices are known, the finer one is   *)
(* the scale times the coarser one, or was floored to it by the last       *)
(* conversion.                                                             *)
DecimalInv ==
  domain \in Domains =>
    /\ DecimalsInRange
    /\ Factor.error = NoError
    /\ price \in [human : Nat, atom : Nat \cup {NoPrice}]
    /\ domain = "atom" => price.atom # NoPrice
    /\ price.atom # NoPrice =>
         IF QuoteGeBase THEN price.atom = price.human * ScaleFactor
         ELSE IF domain = "atom" THEN price.atom = price.human \div ScaleFactor
         ELSE price.human = price.atom * ScaleFactor

(* A price that arrives satisfies the invariant.                           *)
LEMMA DecimalStarts == DecimalInit => DecimalInv
<1>. SUFFICES ASSUME DecimalInit, domain \in Domains PROVE DecimalInv
  BY DEF DecimalInv
<1>1. /\ decimals \in [base : Nat, quote : Nat]
      /\ price \in [human : Nat, atom : {NoPrice}]
  <2>1. PICK start \in Prices : price = [human |-> start, atom |-> NoPrice]
    BY DEF DecimalInit
  <2>2. start \in Nat
    BY DecimalAssumption
  <2>3. decimals \in [base : Decimals, quote : Decimals] /\ Decimals \subseteq Nat
    BY DecimalAssumption DEF DecimalInit
  <2>. QED
    BY <2>1, <2>2, <2>3
<1>2. Factor.error = NoError /\ domain = "human"
  <2>1. Factor.error \in {NoError, "DecimalsOutOfRange", "DivByZero", "Overflow"}
    BY DEF Factor, MulDivFloor, Ok, Err
  <2>. QED
    BY <2>1 DEF DecimalInit, Domains, NoError
<1>3. decimals.base <= MaxDecimals /\ decimals.quote <= MaxDecimals
  <2>1. ~(decimals.base > MaxDecimals \/ decimals.quote > MaxDecimals)
    BY <1>2 DEF Factor, Err, NoError
  <2>. QED
    BY <1>1, <2>1, DecimalAssumption
<1>. QED
  BY <1>1, <1>2, <1>3 DEF DecimalInv, DecimalsInRange

(* What one conversion gives, and that the pair of prices stays as the     *)
(* invariant says.                                                         *)
LEMMA ConversionKeeps ==
  ASSUME DecimalInv, DecimalNext, domain' \in Domains
  PROVE  /\ DecimalInv'
         /\ UNCHANGED decimals
         /\ \A d \in Domains : domain' = d /\ price[d] # NoPrice =>
              /\ price'[d] <= price[d]
              /\ (d = "human" <=> QuoteGeBase) \/ decimals.base = decimals.quote
                   => price'[d] = price[d]
<1>1. domain \in Domains /\ UNCHANGED decimals
  BY DEF DecimalNext, ToAtoms, ToHuman, Domains, Arrive
<1>2. /\ DecimalsInRange /\ Factor.error = NoError
      /\ price \in [human : Nat, atom : Nat \cup {NoPrice}]
  BY <1>1 DEF DecimalInv
<1>3. /\ ScaleFactor \in Nat \ {0} /\ (decimals.base = decimals.quote => ScaleFactor = 1)
      /\ decimals.base = decimals.quote => QuoteGeBase
  BY <1>2, FactorIsStep DEF QuoteGeBase, DecimalsInRange
<1>4. /\ ScaleFactor' = ScaleFactor /\ (QuoteGeBase' <=> QuoteGeBase) /\ Factor' = Factor
      /\ DecimalsInRange'
  BY <1>1, <1>2 DEF ScaleFactor, QuoteGeBase, Factor, DecimalsInRange
<1>. DEFINE converted == IF domain = "human" THEN HumanToAtom(price.human)
                         ELSE AtomToHuman(price.atom)
            to == IF domain = "human" THEN "atom" ELSE "human"
<1>5. Arrive(to, converted)
  BY <1>1 DEF DecimalNext, ToAtoms, ToHuman, Domains
<1>6. /\ converted.error = NoError
      /\ domain' = to
      /\ price' = [price EXCEPT ![to] = converted.value]
  <2>1. converted.error \in {NoError, "DivByZero", "Overflow"}
    BY DEF HumanToAtom, AtomToHuman, CheckedMul, CheckedDiv, MulDivFloor, Ok, Err
  <2>2. converted.error = NoError
    BY <1>5, <2>1 DEF Arrive, Domains
  <2>. QED
    BY <1>5, <2>2 DEF Arrive
<1>. DEFINE Pair == /\ price' \in [human : Nat, atom : Nat]
                    /\ IF QuoteGeBase THEN price'.atom = price'.human * ScaleFactor
                       ELSE IF to = "atom" THEN price'.atom = price'.human \div ScaleFactor
                       ELSE price'.human = price'.atom * ScaleFactor
            Trip == price[to] # NoPrice =>
                      /\ price'[to] <= price[to]
                      /\ (to = "human" <=> QuoteGeBase)
                           \/ decimals.base = decimals.quote
                           => price'[to] = price[to]
<1>7. ASSUME domain = "human" PROVE Pair /\ Trip
  <2>1. /\ to = "atom"
        /\ price' = [human |-> price.human, atom |-> converted.value]
        /\ price.human \in Nat
    BY <1>2, <1>6, <1>7
  <2>2. CASE QuoteGeBase
    <3>1. converted.value = price.human * ScaleFactor /\ price.human * ScaleFactor \in Nat
      BY <1>2, <1>3, <1>6, <1>7, <2>2, ScaleConverts, ProductNat DEF HumanToAtom
    <3>2. price.atom # NoPrice => price.atom = price.human * ScaleFactor
      BY <1>1, <2>2 DEF DecimalInv
    <3>. QED
      BY <1>2, <2>1, <2>2, <3>1, <3>2
  <2>3. CASE ~QuoteGeBase
    <3>1. converted.value = price.human \div ScaleFactor /\ price.human \div ScaleFactor \in Nat
      BY <1>2, <1>3, <1>6, <1>7, <2>3, ScaleConverts, DivBounds DEF HumanToAtom
    <3>2. price.atom # NoPrice => price.atom = price.human \div ScaleFactor
      <4>. SUFFICES ASSUME price.atom # NoPrice
                    PROVE  price.atom = price.human \div ScaleFactor
        OBVIOUS
      <4>1. price.human = price.atom * ScaleFactor /\ price.atom \in Nat
        BY <1>1, <1>2, <1>7, <2>3 DEF DecimalInv
      <4>. QED
        BY <1>3, <4>1, ExactQuotient
    <3>. QED
      BY <1>2, <2>1, <2>3, <3>1, <3>2
  <2>. QED
    BY <2>2, <2>3
<1>8. ASSUME domain = "atom" PROVE Pair /\ Trip
  <2>1. /\ to = "human"
        /\ price' = [human |-> converted.value, atom |-> price.atom]
        /\ price.atom \in Nat
        /\ price.atom # NoPrice
    BY <1>1, <1>2, <1>6, <1>8 DEF DecimalInv
  <2>2. CASE QuoteGeBase
    <3>1. converted.value = price.atom \div ScaleFactor
      BY <1>2, <1>6, <1>8, <2>1, <2>2, ScaleConverts DEF AtomToHuman
    <3>2. price.atom = price.human * ScaleFactor /\ price.human \in Nat
      BY <1>1, <1>2, <2>1, <2>2 DEF DecimalInv
    <3>3. converted.value = price.human
      BY <1>3, <3>1, <3>2, ExactQuotient
    <3>. QED
      BY <1>2, <2>1, <2>2, <3>2, <3>3
  <2>3. CASE ~QuoteGeBase
    <3>1. converted.value = price.atom * ScaleFactor /\ price.atom * ScaleFactor \in Nat
      BY <1>2, <1>3, <1>6, <1>8, <2>1, <2>3, ScaleConverts, ProductNat DEF AtomToHuman
    <3>2. price.atom = price.human \div ScaleFactor /\ price.human \in Nat
      BY <1>1, <1>2, <1>8, <2>1, <2>3 DEF DecimalInv
    <3>3. price.atom * ScaleFactor <= price.human
      BY <1>3, <3>2, DivBounds
    <3>. QED
      BY <1>2, <1>3, <2>1, <2>3, <3>1, <3>2, <3>3
  <2>. QED
    BY <2>2, <2>3
<1>9. Pair /\ Trip /\ to \in Domains
  BY <1>1, <1>7, <1>8 DEF Domains
<1>. HIDE DEF converted, to
<1>10. DecimalInv'
  BY <1>2, <1>4, <1>6, <1>9 DEF DecimalInv, Domains, NoPrice
<1>. QED
  BY <1>1, <1>6, <1>9, <1>10

(* Every step keeps it.                                                    *)
LEMMA DecimalInductive == DecimalInv /\ [DecimalNext]_decimalVars => DecimalInv'
<1>1. ASSUME DecimalInv, DecimalNext PROVE DecimalInv'
  <2>1. CASE domain' \in Domains
    BY <1>1, <2>1, ConversionKeeps
  <2>2. CASE domain' \notin Domains
    BY <2>2 DEF DecimalInv
  <2>. QED
    BY <2>1, <2>2
<1>2. ASSUME DecimalInv, UNCHANGED decimalVars PROVE DecimalInv'
  BY <1>2 DEF DecimalInv, decimalVars, DecimalsInRange, Factor, QuoteGeBase, ScaleFactor
<1>. QED
  BY <1>1, <1>2

(* However often a price is carried to the other domain and back, the two  *)
(* prices never disagree on the worth of a whole token by a step of the    *)
(* coarser domain.                                                         *)
THEOREM DomainsAgree == DecimalSpec => []PricesAgree
<1>1. DecimalInv => PricesAgree
  <2>. SUFFICES ASSUME DecimalInv, domain \in Domains, price.atom # NoPrice
                PROVE  PricesAgree
    BY DEF PricesAgree
  <2>. DEFINE b == Pow10[decimals.base]
              q == Pow10[decimals.quote]
              h == price.human
              a == price.atom
  <2>1. /\ ScaleFactor \in Nat \ {0} /\ b \in Nat \ {0} /\ q \in Nat \ {0}
        /\ QuoteGeBase => ScaleFactor * b = q
        /\ ~QuoteGeBase => ScaleFactor * q = b
    BY FactorIsStep DEF DecimalInv
  <2>2. h \in Nat /\ a \in Nat
    BY DEF DecimalInv
  <2>3. CASE h * q = a * b
    <3>1. /\ (a + 1) * b = a * b + b /\ (h + 1) * q = h * q + q
          /\ a * b \in Nat /\ h * q \in Nat
      BY <2>1, <2>2, ProductNat
    <3>2. h * q <= a * b /\ a * b <= h * q /\ h * q < (a + 1) * b /\ a * b < (h + 1) * q
      BY <2>1, <2>3, <3>1
    <3>. QED
      BY <3>2 DEF PricesAgree, HumanWorth, AtomWorth
  <2>4. CASE QuoteGeBase
    <3>1. a = h * ScaleFactor
      BY <2>4 DEF DecimalInv
    <3>2. a * b = h * q
      <4>1. (h * ScaleFactor) * b = h * (ScaleFactor * b)
        BY <2>1, <2>2
      <4>. QED
        BY <2>1, <2>4, <3>1, <4>1
    <3>. QED
      BY <2>3, <3>2
  <2>5. CASE ~QuoteGeBase /\ domain # "atom"
    <3>1. h = a * ScaleFactor
      BY <2>5 DEF DecimalInv
    <3>2. h * q = a * b
      <4>1. (a * ScaleFactor) * q = a * (ScaleFactor * q)
        BY <2>1, <2>2
      <4>. QED
        BY <2>1, <2>5, <3>1, <4>1
    <3>. QED
      BY <2>3, <3>2
  <2>6. CASE ~QuoteGeBase /\ domain = "atom"
    <3>1. a = h \div ScaleFactor
      BY <2>6 DEF DecimalInv
    <3>2. ScaleFactor * a <= h /\ h < ScaleFactor * (a + 1)
      BY <2>1, <2>2, <3>1, DivBounds
    <3>3. ScaleFactor * a \in Nat /\ ScaleFactor * (a + 1) \in Nat
      BY <2>1, <2>2, ProductNat
    <3>4. a * b <= h * q
      <4>1. (ScaleFactor * a) * q <= h * q
        BY <2>1, <2>2, <3>2, <3>3, ProductMonotone
      <4>2. (ScaleFactor * a) * q = a * (ScaleFactor * q)
        BY <2>1, <2>2
      <4>. QED
        BY <2>1, <2>6, <4>1, <4>2
    <3>5. h * q < (a + 1) * b
      <4>1. (h + 1) * q <= (ScaleFactor * (a + 1)) * q
        BY <2>1, <2>2, <3>2, <3>3, ProductMonotone
      <4>2. (ScaleFactor * (a + 1)) * q = (a + 1) * (ScaleFactor * q)
        BY <2>1, <2>2
      <4>3. (h + 1) * q = h * q + q /\ h * q \in Nat /\ (a + 1) * b \in Nat
        BY <2>1, <2>2, ProductNat
      <4>. QED
        BY <2>1, <2>6, <4>1, <4>2, <4>3
    <3>. QED
      BY <2>6, <3>4, <3>5 DEF PricesAgree, HumanWorth, AtomWorth
  <2>. QED
    BY <2>4, <2>5, <2>6
<1>. QED
  BY <1>1, DecimalStarts, DecimalInductive, PTL DEF DecimalSpec

(* A price that comes back to its domain never comes back higher, and in   *)
(* the coarser domain it comes back as it left.                            *)
THEOREM NoDrift == DecimalSpec => TripsDoNotDrift
<1>. DEFINE Trip == \A d \in Domains :
                      domain' = d /\ price[d] # NoPrice =>
                        /\ price'[d] <= price[d]
                        /\ (d = "human" <=> QuoteGeBase)
                             \/ decimals.base = decimals.quote
                             => price'[d] = price[d]
<1>1. DecimalInv /\ [DecimalNext]_decimalVars => [Trip]_decimalVars
  BY ConversionKeeps
<1>. QED
  BY <1>1, DecimalStarts, DecimalInductive, PTL DEF DecimalSpec, TripsDoNotDrift

-----------------------------------------------------------------------------
(* The long division: first the limb product, then the loop, whose         *)
(* invariant says that the bits read so far have been divided exactly and  *)
(* that no word wrapped.                                                   *)

(* Floor quotient and remainder. *)
LEMMA QuotientRemainder ==
  ASSUME NEW a \in Nat, NEW d \in Nat \ {0}
  PROVE  /\ a \div d \in Nat
         /\ a % d \in 0 .. d - 1
         /\ a = d * (a \div d) + (a % d)
  OBVIOUS

(* A quotient and a remainder in range determine the floor. *)
LEMMA FloorUnique ==
  ASSUME NEW a \in Nat, NEW d \in Nat \ {0}, NEW q \in Nat, NEW r \in Nat,
         a = q * d + r, r < d
  PROVE  a \div d = q /\ a % d = r
<1> DEFINE p == a \div d
<1>1. p \in Nat /\ a % d \in 0 .. d - 1 /\ a = d * p + (a % d)
  BY QuotientRemainder
<1>2. ~(p < q)
  <2>1. SUFFICES ASSUME p + 1 <= q PROVE FALSE
    BY <1>1
  <2>2. (p + 1) * d <= q * d
    BY <1>1, <2>1, ProductMonotone
  <2>. QED
    BY <1>1, <2>2
<1>3. ~(q < p)
  <2>1. SUFFICES ASSUME q + 1 <= p PROVE FALSE
    BY <1>1
  <2>2. (q + 1) * d <= p * d
    BY <1>1, <2>1, ProductMonotone
  <2>. QED
    BY <1>1, <2>2
<1>. QED
  BY <1>1, <1>2, <1>3

(* Halving the divisor appends one bit to the floor. *)
LEMMA NextBit ==
  ASSUME NEW a \in Nat, NEW d \in Nat \ {0}
  PROVE  /\ a \div d = 2 * (a \div (2 * d)) + ((a \div d) % 2)
         /\ (a \div d) % 2 \in {0, 1}
<1> DEFINE x == a \div d
           y == x \div 2
<1>1. x \in Nat /\ a % d \in 0 .. d - 1 /\ a = d * x + (a % d)
  BY QuotientRemainder
<1>2. y \in Nat /\ x % 2 \in 0 .. 1 /\ x = 2 * y + (x % 2)
  BY <1>1
<1>3. a = y * (2 * d) + (d * (x % 2) + (a % d))
  <2>1. d * x = d * (2 * y + (x % 2))
    BY <1>2
  <2>2. d * (2 * y + (x % 2)) = y * (2 * d) + d * (x % 2)
    BY <1>2
  <2>. QED
    BY <1>1, <1>2, <2>1, <2>2
<1>4. d * (x % 2) + (a % d) \in 0 .. 2 * d - 1
  <2>1. x % 2 = 0 \/ x % 2 = 1
    BY <1>2
  <2>. QED
    BY <1>1, <2>1
<1>5. a \div (2 * d) = y
  <2> DEFINE r == d * (x % 2) + (a % d)
  <2>1. r \in Nat /\ r < 2 * d
    BY <1>4
  <2>2. 2 * d \in Nat \ {0}
    OBVIOUS
  <2>3. a = y * (2 * d) + r
    BY <1>3
  <2> HIDE DEF x, y, r
  <2>. QED
    BY <1>2, <2>1, <2>2, <2>3, FloorUnique
<1>. QED
  BY <1>2, <1>5

(* The widths of a limb and of a word. *)
LEMMA HalfType == Half \in Nat \ {0}
  BY WideAssumption

(* A word is the square of half a word.                                    *)
LEMMA WordType == Word \in Nat \ {0} /\ Word = Half * Half
  BY HalfType DEF Word

(* FixedPoint's u128 is a word of this machine. *)
LEMMA MachineWord ==
  /\ Fixed!MaxU128 = Word - 1
  /\ Fixed!NoError = "NoError"
<1>1. (Half - 1) + 1 = Half
  BY HalfType
<1>. QED
  BY <1>1 DEF Fixed!MaxU128, Fixed!Q64, Fixed!NoError, Word

(* Powers of two are numbers.                                              *)
LEMMA PowerType ==
  ASSUME NEW i \in 0 .. Bits
  PROVE  Pow2[i] \in Nat
  BY WideAssumption

(* The limbs of a word. *)
LEMMA Limbs ==
  ASSUME NEW n \in 0 .. Word - 1
  PROVE  /\ LowLimb(n) \in 0 .. Half - 1
         /\ HighLimb(n) \in 0 .. Half - 1
         /\ n = HighLimb(n) * Half + LowLimb(n)
<1>1. /\ n \div Half \in Nat
      /\ n % Half \in 0 .. Half - 1
      /\ n = Half * (n \div Half) + (n % Half)
  <2>1. n \in Nat
    BY WordType
  <2>. QED
    BY <2>1, HalfType, QuotientRemainder
<1>2. ~(Half <= n \div Half)
  <2>1. SUFFICES ASSUME Half <= n \div Half PROVE FALSE
    OBVIOUS
  <2>2. Half * Half <= (n \div Half) * Half
    BY <1>1, <2>1, HalfType, ProductMonotone
  <2>. QED
    BY <1>1, <2>2, WordType, HalfType
<1>. QED
  BY <1>1, <1>2, HalfType DEF LowLimb, HighLimb

(* A sum of less than two words is its wrapped value and its carry. *)
LEMMA CarryLaw ==
  ASSUME NEW s \in 0 .. 2 * Word - 1
  PROVE  /\ Wrapped(s) \in 0 .. Word - 1
         /\ CarryOut(s) \in {0, 1}
         /\ s = CarryOut(s) * Word + Wrapped(s)
<1>1. CASE s < Word
  <2>1. s = 0 * Word + s /\ s \in Nat
    BY <1>1, WordType
  <2>2. s % Word = s
    BY <1>1, <2>1, WordType, FloorUnique
  <2>. QED
    BY <1>1, <2>2, WordType DEF Wrapped, CarryOut
<1>2. CASE s >= Word
  <2>1. s = 1 * Word + (s - Word) /\ s - Word \in Nat /\ s - Word < Word
    BY <1>2, WordType
  <2>2. s % Word = s - Word
    BY <2>1, WordType, FloorUnique
  <2>. QED
    BY <1>2, <2>1, <2>2, WordType DEF Wrapped, CarryOut
<1>. QED
  BY <1>1, <1>2, WordType

(* A product of two limbs leaves room for two more limbs in a word. *)
LEMMA LimbProduct ==
  ASSUME NEW x \in 0 .. Half - 1, NEW y \in 0 .. Half - 1
  PROVE  x * y \in 0 .. Word - 2 * Half + 1
<1>1. Half - 1 \in Nat /\ x \in Nat /\ y \in Nat /\ x <= Half - 1 /\ y <= Half - 1
  BY HalfType
<1>2. x * y <= (Half - 1) * y /\ y * (Half - 1) <= (Half - 1) * (Half - 1)
  BY <1>1, ProductMonotone
<1>3. /\ (Half - 1) * (Half - 1) = Half * Half - 2 * Half + 1
      /\ y * (Half - 1) = (Half - 1) * y
      /\ x * y \in Nat
  BY <1>1, HalfType, ProductNat
<1>. QED
  BY <1>1, <1>2, <1>3, HalfType, WordType

(* The schoolbook product of two numbers of two limbs. *)
LEMMA Schoolbook ==
  ASSUME NEW h \in Nat, NEW al \in Nat, NEW ah \in Nat, NEW bl \in Nat, NEW bh \in Nat
  PROVE  (ah * h + al) * (bh * h + bl)
           = (ah * bh) * (h * h) + (al * bh + ah * bl) * h + al * bl
<1>1. (ah * h + al) * (bh * h + bl)
        = (ah * h) * (bh * h) + (ah * h) * bl + al * (bh * h) + al * bl
  <2> DEFINE x == ah * h
             y == bh * h
  <2>1. x \in Nat /\ y \in Nat
    OBVIOUS
  <2> HIDE DEF x, y
  <2>2. (x + al) * (y + bl) = x * y + x * bl + al * y + al * bl
    BY <2>1
  <2>. QED
    BY <2>2 DEF x, y
<1>2. (ah * h) * (bh * h) = (ah * bh) * (h * h)
  OBVIOUS
<1>3. (ah * h) * bl = (ah * bl) * h /\ al * (bh * h) = (al * bh) * h
  OBVIOUS
<1>4. (al * bh) * h + (ah * bl) * h = (al * bh + ah * bl) * h
  OBVIOUS
<1>5. /\ (ah * bh) * (h * h) \in Nat
      /\ (ah * bl) * h \in Nat
      /\ (al * bh) * h \in Nat
      /\ al * bl \in Nat
  OBVIOUS
<1>. QED
  BY <1>1, <1>2, <1>3, <1>4, <1>5

(* The same product with the carries out of its two sums. *)
LEMMA Carried ==
  ASSUME NEW h \in Nat, NEW w \in Nat, w = h * h,
         NEW top \in Nat, NEW middle \in Nat, NEW bottom \in Nat,
         NEW c \in Nat, NEW mh \in Nat, NEW ml \in Nat, NEW d \in Nat, NEW lo \in Nat,
         middle = c * w + (mh * h + ml),
         bottom + ml * h = d * w + lo
  PROVE  top * w + middle * h + bottom = (top + mh + h * c + d) * w + lo
<1>1. middle * h = (c * w) * h + (mh * h) * h + ml * h
  BY ProductNat
<1>2. (mh * h) * h = mh * w
  OBVIOUS
<1>3. (c * w) * h = (h * c) * w
  OBVIOUS
<1>4. (top + mh + h * c + d) * w = top * w + mh * w + (h * c) * w + d * w
  <2> DEFINE x == h * c
  <2>1. x \in Nat
    OBVIOUS
  <2> HIDE DEF x
  <2>2. (top + mh + x + d) * w = top * w + mh * w + x * w + d * w
    BY <2>1
  <2>. QED
    BY <2>2 DEF x
<1>5. /\ top * w \in Nat /\ mh * w \in Nat /\ (h * c) * w \in Nat
      /\ d * w \in Nat /\ ml * h \in Nat
  BY ProductNat
<1>. QED
  BY <1>1, <1>2, <1>3, <1>4, <1>5

(* mul_128_to_256 loses nothing: its two words are the product, and its    *)
(* checked_add never fails.                                                *)
LEMMA ProductWords ==
  ASSUME NEW a \in 0 .. Word - 1, NEW b \in 0 .. Word - 1
  PROVE  /\ ProductLow(a, b) \in 0 .. Word - 1
         /\ ProductHigh(a, b) \in 0 .. Word - 1
         /\ ProductHigh(a, b) * Word + ProductLow(a, b) = a * b
<1> DEFINE al == LowLimb(a)
           ah == HighLimb(a)
           bl == LowLimb(b)
           bh == HighLimb(b)
           m  == CrossSum(a, b)
           mw == Wrapped(m)
           c  == CarryOut(m)
           ml == LowLimb(mw)
           mh == HighLimb(mw)
           s  == LowSum(a, b)
           lo == Wrapped(s)
           d  == CarryOut(s)
<1>1. /\ al \in 0 .. Half - 1 /\ ah \in 0 .. Half - 1 /\ a = ah * Half + al
      /\ bl \in 0 .. Half - 1 /\ bh \in 0 .. Half - 1 /\ b = bh * Half + bl
  BY Limbs
<1>2. m \in 0 .. 2 * Word - 1 /\ m = al * bh + ah * bl
  <2>1. al * bh \in 0 .. Word - 2 * Half + 1 /\ ah * bl \in 0 .. Word - 2 * Half + 1
    BY <1>1, LimbProduct
  <2>2. m = al * bh + ah * bl
    BY DEF CrossSum
  <2> HIDE DEF al, ah, bl, bh, m
  <2>. QED
    BY <2>1, <2>2, HalfType, WordType
<1>3. /\ mw \in 0 .. Word - 1 /\ c \in {0, 1} /\ m = c * Word + mw
  BY <1>2, CarryLaw
<1>4. /\ ml \in 0 .. Half - 1 /\ mh \in 0 .. Half - 1 /\ mw = mh * Half + ml
  BY <1>3, Limbs
<1>5. s \in 0 .. 2 * Word - 1 /\ s = al * bl + ml * Half
  <2>1. al * bl \in 0 .. Word - 2 * Half + 1
    BY <1>1, LimbProduct
  <2>2. ml * Half \in Nat /\ ml * Half <= (Half - 1) * Half
    BY <1>4, HalfType, ProductNat, ProductMonotone
  <2>3. (Half - 1) * Half = Word - Half
    BY HalfType, WordType
  <2>4. s = al * bl + ml * Half
    BY DEF LowSum
  <2> HIDE DEF al, bl, ml, s
  <2>. QED
    BY <2>1, <2>2, <2>3, <2>4, HalfType, WordType
<1>6. lo \in 0 .. Word - 1 /\ d \in {0, 1} /\ s = d * Word + lo
  BY <1>5, CarryLaw
<1>7. /\ ProductLow(a, b) = lo
      /\ ProductHigh(a, b) = ah * bh + mh + Half * c + d
  BY DEF ProductLow, ProductHigh
<1>8. ah * bh \in Nat /\ al * bl \in Nat
  BY <1>1, LimbProduct, HalfType, ProductNat
<1> HIDE DEF al, ah, bl, bh, m, mw, c, ml, mh, s, lo, d
<1>9. ProductHigh(a, b) * Word + ProductLow(a, b) = a * b
  <2>1. /\ Half \in Nat /\ Word \in Nat /\ Word = Half * Half
        /\ al \in Nat /\ ah \in Nat /\ bl \in Nat /\ bh \in Nat
        /\ m \in Nat /\ c \in Nat /\ mh \in Nat /\ ml \in Nat
        /\ d \in Nat /\ lo \in Nat
    BY <1>1, <1>2, <1>3, <1>4, <1>6, HalfType, WordType
  <2>2. a * b = (ah * bh) * Word + m * Half + al * bl
    BY <2>1, <1>1, <1>2, Schoolbook
  <2>3. m = c * Word + (mh * Half + ml) /\ al * bl + ml * Half = d * Word + lo
    BY <1>3, <1>4, <1>5, <1>6
  <2>4. (ah * bh) * Word + m * Half + al * bl
          = (ah * bh + mh + Half * c + d) * Word + lo
    BY <2>1, <2>3, <1>8, Carried
  <2>. QED
    BY <2>2, <2>4, <1>7
<1>10. ProductHigh(a, b) \in Nat
  <2>1. Half * c \in Nat
    BY <1>3, HalfType, ProductNat
  <2>. QED
    BY <2>1, <1>3, <1>4, <1>6, <1>7, <1>8, HalfType
<1>11. ~(ProductHigh(a, b) >= Word)
  <2>1. SUFFICES ASSUME Word <= ProductHigh(a, b) PROVE FALSE
    BY <1>10, WordType
  <2>2. Word * Word <= ProductHigh(a, b) * Word
    BY <2>1, <1>10, WordType, ProductMonotone
  <2>3. a * b <= (Word - 1) * b /\ b * (Word - 1) <= (Word - 1) * (Word - 1)
    BY WordType, ProductMonotone
  <2>4. /\ (Word - 1) * (Word - 1) = Word * Word - 2 * Word + 1
        /\ b * (Word - 1) = (Word - 1) * b
        /\ b * (Word - 1) \in Nat /\ a * b \in Nat /\ Word * Word \in Nat
        /\ ProductHigh(a, b) * Word \in Nat
    BY <1>10, WordType, ProductNat
  <2>. QED
    BY <2>2, <2>3, <2>4, <1>6, <1>7, <1>9, WordType
<1>. QED
  BY <1>6, <1>7, <1>9, <1>10, <1>11, WordType

(* How a floor compares with a bound on the dividend. *)
LEMMA FloorBounds ==
  ASSUME NEW a \in Nat, NEW d \in Nat \ {0}
  PROVE  /\ a \div d <= a
         /\ \A w \in Nat : d * w <= a => w <= a \div d
<1> DEFINE q == a \div d
<1>1. q \in Nat /\ a % d \in 0 .. d - 1 /\ a = d * q + (a % d)
  BY QuotientRemainder
<1>2. q <= a
  <2>1. 1 * q <= d * q
    BY <1>1, ProductMonotone
  <2>. QED
    BY <1>1, <2>1
<1>3. ASSUME NEW w \in Nat, d * w <= a, ~(w <= q) PROVE FALSE
  <2>1. q + 1 <= w /\ q + 1 \in Nat
    BY <1>1, <1>3
  <2>2. (q + 1) * d <= w * d
    BY <1>1, <2>1, ProductMonotone
  <2>3. w * d = d * w /\ (q + 1) * d = d * q + d /\ d * q \in Nat
    BY <1>1, ProductNat
  <2>. QED
    BY <1>1, <1>3, <2>2, <2>3
<1>. QED
  BY <1>2, <1>3

(* The bit that leaves a word shifted left by one, and what stays. *)
LEMMA ShiftLaw ==
  ASSUME NEW r \in 0 .. Word - 1
  PROVE  /\ r \div Pow2[Bits - 1] \in {0, 1}
         /\ 2 * r = (r \div Pow2[Bits - 1]) * Word + ((2 * r) % Word)
         /\ (2 * r) % Word \in 0 .. Word - 2
<1> DEFINE h == Pow2[Bits - 1]
<1>1. h \in Nat \ {0} /\ Word = 2 * h
  <2>1. Bits - 1 \in 0 .. Bits /\ Bits \in 1 .. Bits
    BY WideAssumption
  <2>2. Pow2[Bits] = 2 * h /\ h \in Nat
    BY <2>1, WideAssumption
  <2>. QED
    BY <2>2, WordType, WideAssumption
<1> DEFINE top  == r \div h
           kept == (2 * r) % Word
<1> HIDE DEF h
<1>2. /\ top \in {0, 1}
      /\ 2 * r = top * Word + kept
      /\ kept \in 0 .. Word - 2
  <2>1. CASE r < h
    <3>1. r = 0 * h + r /\ 2 * r = 0 * Word + 2 * r /\ 2 * r < Word
      BY <1>1, <2>1
    <3>2. top = 0
      BY <1>1, <2>1, <3>1, FloorUnique
    <3>3. kept = 2 * r
      BY <1>1, <3>1, WordType, FloorUnique
    <3> HIDE DEF top, kept
    <3>. QED
      BY <1>1, <2>1, <3>2, <3>3
  <2>2. CASE r >= h
    <3>1. /\ r = 1 * h + (r - h) /\ r - h \in Nat /\ r - h < h
          /\ 2 * r = 1 * Word + 2 * (r - h) /\ 2 * (r - h) < Word
      BY <1>1, <2>2
    <3>2. top = 1
      BY <1>1, <3>1, FloorUnique
    <3>3. kept = 2 * (r - h)
      BY <1>1, <3>1, WordType, FloorUnique
    <3> HIDE DEF top, kept
    <3>. QED
      BY <1>1, <3>1, <3>2, <3>3
  <2>. QED
    BY <1>1, <2>1, <2>2
<1>. QED
  BY <1>2 DEF h

-----------------------------------------------------------------------------
(* The inductive invariant.  DivisionIsFloor says nothing of the state     *)
(* before the call returns, and LoopDividesPrefix nothing of the widths:   *)
(* what carries the loop is that the quotient has one bit for each bit     *)
(* read, so that doubling it never leaves its word.                        *)

OperandsInRange ==
  operands \in [a : 0 .. Word - 1, b : 0 .. Word - 1, denominator : 0 .. Word - 1]

ProductIsExact ==
  at \in {"wide", "loop"} =>
    /\ operands.denominator # 0
    /\ high \in 0 .. Word - 1
    /\ low \in 0 .. Word - 1
    /\ high * Word + low = operands.a * operands.b

LoopInv ==
  at = "loop" =>
    /\ high < operands.denominator
    /\ bit \in 0 .. Bits
    /\ Pow2[bit] * Pow2[Bits - bit] = Word
    /\ remainder \in 0 .. operands.denominator - 1
    /\ quotient \in 0 .. Pow2[Bits - bit] - 1
    /\ high * Pow2[Bits - bit] + low \div Pow2[bit]
         = quotient * operands.denominator + remainder

DivideInv ==
  /\ OperandsInRange
  /\ ProductIsExact
  /\ LoopInv
  /\ DivisionIsFloor

(* What a step of the loop leaves, for any loop state. *)
LEMMA LoopTurn ==
  ASSUME DivideInv, at = "loop", bit > 0
  PROVE  /\ Subtracts <=> operands.denominator <= 2 * remainder + ((low \div Pow2[bit - 1]) % 2)
         /\ Subtracts => Reduced = (2 * remainder + ((low \div Pow2[bit - 1]) % 2))
                                     - operands.denominator
         /\ ~Subtracts => Shifted = 2 * remainder + ((low \div Pow2[bit - 1]) % 2)
         /\ (low \div Pow2[bit - 1]) % 2 \in {0, 1}
<1> DEFINE d == operands.denominator
           b == (low \div Pow2[bit - 1]) % 2
           t == 2 * remainder + b
<1>1. d \in 1 .. Word - 1 /\ remainder \in 0 .. d - 1 /\ low \in Nat
  BY WordType DEF DivideInv, OperandsInRange, ProductIsExact, LoopInv
<1>2. b \in {0, 1}
  <2>1. Pow2[bit - 1] \in Nat \ {0}
    <3>1. /\ bit \in 1 .. Bits /\ bit - 1 \in 0 .. Bits
          /\ bit \in 0 .. Bits /\ Bits - bit \in 0 .. Bits
      <4>1. bit \in 0 .. Bits
        BY DEF DivideInv, LoopInv
      <4>. QED
        BY <4>1, WideAssumption
    <3>2. Pow2[bit] = 2 * Pow2[bit - 1] /\ Pow2[bit - 1] \in Nat /\ Pow2[Bits - bit] \in Nat
      BY <3>1, WideAssumption
    <3>3. Pow2[bit] * Pow2[Bits - bit] = Word
      BY DEF DivideInv, LoopInv
    <3>. QED
      BY <3>2, <3>3, WordType
  <2>. QED
    BY <1>1, <2>1, NextBit
<1>3. remainder \in 0 .. Word - 1
  BY <1>1, WordType
<1>4. /\ Carry \in {0, 1}
      /\ 2 * remainder = Carry * Word + ((2 * remainder) % Word)
      /\ (2 * remainder) % Word \in 0 .. Word - 2
  BY <1>3, ShiftLaw DEF Carry
<1>5. Shifted = ((2 * remainder) % Word) + b
  BY DEF Shifted
<1> DEFINE s == Shifted
           c == Carry
           v == (2 * remainder) % Word
<1>6. /\ c \in {0, 1} /\ 2 * remainder = c * Word + v /\ v \in 0 .. Word - 2
      /\ s = v + b
  BY <1>4, <1>5
<1>7. Subtracts <=> (c = 1 \/ s >= d)
  BY DEF Subtracts
<1>8. Reduced = IF c = 1 THEN (s + (Word - d)) % Word ELSE s - d
  BY DEF Reduced
<1> HIDE DEF d, b, s, c, v
<1>9. CASE c = 0
  BY <1>1, <1>2, <1>6, <1>7, <1>8, <1>9, WordType DEF d, b, s
<1>10. CASE c = 1
  <2>1. t = Word + s /\ t - d \in Nat /\ t - d < Word /\ s + (Word - d) = t - d
    BY <1>1, <1>2, <1>6, <1>10, WordType
  <2>2. t - d = 0 * Word + (t - d)
    BY <2>1, WordType
  <2>3. (t - d) % Word = t - d
    BY <2>1, <2>2, WordType, FloorUnique
  <2>. QED
    BY <1>1, <1>2, <1>7, <1>8, <1>10, <2>1, <2>3, WordType DEF d, b, s
<1>. QED
  BY <1>6, <1>9, <1>10

(* A turn of the loop keeps the invariant of the loop. *)
LEMMA LoopStep ==
  ASSUME DivideInv, DivideBit
  PROVE  LoopInv'
<1> DEFINE d == operands.denominator
           b == (low \div Pow2[bit - 1]) % 2
           t == 2 * remainder + b
           p == Pow2[Bits - bit]
<1>1. at = "loop" /\ bit > 0 /\ UNCHANGED <<operands, at, high, low>> /\ bit' = bit - 1
  BY DEF DivideBit
<1>2. /\ d \in 1 .. Word - 1 /\ remainder \in 0 .. d - 1 /\ high \in 0 .. d - 1
      /\ low \in Nat /\ quotient \in 0 .. p - 1
      /\ high * p + low \div Pow2[bit] = quotient * d + remainder
  BY <1>1, WordType DEF DivideInv, OperandsInRange, ProductIsExact, LoopInv
<1>3. /\ Subtracts <=> d <= t
      /\ Subtracts => Reduced = t - d
      /\ ~Subtracts => Shifted = t
      /\ b \in {0, 1}
  <2>1. at = "loop" /\ bit > 0
    BY <1>1
  <2>2. /\ Subtracts <=> operands.denominator <= 2 * remainder + ((low \div Pow2[bit - 1]) % 2)
        /\ Subtracts => Reduced = (2 * remainder + ((low \div Pow2[bit - 1]) % 2))
                                    - operands.denominator
        /\ ~Subtracts => Shifted = 2 * remainder + ((low \div Pow2[bit - 1]) % 2)
        /\ (low \div Pow2[bit - 1]) % 2 \in {0, 1}
    BY <2>1, LoopTurn
  <2>. QED
    BY <2>2
<1>4. /\ bit \in 1 .. Bits /\ bit - 1 \in 0 .. Bits
      /\ bit \in 0 .. Bits /\ Bits - bit \in 0 .. Bits
      /\ Bits - (bit - 1) \in 1 .. Bits /\ (Bits - (bit - 1)) - 1 = Bits - bit
  <2>1. bit \in 0 .. Bits
    BY <1>1 DEF DivideInv, LoopInv
  <2>. QED
    BY <2>1, <1>1, WideAssumption
<1>5. /\ Pow2[bit] = 2 * Pow2[bit - 1] /\ Pow2[bit - 1] \in Nat /\ p \in Nat
      /\ Pow2[Bits - (bit - 1)] = 2 * p
  <2>1. Pow2[Bits - (bit - 1)] = 2 * Pow2[(Bits - (bit - 1)) - 1]
    BY <1>4, WideAssumption
  <2>. QED
    BY <2>1, <1>4, WideAssumption
<1>6. Pow2[bit] * p = Word
  BY <1>1 DEF DivideInv, LoopInv
<1>7. Pow2[bit - 1] \in Nat \ {0} /\ Pow2[bit - 1] * (2 * p) = Word /\ 2 * p <= Word
  <2> DEFINE h == Pow2[bit - 1]
  <2>1. h \in Nat /\ p \in Nat /\ (2 * h) * p = Word
    BY <1>5, <1>6
  <2> HIDE DEF h, p
  <2>2. (2 * h) * p = h * (2 * p)
    BY <2>1
  <2>3. h # 0
    BY <2>1, WordType
  <2>4. 1 * (2 * p) <= h * (2 * p)
    BY <2>1, <2>3, ProductMonotone
  <2>. QED
    BY <2>1, <2>2, <2>3, <2>4 DEF h
<1>8. low \div Pow2[bit - 1] = 2 * (low \div Pow2[bit]) + b
  BY <1>2, <1>5, <1>7, NextBit
<1>9. low \div Pow2[bit] \in Nat
  <2>1. Pow2[bit] \in Nat \ {0}
    BY <1>5, <1>7
  <2>. QED
    BY <2>1, <1>2, QuotientRemainder
<1> DEFINE x == low \div Pow2[bit]
<1>10. high * (2 * p) + (2 * x + b) = (2 * quotient) * d + t
  <2>1. high * (2 * p) = 2 * (high * p) /\ (2 * quotient) * d = 2 * (quotient * d)
    BY <1>2, <1>5
  <2>2. high * p \in Nat /\ quotient * d \in Nat
    BY <1>2, <1>5, ProductNat
  <2>3. high * p + x = quotient * d + remainder
    BY <1>2
  <2>4. b \in Nat /\ remainder \in Nat /\ x \in Nat
    BY <1>2, <1>3, <1>9, WordType
  <2> DEFINE u == high * p
             v == quotient * d
  <2> HIDE DEF d, b, p, x, u, v
  <2>5. u \in Nat /\ v \in Nat /\ u + x = v + remainder
    BY <2>2, <2>3 DEF u, v
  <2>6. 2 * u + (2 * x + b) = 2 * v + (2 * remainder + b)
    BY <2>4, <2>5
  <2>. QED
    BY <2>1, <2>6 DEF u, v, t
<1>11. (2 * quotient) % Word = 2 * quotient
  <2> DEFINE n == 2 * quotient
  <2>1. n \in Nat /\ n < Word /\ n = 0 * Word + n
    BY <1>2, <1>5, <1>7, WordType
  <2> HIDE DEF n
  <2>2. n % Word = n
    BY <2>1, WordType, FloorUnique
  <2>. QED
    BY <2>2 DEF n
<1>12. /\ Subtracts => remainder' = t - d /\ quotient' = 2 * quotient + 1
       /\ ~Subtracts => remainder' = t /\ quotient' = 2 * quotient
  BY <1>3, <1>11 DEF DivideBit
<1>13. /\ remainder' \in 0 .. d - 1
       /\ quotient' \in 0 .. 2 * p - 1
       /\ high * (2 * p) + (2 * x + b) = quotient' * d + remainder'
  <2>1. (2 * quotient + 1) * d = (2 * quotient) * d + d /\ (2 * quotient) * d \in Nat
    BY <1>2, <1>5, ProductNat
  <2>2. t \in Nat /\ t < 2 * d
    BY <1>2, <1>3
  <2>3. CASE Subtracts
    <3>1. remainder' = t - d /\ quotient' = 2 * quotient + 1 /\ d <= t
      BY <2>3, <1>3, <1>12
    <3> HIDE DEF d, b, p, x, t
    <3>. QED
      BY <3>1, <1>2, <1>5, <1>10, <2>1, <2>2
  <2>4. CASE ~Subtracts
    <3>1. remainder' = t /\ quotient' = 2 * quotient /\ t < d
      BY <2>4, <1>2, <1>3, <1>12, <2>2
    <3> HIDE DEF d, b, p, x, t
    <3>. QED
      BY <3>1, <1>2, <1>5, <1>10, <2>1, <2>2
  <2>. QED
    BY <2>3, <2>4
<1>. QED
  BY <1>1, <1>2, <1>4, <1>5, <1>7, <1>8, <1>13 DEF LoopInv

(* The call starts with operands in range. *)
LEMMA DivideInitInv == DivideInit => DivideInv
  BY WideAssumption DEF DivideInit, DivideInv, OperandsInRange, ProductIsExact,
     LoopInv, DivisionIsFloor

(* Every step keeps the invariant; the three that return say what. *)
LEMMA DivideNextInv ==
  ASSUME DivideInv, DivideNext
  PROVE  DivideInv'
<1> DEFINE a == operands.a
           b == operands.b
           d == operands.denominator
<1>0. /\ a \in 0 .. Word - 1 /\ b \in 0 .. Word - 1 /\ d \in 0 .. Word - 1
      /\ a * b \in Nat
  BY WordType, ProductNat DEF DivideInv, OperandsInRange
<1>1. CASE DivideNarrow
  <2>1. /\ UNCHANGED operands /\ at' = "done"
        /\ \/ d = 0 /\ outcome' = Fixed!Err("DivByZero")
           \/ d # 0 /\ a * b < Word /\ outcome' = Fixed!Ok((a * b) \div d)
    BY <1>1 DEF DivideNarrow, Return
  <2>2. OperandsInRange'
    BY <2>1 DEF DivideInv, OperandsInRange
  <2>3. d # 0 /\ a * b < Word => ~((a * b) \div d > Word - 1)
    <3>1. SUFFICES ASSUME d # 0, a * b < Word PROVE ~((a * b) \div d > Word - 1)
      OBVIOUS
    <3>2. d \in Nat \ {0}
      BY <1>0, <3>1, WordType
    <3>3. (a * b) \div d \in Nat /\ (a * b) \div d <= a * b
      BY <1>0, <3>2, FloorBounds, QuotientRemainder
    <3>. QED
      BY <1>0, <3>1, <3>3, WordType
  <2>4. DivisionIsFloor'
    BY <2>1, <2>3, MachineWord DEF DivisionIsFloor, Fixed!MulDivFloor
  <2>. QED
    BY <2>1, <2>2, <2>4 DEF DivideInv, ProductIsExact, LoopInv
<1>2. CASE Multiply
  <2>1. /\ ProductLow(a, b) \in 0 .. Word - 1
        /\ ProductHigh(a, b) \in 0 .. Word - 1
        /\ ProductHigh(a, b) * Word + ProductLow(a, b) = a * b
    BY <1>0, ProductWords
  <2>2. ~(ProductHigh(a, b) >= Word)
    BY <2>1, WordType
  <2>3. /\ UNCHANGED operands /\ at' = "wide" /\ d # 0
        /\ high' = ProductHigh(a, b) /\ low' = ProductLow(a, b)
    BY <1>2, <2>2 DEF Multiply
  <2>. QED
    BY <2>1, <2>3 DEF DivideInv, OperandsInRange, ProductIsExact, LoopInv, DivisionIsFloor
<1>3. CASE EnterDivision
  <2>1. /\ d # 0 /\ high \in 0 .. Word - 1 /\ low \in 0 .. Word - 1
        /\ high * Word + low = a * b
    BY <1>3 DEF EnterDivision, DivideInv, ProductIsExact
  <2>2. CASE high >= d /\ Return(Fixed!Err("Overflow"))
    <3>1. UNCHANGED operands /\ at' = "done" /\ outcome' = Fixed!Err("Overflow")
      BY <2>2 DEF Return
    <3>2. d * Word <= a * b
      <4>1. d * Word <= high * Word
        BY <1>0, <2>1, <2>2, WordType, ProductMonotone
      <4>2. high * Word \in Nat /\ d * Word \in Nat
        BY <1>0, <2>1, WordType, ProductNat
      <4>. QED
        BY <4>1, <4>2, <2>1
    <3>3. (a * b) \div d > Word - 1
      <4>1. Word <= (a * b) \div d
        BY <1>0, <2>1, <3>2, WordType, FloorBounds
      <4>2. (a * b) \div d \in Nat
        <5>1. d \in Nat \ {0}
          BY <1>0, <2>1, WordType
        <5>. QED
          BY <1>0, <5>1, QuotientRemainder
      <4>. QED
        BY <4>1, <4>2, WordType
    <3>4. DivisionIsFloor'
      BY <2>1, <3>1, <3>3, MachineWord DEF DivisionIsFloor, Fixed!MulDivFloor
    <3>. QED
      BY <3>1, <3>4 DEF DivideInv, OperandsInRange, ProductIsExact, LoopInv
  <2>3. CASE high < d /\ at' = "loop"
    <3>1. /\ UNCHANGED <<operands, high, low>>
          /\ remainder' = high /\ quotient' = 0 /\ bit' = Bits
      BY <1>3, <2>2, <2>3 DEF EnterDivision, Return
    <3>2. /\ Bits - Bits = 0 /\ Bits \in 0 .. Bits /\ Pow2[0] = 1 /\ Pow2[Bits] = Word
      BY WideAssumption
    <3>3. low \div Word = 0
      <4>1. low = 0 * Word + low
        BY <2>1, WordType
      <4>. QED
        BY <4>1, <2>1, WordType, FloorUnique
    <3>4. /\ Word * 1 = Word /\ high * 1 + 0 = 0 * d + high
          /\ high \in 0 .. d - 1 /\ 0 \in 0 .. 1 - 1
      BY <1>0, <2>1, <2>3, WordType
    <3>5. LoopInv'
      BY <2>3, <3>1, <3>2, <3>3, <3>4 DEF LoopInv
    <3>. QED
      BY <2>1, <2>3, <3>1, <3>5 DEF DivideInv, OperandsInRange, ProductIsExact, DivisionIsFloor
  <2>. QED
    BY <1>3, <2>2, <2>3 DEF EnterDivision
<1>4. CASE DivideBit
  <2>1. UNCHANGED <<operands, at, high, low>> /\ at = "loop"
    BY <1>4 DEF DivideBit
  <2>2. LoopInv'
    BY <1>4, LoopStep
  <2>. QED
    BY <2>1, <2>2 DEF DivideInv, OperandsInRange, ProductIsExact, DivisionIsFloor
<1>5. CASE FinishDivision
  <2>1. /\ at = "loop" /\ bit = 0 /\ UNCHANGED operands /\ at' = "done"
        /\ outcome' = Fixed!Ok(quotient)
    BY <1>5 DEF FinishDivision, Return
  <2>2. /\ d \in Nat \ {0} /\ high \in Nat /\ low \in Nat /\ high * Word + low = a * b
        /\ remainder \in 0 .. d - 1
        /\ quotient \in 0 .. Pow2[Bits - 0] - 1
        /\ high * Pow2[Bits - 0] + low \div Pow2[0] = quotient * d + remainder
    BY <1>0, <2>1, WordType DEF DivideInv, ProductIsExact, LoopInv
  <2>3. Bits - 0 = Bits /\ Pow2[0] = 1 /\ Pow2[Bits] = Word
    BY WideAssumption
  <2>4. low \div 1 = low
    BY <2>2
  <2>5. quotient \in 0 .. Word - 1 /\ a * b = quotient * d + remainder
    BY <2>2, <2>3, <2>4
  <2>6. (a * b) \div d = quotient
    BY <1>0, <2>2, <2>5, WordType, FloorUnique
  <2>7. ~((a * b) \div d > Word - 1)
    BY <2>5, <2>6, WordType
  <2>8. DivisionIsFloor'
    BY <2>1, <2>2, <2>6, <2>7, MachineWord DEF DivisionIsFloor, Fixed!MulDivFloor
  <2>. QED
    BY <2>1, <2>8 DEF DivideInv, OperandsInRange, ProductIsExact, LoopInv
<1>. QED
  BY <1>1, <1>2, <1>3, <1>4, <1>5 DEF DivideNext

(* The invariant holds throughout the call. *)
THEOREM DivideInvariant == DivideSpec => []DivideInv
<1>1. DivideInit => DivideInv
  BY DivideInitInv
<1>2. DivideInv /\ [DivideNext]_divisionVars => DivideInv'
  <2>1. CASE DivideNext
    BY <2>1, DivideNextInv
  <2>2. CASE UNCHANGED divisionVars
    BY <2>2 DEF divisionVars, DivideInv, OperandsInRange, ProductIsExact, LoopInv,
       DivisionIsFloor
  <2>. QED
    BY <2>1, <2>2
<1>. QED
  BY <1>1, <1>2, PTL DEF DivideSpec

(* mul_div_floor returns the floor of the exact product, or the error it   *)
(* promises, for operands and words of every width.                        *)
THEOREM DivisionFloors == DivideSpec => []DivisionIsFloor
<1>1. DivideInv => DivisionIsFloor
  BY DEF DivideInv
<1>. QED
  BY <1>1, DivideInvariant, PTL

(* At every turn of the loop the bits read so far have been divided        *)
(* exactly.                                                                *)
THEOREM LoopDivides == DivideSpec => []LoopDividesPrefix
<1>1. DivideInv => LoopDividesPrefix
  <2>1. SUFFICES ASSUME DivideInv, at = "loop"
                 PROVE  /\ high * Pow2[Bits - bit] + low \div Pow2[bit]
                             = quotient * operands.denominator + remainder
                        /\ remainder < operands.denominator
    BY DEF LoopDividesPrefix
  <2>2. /\ operands.denominator \in Nat
        /\ remainder \in 0 .. operands.denominator - 1
    BY <2>1, WordType DEF DivideInv, OperandsInRange, LoopInv
  <2>. QED
    BY <2>1, <2>2 DEF DivideInv, LoopInv
<1>. QED
  BY <1>1, DivideInvariant, PTL

=============================================================================
