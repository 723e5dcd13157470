-------------------------- MODULE ArithmeticProofs --------------------------
(***************************************************************************)
(* Facts that the other proofs rest on: floor division, the checked        *)
(* conversions, what a report can raise, induction over numbers and finite *)
(* sets, loops, and finite sums.                                           *)
(***************************************************************************)
EXTENDS Flow, Functions, FiniteSetTheorems, WellFoundedInduction, TLAPS

(* Floor division brackets its operand. *)
LEMMA DivBounds ==
  ASSUME NEW a \in Nat, NEW d \in Nat \ {0}
  PROVE  /\ a \div d \in Nat
         /\ d * (a \div d) <= a
         /\ a < d * ((a \div d) + 1)
  OBVIOUS

(* Products of natural numbers are natural numbers, and they grow with     *)
(* their factors.                                                          *)
LEMMA ProductNat == ASSUME NEW a \in Nat, NEW b \in Nat PROVE a * b \in Nat
  OBVIOUS

LEMMA ProductMonotone ==
  ASSUME NEW a \in Nat, NEW b \in Nat, NEW c \in Nat, a <= b
  PROVE  a * c <= b * c
  OBVIOUS

(* Floor division by a positive number is monotone. *)
LEMMA DivMonotone ==
  ASSUME NEW a \in Nat, NEW b \in Nat, NEW d \in Nat \ {0}, a <= b
  PROVE  a \div d <= b \div d
<1>. DEFINE q == a \div d
            r == b \div d
<1>1. /\ q \in Nat /\ d * q <= a /\ r \in Nat /\ b < d * (r + 1)
  BY DivBounds
<1>. HIDE DEF q, r
<1>2. CASE r < q
  <2>1. (r + 1) * d <= q * d
    BY <1>1, <1>2, ProductMonotone
  <2>. QED
    BY <1>1, <2>1
<1>. QED
  BY <1>1, <1>2 DEF q, r

(* A number within a multiple of the divisor has its quotient within the   *)
(* factor.                                                                 *)
LEMMA DivAtMost ==
  ASSUME NEW a \in Nat, NEW d \in Nat \ {0}, NEW q \in Nat, a <= q * d
  PROVE  a \div d <= q
<1>1. /\ a \div d \in Nat /\ d * (a \div d) <= a
  BY DivBounds
<1>. DEFINE r == a \div d
<1>. HIDE DEF r
<1>2. CASE q < r
  <2>1. (q + 1) * d <= r * d
    BY <1>1, <1>2, ProductMonotone DEF r
  <2>. QED
    BY <1>1, <2>1 DEF r
<1>. QED
  BY <1>1, <1>2 DEF r

(* The floor of a quotient is the one number whose multiples enclose it.   *)
LEMMA DivUnique ==
  ASSUME NEW a \in Nat, NEW d \in Nat \ {0}, NEW q \in Nat,
         d * q <= a, a < d * (q + 1)
  PROVE  a \div d = q
<1>. DEFINE r == a \div d
<1>1. r \in Nat /\ d * r <= a /\ a < d * (r + 1)
  BY DivBounds
<1>. HIDE DEF r
<1>2. ASSUME NEW x \in Nat, NEW y \in Nat, d * x <= a, a < d * (y + 1), y + 1 <= x
      PROVE  FALSE
  <2>1. (y + 1) * d <= x * d
    BY <1>2, ProductMonotone
  <2>2. (y + 1) * d = d * (y + 1) /\ x * d = d * x
        /\ d * (y + 1) \in Nat /\ d * x \in Nat
    BY ProductNat
  <2>. QED
    BY <1>2, <2>1, <2>2
<1>3. ~(q + 1 <= r) /\ ~(r + 1 <= q)
  BY <1>1, <1>2
<1>. QED
  BY <1>1, <1>3 DEF r

(* A multiple divides exactly. *)
LEMMA ExactQuotient ==
  ASSUME NEW a \in Nat, NEW d \in Nat \ {0}
  PROVE  (a * d) \div d = a
<1>1. a * d \in Nat /\ d * a = a * d /\ d * (a + 1) = a * d + d
  BY ProductNat
<1>. QED
  BY <1>1, DivUnique

(* A common factor cancels. *)
LEMMA CommonFactorCancels ==
  ASSUME NEW a \in Nat, NEW d \in Nat \ {0}, NEW c \in Nat \ {0}
  PROVE  (a * c) \div (d * c) = a \div d
<1>. DEFINE q == a \div d
<1>1. q \in Nat /\ d * q <= a /\ a < d * (q + 1)
  BY DivBounds
<1>. HIDE DEF q
<1>2. /\ d * q \in Nat /\ a * c \in Nat /\ d * (q + 1) \in Nat
      /\ d * c \in Nat /\ d * c # 0
  <2>1. 1 * c <= d * c
    BY ProductMonotone
  <2>. QED
    BY <1>1, <2>1, ProductNat
<1>3. (d * c) * q <= a * c
  <2>1. (d * q) * c <= a * c
    BY <1>1, <1>2, ProductMonotone
  <2>2. (d * q) * c = (d * c) * q
    BY <1>1
  <2>. QED
    BY <2>1, <2>2
<1>4. a * c < (d * c) * (q + 1)
  <2>1. (a + 1) * c <= (d * (q + 1)) * c
    BY <1>1, <1>2, ProductMonotone
  <2>2. (a + 1) * c = a * c + c
    OBVIOUS
  <2>3. (d * (q + 1)) * c = (d * c) * (q + 1)
    BY <1>1
  <2>4. (d * c) * (q + 1) \in Nat
    BY <1>1, <1>2, ProductNat
  <2>. QED
    BY <1>2, <2>1, <2>2, <2>3, <2>4
<1>. QED
  BY <1>1, <1>2, <1>3, <1>4, DivUnique DEF q


(* Q64 is a positive number. *)
LEMMA Q64Positive == Q64 \in Nat \ {0}
  BY MaxU64Assumption DEF Q64

(* A checked multiply-divide returns a natural number, 0 with an error. *)
LEMMA MulDivFloorType ==
  ASSUME NEW a \in Nat, NEW b \in Nat, NEW d \in Nat
  PROVE  MulDivFloor(a, b, d).value \in Nat
<1>1. CASE d = 0
  BY <1>1 DEF MulDivFloor, Err
<1>2. CASE d # 0
  <2>1. (a * b) \div d \in Nat
    BY <1>2, ProductNat, DivBounds
  <2>. QED
    BY <1>2, <2>1 DEF MulDivFloor, Ok, Err
<1>. QED
  BY <1>1, <1>2

(* Both amount conversions return natural numbers. *)
LEMMA ConversionType ==
  ASSUME NEW price \in Nat, NEW amount \in Nat
  PROVE  /\ MulAmountFloor(price, amount).value \in Nat
         /\ DivAmountFloor(price, amount).value \in Nat
<1>1. /\ MulDivFloor(amount, price, Q64).value \in Nat
      /\ MulDivFloor(amount, Q64, price).value \in Nat
  BY MulDivFloorType, Q64Positive
<1>. QED
  BY <1>1 DEF MulAmountFloor, DivAmountFloor, ToU64, Err

(* A checked multiply-divide that succeeds returns the floor.              *)
LEMMA MulDivFloorExact ==
  ASSUME NEW a \in Nat, NEW b \in Nat, NEW d \in Nat,
         MulDivFloor(a, b, d).error = NoError
  PROVE  LET q == MulDivFloor(a, b, d).value
         IN  /\ d # 0 /\ q \in Nat
             /\ d * q <= a * b
             /\ a * b < d * (q + 1)
<1>1. d # 0 /\ MulDivFloor(a, b, d).value = (a * b) \div d
  BY DEF MulDivFloor, Ok, Err, NoError
<1>2. a * b \in Nat
  BY ProductNat
<1>3. /\ (a * b) \div d \in Nat
      /\ d * ((a * b) \div d) <= a * b
      /\ a * b < d * (((a * b) \div d) + 1)
  BY <1>1, <1>2, DivBounds
<1>. QED
  BY <1>1, <1>3

(* So do both amount conversions.                                          *)
LEMMA ConversionExact ==
  ASSUME NEW price \in Nat, NEW amount \in Nat
  PROVE  /\ MulAmountFloor(price, amount).error = NoError =>
              LET out == MulAmountFloor(price, amount).value
              IN  out \in Nat /\ Q64 * out <= amount * price
         /\ DivAmountFloor(price, amount).error = NoError =>
              LET out == DivAmountFloor(price, amount).value
              IN  /\ out \in Nat /\ price # 0
                  /\ price * out <= amount * Q64
                  /\ amount * Q64 < price * (out + 1)
<1>1. ASSUME MulAmountFloor(price, amount).error = NoError
      PROVE  /\ MulDivFloor(amount, price, Q64).error = NoError
             /\ MulAmountFloor(price, amount).value
                  = MulDivFloor(amount, price, Q64).value
  BY <1>1 DEF MulAmountFloor, ToU64, Err, NoError
<1>2. ASSUME DivAmountFloor(price, amount).error = NoError
      PROVE  /\ MulDivFloor(amount, Q64, price).error = NoError
             /\ DivAmountFloor(price, amount).value
                  = MulDivFloor(amount, Q64, price).value
  BY <1>2 DEF DivAmountFloor, ToU64, Err, NoError
<1>3. ASSUME MulAmountFloor(price, amount).error = NoError
      PROVE  LET out == MulAmountFloor(price, amount).value
             IN  out \in Nat /\ Q64 * out <= amount * price
  BY <1>1, <1>3, Q64Positive, MulDivFloorExact
<1>4. ASSUME DivAmountFloor(price, amount).error = NoError
      PROVE  LET out == DivAmountFloor(price, amount).value
             IN  /\ out \in Nat /\ price # 0
                 /\ price * out <= amount * Q64
                 /\ amount * Q64 < price * (out + 1)
  BY <1>2, <1>4, Q64Positive, MulDivFloorExact
<1>. QED
  BY <1>3, <1>4

(* The errors a report amount can raise.                                   *)
LEMMA ReportErrors ==
  ASSUME NEW fairPrice \in Nat, NEW amountIn \in Nat, NEW lessFee, NEW out,
         NEW baseToQuote \in BOOLEAN
  PROVE  /\ FeeInQuoteAtoms(fairPrice, amountIn, lessFee, baseToQuote).error
              \in {NoError, "Overflow", "DivByZero"}
         /\ TakerEdge(fairPrice, amountIn, out, baseToQuote).error
              \in {NoError, "Overflow", "DivByZero"}
<1>1. ASSUME NEW price, NEW amount
      PROVE  /\ MulAmountFloor(price, amount).error
                  \in {NoError, "Overflow", "DivByZero"}
             /\ DivAmountFloor(price, amount).error
                  \in {NoError, "Overflow", "DivByZero"}
  <2>1. ASSUME NEW a, NEW b, NEW d
        PROVE  MulDivFloor(a, b, d).error \in {NoError, "Overflow", "DivByZero"}
    BY DEF MulDivFloor, Ok, Err
  <2>2. ASSUME NEW r, r.error \in {NoError, "Overflow", "DivByZero"}
        PROVE  ToU64(r).error \in {NoError, "Overflow", "DivByZero"}
    BY <2>2 DEF ToU64, Err
  <2>. QED
    BY <2>1, <2>2 DEF MulAmountFloor, DivAmountFloor
<1>2. FeeInQuoteAtoms(fairPrice, amountIn, lessFee, baseToQuote).error
        \in {NoError, "Overflow", "DivByZero"}
  BY <1>1 DEF FeeInQuoteAtoms, Ok
<1>3. TakerEdge(fairPrice, amountIn, out, baseToQuote).error
        \in {NoError, "Overflow", "DivByZero"}
  BY <1>1 DEF TakerEdge, FairOut, Ok
<1>. QED
  BY <1>2, <1>3

(* Division truncated toward zero keeps to its operand's sign. *)
LEMMA TruncDivType ==
  ASSUME NEW n \in Int, NEW d \in Nat \ {0}
  PROVE  TruncDiv(n, d) \in Int
<1>1. CASE n >= 0
  BY <1>1, DivBounds DEF TruncDiv
<1>2. CASE n < 0
  <2>1. -n \in Nat
    BY <1>2
  <2>. QED
    BY <1>2, <2>1, DivBounds DEF TruncDiv
<1>. QED
  BY <1>1, <1>2

-----------------------------------------------------------------------------
(* Induction.  A property is handed over as the set of the values that     *)
(* have it.                                                                *)

(* A set of natural numbers that has 0 and is closed under successor has   *)
(* them all.                                                               *)
LEMMA NumbersByInduction ==
  ASSUME NEW Good, 0 \in Good, \A n \in Nat : n \in Good => n + 1 \in Good
  PROVE  Nat \subseteq Good
<1>. DEFINE Bad == Nat \ Good
<1>. SUFFICES ASSUME Bad # {} PROVE FALSE
  OBVIOUS
<1>1. PICK least \in Bad : \A n \in Bad : <<n, least>> \notin OpToRel(<, Nat)
  BY NatLessThanWellFounded, WFMin
<1>2. \A n \in Bad : ~(n < least)
  BY <1>1 DEF OpToRel
<1>3. least - 1 \in Nat /\ least - 1 \notin Bad
  BY <1>2
<1>4. (least - 1) + 1 = least
  BY <1>3
<1>. QED
  BY <1>3, <1>4

(* A set of subsets of a finite set that has every subset all of whose     *)
(* proper subsets it has, has them all.                                    *)
LEMMA SubsetsByInduction ==
  ASSUME NEW S, IsFiniteSet(S), NEW Good,
         \A s \in SUBSET S :
           (\A t \in SUBSET s : t # s => t \in Good) => s \in Good
  PROVE  SUBSET S \subseteq Good
<1>. DEFINE Bad == (SUBSET S) \ Good
<1>. SUFFICES ASSUME Bad # {} PROVE FALSE
  OBVIOUS
<1>1. FiniteSubsetsOf(S) = SUBSET S
  BY FS_FiniteSubsetsOfFinite
<1>. DEFINE R == StrictSubsetOrdering(S)
<1>2. PICK least \in Bad : \A t \in Bad : <<t, least>> \notin R
  <2>1. IsWellFoundedOn(R, SUBSET S)
    <3>1. IsWellFoundedOn(StrictSubsetOrdering(S), FiniteSubsetsOf(S))
      BY FS_StrictSubsetOrderingWellFounded
    <3>. QED
      BY <1>1, <3>1, Zenon
  <2>2. Bad \subseteq SUBSET S
    OBVIOUS
  <2>. HIDE DEF R, Bad
  <2>. QED
    BY <2>1, <2>2, WFMin
<1>3. \A t \in SUBSET least : t # least => t \in Good
  BY <1>2 DEF StrictSubsetOrdering
<1>. QED
  BY <1>3

(* A set of natural numbers that is not empty has a least one.             *)
LEMMA LeastNumber ==
  ASSUME NEW S, S \subseteq Nat, S # {}
  PROVE  \E least \in S : \A n \in S : least <= n
<1>1. PICK least \in S : \A n \in S : <<n, least>> \notin OpToRel(<, Nat)
  BY NatLessThanWellFounded, WFMin
<1>2. \A n \in S : ~(n < least)
  BY <1>1 DEF OpToRel
<1>. QED
  BY <1>2

(* What a loop starts with and every turn keeps, it has throughout.        *)
LEMMA LoopStays ==
  ASSUME NEW N \in Nat, NEW D, NEW g, g[0] \in D,
         \A n \in 0 .. N - 1 : g[n] \in D => g[n + 1] \in D
  PROVE  \A n \in 0 .. N : g[n] \in D
<1>. DEFINE Good == {n \in Nat : n <= N => g[n] \in D}
<1>1. 0 \in Good /\ \A n \in Nat : n \in Good => n + 1 \in Good
  OBVIOUS
<1>2. Nat \subseteq Good
  <2>. HIDE DEF Good
  <2>. QED
    BY <1>1, NumbersByInduction
<1>. QED
  BY <1>2

(* g lists what a loop that starts from start has after 0 .. N turns of    *)
(* step.                                                                   *)
Iterates(g, N, start, step) ==
  \A n \in 0 .. N : g[n] = IF n = 0 THEN start ELSE step[g[n - 1]]

(* A step on a set can be iterated as often as one likes: the recursive    *)
(* functions that stand for the loops of the code are there.               *)
LEMMA IterationExists ==
  ASSUME NEW N \in Nat, NEW D, NEW start \in D, NEW step \in [D -> D]
  PROVE  \E g \in [0 .. N -> D] : Iterates(g, N, start, step)
<1>. DEFINE Upto(g, m) == \A n \in 0 .. m :
                            g[n] = IF n = 0 THEN start ELSE step[g[n - 1]]
            Good == {m \in Nat : m <= N => \E g \in [0 .. N -> D] : Upto(g, m)}
<1>1. 0 \in Good
  <2>. DEFINE g == [n \in 0 .. N |-> start]
  <2>1. g \in [0 .. N -> D] /\ Upto(g, 0)
    OBVIOUS
  <2>. QED
    BY <2>1
<1>2. ASSUME NEW m \in Nat, m \in Good PROVE m + 1 \in Good
  <2>. SUFFICES ASSUME m + 1 <= N
                PROVE  \E g \in [0 .. N -> D] : Upto(g, m + 1)
    OBVIOUS
  <2>1. PICK g \in [0 .. N -> D] : Upto(g, m)
    BY <1>2
  <2>. DEFINE h == [n \in 0 .. N |-> IF n = m + 1 THEN step[g[m]] ELSE g[n]]
  <2>2. h \in [0 .. N -> D]
    OBVIOUS
  <2>3. ASSUME NEW n \in 0 .. m + 1
        PROVE  h[n] = IF n = 0 THEN start ELSE step[h[n - 1]]
    <3>1. CASE n = m + 1
      <4>1. n \in 0 .. N /\ n - 1 = m /\ m \in 0 .. N /\ n # 0 /\ m # m + 1
        BY <3>1
      <4>. QED
        BY <3>1, <4>1
    <3>2. CASE n # m + 1
      <4>1. n \in 0 .. m /\ n \in 0 .. N
        BY <3>2
      <4>2. CASE n = 0
        BY <2>1, <3>2, <4>1, <4>2
      <4>3. CASE n # 0
        <5>1. n - 1 \in 0 .. N /\ n - 1 # m + 1
          BY <4>1, <4>3
        <5>. QED
          BY <2>1, <3>2, <4>1, <4>3, <5>1
      <4>. QED
        BY <4>2, <4>3
    <3>. QED
      BY <3>1, <3>2
  <2>4. Upto(h, m + 1)
    BY <2>3
  <2>. HIDE DEF h, Upto
  <2>. QED
    BY <2>2, <2>4
<1>3. Nat \subseteq Good
  <2>. HIDE DEF Good
  <2>. QED
    BY <1>1, <1>2, NumbersByInduction
<1>. QED
  BY <1>3 DEF Iterates

-----------------------------------------------------------------------------
(* Sums of a function over a finite set: FoldFunction(+, 0, f). *)

(* The element a fold takes out of a set next. *)
Pick(s) == CHOOSE x \in s : TRUE

(* g gives the sum of f over every subset of S, as a fold computes it. *)
Sums(g, f, S) ==
  g = [s \in SUBSET S |-> IF s = {} THEN 0
                          ELSE f[Pick(s)] + g[s \ {Pick(s)}]]

PartialSums(f, S) == CHOOSE g : Sums(g, f, S)

(* Pick chooses a member.                                                  *)
LEMMA Picked == ASSUME NEW s, s # {} PROVE Pick(s) \in s
  BY DEF Pick

(* Sums over the same subset of functions that agree there are the same.   *)
LEMMA SumsAgree ==
  ASSUME NEW g, NEW f, NEW S, Sums(g, f, S), NEW h, NEW e, NEW T, Sums(h, e, T),
         NEW R, R \subseteq S, R \subseteq T, IsFiniteSet(R),
         \A x \in R : f[x] = e[x]
  PROVE  \A r \in SUBSET R : g[r] = h[r]
<1>. DEFINE Good == {r \in SUBSET R : g[r] = h[r]}
<1>1. ASSUME NEW r \in SUBSET R, \A t \in SUBSET r : t # r => t \in Good
      PROVE  r \in Good
  <2>1. CASE r = {}
    <3>1. r \in SUBSET S /\ r \in SUBSET T
      OBVIOUS
    <3>2. g[r] = 0 /\ h[r] = 0
      BY <2>1, <3>1 DEF Sums
    <3>. QED
      BY <3>2
  <2>2. CASE r # {}
    <3>1. /\ Pick(r) \in r /\ r \ {Pick(r)} \in SUBSET r /\ r \ {Pick(r)} # r
      BY <2>2, Picked
    <3>2. g[r \ {Pick(r)}] = h[r \ {Pick(r)}] /\ f[Pick(r)] = e[Pick(r)]
      BY <1>1, <3>1
    <3>3. r \in SUBSET S /\ r \in SUBSET T
      OBVIOUS
    <3>4. g[r] = f[Pick(r)] + g[r \ {Pick(r)}]
      BY <2>2, <3>3 DEF Sums
    <3>5. h[r] = e[Pick(r)] + h[r \ {Pick(r)}]
      BY <2>2, <3>3 DEF Sums
    <3>. QED
      BY <3>2, <3>4, <3>5
  <2>. QED
    BY <2>1, <2>2
<1>2. SUBSET R \subseteq Good
  <2>. HIDE DEF Good
  <2>. QED
    BY <1>1, SubsetsByInduction
<1>. QED
  BY <1>2

(* The sums over all subsets exist. *)
LEMMA SumsExist ==
  ASSUME NEW f, NEW S, IsFiniteSet(S)
  PROVE  Sums(PartialSums(f, S), f, S)
<1>. DEFINE Good == {s \in SUBSET S : \E g : Sums(g, f, s)}
<1>1. ASSUME NEW s \in SUBSET S, \A t \in SUBSET s : t # s => t \in Good
      PROVE  s \in Good
  <2>. DEFINE G(t) == CHOOSE g : Sums(g, f, t)
              all == [t \in SUBSET s |->
                        IF t = {} THEN 0
                        ELSE IF t = s
                          THEN f[Pick(s)] + (IF s \ {Pick(s)} = {} THEN 0
                                 ELSE G(s \ {Pick(s)})[s \ {Pick(s)}])
                        ELSE G(t)[t]]
  <2>1. \A t \in SUBSET s : t # s => Sums(G(t), f, t)
    BY <1>1
  <2>2. IsFiniteSet(s)
    BY FS_Subset
  <2>. HIDE DEF G
  <2>3. ASSUME NEW t \in SUBSET s, t # {}
        PROVE  all[t] = f[Pick(t)] + all[t \ {Pick(t)}]
    <3>. DEFINE rest == t \ {Pick(t)}
    <3>1. Pick(t) \in t /\ rest \in SUBSET t /\ rest # t /\ rest # s
      BY <2>3, Picked
    <3>2. all[rest] = IF rest = {} THEN 0 ELSE G(rest)[rest]
      BY <3>1
    <3>3. CASE t = s
      BY <2>3, <3>2, <3>3
    <3>4. CASE t # s
      <4>1. Sums(G(t), f, t) /\ Sums(G(rest), f, rest)
        BY <2>1, <3>1, <3>4
      <4>2. G(t)[t] = f[Pick(t)] + G(t)[rest]
        BY <2>3, <4>1 DEF Sums
      <4>3. IsFiniteSet(rest)
        BY <2>2, <3>1, FS_Subset
      <4>4. G(t)[rest] = G(rest)[rest]
        BY <3>1, <4>1, <4>3, SumsAgree
      <4>5. rest = {} => G(rest)[rest] = 0
        BY <4>1 DEF Sums
      <4>6. all[t] = G(t)[t]
        BY <2>3, <3>4
      <4>. QED
        BY <3>2, <4>2, <4>4, <4>5, <4>6
    <3>. QED
      BY <3>3, <3>4
  <2>4. all[{}] = 0
    OBVIOUS
  <2>5. \A t \in SUBSET s :
          all[t] = IF t = {} THEN 0 ELSE f[Pick(t)] + all[t \ {Pick(t)}]
    BY <2>3, <2>4
  <2>6. \E g : g = all
    OBVIOUS
  <2>7. all = [t \in SUBSET s |-> all[t]]
    OBVIOUS
  <2>. HIDE DEF all
  <2>8. Sums(all, f, s)
    BY <2>5, <2>7 DEF Sums
  <2>. QED
    BY <2>8
<1>2. SUBSET S \subseteq Good
  <2>. HIDE DEF Good
  <2>. QED
    BY <1>1, SubsetsByInduction
<1>3. \E g : Sums(g, f, S)
  BY <1>2
<1>. QED
  BY <1>3 DEF PartialSums

TotalOf(f) == FoldFunction(+, 0, f)

(* What the fold of the community modules computes. *)
LEMMA FoldIsSum ==
  ASSUME NEW f
  PROVE  TotalOf(f) = PartialSums(f, DOMAIN f)[DOMAIN f]
  BY DEF TotalOf, FoldFunction, FoldFunctionOnSet, MapThenFoldSet, PartialSums, Sums, Pick

(* Sums of natural numbers are natural numbers. *)
LEMMA SumsNat ==
  ASSUME NEW S, IsFiniteSet(S), NEW f \in [S -> Nat]
  PROVE  \A s \in SUBSET S : PartialSums(f, S)[s] \in Nat
<1>. DEFINE g == PartialSums(f, S)
            Good == {s \in SUBSET S : g[s] \in Nat}
<1>1. Sums(g, f, S)
  BY SumsExist
<1>. HIDE DEF g
<1>2. ASSUME NEW s \in SUBSET S, \A t \in SUBSET s : t # s => t \in Good
      PROVE  s \in Good
  <2>1. CASE s = {}
    BY <1>1, <2>1 DEF Sums
  <2>2. CASE s # {}
    <3>1. /\ Pick(s) \in s /\ s \ {Pick(s)} \in SUBSET s /\ s \ {Pick(s)} # s
      BY <2>2, Picked
    <3>2. g[s \ {Pick(s)}] \in Nat /\ f[Pick(s)] \in Nat
      BY <1>2, <3>1
    <3>3. g[s] = f[Pick(s)] + g[s \ {Pick(s)}]
      BY <1>1, <2>2 DEF Sums
    <3>. QED
      BY <3>2, <3>3
  <2>. QED
    BY <2>1, <2>2
<1>3. SUBSET S \subseteq Good
  <2>. HIDE DEF Good
  <2>. QED
    BY <1>2, SubsetsByInduction
<1>. QED
  BY <1>3 DEF g

(* The order in which a fold takes the elements out does not matter.       *)
LEMMA SumsTakeOut ==
  ASSUME NEW S, IsFiniteSet(S), NEW f \in [S -> Nat]
  PROVE  \A s \in SUBSET S : \A a \in s :
           PartialSums(f, S)[s] = f[a] + PartialSums(f, S)[s \ {a}]
<1>. DEFINE g == PartialSums(f, S)
            Good == {s \in SUBSET S : \A a \in s : g[s] = f[a] + g[s \ {a}]}
<1>1. Sums(g, f, S) /\ \A s \in SUBSET S : g[s] \in Nat
  BY SumsExist, SumsNat
<1>. HIDE DEF g
<1>2. ASSUME NEW s \in SUBSET S, \A t \in SUBSET s : t # s => t \in Good
      PROVE  s \in Good
  <2>. SUFFICES ASSUME NEW a \in s PROVE g[s] = f[a] + g[s \ {a}]
    OBVIOUS
  <2>. DEFINE p == Pick(s)
  <2>1. p \in s
    BY Picked
  <2>2. g[s] = f[p] + g[s \ {p}]
    BY <1>1 DEF Sums
  <2>. HIDE DEF p
  <2>3. CASE p # a
    <3>1. /\ s \ {p} \in SUBSET s /\ s \ {p} # s /\ a \in s \ {p}
          /\ s \ {a} \in SUBSET s /\ s \ {a} # s /\ p \in s \ {a}
      BY <2>1, <2>3
    <3>2. /\ g[s \ {p}] = f[a] + g[(s \ {p}) \ {a}]
          /\ g[s \ {a}] = f[p] + g[(s \ {a}) \ {p}]
      BY <1>2, <3>1
    <3>. DEFINE both == g[(s \ {a}) \ {p}]
    <3>3. (s \ {p}) \ {a} = (s \ {a}) \ {p}
      OBVIOUS
    <3>4. g[s \ {p}] = f[a] + both /\ g[s \ {a}] = f[p] + both
      BY <3>2, <3>3, Zenon
    <3>5. f[a] \in Nat /\ f[p] \in Nat /\ both \in Nat
      BY <1>1, <2>1
    <3>. HIDE DEF both
    <3>. QED
      BY <2>2, <3>4, <3>5
  <2>4. CASE p = a
    BY <2>2, <2>4, Zenon
  <2>. QED
    BY <2>3, <2>4
<1>3. SUBSET S \subseteq Good
  <2>. HIDE DEF Good
  <2>. QED
    BY <1>2, SubsetsByInduction
<1>. QED
  BY <1>3 DEF g

(* The sum of a function is that of two of its values and of the rest.     *)
LEMMA SumOfPair ==
  ASSUME NEW S, IsFiniteSet(S), NEW f \in [S -> Nat],
         NEW a \in S, NEW b \in S, a # b
  PROVE  /\ TotalOf(f)
              = f[a] + (f[b] + PartialSums(f, S)[(S \ {a}) \ {b}])
         /\ PartialSums(f, S)[(S \ {a}) \ {b}] \in Nat
<1>1. TotalOf(f) = PartialSums(f, S)[S]
  BY FoldIsSum
<1>2. PartialSums(f, S)[S] = f[a] + PartialSums(f, S)[S \ {a}]
  BY SumsTakeOut
<1>3. PartialSums(f, S)[S \ {a}]
        = f[b] + PartialSums(f, S)[(S \ {a}) \ {b}]
  BY SumsTakeOut
<1>. QED
  BY <1>1, <1>2, <1>3, SumsNat

(* What one value loses and another gains leaves the sum as it was.        *)
LEMMA TransferKeepsSum ==
  ASSUME NEW S, IsFiniteSet(S), NEW f \in [S -> Nat], NEW h \in [S -> Nat],
         NEW a \in S, NEW b \in S, a # b, NEW d \in Nat,
         h[a] = f[a] - d, h[b] = f[b] + d,
         \A x \in S \ {a, b} : h[x] = f[x]
  PROVE  TotalOf(h) = TotalOf(f)
<1>. DEFINE R == (S \ {a}) \ {b}
<1>1. /\ TotalOf(f) = f[a] + (f[b] + PartialSums(f, S)[R])
      /\ PartialSums(f, S)[R] \in Nat
  BY SumOfPair
<1>2. TotalOf(h) = h[a] + (h[b] + PartialSums(h, S)[R])
  BY SumOfPair
<1>3. PartialSums(h, S)[R] = PartialSums(f, S)[R]
  <2>1. R \subseteq S /\ IsFiniteSet(R) /\ \A x \in R : h[x] = f[x]
    BY FS_Subset
  <2>. QED
    BY <2>1, SumsExist, SumsAgree
<1>. HIDE DEF R
<1>4. f[a] \in Nat /\ f[b] \in Nat
  OBVIOUS
<1>. QED
  BY <1>1, <1>2, <1>3, <1>4

(* An element that counts for nothing can be left out.                     *)
LEMMA SumWithoutZero ==
  ASSUME NEW S, IsFiniteSet(S), NEW f \in [S -> Nat], NEW a, a \notin S,
         NEW h \in [S \cup {a} -> Nat], h[a] = 0, \A x \in S : h[x] = f[x]
  PROVE  TotalOf(h) = TotalOf(f)
<1>. DEFINE T == S \cup {a}
<1>1. IsFiniteSet(T) /\ a \in T /\ T \ {a} = S /\ S \subseteq T
  BY FS_AddElement
<1>2. /\ TotalOf(f) = PartialSums(f, S)[S]
      /\ TotalOf(h) = PartialSums(h, T)[T]
  BY FoldIsSum
<1>3. /\ PartialSums(h, T)[T] = h[a] + PartialSums(h, T)[S]
      /\ PartialSums(h, T)[S] \in Nat
  <2>. HIDE DEF T
  <2>1. h \in [T -> Nat]
    BY DEF T
  <2>2. PartialSums(h, T)[T] = h[a] + PartialSums(h, T)[T \ {a}]
    BY <1>1, <2>1, SumsTakeOut
  <2>3. PartialSums(h, T)[S] \in Nat
    BY <1>1, <2>1, SumsNat
  <2>. QED
    BY <1>1, <2>2, <2>3
<1>4. PartialSums(h, T)[S] = PartialSums(f, S)[S]
  BY <1>1, SumsExist, SumsAgree
<1>. QED
  BY <1>2, <1>3, <1>4

(* A finite set of integers that is not empty has a greatest and a least   *)
(* member.                                                                 *)
LEMMA GreatestMember ==
  ASSUME NEW S, IsFiniteSet(S), S \subseteq Int, S # {}
  PROVE  \E m \in S : \A n \in S : n <= m
<1>. DEFINE Good == {s \in SUBSET S : s # {} => \E m \in s : \A n \in s : n <= m}
<1>1. ASSUME NEW s \in SUBSET S, \A t \in SUBSET s : t # s => t \in Good
      PROVE  s \in Good
  <2>. SUFFICES ASSUME NEW x \in s PROVE \E m \in s : \A n \in s : n <= m
    OBVIOUS
  <2>. DEFINE rest == s \ {x}
  <2>1. rest \in Good /\ s = rest \cup {x}
    <3>1. rest \in SUBSET s /\ rest # s /\ s = rest \cup {x}
      OBVIOUS
    <3>. HIDE DEF rest, Good
    <3>. QED
      BY <1>1, <3>1
  <2>2. CASE rest = {}
    BY <2>1, <2>2
  <2>3. CASE rest # {}
    <3>1. PICK m \in rest : \A n \in rest : n <= m
      BY <2>1, <2>3
    <3>2. CASE x <= m
      BY <2>1, <3>1, <3>2
    <3>3. CASE ~(x <= m)
      <4>1. \A n \in s : n \in Int /\ (n \in rest \/ n = x)
        BY <2>1
      <4>2. m \in Int /\ x \in Int
        BY <3>1
      <4>3. \A n \in s : n <= x
        BY <3>1, <3>3, <4>1, <4>2
      <4>. QED
        BY <4>3
    <3>. QED
      BY <3>2, <3>3
  <2>. QED
    BY <2>2, <2>3
<1>2. SUBSET S \subseteq Good
  <2>. HIDE DEF Good
  <2>. QED
    BY <1>1, SubsetsByInduction
<1>. QED
  BY <1>2

LEMMA LeastMember ==
  ASSUME NEW S, IsFiniteSet(S), S \subseteq Int, S # {}
  PROVE  \E m \in S : \A n \in S : m <= n
<1>. DEFINE Good == {s \in SUBSET S : s # {} => \E m \in s : \A n \in s : m <= n}
<1>1. ASSUME NEW s \in SUBSET S, \A t \in SUBSET s : t # s => t \in Good
      PROVE  s \in Good
  <2>. SUFFICES ASSUME NEW x \in s PROVE \E m \in s : \A n \in s : m <= n
    OBVIOUS
  <2>. DEFINE rest == s \ {x}
  <2>1. rest \in Good /\ s = rest \cup {x}
    <3>1. rest \in SUBSET s /\ rest # s /\ s = rest \cup {x}
      OBVIOUS
    <3>. HIDE DEF rest, Good
    <3>. QED
      BY <1>1, <3>1
  <2>2. CASE rest = {}
    BY <2>1, <2>2
  <2>3. CASE rest # {}
    <3>1. PICK m \in rest : \A n \in rest : m <= n
      BY <2>1, <2>3
    <3>2. CASE m <= x
      BY <2>1, <3>1, <3>2
    <3>3. CASE ~(m <= x)
      <4>1. \A n \in s : n \in Int /\ (n \in rest \/ n = x)
        BY <2>1
      <4>2. m \in Int /\ x \in Int
        BY <3>1
      <4>3. \A n \in s : x <= n
        BY <3>1, <3>3, <4>1, <4>2
      <4>. QED
        BY <4>3
    <3>. QED
      BY <3>2, <3>3
  <2>. QED
    BY <2>2, <2>3
<1>2. SUBSET S \subseteq Good
  <2>. HIDE DEF Good
  <2>. QED
    BY <1>1, SubsetsByInduction
<1>. QED
  BY <1>2

(* A finite family has finitely many values. *)
LEMMA FiniteRange ==
  ASSUME NEW f, IsFiniteSet(DOMAIN f), f \in [DOMAIN f -> Range(f)]
  PROVE  IsFiniteSet(Range(f))
<1>1. f \in Surjection(DOMAIN f, Range(f))
  BY DEF Surjection, Range
<1>. QED
  BY <1>1, FS_Surjection

-----------------------------------------------------------------------------
(* Bounds of sums and of means. *)

(* A sum of integers lies between as many of the least and of the greatest *)
(* as it has terms.                                                        *)
LEMMA SumsBetween ==
  ASSUME NEW S, IsFiniteSet(S), NEW f \in [S -> Int], NEW lo \in Int, NEW hi \in Int,
         \A x \in S : lo <= f[x] /\ f[x] <= hi
  PROVE  /\ TotalOf(f) \in Int
         /\ Cardinality(S) * lo <= TotalOf(f)
         /\ TotalOf(f) <= Cardinality(S) * hi
<1>. DEFINE g == PartialSums(f, S)
            Good == {s \in SUBSET S : /\ g[s] \in Int
                                      /\ Cardinality(s) * lo <= g[s]
                                      /\ g[s] <= Cardinality(s) * hi}
<1>1. Sums(g, f, S)
  BY SumsExist
<1>. HIDE DEF g
<1>2. ASSUME NEW s \in SUBSET S, \A t \in SUBSET s : t # s => t \in Good
      PROVE  s \in Good
  <2>1. CASE s = {}
    BY <1>1, <2>1, FS_EmptySet DEF Sums
  <2>2. CASE s # {}
    <3>. DEFINE x == Pick(s)
                rest == s \ {x}
                c == Cardinality(rest)
    <3>1. x \in s /\ rest \in SUBSET s /\ rest # s
      BY <2>2, Picked
    <3>2. rest \in Good
      BY <1>2, <3>1
    <3>3. g[s] = f[x] + g[rest]
      BY <1>1, <2>2 DEF Sums
    <3>4. c \in Nat /\ Cardinality(s) = c + 1
      <4>1. IsFiniteSet(s) /\ IsFiniteSet(rest)
        BY <3>1, FS_Subset
      <4>2. Cardinality(rest) = Cardinality(s) - 1
        BY <3>1, <4>1, FS_RemoveElement
      <4>. QED
        BY <4>1, <4>2, FS_CardinalityType
    <3>5. /\ f[x] \in Int /\ lo <= f[x] /\ f[x] <= hi
          /\ g[rest] \in Int /\ c * lo <= g[rest] /\ g[rest] <= c * hi
      BY <3>1, <3>2
    <3>. HIDE DEF x, rest, c
    <3>6. (c + 1) * lo = c * lo + lo /\ (c + 1) * hi = c * hi + hi
      BY <3>4
    <3>7. c * lo \in Int /\ c * hi \in Int
      BY <3>4
    <3>. QED
      BY <3>3, <3>4, <3>5, <3>6, <3>7
  <2>. QED
    BY <2>1, <2>2
<1>3. SUBSET S \subseteq Good
  <2>. HIDE DEF Good
  <2>. QED
    BY <1>2, SubsetsByInduction
<1>. QED
  BY <1>3, FoldIsSum DEF g

LEMMA SumIsInt ==
  ASSUME NEW S, IsFiniteSet(S), NEW f \in [S -> Int]
  PROVE  TotalOf(f) \in Int
<1>1. CASE S = {}
  <2>1. \A x \in S : 0 <= f[x] /\ f[x] <= 0
    BY <1>1
  <2>. QED
    BY <2>1, SumsBetween
<1>2. CASE S # {}
  <2>1. IsFiniteSet(Range(f)) /\ Range(f) \subseteq Int /\ Range(f) # {}
    BY <1>2, FiniteRange DEF Range
  <2>2. PICK lo \in Range(f) : \A n \in Range(f) : lo <= n
    BY <2>1, LeastMember
  <2>3. PICK hi \in Range(f) : \A n \in Range(f) : n <= hi
    BY <2>1, GreatestMember
  <2>4. lo \in Int /\ hi \in Int /\ \A x \in S : lo <= f[x] /\ f[x] <= hi
    BY <2>1, <2>2, <2>3 DEF Range
  <2>. QED
    BY <2>4, SumsBetween
<1>. QED
  BY <1>1, <1>2

(* The mean of natural numbers, rounded down, lies between them.           *)
LEMMA MeanBetween ==
  ASSUME NEW S, IsFiniteSet(S), S # {}, NEW f \in [S -> Nat]
  PROVE  LET mean == TotalOf(f) \div Cardinality(S)
         IN  /\ TotalOf(f) \in Nat
             /\ mean \in Nat
             /\ \E x \in S : f[x] <= mean
             /\ \E x \in S : mean <= f[x]
<1>. DEFINE n == Cardinality(S)
            total == TotalOf(f)
<1>1. n \in Nat \ {0}
  BY FS_CardinalityType, FS_EmptySet
<1>2. IsFiniteSet(Range(f)) /\ Range(f) \subseteq Int /\ Range(f) # {}
  BY FiniteRange DEF Range
<1>3. PICK lo \in S : \A x \in S : f[lo] <= f[x]
  BY <1>2, LeastMember DEF Range
<1>4. PICK hi \in S : \A x \in S : f[x] <= f[hi]
  BY <1>2, GreatestMember DEF Range
<1>5. f \in [S -> Int] /\ f[lo] \in Nat /\ f[hi] \in Nat
  OBVIOUS
<1>6. total \in Int /\ n * f[lo] <= total /\ total <= n * f[hi]
  BY <1>3, <1>4, <1>5, SumsBetween
<1>. HIDE DEF n, total
<1>7. n * f[lo] \in Nat /\ total \in Nat
  BY <1>1, <1>5, <1>6, ProductNat
<1>8. total \div n \in Nat /\ n * (total \div n) <= total
      /\ total < n * (total \div n + 1)
  BY <1>1, <1>7, DivBounds
<1>9. total \div n <= f[hi]
  BY <1>1, <1>5, <1>6, <1>7, DivAtMost
<1>10. f[lo] <= total \div n
  <2>1. (n * f[lo]) \div n = f[lo]
    BY <1>1, <1>5, ExactQuotient
  <2>2. (n * f[lo]) \div n <= total \div n
    BY <1>1, <1>6, <1>7, DivMonotone
  <2>. QED
    BY <2>1, <2>2
<1>. QED
  BY <1>7, <1>8, <1>9, <1>10 DEF n, total

=============================================================================
