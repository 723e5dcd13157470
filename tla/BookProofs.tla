----------------------------- MODULE BookProofs -----------------------------
(***************************************************************************)
(* The piecewise book, for every price table, policy and flow.  A side is  *)
(* read as a curve through its levels; the loop of a walk keeps the quote  *)
(* amount between what its atoms are worth at the price the walk began at  *)
(* and what they are worth at the price it has reached.  From that follow  *)
(* the price of one order against the next, and from the counts of the     *)
(* walk and of the refills that depth only moves across the book.          *)
(***************************************************************************)
EXTENDS PiecewiseBook, ArithmeticProofs

Usable(side) ==
  side \in Side /\ side.total >= SegmentCount /\ side.consumed <= side.total

(* The boundaries of the slices: they start at zero, end at the total and  *)
(* grow by at least one atom each.                                         *)
LEMMA SegmentBounds ==
  ASSUME NEW total \in Nat, total >= SegmentCount
  PROVE  /\ \A k \in Nat : SegmentStart(total, k) \in Nat
         /\ \A k \in Nat : SegmentEnd(total, k) = SegmentStart(total, k + 1)
         /\ SegmentStart(total, 0) = 0
         /\ SegmentStart(total, SegmentCount) = total
         /\ \A k, m \in Nat : k <= m => SegmentStart(total, k) <= SegmentStart(total, m)
         /\ \A k \in Nat : SegmentStart(total, k) < SegmentEnd(total, k)
<1>1. SegmentCount \in Nat \ {0}
  BY PiecewiseBookAssumption
<1>2. ASSUME NEW k \in Nat
      PROVE  SegmentStart(total, k) \in Nat /\ total * k \in Nat
  BY <1>1, ProductNat, DivBounds DEF SegmentStart
<1>3. SegmentStart(total, 0) = 0
  <2>1. total * 0 = 0 * SegmentCount
    BY <1>1
  <2>. QED
    BY <1>1, <2>1, ExactQuotient DEF SegmentStart
<1>4. SegmentStart(total, SegmentCount) = total
  BY <1>1, ExactQuotient DEF SegmentStart
<1>5. ASSUME NEW k \in Nat, NEW m \in Nat, k <= m
      PROVE  SegmentStart(total, k) <= SegmentStart(total, m)
  <2>1. total * k <= total * m
    <3>1. k * total <= m * total /\ k * total = total * k /\ m * total = total * m
      BY <1>5, ProductMonotone
    <3>. QED
      BY <3>1
  <2>. QED
    BY <1>1, <1>2, <2>1, DivMonotone DEF SegmentStart
<1>6. ASSUME NEW k \in Nat
      PROVE  SegmentStart(total, k) < SegmentEnd(total, k)
  <2>. DEFINE q == SegmentStart(total, k)
  <2>1. SegmentCount * q <= total * k /\ q \in Nat
    BY <1>1, <1>2, DivBounds DEF SegmentStart
  <2>. HIDE DEF q
  <2>2. (q + 1) * SegmentCount <= total * (k + 1)
    <3>1. (q + 1) * SegmentCount = SegmentCount * q + SegmentCount
          /\ total * (k + 1) = total * k + total
          /\ SegmentCount * q \in Nat
      BY <1>1, <2>1, ProductNat
    <3>. QED
      BY <1>1, <1>2, <2>1, <3>1
  <2>3. (q + 1) * SegmentCount \in Nat /\ total * (k + 1) \in Nat
    BY <1>1, <2>1, ProductNat
  <2>4. ((q + 1) * SegmentCount) \div SegmentCount
          <= (total * (k + 1)) \div SegmentCount
    BY <1>1, <2>2, <2>3, DivMonotone
  <2>5. ((q + 1) * SegmentCount) \div SegmentCount = q + 1
    BY <1>1, <2>1, ExactQuotient
  <2>6. (total * (k + 1)) \div SegmentCount \in Nat
    BY <1>1, <2>3, DivBounds
  <2>. QED
    BY <2>1, <2>4, <2>5, <2>6 DEF SegmentEnd, SegmentStart, q
<1>. QED
  BY <1>2, <1>3, <1>4, <1>5, <1>6 DEF SegmentEnd

(* The current slice is the one the consumed quantity lies in.             *)
LEMMA SegmentIs ==
  ASSUME NEW side, Usable(side), NEW s \in Segments,
         SegmentStart(side.total, s) <= side.consumed,
         side.consumed < SegmentEnd(side.total, s)
  PROVE  SegmentFromConsumed(side) = s
<1>1. SegmentCount \in Nat \ {0} /\ side.total \in Nat /\ side.consumed \in Nat
      /\ side.total >= SegmentCount
  BY PiecewiseBookAssumption, MaxU64Assumption DEF Usable, Side, U64
<1>2. /\ \A k \in Nat : SegmentStart(side.total, k) \in Nat
      /\ \A k \in Nat : SegmentEnd(side.total, k) = SegmentStart(side.total, k + 1)
      /\ SegmentStart(side.total, 0) = 0
      /\ SegmentStart(side.total, SegmentCount) = side.total
      /\ \A k, m \in Nat : k <= m =>
           SegmentStart(side.total, k) <= SegmentStart(side.total, m)
  BY <1>1, SegmentBounds
<1>3. \A k \in Segments : k \in Nat /\ k + 1 \in Nat /\ k + 1 <= SegmentCount
  BY <1>1 DEF Segments
<1>4. ASSUME NEW t \in Segments, side.consumed < SegmentEnd(side.total, t)
      PROVE  s <= t
  <2>1. SUFFICES ASSUME t + 1 <= s PROVE FALSE
    BY <1>1 DEF Segments
  <2>2. SegmentEnd(side.total, t) <= SegmentStart(side.total, s)
    BY <1>2, <1>3, <2>1
  <2>3. /\ SegmentEnd(side.total, t) \in Nat
        /\ SegmentStart(side.total, s) \in Nat
    BY <1>2, <1>3
  <2>. QED
    BY <1>1, <1>4, <2>2, <2>3
<1>. DEFINE P(x) == /\ side.consumed < SegmentEnd(side.total, x)
                    /\ \A t \in Segments :
                         side.consumed < SegmentEnd(side.total, t) => x <= t
<1>5. P(s)
  BY <1>4
<1>6. ASSUME NEW x \in Segments, P(x) PROVE x = s
  <2>1. x <= s /\ s <= x
    BY <1>5, <1>6
  <2>. QED
    BY <1>1, <2>1 DEF Segments
<1>7. SegmentFromConsumed(side) \in Segments /\ P(SegmentFromConsumed(side))
  BY <1>5 DEF SegmentFromConsumed
<1>. QED
  BY <1>6, <1>7

(* A side with quantity left has a current slice, with quantity left.      *)
LEMMA SegmentFound ==
  ASSUME NEW side, Usable(side), side.consumed < side.total
  PROVE  LET s == SegmentFromConsumed(side)
         IN  /\ s \in Segments
             /\ SegmentStart(side.total, s) \in Nat
             /\ SegmentEnd(side.total, s) \in Nat
             /\ SegmentStart(side.total, s) <= side.consumed
             /\ side.consumed < SegmentEnd(side.total, s)
             /\ SegmentEnd(side.total, s) <= side.total
<1>1. SegmentCount \in Nat \ {0} /\ side.total \in Nat /\ side.consumed \in Nat
      /\ side.total >= SegmentCount
  BY PiecewiseBookAssumption, MaxU64Assumption DEF Usable, Side, U64
<1>2. /\ \A k \in Nat : SegmentStart(side.total, k) \in Nat
      /\ \A k \in Nat : SegmentEnd(side.total, k) = SegmentStart(side.total, k + 1)
      /\ SegmentStart(side.total, 0) = 0
      /\ SegmentStart(side.total, SegmentCount) = side.total
      /\ \A k, m \in Nat : k <= m =>
           SegmentStart(side.total, k) <= SegmentStart(side.total, m)
  BY <1>1, SegmentBounds
<1>. DEFINE S == {k \in Nat : side.consumed < SegmentEnd(side.total, k)}
<1>3. SegmentCount - 1 \in S
  <2>1. SegmentCount - 1 \in Nat /\ (SegmentCount - 1) + 1 = SegmentCount
    BY <1>1
  <2>2. SegmentEnd(side.total, SegmentCount - 1) = side.total
    BY <1>2, <2>1
  <2>. QED
    BY <2>1, <2>2
<1>4. PICK s \in S : \A n \in S : s <= n
  <2>1. S # {} /\ S \subseteq Nat
    BY <1>3
  <2>. HIDE DEF S
  <2>. QED
    BY <2>1, LeastNumber
<1>5. s \in Segments /\ s \in Nat /\ side.consumed < SegmentEnd(side.total, s)
  BY <1>1, <1>3, <1>4 DEF Segments
<1>6. SegmentStart(side.total, s) <= side.consumed
  <2>1. CASE s = 0
    BY <1>1, <1>2, <2>1
  <2>2. CASE s # 0
    <3>1. s - 1 \in Nat /\ ~(s <= s - 1)
      BY <1>5, <2>2
    <3>2. s - 1 \notin S
      BY <1>4, <3>1
    <3>3. /\ SegmentEnd(side.total, s - 1) = SegmentStart(side.total, s)
          /\ SegmentStart(side.total, s) \in Nat
      <4>1. (s - 1) + 1 = s
        BY <1>5
      <4>. QED
        BY <1>5, <1>2, <3>1, <4>1
    <3>. QED
      BY <1>1, <3>1, <3>2, <3>3
  <2>. QED
    BY <2>1, <2>2
<1>7. SegmentFromConsumed(side) = s
  BY <1>5, <1>6, SegmentIs
<1>8. /\ SegmentEnd(side.total, s) <= side.total
      /\ SegmentStart(side.total, s) \in Nat
      /\ SegmentEnd(side.total, s) \in Nat
  <2>1. s + 1 \in Nat /\ s + 1 <= SegmentCount
    BY <1>1, <1>5 DEF Segments
  <2>. QED
    BY <1>1, <1>2, <1>5, <2>1
<1>. QED
  BY <1>5, <1>6, <1>7, <1>8

-----------------------------------------------------------------------------
(* The price curve of a side, as its levels at the boundaries of the       *)
(* slices, best first.                                                     *)

Levels == [0 .. SegmentCount -> Nat]

Rising(levels)  == \A k \in Segments : levels[k] <= levels[k + 1]
Falling(levels) == \A k \in Segments : levels[k] >= levels[k + 1]

Curve(levels, side, segment, offset) ==
  InterpolatePrice(levels[segment], levels[segment + 1], offset,
                   SegmentQuantity(side, segment))

(* The price of the next atom. *)
PriceNow(levels, side) ==
  IF side.consumed = side.total THEN levels[SegmentCount]
  ELSE LET segment == SegmentFromConsumed(side)
       IN  Curve(levels, side, segment,
                 side.consumed - SegmentStart(side.total, segment))

(* Interpolation runs from one price to the other and never turns back.    *)
LEMMA Interpolates ==
  ASSUME NEW start \in Nat, NEW end \in Nat, NEW q \in Nat \ {0},
         NEW o \in 0 .. q, NEW p \in 0 .. q, o <= p
  PROVE  LET At(x) == InterpolatePrice(start, end, x, q)
         IN  /\ At(0) = start /\ At(q) = end
             /\ At(o) \in Nat /\ At(p) \in Nat
             /\ start <= end => At(o) <= At(p)
             /\ start >= end => At(o) >= At(p)
<1>. DEFINE At(x) == InterpolatePrice(start, end, x, q)
            gap == AbsInt(end - start)
            Moved(x) == (gap * x) \div q
<1>1. /\ gap \in Nat
      /\ start <= end => gap = end - start
      /\ ~(start <= end) => gap = start - end
  BY DEF AbsInt
<1>2. \A x : At(x) = IF start <= end THEN start + Moved(x) ELSE start - Moved(x)
  BY DEF InterpolatePrice
<1>. HIDE DEF gap, At
<1>3. Moved(0) = 0
  <2>1. gap * 0 = 0 * q
    BY <1>1
  <2>. QED
    BY <2>1, ExactQuotient
<1>4. Moved(q) = gap
  BY <1>1, ExactQuotient
<1>5. Moved(o) \in Nat /\ Moved(p) \in Nat /\ Moved(o) <= Moved(p) /\ Moved(p) <= gap
  <2>1. o * gap <= p * gap /\ p * gap <= q * gap
    BY <1>1, ProductMonotone
  <2>2. /\ o * gap = gap * o /\ p * gap = gap * p /\ q * gap = gap * q
        /\ gap * o \in Nat /\ gap * p \in Nat /\ gap * q \in Nat
    BY <1>1, ProductNat
  <2>3. (gap * o) \div q <= (gap * p) \div q
    BY <2>1, <2>2, DivMonotone
  <2>4. (gap * p) \div q <= (gap * q) \div q
    BY <2>1, <2>2, DivMonotone
  <2>5. (gap * o) \div q \in Nat /\ (gap * p) \div q \in Nat
    BY <2>2, DivBounds
  <2>. QED
    BY <1>4, <2>3, <2>4, <2>5
<1>. HIDE DEF Moved
<1>. QED
  BY <1>1, <1>2, <1>3, <1>4, <1>5 DEF At

(* A quantity taken from the current slice moves the price along it, also  *)
(* over its end into the next one, and in the direction of the levels.     *)
LEMMA TakeMoves ==
  ASSUME NEW levels \in Levels, NEW side, Usable(side), side.consumed < side.total,
         NEW take \in 0 .. SegmentEnd(side.total, SegmentFromConsumed(side))
                            - side.consumed
  PROVE  LET s       == SegmentFromConsumed(side)
             offset  == side.consumed - SegmentStart(side.total, s)
             before  == Curve(levels, side, s, offset)
             after   == Curve(levels, side, s, offset + take)
             new     == [side EXCEPT !.consumed = @ + take]
         IN  /\ Usable(new) /\ new.total = side.total
             /\ new.consumed = side.consumed + take
             /\ before \in Nat /\ after \in Nat
             /\ before = PriceNow(levels, side)
             /\ after = PriceNow(levels, new)
             /\ Rising(levels) => before <= after
             /\ Falling(levels) => before >= after
<1>. DEFINE s       == SegmentFromConsumed(side)
            total   == side.total
            c       == side.consumed
            start   == SegmentStart(total, s)
            offset  == c - start
            q       == SegmentQuantity(side, s)
            before  == Curve(levels, side, s, offset)
            after   == Curve(levels, side, s, offset + take)
            new     == [side EXCEPT !.consumed = @ + take]
<1>1. /\ SegmentCount \in Nat \ {0} /\ side \in Side
      /\ total \in Nat /\ c \in Nat /\ total \in U64 /\ total >= SegmentCount
      /\ MaxU64 \in Nat
  BY PiecewiseBookAssumption, MaxU64Assumption DEF Usable, Side, U64
<1>2. /\ s \in Segments /\ start \in Nat /\ SegmentEnd(total, s) \in Nat
      /\ start <= c /\ c < SegmentEnd(total, s) /\ SegmentEnd(total, s) <= total
  BY SegmentFound
<1>3. s \in Nat /\ s + 1 \in Nat /\ s \in 0 .. SegmentCount /\ s + 1 \in 0 .. SegmentCount
  BY <1>1, <1>2 DEF Segments
<1>4. q = SegmentEnd(total, s) - start
  BY DEF SegmentQuantity
<1>. HIDE DEF s, start, q
<1>5. /\ Usable(new) /\ new.total = total /\ new.consumed = c + take
      /\ c + take <= SegmentEnd(total, s)
  BY <1>1, <1>2 DEF Usable, Side, U64, s
<1>6. /\ q \in Nat \ {0} /\ offset \in 0 .. q /\ offset + take \in 0 .. q
      /\ offset <= offset + take
  BY <1>1, <1>2, <1>4 DEF s
<1>7. levels[s] \in Nat /\ levels[s + 1] \in Nat
  BY <1>3 DEF Levels
<1>8. /\ before \in Nat /\ after \in Nat
      /\ levels[s] <= levels[s + 1] => before <= after
      /\ levels[s] >= levels[s + 1] => before >= after
  BY <1>6, <1>7, Interpolates DEF Curve, q
<1>9. before = PriceNow(levels, side)
  BY <1>1 DEF PriceNow, s, start
<1>10. after = PriceNow(levels, new)
  <2>1. CASE c + take < SegmentEnd(total, s)
    <3>1. SegmentFromConsumed(new) = s
      <4>1. /\ SegmentStart(new.total, s) <= new.consumed
            /\ new.consumed < SegmentEnd(new.total, s)
        BY <1>1, <1>2, <1>5, <2>1 DEF start
      <4>. HIDE DEF new
      <4>. QED
        BY <1>2, <1>5, <4>1, SegmentIs
    <3>2. new.consumed # new.total
      BY <1>1, <1>2, <1>5, <2>1
    <3>3. (c + take) - start = offset + take
      BY <1>1, <1>2
    <3>. QED
      BY <1>5, <3>1, <3>2, <3>3 DEF PriceNow, Curve, SegmentQuantity, start
  <2>2. CASE c + take = SegmentEnd(total, s)
    <3>1. offset + take = q
      BY <1>1, <1>2, <1>4, <2>2
    <3>2. after = levels[s + 1]
      <4>1. q \in 0 .. q /\ q <= q
        BY <1>6
      <4>2. InterpolatePrice(levels[s], levels[s + 1], q, q) = levels[s + 1]
        BY <1>6, <1>7, <4>1, Interpolates
      <4>. QED
        BY <3>1, <4>2 DEF Curve, q
    <3>3. CASE s + 1 = SegmentCount
      <4>1. SegmentEnd(total, s) = total
        BY <1>1, <1>3, <3>3, SegmentBounds
      <4>. QED
        BY <1>5, <2>2, <3>2, <3>3, <4>1 DEF PriceNow
    <3>4. CASE s + 1 # SegmentCount
      <4>1. s + 1 \in Segments /\ (s + 1) + 1 \in 0 .. SegmentCount /\ (s + 1) + 1 \in Nat
        BY <1>1, <1>3, <3>4 DEF Segments
      <4>2. /\ SegmentStart(total, s + 1) = c + take
            /\ SegmentStart(total, s + 1) < SegmentEnd(total, s + 1)
            /\ SegmentEnd(total, s + 1) <= total
            /\ SegmentEnd(total, s + 1) \in Nat
        <5>1. /\ \A k \in Nat : SegmentStart(total, k) \in Nat
              /\ \A k \in Nat : SegmentEnd(total, k) = SegmentStart(total, k + 1)
              /\ SegmentStart(total, SegmentCount) = total
              /\ \A k, m \in Nat : k <= m =>
                   SegmentStart(total, k) <= SegmentStart(total, m)
              /\ \A k \in Nat : SegmentStart(total, k) < SegmentEnd(total, k)
          BY <1>1, SegmentBounds
        <5>2. (s + 1) + 1 <= SegmentCount
          BY <1>1, <4>1
        <5>. QED
          BY <1>1, <1>3, <2>2, <4>1, <5>1, <5>2
      <4>3. SegmentFromConsumed(new) = s + 1
        <5>1. /\ SegmentStart(new.total, s + 1) <= new.consumed
              /\ new.consumed < SegmentEnd(new.total, s + 1)
          BY <1>1, <1>5, <4>2
        <5>. HIDE DEF new
        <5>. QED
          BY <1>5, <4>1, <5>1, SegmentIs
      <4>4. new.consumed # new.total /\ new.consumed - SegmentStart(total, s + 1) = 0
        BY <1>1, <1>5, <4>2
      <4>5. /\ SegmentQuantity(new, s + 1) \in Nat \ {0}
            /\ levels[(s + 1) + 1] \in Nat
        BY <1>1, <1>5, <4>1, <4>2 DEF SegmentQuantity, Levels
      <4>6. Curve(levels, new, s + 1, 0) = levels[s + 1]
        BY <1>7, <4>5, Interpolates DEF Curve
      <4>. QED
        BY <1>5, <3>2, <4>3, <4>4, <4>6 DEF PriceNow
    <3>. QED
      BY <3>3, <3>4
  <2>. QED
    BY <1>1, <1>2, <1>5, <2>1, <2>2
<1>11. /\ Rising(levels) => levels[s] <= levels[s + 1]
       /\ Falling(levels) => levels[s] >= levels[s + 1]
  BY <1>2 DEF Rising, Falling
<1>. QED
  BY <1>5, <1>8, <1>9, <1>10, <1>11 DEF s, start

(* What a slice is worth: the mean of its two prices, floored, over its    *)
(* quantity, floored again.                                                *)
LEMMA LinearPriced ==
  ASSUME NEW p \in Nat, NEW r \in Nat, NEW low \in Nat, NEW high \in Nat,
         low <= p, low <= r, p <= high, r <= high, NEW quantity \in Nat
  PROVE  LET a == LinearQuoteAmount(p, r, quantity)
         IN  /\ a.error \in {NoError, "Overflow", "DivByZero"}
             /\ a.value \in Nat
             /\ a.error = NoError =>
                  /\ Q64 * a.value <= high * quantity
                  /\ low * quantity <= Q64 * (a.value + 1)
             /\ a.value # 0 => a.error = NoError
<1>. DEFINE a    == LinearQuoteAmount(p, r, quantity)
            mean == (p + r) \div 2
<1>1. mean \in Nat /\ low <= mean /\ mean <= high
  OBVIOUS
<1>. HIDE DEF mean
<1>2. Q64 \in Nat \ {0}
  BY Q64Positive
<1>3. CASE quantity = 0
  <2>1. a = Ok(0)
    BY <1>3 DEF LinearQuoteAmount
  <2>2. Q64 * 0 = 0 /\ high * quantity = 0 /\ low * quantity = 0 /\ Q64 * (0 + 1) \in Nat
    BY <1>2, <1>3
  <2>. QED
    BY <2>1, <2>2 DEF Ok, NoError
<1>4. CASE quantity # 0 /\ p + r > MaxU128
  BY <1>4 DEF LinearQuoteAmount, Err, NoError
<1>5. CASE quantity # 0 /\ ~(p + r > MaxU128)
  <2>1. a = MulAmountFloor(mean, quantity)
    BY <1>5 DEF LinearQuoteAmount, mean
  <2>. DEFINE m == MulDivFloor(quantity, mean, Q64)
  <2>2. m.error \in {NoError, "Overflow", "DivByZero"}
    BY DEF MulDivFloor, Ok, Err
  <2>3. a.error \in {NoError, "Overflow", "DivByZero"} /\ a.value \in Nat
    BY <1>1, <2>1, <2>2, ConversionType DEF MulAmountFloor, ToU64, Err
  <2>4. ASSUME a.error = NoError
        PROVE  Q64 * a.value <= high * quantity /\ low * quantity <= Q64 * (a.value + 1)
    <3>1. a = m /\ m.error = NoError
      BY <2>1, <2>4 DEF MulAmountFloor, ToU64, Err, NoError
    <3>2. Q64 * a.value <= quantity * mean /\ quantity * mean < Q64 * (a.value + 1)
      BY <1>1, <1>2, <3>1, MulDivFloorExact
    <3>3. low * quantity <= mean * quantity /\ mean * quantity <= high * quantity
      BY <1>1, ProductMonotone
    <3>4. /\ mean * quantity = quantity * mean
          /\ quantity * mean \in Nat /\ low * quantity \in Nat /\ high * quantity \in Nat
          /\ Q64 * a.value \in Nat /\ Q64 * (a.value + 1) \in Nat
      BY <1>1, <1>2, <2>3, ProductNat
    <3>. HIDE DEF a
    <3>. QED
      BY <3>2, <3>3, <3>4
  <2>5. a.value # 0 => a.error = NoError
    <3>1. m.error # NoError => m.value = 0
      BY DEF MulDivFloor, Ok, Err, NoError
    <3>. HIDE DEF m
    <3>2. a = ToU64(m)
      BY <2>1 DEF MulAmountFloor, m
    <3>. QED
      BY <3>1, <3>2 DEF ToU64, Err, NoError
  <2>. QED
    BY <2>3, <2>4, <2>5
<1>. QED
  BY <1>3, <1>4, <1>5

-----------------------------------------------------------------------------
(* The two sides as curves: asks rise with depth and bids fall.            *)

AskLevels == [k \in 0 .. SegmentCount |-> AskPrices[k + 1]]
BidLevels == [k \in 0 .. SegmentCount |-> BidPrices[SegmentCount + 1 - k]]

(* Asks are read up their table and bids down theirs; a valid table makes  *)
(* a curve that gets worse with depth.                                     *)
LEMMA SidesAreCurves ==
  /\ AskLevels \in Levels /\ BidLevels \in Levels
  /\ \A side, offset : \A s \in Segments :
       /\ AskPriceAt(side, s, offset) = Curve(AskLevels, side, s, offset)
       /\ BidPriceAt(side, s, offset) = Curve(BidLevels, side, s, offset)
  /\ (\E side : ValidSide(AskPrices, side)) => Rising(AskLevels)
  /\ (\E side : ValidSide(BidPrices, side)) => Falling(BidLevels)
<1>1. /\ SegmentCount \in Nat \ {0}
      /\ \A i \in 1 .. SegmentCount + 1 : AskPrices[i] \in Nat /\ BidPrices[i] \in Nat
  BY PiecewiseBookAssumption
<1>2. AskLevels \in Levels /\ BidLevels \in Levels
  <2>1. \A k \in 0 .. SegmentCount :
          k + 1 \in 1 .. SegmentCount + 1 /\ SegmentCount + 1 - k \in 1 .. SegmentCount + 1
    BY <1>1
  <2>. QED
    BY <1>1, <2>1 DEF AskLevels, BidLevels, Levels
<1>3. ASSUME NEW s \in Segments
      PROVE  /\ AskLevels[s] = AskPrices[s + 1] /\ AskLevels[s + 1] = AskPrices[s + 2]
             /\ BidLevels[s] = BidPrices[SegmentCount + 1 - s]
             /\ BidLevels[s + 1] = BidPrices[SegmentCount - s]
             /\ s + 2 \in 2 .. SegmentCount + 1
             /\ SegmentCount + 1 - s \in 2 .. SegmentCount + 1
  <2>1. /\ s \in 0 .. SegmentCount /\ s + 1 \in 0 .. SegmentCount
        /\ (s + 1) + 1 = s + 2 /\ SegmentCount + 1 - (s + 1) = SegmentCount - s
        /\ s + 2 \in 2 .. SegmentCount + 1
        /\ SegmentCount + 1 - s \in 2 .. SegmentCount + 1
    BY <1>1 DEF Segments
  <2>. QED
    BY <2>1 DEF AskLevels, BidLevels
<1>4. ASSUME NEW side, NEW offset, NEW s \in Segments
      PROVE  /\ AskPriceAt(side, s, offset) = Curve(AskLevels, side, s, offset)
             /\ BidPriceAt(side, s, offset) = Curve(BidLevels, side, s, offset)
  <2>1. /\ SegmentCount - 1 - s + 2 = SegmentCount + 1 - s
        /\ SegmentCount - 1 - s + 1 = SegmentCount - s
    BY <1>1 DEF Segments
  <2>. QED
    BY <1>3, <2>1 DEF AskPriceAt, BidPriceAt, Curve
<1>5. ASSUME NEW side, ValidSide(AskPrices, side) PROVE Rising(AskLevels)
  <2>1. ASSUME NEW s \in Segments PROVE AskLevels[s] <= AskLevels[s + 1]
    <3>1. AskPrices[s + 2] > AskPrices[(s + 2) - 1]
      BY <1>3, <1>5 DEF ValidSide
    <3>2. (s + 2) - 1 = s + 1 /\ s + 1 \in 1 .. SegmentCount + 1
          /\ s + 2 \in 1 .. SegmentCount + 1
      BY <1>1 DEF Segments
    <3>. QED
      BY <1>1, <1>3, <3>1, <3>2
  <2>. QED
    BY <2>1 DEF Rising
<1>6. ASSUME NEW side, ValidSide(BidPrices, side) PROVE Falling(BidLevels)
  <2>1. ASSUME NEW s \in Segments PROVE BidLevels[s] >= BidLevels[s + 1]
    <3>1. BidPrices[SegmentCount + 1 - s] > BidPrices[(SegmentCount + 1 - s) - 1]
      BY <1>3, <1>6 DEF ValidSide
    <3>2. (SegmentCount + 1 - s) - 1 = SegmentCount - s
          /\ SegmentCount - s \in 1 .. SegmentCount + 1
          /\ SegmentCount + 1 - s \in 1 .. SegmentCount + 1
      BY <1>1 DEF Segments
    <3>. QED
      BY <1>1, <1>3, <3>1, <3>2
  <2>. QED
    BY <2>1 DEF Falling
<1>. QED
  BY <1>2, <1>4, <1>5, <1>6

(* The price of the next atom is a price, and a worse one deeper down.     *)
LEMMA PriceNowType ==
  ASSUME NEW levels \in Levels, NEW side, Usable(side)
  PROVE  PriceNow(levels, side) \in Nat
<1>1. side.total \in Nat /\ side.consumed \in Nat /\ side.consumed <= side.total
  BY MaxU64Assumption DEF Usable, Side, U64
<1>2. CASE side.consumed = side.total
  BY <1>2, PiecewiseBookAssumption DEF PriceNow, Levels
<1>3. CASE side.consumed < side.total
  <2>1. 0 \in 0 .. SegmentEnd(side.total, SegmentFromConsumed(side)) - side.consumed
    BY <1>1, <1>3, SegmentFound
  <2>. QED
    BY <1>3, <2>1, TakeMoves
<1>. QED
  BY <1>1, <1>2, <1>3

(* Two slices in a row, bounded from above and from below.                 *)
LEMMA BoundsAdd ==
  ASSUME NEW out \in Nat, NEW v \in Nat, NEW sold \in Nat, NEW take \in Nat,
         NEW crossed \in Nat, NEW q \in Nat,
         NEW high \in Nat, NEW h1 \in Nat, NEW h2 \in Nat, h1 <= high, h2 <= high,
         NEW low \in Nat, NEW l1 \in Nat, NEW l2 \in Nat, low <= l1, low <= l2,
         q * out <= h1 * sold, q * v <= h2 * take,
         l1 * sold <= q * (out + crossed), l2 * take <= q * (v + 1)
  PROVE  /\ q * (out + v) <= high * (sold + take)
         /\ low * (sold + take) <= q * ((out + v) + (crossed + 1))
<1>1. /\ h1 * sold <= high * sold /\ h2 * take <= high * take
      /\ low * sold <= l1 * sold /\ low * take <= l2 * take
  BY ProductMonotone
<1>2. /\ q * (out + v) = q * out + q * v
      /\ high * (sold + take) = high * sold + high * take
      /\ low * (sold + take) = low * sold + low * take
      /\ q * ((out + v) + (crossed + 1)) = q * (out + crossed) + q * (v + 1)
  OBVIOUS
<1>3. /\ q * out \in Nat /\ q * v \in Nat /\ high * sold \in Nat /\ high * take \in Nat
      /\ low * sold \in Nat /\ low * take \in Nat
      /\ q * (out + crossed) \in Nat /\ q * (v + 1) \in Nat
      /\ h1 * sold \in Nat /\ h2 * take \in Nat /\ l1 * sold \in Nat /\ l2 * take \in Nat
  BY ProductNat
<1>. DEFINE a1 == q * out
            a2 == q * v
            b1 == h1 * sold
            b2 == h2 * take
            c1 == high * sold
            c2 == high * take
            d1 == low * sold
            d2 == low * take
            e1 == l1 * sold
            e2 == l2 * take
            f1 == q * (out + crossed)
            f2 == q * (v + 1)
<1>4. a1 <= b1 /\ a2 <= b2 /\ b1 <= c1 /\ b2 <= c2
      /\ d1 <= e1 /\ d2 <= e2 /\ e1 <= f1 /\ e2 <= f2
  BY <1>1
<1>5. a1 \in Nat /\ a2 \in Nat /\ b1 \in Nat /\ b2 \in Nat /\ c1 \in Nat /\ c2 \in Nat
      /\ d1 \in Nat /\ d2 \in Nat /\ e1 \in Nat /\ e2 \in Nat /\ f1 \in Nat /\ f2 \in Nat
  BY <1>3
<1>6. a1 + a2 <= c1 + c2 /\ d1 + d2 <= f1 + f2
  <2>. HIDE DEF a1, a2, b1, b2, c1, c2, d1, d2, e1, e2, f1, f2
  <2>. QED
    BY <1>4, <1>5
<1>. QED
  BY <1>2, <1>6

-----------------------------------------------------------------------------
(* Selling.                                                                *)

WalkErrors == {NoError, "InvalidAmount", "Overflow", "DivByZero"}

Walk == [side : Side, left : Nat, out : Nat, crossed : Nat, over : BOOLEAN,
         error : WalkErrors]

(* How a walk begins.                                                      *)
LEMMA WalkBegins ==
  ASSUME NEW side \in Side, NEW amountIn \in Nat
  PROVE  LET start == WalkStart(side, amountIn)
         IN  /\ start \in Walk /\ start.side = side /\ start.left = amountIn
             /\ start.out = 0 /\ start.crossed = 0 /\ start.error = NoError
  BY DEF WalkStart, Walk, WalkErrors

(* How one is refused before it begins.                                    *)
LEMMA WalkRefused ==
  ASSUME NEW side \in Side, NEW amountIn \in Nat, NEW e \in WalkErrors
  PROVE  LET refused == [WalkStart(side, amountIn) EXCEPT !.error = e]
         IN  /\ refused \in Walk /\ refused.side = side /\ refused.error = e
             /\ refused.out = 0 /\ refused.crossed = 0
<1>. DEFINE start == WalkStart(side, amountIn)
<1>1. /\ start \in Walk /\ start.side = side
      /\ start.out = 0 /\ start.crossed = 0
  BY WalkBegins
<1>. HIDE DEF start
<1>2. LET refused == [start EXCEPT !.error = e]
      IN  /\ refused \in Walk /\ refused.side = side /\ refused.error = e
          /\ refused.out = 0 /\ refused.crossed = 0
  BY <1>1 DEF Walk
<1>. QED
  BY <1>2 DEF start

SellTurn(w) == IF w.error # NoError \/ w.left = 0 THEN w ELSE SellStep(w)

(* What the loop of a sale keeps: every atom that is not left was taken    *)
(* from the side, and the quote it brought lies between what the atoms     *)
(* would have brought at the price the walk began at and at the price it   *)
(* has reached.                                                            *)
SellKeeps(side, baseIn, w) ==
  /\ w \in Walk
  /\ Usable(w.side) /\ w.side.total = side.total
  /\ w.left <= baseIn
  /\ w.side.consumed + w.left = side.consumed + baseIn
  /\ w.error = NoError =>
       /\ PriceNow(BidLevels, w.side) <= PriceNow(BidLevels, side)
       /\ Q64 * w.out <= PriceNow(BidLevels, side) * (baseIn - w.left)
       /\ PriceNow(BidLevels, w.side) * (baseIn - w.left)
             <= Q64 * (w.out + w.crossed)

(* One turn of a sale keeps this, and either ends the sale or sells some.  *)
LEMMA SellTurns ==
  ASSUME NEW side, Usable(side), NEW baseIn \in Nat, baseIn <= Remaining(side),
         Falling(BidLevels), NEW w, SellKeeps(side, baseIn, w),
         w.error = NoError, w.left # 0
  PROVE  /\ SellKeeps(side, baseIn, SellStep(w))
         /\ SellStep(w).error # NoError \/ SellStep(w).left < w.left
<1>. DEFINE s       == SegmentFromConsumed(w.side)
            total   == w.side.total
            c       == w.side.consumed
            offset  == c - SegmentStart(total, s)
            rest    == SaturatingSub(SegmentEnd(total, s), c)
            take    == Least(w.left, rest)
            amount  == BidAmount(w.side, s, offset, take)
            v       == amount.value
            newSide == [w.side EXCEPT !.consumed = @ + take]
            p0      == PriceNow(BidLevels, side)
            p       == PriceNow(BidLevels, w.side)
            p1      == PriceNow(BidLevels, newSide)
            after   == [w EXCEPT !.side.consumed = @ + take, !.left = @ - take]
            sold    == baseIn - w.left
<1>1. /\ w \in Walk /\ w.side \in Side /\ w.left \in Nat /\ w.out \in Nat
      /\ w.crossed \in Nat
      /\ total \in Nat /\ c \in Nat /\ side.total \in Nat /\ side.consumed \in Nat
      /\ side.consumed <= side.total
      /\ Usable(w.side) /\ total = side.total /\ c <= total
      /\ w.left <= baseIn /\ c + w.left = side.consumed + baseIn
      /\ sold \in Nat
  BY MaxU64Assumption DEF SellKeeps, Walk, Usable, Side, U64
<1>2. c < total
  BY <1>1 DEF Remaining, SaturatingSub
<1>3. /\ s \in Segments /\ SegmentStart(total, s) \in Nat /\ SegmentEnd(total, s) \in Nat
      /\ SegmentStart(total, s) <= c /\ c < SegmentEnd(total, s)
      /\ SegmentEnd(total, s) <= total
  BY <1>1, <1>2, SegmentFound
<1>. HIDE DEF s
<1>4. /\ rest = SegmentEnd(total, s) - c /\ rest \in Nat \ {0}
      /\ take \in Nat \ {0} /\ take <= w.left
      /\ take \in 0 .. SegmentEnd(total, s) - c
  BY <1>1, <1>3 DEF SaturatingSub, Least
<1>. HIDE DEF rest, take
<1>5. /\ BidPriceAt(w.side, s, offset) = p /\ p \in Nat
      /\ BidPriceAt(w.side, s, offset + take) = p1 /\ p1 \in Nat
      /\ p >= p1
      /\ Usable(newSide) /\ newSide.total = total /\ newSide.consumed = c + take
  BY <1>1, <1>2, <1>3, <1>4, SidesAreCurves, TakeMoves DEF s
<1>6. p0 \in Nat /\ p <= p0
  BY <1>1, SidesAreCurves, PriceNowType DEF SellKeeps
<1>. HIDE DEF newSide, p0, p, p1, offset
<1>7. /\ amount.error \in {NoError, "Overflow", "DivByZero"} /\ v \in Nat
      /\ amount.error = NoError => Q64 * v <= p * take /\ p1 * take <= Q64 * (v + 1)
  <2>1. amount = LinearQuoteAmount(p, p1, take)
    BY <1>5 DEF BidAmount
  <2>2. take \in Nat /\ p1 <= p /\ p <= p /\ p1 <= p1
    BY <1>4, <1>5
  <2>. HIDE DEF amount
  <2>. QED
    BY <1>5, <2>1, <2>2, LinearPriced
<1>. HIDE DEF amount
<1>8. /\ after.side = newSide /\ after.left = w.left - take /\ after.out = w.out
      /\ after.crossed = w.crossed /\ after.error = w.error /\ after.over = w.over
      /\ after \in Walk
  <2>1. /\ newSide \in Side /\ w.left - take \in Nat
        /\ w.over \in BOOLEAN /\ w.error \in WalkErrors
    BY <1>1, <1>4, <1>5 DEF Usable, Walk
  <2>2. after = [w EXCEPT !.side = newSide, !.left = w.left - take]
    BY <1>1 DEF Walk, newSide
  <2>. HIDE DEF after
  <2>3. /\ after.side = newSide /\ after.left = w.left - take /\ after.out = w.out
        /\ after.crossed = w.crossed /\ after.error = w.error /\ after.over = w.over
    BY <1>1, <2>2 DEF Walk
  <2>4. after \in Walk
    BY <1>1, <2>1, <2>2 DEF Walk
  <2>. QED
    BY <2>3, <2>4
<1>. HIDE DEF after
<1>9. /\ after.left <= baseIn /\ after.left \in Nat /\ after.left < w.left
      /\ newSide.consumed + after.left = side.consumed + baseIn
      /\ baseIn - after.left = sold + take
  BY <1>1, <1>4, <1>5, <1>8
<1>10. CASE amount.error # NoError
  <2>1. SellStep(w) = [w EXCEPT !.error = amount.error]
    BY <1>4, <1>10 DEF SellStep, s, rest, take, amount, offset
  <2>. QED
    BY <1>1, <1>7, <1>10, <2>1 DEF SellKeeps, Walk, WalkErrors
<1>11. CASE amount.error = NoError /\ v = 0
  <2>1. SellStep(w) = [w EXCEPT !.error = "InvalidAmount"]
    BY <1>4, <1>11 DEF SellStep, s, rest, take, amount, offset
  <2>. QED
    BY <1>1, <2>1 DEF SellKeeps, Walk, WalkErrors, NoError
<1>12. CASE amount.error = NoError /\ v # 0 /\ w.out + v > MaxU64
  <2>1. SellStep(w) = [after EXCEPT !.error = "Overflow"]
    BY <1>4, <1>12 DEF SellStep, s, rest, take, amount, offset, after
  <2>. QED
    BY <1>1, <1>5, <1>8, <1>9, <2>1 DEF SellKeeps, Walk, WalkErrors, NoError
<1>13. CASE amount.error = NoError /\ v # 0 /\ ~(w.out + v > MaxU64)
  <2>1. SellStep(w) = [after EXCEPT !.out = @ + v, !.crossed = @ + 1]
    BY <1>4, <1>13 DEF SellStep, s, rest, take, amount, offset, after
  <2>. DEFINE new == SellStep(w)
  <2>2. /\ new \in Walk /\ new.side = newSide /\ new.left = after.left
        /\ new.out = w.out + v /\ new.crossed = w.crossed + 1 /\ new.error = NoError
    <3>1. w.out + v \in Nat /\ w.crossed + 1 \in Nat
      BY <1>1, <1>7
    <3>2. /\ after \in Walk /\ after.side = newSide /\ after.out = w.out
          /\ after.crossed = w.crossed /\ after.error = NoError
      BY <1>8
    <3>. HIDE DEF v
    <3>. QED
      BY <2>1, <3>1, <3>2 DEF Walk
  <2>3. Q64 * w.out <= p0 * sold /\ p * sold <= Q64 * (w.out + w.crossed)
    BY DEF SellKeeps, p0, p
  <2>4. /\ Q64 * (w.out + v) <= p0 * (sold + take)
        /\ p1 * (sold + take) <= Q64 * ((w.out + v) + (w.crossed + 1))
    <3>1. Q64 \in Nat /\ p0 <= p0 /\ p1 <= p /\ p1 <= p1
      BY <1>5, <1>6, Q64Positive
    <3>. HIDE DEF v, sold
    <3>. QED
      BY <1>1, <1>4, <1>5, <1>6, <1>7, <1>13, <2>3, <3>1, BoundsAdd
  <2>5. p1 <= p0
    BY <1>5, <1>6
  <2>. HIDE DEF new
  <2>6. SellKeeps(side, baseIn, new)
    BY <1>1, <1>5, <1>9, <2>2, <2>4, <2>5 DEF SellKeeps, p0, p1
  <2>. QED
    BY <1>9, <2>2, <2>6 DEF new
<1>. QED
  BY <1>10, <1>11, <1>12, <1>13

(* A sale that is begun, and what is true when its loop ends.              *)
LEMMA SellWalkKeeps ==
  ASSUME NEW side, Usable(side), NEW baseIn \in Nat, baseIn <= Remaining(side),
         Falling(BidLevels)
  PROVE  /\ SellKeeps(side, baseIn, SellWalk(side, baseIn))
         /\ SellWalk(side, baseIn).error = NoError => SellWalk(side, baseIn).left = 0
<1>. DEFINE D     == {w \in Walk : SellKeeps(side, baseIn, w)}
            start == WalkStart(side, baseIn)
            step  == [w \in D |-> SellTurn(w)]
            IsWalk(g) == g = [n \in 0 .. baseIn |->
                               IF n = 0 THEN WalkStart(side, baseIn)
                               ELSE LET w == g[n - 1]
                                    IN  IF w.error # NoError \/ w.left = 0 THEN w
                                        ELSE SellStep(w)]
            walk == CHOOSE g : IsWalk(g)
<1>1. start \in D
  <2>1. /\ side \in Side /\ side.consumed \in Nat /\ side.total \in Nat
        /\ PriceNow(BidLevels, side) \in Nat /\ Q64 \in Nat
    BY SidesAreCurves, PriceNowType, Q64Positive, MaxU64Assumption DEF Usable, Side, U64
  <2>2. /\ start \in Walk /\ start.side = side /\ start.left = baseIn
        /\ start.out = 0 /\ start.crossed = 0
    BY <2>1, WalkBegins
  <2>3. /\ Q64 * 0 = 0 /\ PriceNow(BidLevels, side) * (baseIn - baseIn) = 0
        /\ Q64 * (0 + 0) = 0
    BY <2>1
  <2>. HIDE DEF start
  <2>. QED
    BY <2>1, <2>2, <2>3 DEF SellKeeps
<1>2. ASSUME NEW w \in D PROVE SellTurn(w) \in D
  <2>1. SellKeeps(side, baseIn, SellTurn(w))
    BY SellTurns DEF SellTurn
  <2>. QED
    BY <2>1 DEF SellKeeps
<1>3. step \in [D -> D]
  BY <1>2
<1>4. PICK g \in [0 .. baseIn -> D] : Iterates(g, baseIn, start, step)
  <2>. HIDE DEF D, start, step
  <2>. QED
    BY <1>1, <1>3, IterationExists
<1>5. IsWalk(g)
  <2>1. ASSUME NEW n \in 0 .. baseIn
        PROVE  g[n] = IF n = 0 THEN start ELSE SellTurn(g[n - 1])
    <3>1. n # 0 => n - 1 \in 0 .. baseIn
      OBVIOUS
    <3>2. n # 0 => step[g[n - 1]] = SellTurn(g[n - 1])
      <4>. HIDE DEF D
      <4>. QED
        BY <1>4, <3>1
    <3>. QED
      BY <1>4, <3>2 DEF Iterates
  <2>2. g = [n \in 0 .. baseIn |-> g[n]]
    OBVIOUS
  <2>. HIDE DEF start
  <2>. QED
    BY <2>1, <2>2 DEF SellTurn, start
<1>6. IsWalk(walk)
  BY <1>5
<1>7. SellWalk(side, baseIn) = walk[baseIn]
  BY DEF SellWalk
<1>. HIDE DEF walk
<1>8. walk[0] = start /\ \A n \in 0 .. baseIn - 1 : walk[n + 1] = SellTurn(walk[n])
  <2>1. walk[0] = start
    BY <1>6
  <2>2. ASSUME NEW n \in 0 .. baseIn - 1 PROVE walk[n + 1] = SellTurn(walk[n])
    <3>1. n + 1 \in 0 .. baseIn /\ n + 1 # 0 /\ (n + 1) - 1 = n
      OBVIOUS
    <3>. HIDE DEF start
    <3>. QED
      BY <1>6, <3>1 DEF SellTurn
  <2>. QED
    BY <2>1, <2>2
<1>9. \A n \in 0 .. baseIn : walk[n] \in D
  <2>1. walk[0] \in D /\ \A n \in 0 .. baseIn - 1 : walk[n] \in D => walk[n + 1] \in D
    BY <1>1, <1>2, <1>8
  <2>. HIDE DEF D
  <2>. QED
    BY <2>1, LoopStays
<1>. DEFINE Good == {n \in Nat : n <= baseIn =>
                       walk[n].error # NoError \/ walk[n].left <= baseIn - n}
<1>10. 0 \in Good
  BY <1>8 DEF WalkStart
<1>11. ASSUME NEW n \in Nat, n \in Good PROVE n + 1 \in Good
  <2>. SUFFICES ASSUME n + 1 <= baseIn
                PROVE  walk[n + 1].error # NoError \/ walk[n + 1].left <= baseIn - (n + 1)
    OBVIOUS
  <2>1. /\ n \in 0 .. baseIn - 1 /\ n \in 0 .. baseIn /\ n + 1 \in 0 .. baseIn
        /\ walk[n + 1] = SellTurn(walk[n])
    BY <1>8
  <2>2. walk[n].error # NoError \/ walk[n].left <= baseIn - n
    BY <1>11
  <2>3. /\ SellKeeps(side, baseIn, walk[n]) /\ walk[n] \in Walk
        /\ walk[n + 1] \in Walk
    BY <1>9, <2>1
  <2>4. CASE walk[n].error # NoError
    BY <2>1, <2>4 DEF SellTurn
  <2>5. CASE walk[n].error = NoError /\ walk[n].left = 0
    BY <2>1, <2>5 DEF SellTurn
  <2>6. CASE walk[n].error = NoError /\ walk[n].left # 0
    <3>1. walk[n + 1].error # NoError \/ walk[n + 1].left < walk[n].left
      BY <2>1, <2>3, <2>6, SellTurns DEF SellTurn
    <3>2. walk[n].left \in Nat /\ walk[n + 1].left \in Nat
      BY <2>3 DEF Walk
    <3>. QED
      BY <2>2, <2>6, <3>1, <3>2
  <2>. QED
    BY <2>4, <2>5, <2>6
<1>12. Nat \subseteq Good
  <2>. HIDE DEF Good
  <2>. QED
    BY <1>10, <1>11, NumbersByInduction
<1>13. walk[baseIn] \in D
  BY <1>9
<1>14. walk[baseIn].error = NoError => walk[baseIn].left = 0
  <2>1. walk[baseIn].error # NoError \/ walk[baseIn].left <= baseIn - baseIn
    BY <1>12
  <2>2. walk[baseIn].left \in Nat
    BY <1>13 DEF Walk
  <2>. QED
    BY <2>1, <2>2
<1>. QED
  BY <1>7, <1>13, <1>14

(* What a sale does to its side, and what it pays.                         *)
LEMMA SaleKeeps ==
  ASSUME NEW side, Usable(side), NEW baseIn \in Nat, ValidSide(BidPrices, side)
  PROVE  LET r == SellBaseForQuote(side, baseIn)
         IN  /\ r \in Walk /\ Usable(r.side)
             /\ r.side.total = side.total /\ r.side.consumed >= side.consumed
             /\ r.error = NoError =>
                  /\ r.side.consumed = side.consumed + baseIn
                  /\ Q64 * r.out <= PriceNow(BidLevels, side) * baseIn
                  /\ PriceNow(BidLevels, r.side) * baseIn <= Q64 * (r.out + r.crossed)
<1>. DEFINE r == SellBaseForQuote(side, baseIn)
<1>1. side \in Side /\ side.consumed \in Nat /\ side.total \in Nat
  BY MaxU64Assumption DEF Usable, Side, U64
<1>2. CASE baseIn = 0 \/ baseIn > Remaining(side)
  <2>1. r = [WalkStart(side, baseIn) EXCEPT !.error = "InvalidAmount"]
    BY <1>2 DEF SellBaseForQuote
  <2>2. r \in Walk /\ r.side = side /\ r.error = "InvalidAmount"
    <3>1. "InvalidAmount" \in WalkErrors
      BY DEF WalkErrors
    <3>. QED
      BY <1>1, <2>1, <3>1, WalkRefused
  <2>. QED
    BY <1>1, <2>2 DEF NoError
<1>3. CASE ~(baseIn = 0 \/ baseIn > Remaining(side))
  <2>1. r = SellWalk(side, baseIn)
    BY <1>3 DEF SellBaseForQuote
  <2>2. baseIn <= Remaining(side) /\ Falling(BidLevels)
    BY <1>1, <1>3, SidesAreCurves DEF Remaining, SaturatingSub
  <2>3. SellKeeps(side, baseIn, r) /\ (r.error = NoError => r.left = 0)
    BY <2>1, <2>2, SellWalkKeeps
  <2>. HIDE DEF r
  <2>4. /\ r \in Walk /\ Usable(r.side) /\ r.side.total = side.total
        /\ r.left \in Nat /\ r.left <= baseIn /\ r.side.consumed \in Nat
        /\ r.side.consumed + r.left = side.consumed + baseIn
    BY <2>3, MaxU64Assumption DEF SellKeeps, Walk, Usable, Side, U64
  <2>5. r.error = NoError => baseIn - r.left = baseIn
    BY <2>3
  <2>. QED
    BY <1>1, <2>3, <2>4, <2>5 DEF SellKeeps, r
<1>. QED
  BY <1>2, <1>3

-----------------------------------------------------------------------------
(* Buying.                                                                 *)

(* The search stays within the slice and finds what can be paid for.       *)
LEMMA SearchAffordable ==
  ASSUME NEW side, NEW segment, NEW offset, NEW capacity \in Nat,
         NEW available \in Nat
  PROVE  LET found == MaxBaseForQuote(side, segment, offset, capacity, available)
         IN  /\ found \in 0 .. capacity
             /\ AskAmount(side, segment, offset, found).value <= available
<1>. DEFINE Cost(mid) == AskAmount(side, segment, offset, mid).value
            Narrow(b) == Narrowed(side, segment, offset, available, b)
            D     == {b \in [low : 0 .. capacity, high : 0 .. capacity] :
                        Cost(b.low) <= available}
            start == [low |-> 0, high |-> capacity]
            step  == [b \in D |-> Narrow(b)]
            IsSearch(g) == g = [n \in 0 .. capacity |->
                                 IF n = 0 THEN [low |-> 0, high |-> capacity]
                                 ELSE Narrowed(side, segment, offset, available,
                                               g[n - 1])]
            search == CHOOSE g : IsSearch(g)
<1>1. start \in D
  <2>1. Cost(0) = 0
    BY DEF AskAmount, LinearQuoteAmount, Ok
  <2>. HIDE DEF Cost
  <2>. QED
    BY <2>1
<1>. HIDE DEF Cost
<1>2. ASSUME NEW b \in D PROVE Narrow(b) \in D
  <2>. DEFINE mid == b.low + (b.high - b.low + 1) \div 2
  <2>1. b.low \in 0 .. capacity /\ b.high \in 0 .. capacity /\ Cost(b.low) <= available
    OBVIOUS
  <2>2. b.low < b.high => mid \in 0 .. capacity /\ mid - 1 \in 0 .. capacity
    BY <2>1
  <2>. HIDE DEF mid
  <2>3. Narrow(b) = IF b.low >= b.high THEN b
                    ELSE IF Cost(mid) > 0 /\ Cost(mid) <= available
                      THEN [b EXCEPT !.low = mid]
                    ELSE [b EXCEPT !.high = mid - 1]
    BY DEF Narrowed, Cost, mid
  <2>. HIDE DEF Narrow
  <2>4. CASE b.low >= b.high
    BY <2>3, <2>4
  <2>5. CASE b.low < b.high /\ Cost(mid) > 0 /\ Cost(mid) <= available
    BY <2>1, <2>2, <2>3, <2>5
  <2>6. CASE b.low < b.high /\ ~(Cost(mid) > 0 /\ Cost(mid) <= available)
    BY <2>1, <2>2, <2>3, <2>6
  <2>. QED
    BY <2>1, <2>4, <2>5, <2>6
<1>. HIDE DEF Narrow
<1>3. step \in [D -> D]
  BY <1>2
<1>4. PICK g \in [0 .. capacity -> D] : Iterates(g, capacity, start, step)
  <2>. HIDE DEF D, start, step
  <2>. QED
    BY <1>1, <1>3, IterationExists
<1>5. IsSearch(g)
  <2>1. ASSUME NEW n \in 0 .. capacity
        PROVE  g[n] = IF n = 0 THEN start ELSE Narrow(g[n - 1])
    <3>1. n # 0 => n - 1 \in 0 .. capacity
      OBVIOUS
    <3>2. n # 0 => step[g[n - 1]] = Narrow(g[n - 1])
      <4>. HIDE DEF D
      <4>. QED
        BY <1>4, <3>1
    <3>. QED
      BY <1>4, <3>2 DEF Iterates
  <2>2. g = [n \in 0 .. capacity |-> g[n]]
    OBVIOUS
  <2>. QED
    BY <2>1, <2>2 DEF Narrow
<1>6. IsSearch(search)
  BY <1>5
<1>7. MaxBaseForQuote(side, segment, offset, capacity, available)
        = search[capacity].low
  BY DEF MaxBaseForQuote
<1>. HIDE DEF search
<1>8. search[0] = start /\ \A n \in 0 .. capacity - 1 : search[n + 1] = Narrow(search[n])
  <2>1. search[0] = start
    BY <1>6
  <2>2. ASSUME NEW n \in 0 .. capacity - 1 PROVE search[n + 1] = Narrow(search[n])
    <3>1. n + 1 \in 0 .. capacity /\ n + 1 # 0 /\ (n + 1) - 1 = n
      OBVIOUS
    <3>. QED
      BY <1>6, <3>1 DEF Narrow
  <2>. QED
    BY <2>1, <2>2
<1>9. \A n \in 0 .. capacity : search[n] \in D
  <2>1. /\ search[0] \in D
        /\ \A n \in 0 .. capacity - 1 : search[n] \in D => search[n + 1] \in D
    BY <1>1, <1>2, <1>8
  <2>. HIDE DEF D
  <2>. QED
    BY <2>1, LoopStays
<1>10. search[capacity] \in D
  BY <1>9
<1>. QED
  BY <1>7, <1>10 DEF Cost

BuyTurn(w) ==
  IF w.over \/ w.left = 0 \/ Remaining(w.side) = 0 THEN w ELSE BuyStep(w)

(* What the loop of a purchase keeps: every atom given out was taken from  *)
(* the side, and the quote they cost lies between what they would have     *)
(* cost at the price the walk began at and at the price it has reached.    *)
BuyKeeps(side, quoteIn, w) ==
  /\ w \in Walk
  /\ Usable(w.side) /\ w.side.total = side.total
  /\ w.left <= quoteIn
  /\ w.side.consumed = side.consumed + w.out
  /\ w.error = NoError =>
       /\ PriceNow(AskLevels, side) <= PriceNow(AskLevels, w.side)
       /\ Q64 * (quoteIn - w.left) <= PriceNow(AskLevels, w.side) * w.out
       /\ PriceNow(AskLevels, side) * w.out
             <= Q64 * ((quoteIn - w.left) + w.crossed)

(* One turn of a purchase keeps this.                                      *)
LEMMA BuyTurns ==
  ASSUME NEW side, Usable(side), NEW quoteIn \in Nat, Rising(AskLevels),
         NEW w, BuyKeeps(side, quoteIn, w), Remaining(w.side) # 0
  PROVE  BuyKeeps(side, quoteIn, BuyStep(w))
<1>. DEFINE s       == SegmentFromConsumed(w.side)
            total   == w.side.total
            c       == w.side.consumed
            offset  == c - SegmentStart(total, s)
            rest    == SaturatingSub(SegmentEnd(total, s), c)
            full    == AskAmount(w.side, s, offset, rest)
            found   == MaxBaseForQuote(w.side, s, offset, rest, w.left)
            take    == IF full.value > 0 /\ full.value <= w.left THEN rest ELSE found
            amount  == AskAmount(w.side, s, offset, take)
            v       == amount.value
            newSide == [w.side EXCEPT !.consumed = @ + take]
            p0      == PriceNow(AskLevels, side)
            p       == PriceNow(AskLevels, w.side)
            p1      == PriceNow(AskLevels, newSide)
            spent   == quoteIn - w.left
<1>1. /\ w \in Walk /\ w.side \in Side /\ w.left \in Nat /\ w.out \in Nat
      /\ w.crossed \in Nat /\ w.error \in WalkErrors
      /\ total \in Nat /\ c \in Nat /\ side.total \in Nat /\ side.consumed \in Nat
      /\ Usable(w.side) /\ total = side.total /\ c <= total
      /\ w.left <= quoteIn /\ c = side.consumed + w.out
      /\ spent \in Nat
  BY MaxU64Assumption DEF BuyKeeps, Walk, Usable, Side, U64
<1>2. c < total
  BY <1>1 DEF Remaining, SaturatingSub
<1>3. /\ s \in Segments /\ SegmentStart(total, s) \in Nat /\ SegmentEnd(total, s) \in Nat
      /\ SegmentStart(total, s) <= c /\ c < SegmentEnd(total, s)
      /\ SegmentEnd(total, s) <= total
  BY <1>1, <1>2, SegmentFound
<1>. HIDE DEF s
<1>4. rest = SegmentEnd(total, s) - c /\ rest \in Nat \ {0}
  BY <1>1, <1>3 DEF SaturatingSub
<1>5. /\ take \in Nat /\ take \in 0 .. SegmentEnd(total, s) - c
      /\ v <= w.left
  <2>. HIDE DEF rest, offset
  <2>1. found \in 0 .. rest /\ AskAmount(w.side, s, offset, found).value <= w.left
    BY <1>1, <1>4, SearchAffordable
  <2>2. CASE full.value > 0 /\ full.value <= w.left
    BY <1>4, <2>2
  <2>3. CASE ~(full.value > 0 /\ full.value <= w.left)
    <3>1. take = found
      BY <2>3
    <3>. HIDE DEF found, take, full
    <3>. QED
      BY <1>4, <2>1, <3>1
  <2>. QED
    BY <2>2, <2>3
<1>. HIDE DEF found, full, take, rest
<1>6. /\ AskPriceAt(w.side, s, offset) = p /\ p \in Nat
      /\ AskPriceAt(w.side, s, offset + take) = p1 /\ p1 \in Nat
      /\ p <= p1
      /\ Usable(newSide) /\ newSide.total = total /\ newSide.consumed = c + take
  BY <1>1, <1>2, <1>3, <1>5, SidesAreCurves, TakeMoves DEF s
<1>7. p0 \in Nat /\ (w.error = NoError => p0 <= p)
  BY <1>1, SidesAreCurves, PriceNowType DEF BuyKeeps
<1>. HIDE DEF newSide, p0, p, p1, offset
<1>8. /\ amount.error \in {NoError, "Overflow", "DivByZero"} /\ v \in Nat
      /\ v # 0 => amount.error = NoError
      /\ amount.error = NoError => Q64 * v <= p1 * take /\ p * take <= Q64 * (v + 1)
  <2>1. amount = LinearQuoteAmount(p, p1, take)
    BY <1>6 DEF AskAmount
  <2>2. /\ take \in Nat /\ p \in Nat /\ p1 \in Nat
        /\ p <= p /\ p <= p1 /\ p1 <= p1
    BY <1>5, <1>6
  <2>. HIDE DEF amount
  <2>. QED
    BY <2>1, <2>2, LinearPriced
<1>9. full.error \in {NoError, "Overflow", "DivByZero"}
  <2>1. \A a, b, n : LinearQuoteAmount(a, b, n).error \in {NoError, "Overflow", "DivByZero"}
    BY DEF LinearQuoteAmount, MulAmountFloor, ToU64, MulDivFloor, Ok, Err
  <2>. QED
    BY <2>1 DEF full, AskAmount
<1>. HIDE DEF amount
<1>10. CASE full.error # NoError
  <2>1. BuyStep(w) = [w EXCEPT !.error = full.error, !.over = TRUE]
    BY <1>4, <1>10 DEF BuyStep, s, rest, offset, full
  <2>2. full.error \in WalkErrors
    BY <1>9 DEF WalkErrors
  <2>. QED
    BY <1>1, <1>10, <2>1, <2>2 DEF BuyKeeps, Walk
<1>11. CASE full.error = NoError /\ v = 0
  <2>1. BuyStep(w) = [w EXCEPT !.over = TRUE]
    BY <1>4, <1>11 DEF BuyStep, s, rest, offset, full, found, take, amount
  <2>. QED
    BY <1>1, <2>1 DEF BuyKeeps, Walk
<1>12. CASE full.error = NoError /\ v # 0
  <2>. DEFINE new == BuyStep(w)
  <2>1. new = [w EXCEPT !.side.consumed = @ + take, !.left = @ - v,
                        !.out = @ + take, !.crossed = @ + 1]
    BY <1>4, <1>12 DEF BuyStep, s, rest, offset, full, found, take, amount
  <2>2. new = [w EXCEPT !.side = newSide, !.left = w.left - v,
                        !.out = w.out + take, !.crossed = w.crossed + 1]
    <3>. HIDE DEF new, v
    <3>. QED
      BY <1>1, <2>1 DEF Walk, newSide
  <2>. HIDE DEF new
  <2>3. /\ new \in Walk /\ new.side = newSide /\ new.left = w.left - v
        /\ new.out = w.out + take /\ new.crossed = w.crossed + 1
        /\ new.error = w.error
    <3>1. /\ newSide \in Side /\ w.left - v \in Nat /\ w.out + take \in Nat
          /\ w.crossed + 1 \in Nat
      BY <1>1, <1>5, <1>6, <1>8 DEF Usable
    <3>. HIDE DEF v
    <3>. QED
      BY <1>1, <2>2, <3>1 DEF Walk
  <2>4. ASSUME w.error = NoError
        PROVE  /\ Q64 * (spent + v) <= p1 * (w.out + take)
               /\ p0 * (w.out + take) <= Q64 * ((spent + v) + (w.crossed + 1))
    <3>1. Q64 * spent <= p * w.out /\ p0 * w.out <= Q64 * (spent + w.crossed)
      BY <2>4 DEF BuyKeeps, p0, p
    <3>2. Q64 \in Nat /\ p <= p1 /\ p1 <= p1 /\ p0 <= p0 /\ p0 <= p
      BY <1>6, <1>7, <2>4, Q64Positive
    <3>3. Q64 * v <= p1 * take /\ p * take <= Q64 * (v + 1)
      BY <1>8, <1>12
    <3>4. v \in Nat
      BY <1>8
    <3>. HIDE DEF v, spent
    <3>. QED
      BY <1>1, <1>5, <1>6, <1>7, <3>1, <3>2, <3>3, <3>4, BoundsAdd
  <2>5. quoteIn - new.left = spent + v /\ new.left <= quoteIn
    BY <1>1, <1>8, <2>3
  <2>6. w.error = NoError => p0 <= p1
    BY <1>6, <1>7
  <2>7. newSide.consumed = side.consumed + (w.out + take)
    BY <1>1, <1>5, <1>6
  <2>. QED
    BY <1>1, <1>6, <2>3, <2>4, <2>5, <2>6, <2>7 DEF BuyKeeps, p0, p1, new
<1>. QED
  BY <1>10, <1>11, <1>12

(* A purchase that is begun, and what is true when its loop ends.          *)
LEMMA BuyWalkKeeps ==
  ASSUME NEW side, Usable(side), NEW quoteIn \in Nat, Rising(AskLevels)
  PROVE  BuyKeeps(side, quoteIn, BuyWalk(side, quoteIn))
<1>. DEFINE N     == Remaining(side)
            D     == {w \in Walk : BuyKeeps(side, quoteIn, w)}
            start == WalkStart(side, quoteIn)
            step  == [w \in D |-> BuyTurn(w)]
            IsWalk(g) == g = [n \in 0 .. N |->
                               IF n = 0 THEN WalkStart(side, quoteIn)
                               ELSE LET w == g[n - 1]
                                    IN  IF w.over \/ w.left = 0 \/ Remaining(w.side) = 0
                                          THEN w ELSE BuyStep(w)]
            walk == CHOOSE g : IsWalk(g)
<1>1. start \in D
  <2>1. /\ side \in Side /\ side.consumed \in Nat /\ side.total \in Nat
        /\ PriceNow(AskLevels, side) \in Nat /\ Q64 \in Nat
    BY SidesAreCurves, PriceNowType, Q64Positive, MaxU64Assumption DEF Usable, Side, U64
  <2>2. /\ start \in Walk /\ start.side = side /\ start.left = quoteIn
        /\ start.out = 0 /\ start.crossed = 0
    BY <2>1, WalkBegins
  <2>3. /\ Q64 * (quoteIn - quoteIn) = 0 /\ PriceNow(AskLevels, side) * 0 = 0
        /\ Q64 * ((quoteIn - quoteIn) + 0) = 0
    BY <2>1
  <2>. HIDE DEF start
  <2>. QED
    BY <2>1, <2>2, <2>3 DEF BuyKeeps
<1>2. ASSUME NEW w \in D PROVE BuyTurn(w) \in D
  <2>1. BuyKeeps(side, quoteIn, BuyTurn(w))
    BY BuyTurns DEF BuyTurn
  <2>. QED
    BY <2>1 DEF BuyKeeps
<1>3. step \in [D -> D]
  BY <1>2
<1>4. N \in Nat
  BY MaxU64Assumption DEF Remaining, SaturatingSub, Usable, Side, U64
<1>. HIDE DEF N
<1>5. PICK g \in [0 .. N -> D] : Iterates(g, N, start, step)
  <2>. HIDE DEF D, start, step
  <2>. QED
    BY <1>1, <1>3, <1>4, IterationExists
<1>6. IsWalk(g)
  <2>1. ASSUME NEW n \in 0 .. N
        PROVE  g[n] = IF n = 0 THEN start ELSE BuyTurn(g[n - 1])
    <3>1. n # 0 => n - 1 \in 0 .. N
      BY <1>4
    <3>2. n # 0 => step[g[n - 1]] = BuyTurn(g[n - 1])
      <4>. HIDE DEF D
      <4>. QED
        BY <1>5, <3>1
    <3>. QED
      BY <1>5, <3>2 DEF Iterates
  <2>2. g = [n \in 0 .. N |-> g[n]]
    OBVIOUS
  <2>. HIDE DEF start
  <2>. QED
    BY <2>1, <2>2 DEF BuyTurn, start
<1>7. IsWalk(walk)
  BY <1>6
<1>8. BuyWalk(side, quoteIn) = walk[N]
  BY DEF BuyWalk, N
<1>. HIDE DEF walk
<1>9. walk[0] = start /\ \A n \in 0 .. N - 1 : walk[n + 1] = BuyTurn(walk[n])
  <2>1. walk[0] = start
    BY <1>4, <1>7
  <2>2. ASSUME NEW n \in 0 .. N - 1 PROVE walk[n + 1] = BuyTurn(walk[n])
    <3>1. n + 1 \in 0 .. N /\ n + 1 # 0 /\ (n + 1) - 1 = n
      BY <1>4
    <3>. HIDE DEF start
    <3>. QED
      BY <1>7, <3>1 DEF BuyTurn
  <2>. QED
    BY <2>1, <2>2
<1>10. \A n \in 0 .. N : walk[n] \in D
  <2>1. walk[0] \in D /\ \A n \in 0 .. N - 1 : walk[n] \in D => walk[n + 1] \in D
    BY <1>1, <1>2, <1>9
  <2>. HIDE DEF D
  <2>. QED
    BY <1>4, <2>1, LoopStays
<1>11. walk[N] \in D
  BY <1>4, <1>10
<1>. QED
  BY <1>8, <1>11

(* What a purchase does to its side, and what it costs.                    *)
LEMMA PurchaseKeeps ==
  ASSUME NEW side, Usable(side), NEW quoteIn \in Nat, ValidSide(AskPrices, side)
  PROVE  LET r == BuyBaseWithQuote(side, quoteIn)
         IN  /\ r \in Walk /\ Usable(r.side)
             /\ r.side.total = side.total /\ r.side.consumed = side.consumed + r.out
             /\ r.error = NoError =>
                  /\ Q64 * quoteIn <= PriceNow(AskLevels, r.side) * r.out
                  /\ PriceNow(AskLevels, side) * r.out <= Q64 * (quoteIn + r.crossed)
<1>. DEFINE r == BuyBaseWithQuote(side, quoteIn)
<1>1. side \in Side /\ side.consumed \in Nat /\ side.total \in Nat
  BY MaxU64Assumption DEF Usable, Side, U64
<1>2. "InvalidAmount" \in WalkErrors /\ "InvalidAmount" # NoError
  BY DEF WalkErrors, NoError
<1>3. CASE quoteIn = 0 \/ Remaining(side) = 0
  <2>1. r = [WalkStart(side, quoteIn) EXCEPT !.error = "InvalidAmount"]
    BY <1>3 DEF BuyBaseWithQuote
  <2>2. /\ r \in Walk /\ r.side = side /\ r.error = "InvalidAmount" /\ r.out = 0
    BY <1>1, <1>2, <2>1, WalkRefused
  <2>. QED
    BY <1>1, <1>2, <2>2
<1>4. CASE ~(quoteIn = 0 \/ Remaining(side) = 0)
  <2>. DEFINE w == BuyWalk(side, quoteIn)
  <2>1. r = Bought(w)
    BY <1>4 DEF BuyBaseWithQuote
  <2>2. BuyKeeps(side, quoteIn, w)
    BY SidesAreCurves, BuyWalkKeeps
  <2>. HIDE DEF w, r
  <2>3. w \in Walk /\ w.left \in Nat
    BY <2>2 DEF BuyKeeps, Walk
  <2>4. CASE w.error = NoError /\ (w.out = 0 \/ w.left > 0)
    <3>1. r = [w EXCEPT !.error = "InvalidAmount"]
      BY <2>1, <2>4 DEF Bought
    <3>2. r \in Walk /\ r.side = w.side /\ r.out = w.out /\ r.error # NoError
      BY <1>2, <2>3, <3>1 DEF Walk
    <3>. QED
      BY <2>2, <3>2 DEF BuyKeeps, r
  <2>5. CASE ~(w.error = NoError /\ (w.out = 0 \/ w.left > 0))
    <3>1. r = w
      BY <2>1, <2>5 DEF Bought
    <3>2. w.error = NoError => w.left = 0 /\ quoteIn - w.left = quoteIn
      BY <2>3, <2>5
    <3>. QED
      BY <2>2, <3>1, <3>2 DEF BuyKeeps, r
  <2>. QED
    BY <2>4, <2>5
<1>. QED
  BY <1>3, <1>4

-----------------------------------------------------------------------------
(* Refills.                                                                *)

(* A refill gives a side back what an order took from the other one and no *)
(* more; healing and growing in proportion to the depth give back all.     *)
LEMMA RefillMoves ==
  ASSUME NEW prices, NEW side, Usable(side), ValidSide(prices, side),
         NEW quantity \in Nat, NEW crossed \in Nat, policy \in AllPolicies
  PROVE  LET r == ApplyPostFill(prices, side, quantity, crossed)
         IN  /\ r.error \in {NoError, "Overflow", "DivByZero"}
             /\ r.error = NoError =>
                  /\ Usable(r.value)
                  /\ Remaining(r.value) <= Remaining(side) + quantity
                  /\ policy \in {"HealThenAdd", "DepthProportional"} =>
                       Remaining(r.value) = Remaining(side) + quantity
<1>. DEFINE r == ApplyPostFill(prices, side, quantity, crossed)
            Gives(a, s, n) ==
              /\ a.error \in {NoError, "Overflow", "DivByZero"}
              /\ a.error = NoError =>
                   Usable(a.value) /\ Remaining(a.value) = Remaining(s) + n
<1>1. /\ SegmentCount \in Nat \ {0} /\ side \in Side /\ MaxU64 \in Nat
      /\ side.total \in Nat /\ side.consumed \in Nat /\ side.total >= SegmentCount
      /\ side.consumed <= side.total
  BY PiecewiseBookAssumption, MaxU64Assumption DEF Usable, Side, U64
<1>2. \A s : Usable(s) =>
        /\ s \in Side /\ s.total \in Nat /\ s.consumed \in Nat
        /\ s.total >= SegmentCount /\ s.consumed <= s.total /\ s.total <= MaxU64
        /\ Remaining(s) = s.total - s.consumed
  BY <1>1 DEF Usable, Side, U64, Remaining, SaturatingSub
<1>3. ASSUME NEW s, Usable(s), NEW n \in Nat PROVE Gives(Grown(s, n), s, n)
  <2>1. CASE s.total + n > MaxU64
    BY <2>1 DEF Grown, Err, NoError
  <2>2. CASE ~(s.total + n > MaxU64)
    <3>. DEFINE new == [s EXCEPT !.total = @ + n]
    <3>1. Grown(s, n) = Ok(new)
      BY <2>2 DEF Grown
    <3>2. new \in Side /\ new.total = s.total + n /\ new.consumed = s.consumed
      BY <1>1, <1>2, <1>3, <2>2 DEF Side, U64
    <3>. HIDE DEF new
    <3>3. Usable(new)
      BY <1>1, <1>2, <1>3, <3>2 DEF Usable
    <3>4. Remaining(new) = Remaining(s) + n
      BY <1>2, <1>3, <3>2, <3>3
    <3>. QED
      BY <3>1, <3>3, <3>4 DEF Ok
  <2>. QED
    BY <2>1, <2>2
<1>4. ASSUME NEW n \in Nat PROVE Gives(HealThenAdd(side, n), side, n)
  <2>1. CASE n <= side.consumed
    <3>. DEFINE new == [side EXCEPT !.consumed = @ - n]
    <3>1. HealThenAdd(side, n) = Ok(new)
      BY <2>1 DEF HealThenAdd
    <3>2. new \in Side /\ new.total = side.total /\ new.consumed = side.consumed - n
      BY <1>1, <2>1 DEF Side, U64
    <3>. HIDE DEF new
    <3>3. Usable(new)
      BY <1>1, <2>1, <3>2 DEF Usable
    <3>4. Remaining(new) = Remaining(side) + n
      BY <1>1, <1>2, <3>2, <3>3
    <3>. QED
      BY <3>1, <3>3, <3>4 DEF Ok
  <2>2. CASE ~(n <= side.consumed)
    <3>. DEFINE healed == [side EXCEPT !.consumed = 0]
                more   == n - side.consumed
    <3>1. HealThenAdd(side, n) = Grown(healed, more)
      BY <2>2 DEF HealThenAdd
    <3>2. healed \in Side /\ healed.total = side.total /\ healed.consumed = 0
      BY <1>1 DEF Side, U64
    <3>3. more \in Nat
      BY <1>1, <2>2
    <3>. HIDE DEF healed
    <3>4. Usable(healed)
      BY <1>1, <3>2 DEF Usable
    <3>5. Gives(Grown(healed, more), healed, more)
      BY <1>3, <3>3, <3>4
    <3>6. Remaining(healed) + more = Remaining(side) + n
      BY <1>1, <1>2, <3>2, <3>4
    <3>. QED
      BY <3>1, <3>5, <3>6
  <2>. QED
    BY <2>1, <2>2
<1>5. CASE quantity = 0 \/ policy = "None"
  <2>1. r = Ok(side)
    BY <1>5 DEF ApplyPostFill
  <2>2. Remaining(side) \in Nat
    BY <1>1, <1>2
  <2>. QED
    BY <1>5, <2>1, <2>2 DEF Ok
<1>6. CASE quantity # 0 /\ policy = "HealThenAdd"
  <2>1. r = HealThenAdd(side, quantity)
    BY <1>6 DEF ApplyPostFill
  <2>2. Remaining(side) + quantity \in Nat
    BY <1>1, <1>2
  <2>. QED
    BY <1>4, <2>1, <2>2
<1>7. CASE quantity # 0 /\ policy = "ProportionalScale"
  <2>. DEFINE grown == Grown(side, quantity)
              total == grown.value.total
              moved == (side.consumed * total) \div side.total
              new   == [grown.value EXCEPT !.consumed = (@ * grown.value.total)
                                                         \div side.total]
  <2>1. r = IF grown.error # NoError THEN grown ELSE Ok(new)
    BY <1>7 DEF ApplyPostFill, ProportionalScale
  <2>2. Gives(grown, side, quantity)
    BY <1>3
  <2>3. CASE grown.error # NoError
    BY <2>1, <2>2, <2>3
  <2>4. CASE grown.error = NoError
    <3>1. grown = Ok([side EXCEPT !.total = @ + quantity]) /\ ~(side.total + quantity > MaxU64)
      BY <2>4 DEF Grown, Err, NoError
    <3>2. /\ grown.value \in Side /\ total = side.total + quantity
          /\ grown.value.consumed = side.consumed
      BY <1>1, <3>1 DEF Side, U64, Ok
    <3>3. /\ moved \in Nat /\ side.consumed <= moved /\ moved <= total
          /\ total \in U64
      <4>1. side.total # 0 /\ total \in Nat /\ side.consumed * total \in Nat /\ total \in U64
            /\ side.consumed * side.total \in Nat /\ side.total * total \in Nat
            /\ total * side.total \in Nat
        BY <1>1, <3>1, <3>2, ProductNat DEF U64
      <4>2. side.consumed * side.total <= side.consumed * total
        <5>0. side.total <= total
          BY <1>1, <3>2
        <5>1. side.total * side.consumed <= total * side.consumed
          <6>. HIDE DEF total, grown
          <6>1. side.total \in Nat /\ side.consumed \in Nat /\ total \in Nat
            BY <1>1, <4>1
          <6>. QED
            BY <5>0, <6>1, ProductMonotone
        <5>2. side.total * side.consumed = side.consumed * side.total
              /\ total * side.consumed = side.consumed * total
          BY <1>1, <4>1
        <5>. HIDE DEF total
        <5>. QED
          BY <5>1, <5>2
      <4>3. side.consumed * total <= total * side.total
        <5>1. side.consumed * total <= side.total * total
          BY <1>1, <4>1, ProductMonotone
        <5>2. side.total * total = total * side.total
          BY <1>1, <4>1
        <5>. HIDE DEF total
        <5>. QED
          BY <5>1, <5>2
      <4>4. (side.consumed * side.total) \div side.total = side.consumed
        BY <1>1, <4>1, ExactQuotient
      <4>5. moved \in Nat /\ (side.consumed * side.total) \div side.total <= moved
        BY <1>1, <4>1, <4>2, DivBounds, DivMonotone
      <4>6. moved <= total
        BY <1>1, <4>1, <4>3, DivAtMost
      <4>. HIDE DEF moved, total
      <4>. QED
        BY <4>1, <4>4, <4>5, <4>6
    <3>4. new = [grown.value EXCEPT !.consumed = moved]
      BY <3>2
    <3>. HIDE DEF moved, grown, total, new
    <3>5. new \in Side /\ new.total = total /\ new.consumed = moved
      BY <1>1, <3>2, <3>3, <3>4 DEF Side, U64, total
    <3>6. Usable(new)
      BY <1>1, <3>2, <3>3, <3>5 DEF Usable
    <3>7. Remaining(new) <= Remaining(side) + quantity
      <4>1. Remaining(new) = total - moved /\ Remaining(side) = side.total - side.consumed
        BY <1>2, <3>5, <3>6
      <4>. QED
        BY <1>1, <3>2, <3>3, <4>1
    <3>8. r = Ok(new)
      BY <2>1, <2>4
    <3>. QED
      BY <1>7, <3>6, <3>7, <3>8 DEF Ok
  <2>. QED
    BY <2>3, <2>4
<1>8. CASE quantity # 0 /\ policy = "DepthProportional"
  <2>. DEFINE depth  == Least(crossed, SegmentCount)
              add    == (quantity * depth) \div SegmentCount
              healed == HealThenAdd(side, quantity - add)
  <2>1. r = IF healed.error # NoError THEN healed ELSE Grown(healed.value, add)
    BY <1>8 DEF ApplyPostFill, DepthProportional
  <2>2. add \in Nat /\ add <= quantity
    <3>1. depth \in Nat /\ depth <= SegmentCount
      BY <1>1 DEF Least
    <3>. HIDE DEF depth
    <3>2. quantity * depth \in Nat /\ quantity * depth <= quantity * SegmentCount
      <4>1. depth * quantity <= SegmentCount * quantity
        BY <1>1, <3>1, ProductMonotone
      <4>2. /\ depth * quantity = quantity * depth
            /\ SegmentCount * quantity = quantity * SegmentCount
            /\ quantity * depth \in Nat
        BY <1>1, <3>1, ProductNat
      <4>. QED
        BY <4>1, <4>2
    <3>. QED
      BY <1>1, <3>2, DivBounds, DivAtMost
  <2>. HIDE DEF add
  <2>3. quantity - add \in Nat
    BY <2>2
  <2>4. Gives(healed, side, quantity - add)
    BY <1>4, <2>3
  <2>. HIDE DEF healed
  <2>5. CASE healed.error # NoError
    BY <2>1, <2>4, <2>5
  <2>6. CASE healed.error = NoError
    <3>1. Usable(healed.value) /\ Remaining(healed.value) = Remaining(side) + (quantity - add)
      BY <2>4, <2>6
    <3>2. Gives(Grown(healed.value, add), healed.value, add)
      BY <1>3, <2>2, <3>1
    <3>3. /\ (Remaining(side) + (quantity - add)) + add = Remaining(side) + quantity
          /\ Remaining(side) + quantity \in Nat
      BY <1>1, <1>2, <2>2
    <3>. QED
      BY <2>1, <2>6, <3>1, <3>2, <3>3
  <2>. QED
    BY <2>5, <2>6
<1>. QED
  BY <1>5, <1>6, <1>7, <1>8 DEF AllPolicies

-----------------------------------------------------------------------------
(* A flow of orders.                                                       *)

(* What every reachable book satisfies.                                    *)
BookInv ==
  /\ Usable(bid) /\ ValidSide(BidPrices, bid)
  /\ Usable(ask) /\ ValidSide(AskPrices, ask)
  /\ policy \in Policies
  /\ bookResult \in {NoError, "Overflow", "DivByZero"}

DepthKept ==
  /\ Depth' <= Depth
  /\ (/\ policy \in {"HealThenAdd", "DepthProportional"}
      /\ bid' # bid
      /\ ask' # ask) => Depth' = Depth

(* The first of three errors is one of them.                               *)
LEMMA FirstErrorIs ==
  ASSUME NEW q, q.error \in WalkErrors,
         NEW e, e.error \in {NoError, "Overflow", "DivByZero"},
         NEW r, r.error \in {NoError, "Overflow", "DivByZero"}
  PROVE  /\ FirstError(q, e, r) \in WalkErrors
         /\ FirstError(q, e, r) = NoError =>
              q.error = NoError /\ e.error = NoError /\ r.error = NoError
  BY DEF FirstError, WalkErrors

(* Validation looks at the prices, which stay, and at what Usable says.    *)
LEMMA StaysValid ==
  ASSUME NEW prices, NEW old, NEW new, ValidSide(prices, old), Usable(new)
  PROVE  ValidSide(prices, new)
  BY DEF ValidSide, Usable

(* What a side has left.                                                   *)
LEMMA RemainingIs ==
  ASSUME NEW side, Usable(side)
  PROVE  /\ Remaining(side) \in Nat /\ Remaining(side) = side.total - side.consumed
         /\ side.total \in Nat /\ side.consumed \in Nat
  BY MaxU64Assumption DEF Usable, Side, U64, Remaining, SaturatingSub

(* An order that brings base.                                              *)
LEMMA SellOrderKeeps ==
  ASSUME BookInv, NEW amountIn \in Nat, NEW fairPrice \in Nat,
         SellOrder(amountIn, fairPrice)
  PROVE  BookInv' /\ DepthKept
<1>1. PICK quote, refill :
        /\ quote = SellBaseForQuote(bid, amountIn)
        /\ refill = ApplyPostFill(AskPrices, ask, amountIn, quote.crossed)
        /\ LET edge  == TakerEdge(fairPrice, amountIn, quote.out, TRUE)
               error == FirstError(quote, edge, refill)
           IN  \/ /\ error = NoError
                  /\ bid' = quote.side
                  /\ ask' = refill.value
                  /\ UNCHANGED bookResult
               \/ /\ error = "InvalidAmount"
                  /\ bid' = quote.side
                  /\ UNCHANGED <<ask, bookResult>>
               \/ /\ error \notin {NoError, "InvalidAmount"}
                  /\ bookResult' = error
                  /\ UNCHANGED <<bid, ask>>
  BY DEF SellOrder
<1>2. UNCHANGED policy
  BY DEF SellOrder
<1>. DEFINE edge  == TakerEdge(fairPrice, amountIn, quote.out, TRUE)
            error == FirstError(quote, edge, refill)
<1>3. /\ quote \in Walk /\ Usable(quote.side)
      /\ quote.side.total = bid.total /\ quote.side.consumed >= bid.consumed
      /\ quote.error = NoError => quote.side.consumed = bid.consumed + amountIn
  BY <1>1, SaleKeeps DEF BookInv
<1>4. quote.crossed \in Nat /\ quote.error \in WalkErrors /\ policy \in AllPolicies
  BY <1>3, PiecewiseBookAssumption DEF Walk, BookInv
<1>5. /\ refill.error \in {NoError, "Overflow", "DivByZero"}
      /\ refill.error = NoError =>
           /\ Usable(refill.value)
           /\ Remaining(refill.value) <= Remaining(ask) + amountIn
           /\ policy \in {"HealThenAdd", "DepthProportional"} =>
                Remaining(refill.value) = Remaining(ask) + amountIn
  BY <1>1, <1>4, RefillMoves DEF BookInv
<1>6. edge.error \in {NoError, "Overflow", "DivByZero"}
  BY ReportErrors
<1>. HIDE DEF edge
<1>7. error \in WalkErrors
      /\ (error = NoError => quote.error = NoError /\ refill.error = NoError)
  BY <1>4, <1>5, <1>6, FirstErrorIs
<1>8. \/ error = NoError /\ bid' = quote.side /\ ask' = refill.value /\ UNCHANGED bookResult
      \/ error = "InvalidAmount" /\ bid' = quote.side /\ UNCHANGED <<ask, bookResult>>
      \/ error \notin {NoError, "InvalidAmount"} /\ bookResult' = error
         /\ UNCHANGED <<bid, ask>>
  BY <1>1 DEF edge
<1>. HIDE DEF error
<1>9. /\ ValidSide(BidPrices, quote.side)
      /\ refill.error = NoError => ValidSide(AskPrices, refill.value)
  BY <1>3, <1>5, StaysValid DEF BookInv
<1>10. /\ Remaining(bid) \in Nat /\ Remaining(ask) \in Nat
       /\ Remaining(quote.side) \in Nat /\ Remaining(quote.side) <= Remaining(bid)
       /\ quote.error = NoError => Remaining(quote.side) + amountIn = Remaining(bid)
       /\ refill.error = NoError => Remaining(refill.value) \in Nat
  BY <1>3, <1>5, RemainingIs DEF BookInv
<1>11. CASE error = NoError
  <2>1. bid' = quote.side /\ ask' = refill.value /\ UNCHANGED bookResult
    BY <1>8, <1>11 DEF NoError
  <2>2. BookInv'
    BY <1>2, <1>3, <1>5, <1>7, <1>9, <1>11, <2>1 DEF BookInv, Usable, ValidSide
  <2>3. Depth' = Remaining(quote.side) + Remaining(refill.value)
    BY <2>1 DEF Depth, Remaining
  <2>. QED
    BY <1>5, <1>7, <1>10, <1>11, <2>2, <2>3 DEF Depth, DepthKept
<1>12. CASE error = "InvalidAmount"
  <2>1. bid' = quote.side /\ UNCHANGED <<ask, bookResult>>
    BY <1>8, <1>12 DEF NoError
  <2>2. BookInv'
    BY <1>2, <1>3, <1>9, <2>1 DEF BookInv, Usable, ValidSide
  <2>3. Depth' = Remaining(quote.side) + Remaining(ask)
    BY <2>1 DEF Depth, Remaining
  <2>. QED
    BY <1>10, <2>1, <2>2, <2>3 DEF Depth, DepthKept
<1>13. CASE error \notin {NoError, "InvalidAmount"}
  <2>1. bookResult' = error /\ UNCHANGED <<bid, ask>>
    BY <1>8, <1>13
  <2>2. BookInv'
    BY <1>2, <1>7, <1>13, <2>1 DEF BookInv, Usable, ValidSide, WalkErrors
  <2>3. Depth' = Depth
    BY <2>1 DEF Depth, Remaining
  <2>. QED
    BY <1>10, <2>2, <2>3 DEF Depth, DepthKept
<1>. QED
  BY <1>11, <1>12, <1>13

(* An order that brings quote.                                             *)
LEMMA BuyOrderKeeps ==
  ASSUME BookInv, NEW amountIn \in Nat, NEW fairPrice \in Nat,
         BuyOrder(amountIn, fairPrice)
  PROVE  BookInv' /\ DepthKept
<1>1. PICK quote, refill :
        /\ quote = BuyBaseWithQuote(ask, amountIn)
        /\ refill = ApplyPostFill(BidPrices, bid, quote.out, quote.crossed)
        /\ LET edge  == TakerEdge(fairPrice, amountIn, quote.out, FALSE)
               error == FirstError(quote, edge, refill)
           IN  \/ /\ error = NoError
                  /\ ask' = quote.side
                  /\ bid' = refill.value
                  /\ UNCHANGED bookResult
               \/ /\ error = "InvalidAmount"
                  /\ ask' = quote.side
                  /\ UNCHANGED <<bid, bookResult>>
               \/ /\ error \notin {NoError, "InvalidAmount"}
                  /\ bookResult' = error
                  /\ UNCHANGED <<bid, ask>>
  BY DEF BuyOrder
<1>2. UNCHANGED policy
  BY DEF BuyOrder
<1>. DEFINE edge  == TakerEdge(fairPrice, amountIn, quote.out, FALSE)
            error == FirstError(quote, edge, refill)
<1>3. /\ quote \in Walk /\ Usable(quote.side)
      /\ quote.side.total = ask.total
      /\ quote.side.consumed = ask.consumed + quote.out
  BY <1>1, PurchaseKeeps DEF BookInv
<1>4. quote.crossed \in Nat /\ quote.out \in Nat /\ quote.error \in WalkErrors /\ policy \in AllPolicies
  BY <1>3, PiecewiseBookAssumption DEF Walk, BookInv
<1>5. /\ refill.error \in {NoError, "Overflow", "DivByZero"}
      /\ refill.error = NoError =>
           /\ Usable(refill.value)
           /\ Remaining(refill.value) <= Remaining(bid) + quote.out
           /\ policy \in {"HealThenAdd", "DepthProportional"} =>
                Remaining(refill.value) = Remaining(bid) + quote.out
  BY <1>1, <1>4, RefillMoves DEF BookInv
<1>6. edge.error \in {NoError, "Overflow", "DivByZero"}
  BY ReportErrors
<1>. HIDE DEF edge
<1>7. error \in WalkErrors
      /\ (error = NoError => quote.error = NoError /\ refill.error = NoError)
  BY <1>4, <1>5, <1>6, FirstErrorIs
<1>8. \/ error = NoError /\ ask' = quote.side /\ bid' = refill.value /\ UNCHANGED bookResult
      \/ error = "InvalidAmount" /\ ask' = quote.side /\ UNCHANGED <<bid, bookResult>>
      \/ error \notin {NoError, "InvalidAmount"} /\ bookResult' = error
         /\ UNCHANGED <<bid, ask>>
  BY <1>1 DEF edge
<1>. HIDE DEF error
<1>9. /\ ValidSide(AskPrices, quote.side)
      /\ refill.error = NoError => ValidSide(BidPrices, refill.value)
  BY <1>3, <1>5, StaysValid DEF BookInv
<1>10. /\ Remaining(bid) \in Nat /\ Remaining(ask) \in Nat
       /\ Remaining(quote.side) \in Nat /\ Remaining(quote.side) + quote.out = Remaining(ask)
       /\ refill.error = NoError => Remaining(refill.value) \in Nat
  BY <1>3, <1>4, <1>5, RemainingIs DEF BookInv
<1>11. CASE error = NoError
  <2>1. ask' = quote.side /\ bid' = refill.value /\ UNCHANGED bookResult
    BY <1>8, <1>11 DEF NoError
  <2>2. BookInv'
    BY <1>2, <1>3, <1>5, <1>7, <1>9, <1>11, <2>1 DEF BookInv, Usable, ValidSide
  <2>3. Depth' = Remaining(refill.value) + Remaining(quote.side)
    BY <2>1 DEF Depth, Remaining
  <2>. QED
    BY <1>4, <1>5, <1>7, <1>10, <1>11, <2>2, <2>3 DEF Depth, DepthKept
<1>12. CASE error = "InvalidAmount"
  <2>1. ask' = quote.side /\ UNCHANGED <<bid, bookResult>>
    BY <1>8, <1>12 DEF NoError
  <2>2. BookInv'
    BY <1>2, <1>3, <1>9, <2>1 DEF BookInv, Usable, ValidSide
  <2>3. Depth' = Remaining(bid) + Remaining(quote.side)
    BY <2>1 DEF Depth, Remaining
  <2>. QED
    BY <1>4, <1>10, <2>1, <2>2, <2>3 DEF Depth, DepthKept
<1>13. CASE error \notin {NoError, "InvalidAmount"}
  <2>1. bookResult' = error /\ UNCHANGED <<bid, ask>>
    BY <1>8, <1>13
  <2>2. BookInv'
    BY <1>2, <1>7, <1>13, <2>1 DEF BookInv, Usable, ValidSide, WalkErrors
  <2>3. Depth' = Depth
    BY <2>1 DEF Depth, Remaining
  <2>. QED
    BY <1>10, <2>2, <2>3 DEF Depth, DepthKept
<1>. QED
  BY <1>11, <1>12, <1>13

(* Two quotients, one below a price and one above it.                      *)
LEMMA AcrossPrice ==
  ASSUME NEW q \in Nat \ {0}, NEW p \in Nat, NEW x \in Nat, NEW y \in Nat,
         NEW a \in Nat, NEW b \in Nat, q * x <= p * b, p * a <= q * y
  PROVE  x * a <= y * b
<1>1. (q * x) * a <= (p * b) * a /\ (p * a) * b <= (q * y) * b
  BY ProductNat, ProductMonotone
<1>2. /\ (q * x) * a = (x * a) * q /\ (q * y) * b = (y * b) * q
      /\ (p * b) * a = (p * a) * b
      /\ x * a \in Nat /\ y * b \in Nat /\ (p * a) * b \in Nat
      /\ (x * a) * q \in Nat /\ (y * b) * q \in Nat
  BY ProductNat
<1>. DEFINE m == x * a
            n == y * b
<1>3. m * q <= n * q
  BY <1>1, <1>2
<1>. HIDE DEF m, n
<1>4. m \in Nat /\ n \in Nat
  BY <1>2 DEF m, n
<1>5. ASSUME n < m PROVE FALSE
  <2>1. (n + 1) * q <= m * q
    BY <1>4, <1>5, ProductMonotone
  <2>2. (n + 1) * q = n * q + q /\ n * q \in Nat /\ m * q \in Nat
    BY <1>4
  <2>. QED
    BY <1>3, <2>1, <2>2
<1>. QED
  BY <1>4, <1>5 DEF m, n

(* A step of the flow.                                                     *)
LEMMA BookStepKeeps ==
  BookInv /\ [BookNext]_bookVars => BookInv' /\ [DepthKept]_bookVars
<1>1. ASSUME BookInv, BookNext PROVE BookInv' /\ DepthKept
  <2>1. PICK amountIn \in BookAmounts, fairPrice \in BookFairPrices :
          SellOrder(amountIn, fairPrice) \/ BuyOrder(amountIn, fairPrice)
    BY <1>1 DEF BookNext
  <2>2. amountIn \in Nat /\ fairPrice \in Nat
    BY PiecewiseBookAssumption, MaxU64Assumption DEF U64
  <2>. QED
    BY <1>1, <2>1, <2>2, SellOrderKeeps, BuyOrderKeeps
<1>2. ASSUME BookInv, UNCHANGED bookVars PROVE BookInv'
  BY <1>2 DEF BookInv, bookVars, Usable, ValidSide
<1>. QED
  BY <1>1, <1>2

(* The invariant holds in every reachable book.                            *)
LEMMA BookInductive == BookSpec => []BookInv
<1>1. BookInit => BookInv
  BY PiecewiseBookAssumption DEF BookInit, BookInv, Usable, ValidSide
<1>. QED
  BY <1>1, BookStepKeeps, PTL DEF BookSpec

(* The quantities of both sides stay words, for every price table, policy  *)
(* and flow of orders, and the only errors that end a simulation are those *)
(* of the arithmetic.                                                      *)
THEOREM BookTypeCorrect == BookSpec => []BookTypeOK
<1>1. BookInv => BookTypeOK
  BY DEF BookInv, BookTypeOK, Usable
<1>. QED
  BY <1>1, BookInductive, PTL

(* No flow of orders brings a side to a state its validate refuses, and no *)
(* walk of piecewise.rs takes an empty slice for the current one.          *)
THEOREM BookUsable == BookSpec => []BookStaysUsable
<1>1. BookInv => BookStaysUsable
  BY DEF BookInv, BookStaysUsable, NoError
<1>. QED
  BY <1>1, BookInductive, PTL

(* Depth only moves from the side an order consumes to the side that       *)
(* apply_post_fill replenishes: no policy creates any, and two of them     *)
(* lose none.                                                              *)
THEOREM DepthConserved == BookSpec => DepthMovesAcross
<1>1. [DepthKept]_bookVars
        <=> [/\ Depth' <= Depth
             /\ (/\ policy \in {"HealThenAdd", "DepthProportional"}
                 /\ bid' # bid
                 /\ ask' # ask) => Depth' = Depth]_bookVars
  BY DEF DepthKept
<1>. QED
  BY <1>1, BookStepKeeps, BookInductive, PTL DEF BookSpec, DepthMovesAcross

(* An order that follows another on its side never trades at a better      *)
(* average price, up to the atom each crossed slice may lose to rounding:  *)
(* every price the second one meets is no better than the price at which   *)
(* the first one stopped.                                                  *)
THEOREM DepthCosts == BookSpec => []DeeperIsNeverCheaper
<1>1. ASSUME BookInv, NEW a \in BookAmounts, NEW b \in BookAmounts
      PROVE  /\ \A first \in {SellBaseForQuote(bid, a)} :
                  SaleIsDearer(a, b, first, SellBaseForQuote(first.side, b))
             /\ \A first \in {BuyBaseWithQuote(ask, a)} :
                  PurchaseIsDearer(a, b, first, BuyBaseWithQuote(first.side, b))
  <2>1. a \in Nat /\ b \in Nat /\ Q64 \in Nat \ {0}
    BY PiecewiseBookAssumption, MaxU64Assumption, Q64Positive DEF U64
  <2>2. ASSUME NEW first, first = SellBaseForQuote(bid, a),
               NEW second, second = SellBaseForQuote(first.side, b),
               first.error = NoError, second.error = NoError
        PROVE  second.out * a <= (first.out + first.crossed) * b
    <3>1. /\ first \in Walk /\ Usable(first.side)
          /\ PriceNow(BidLevels, first.side) * a <= Q64 * (first.out + first.crossed)
      BY <1>1, <2>1, <2>2, SaleKeeps DEF BookInv
    <3>2. ValidSide(BidPrices, first.side)
      BY <1>1, <3>1, StaysValid DEF BookInv
    <3>3. /\ second \in Walk
          /\ Q64 * second.out <= PriceNow(BidLevels, first.side) * b
      BY <2>1, <2>2, <3>1, <3>2, SaleKeeps
    <3>4. PriceNow(BidLevels, first.side) \in Nat
      BY <3>1, SidesAreCurves, PriceNowType
    <3>5. first.out + first.crossed \in Nat /\ second.out \in Nat
      BY <3>1, <3>3 DEF Walk
    <3>. QED
      BY <2>1, <3>1, <3>3, <3>4, <3>5, AcrossPrice
  <2>3. ASSUME NEW first, first = BuyBaseWithQuote(ask, a),
               NEW second, second = BuyBaseWithQuote(first.side, b),
               first.error = NoError, second.error = NoError
        PROVE  a * second.out <= (b + second.crossed) * first.out
    <3>1. /\ first \in Walk /\ Usable(first.side)
          /\ Q64 * a <= PriceNow(AskLevels, first.side) * first.out
      BY <1>1, <2>1, <2>3, PurchaseKeeps DEF BookInv
    <3>2. ValidSide(AskPrices, first.side)
      BY <1>1, <3>1, StaysValid DEF BookInv
    <3>3. /\ second \in Walk
          /\ PriceNow(AskLevels, first.side) * second.out
               <= Q64 * (b + second.crossed)
      BY <2>1, <2>3, <3>1, <3>2, PurchaseKeeps
    <3>4. PriceNow(AskLevels, first.side) \in Nat
      BY <3>1, SidesAreCurves, PriceNowType
    <3>5. b + second.crossed \in Nat /\ second.out \in Nat /\ first.out \in Nat
      BY <2>1, <3>1, <3>3 DEF Walk
    <3>. QED
      BY <2>1, <3>1, <3>3, <3>4, <3>5, AcrossPrice
  <2>. QED
    BY <2>2, <2>3 DEF SaleIsDearer, PurchaseIsDearer
<1>2. BookInv => DeeperIsNeverCheaper
  BY <1>1 DEF DeeperIsNeverCheaper
<1>. QED
  BY <1>2, BookInductive, PTL

=============================================================================
