---------------------------- MODULE ToolsProofs ----------------------------
(***************************************************************************)
(* Theorems about the tools around the program: the verdicts over a        *)
(* scenario pack, the ranking of candidates, the export of the best one    *)
(* and its way back into the compiler, and the policy inferred from a      *)
(* recorded market.                                                        *)
(***************************************************************************)
EXTENDS CommandLine, ArithmeticProofs, SequenceTheorems

-----------------------------------------------------------------------------
(* Extremes of sets of integers. *)

LEMMA MaxIsGreatest ==
  ASSUME NEW S, IsFiniteSet(S), S \subseteq Int, S # {}
  PROVE  Max(S) \in S /\ \A n \in S : n <= Max(S)
<1>1. \E m \in S : \A n \in S : m >= n
  BY GreatestMember
<1>2. Max(S) \in S /\ \A n \in S : Max(S) >= n
  BY <1>1 DEF Max
<1>. QED
  BY <1>2

LEMMA MinIsLeast ==
  ASSUME NEW S, IsFiniteSet(S), S \subseteq Int, S # {}
  PROVE  Min(S) \in S /\ \A n \in S : Min(S) <= n
  BY LeastMember DEF Min

(* The least of a set of positions is found without the set being finite.  *)
LEMMA MinIsFirst ==
  ASSUME NEW S, S \subseteq Nat, S # {}
  PROVE  Min(S) \in S /\ \A n \in S : Min(S) <= n
  BY LeastNumber DEF Min

-----------------------------------------------------------------------------
(* What stands at a place of sorted values. *)

Below(x, v)  == {i \in DOMAIN x : x[i] < v}
UpTo(x, v)   == {i \in DOMAIN x : x[i] <= v}

(* AtPlace chooses a value that is there: one of the family, with fewer    *)
(* values below it than its place and enough up to it.                     *)
LEMMA PlaceIsTaken ==
  ASSUME NEW S, IsFiniteSet(S), NEW x \in [S -> Int], NEW k \in 1 .. Cardinality(S)
  PROVE  /\ AtPlace(x, k) \in Range(x)
         /\ Cardinality(Below(x, AtPlace(x, k))) < k
         /\ k <= Cardinality(UpTo(x, AtPlace(x, k)))
<1>. DEFINE Enough == {v \in Range(x) : k <= Cardinality(UpTo(x, v))}
<1>1. IsFiniteSet(Range(x)) /\ Range(x) \subseteq Int /\ Cardinality(S) \in Nat
      /\ S = DOMAIN x
  BY FiniteRange, FS_CardinalityType DEF Range
<1>2. Range(x) # {}
  <2>1. S # {}
    BY <1>1, FS_EmptySet
  <2>. QED
    BY <2>1 DEF Range
<1>3. Enough # {}
  <2>1. PICK m \in Range(x) : \A v \in Range(x) : v <= m
    BY <1>1, <1>2, GreatestMember
  <2>2. UpTo(x, m) = S
    BY <2>1 DEF UpTo, Range
  <2>. QED
    BY <1>1, <2>1, <2>2
<1>4. IsFiniteSet(Enough) /\ Enough \subseteq Int
  BY <1>1, FS_Subset
<1>5. PICK v \in Enough : \A w \in Enough : v <= w
  <2>. HIDE DEF Enough
  <2>. QED
    BY <1>3, <1>4, LeastMember
<1>6. ASSUME ~(Cardinality(Below(x, v)) < k) PROVE FALSE
  <2>. DEFINE B == Below(x, v)
              W == {x[i] : i \in B}
  <2>1. IsFiniteSet(B) /\ Cardinality(B) \in Nat /\ B \subseteq S
    BY <1>1, FS_Subset, FS_CardinalityType DEF Below
  <2>2. B # {}
    BY <1>6, <2>1, FS_EmptySet
  <2>3. W \subseteq Range(x) /\ W # {}
    BY <2>1, <2>2 DEF Range
  <2>4. IsFiniteSet(W) /\ W \subseteq Int
    BY <1>1, <2>3, FS_Subset
  <2>5. PICK w \in W : \A u \in W : u <= w
    <3>. HIDE DEF W
    <3>. QED
      BY <2>3, <2>4, GreatestMember
  <2>6. w < v /\ w \in Range(x) /\ w \in Int
    BY <2>3, <2>4, <2>5 DEF Below
  <2>7. B \subseteq UpTo(x, w) /\ UpTo(x, w) \subseteq S
    BY <2>1, <2>5 DEF UpTo
  <2>8. IsFiniteSet(UpTo(x, w)) /\ Cardinality(UpTo(x, w)) \in Nat
    BY <1>1, <2>7, FS_Subset, FS_CardinalityType
  <2>9. Cardinality(B) <= Cardinality(UpTo(x, w))
    BY <2>7, <2>8, FS_Subset
  <2>10. w \in Enough
    BY <1>6, <2>1, <2>6, <2>8, <2>9
  <2>11. v \in Int /\ v <= w
    BY <1>4, <1>5, <2>10
  <2>. QED
    BY <2>6, <2>11
<1>7. v \in Range(x) /\ Cardinality(Below(x, v)) < k /\ k <= Cardinality(UpTo(x, v))
  BY <1>5, <1>6
<1>. QED
  BY <1>7 DEF AtPlace, Below, UpTo

(* Of two families, some index has at least the value at a place in the    *)
(* one and at most the value at the same place in the other.               *)
LEMMA PlacesMeet ==
  ASSUME NEW S, IsFiniteSet(S), NEW x \in [S -> Int], NEW y \in [S -> Int],
         NEW k \in 1 .. Cardinality(S)
  PROVE  \E i \in S : AtPlace(x, k) <= x[i] /\ y[i] <= AtPlace(y, k)
<1>. DEFINE v == AtPlace(x, k)
            A == S \ Below(x, v)
            B == UpTo(y, AtPlace(y, k))
<1>1. /\ v \in Int
      /\ Cardinality(Below(x, v)) < k
      /\ k <= Cardinality(B)
  BY PlaceIsTaken DEF Range
<1>. HIDE DEF v
<1>2. Below(x, v) \subseteq S /\ A \subseteq S /\ B \subseteq S
  BY DEF Below, UpTo
<1>3. /\ IsFiniteSet(Below(x, v)) /\ IsFiniteSet(A) /\ IsFiniteSet(B)
      /\ Cardinality(Below(x, v)) \in Nat /\ Cardinality(A) \in Nat
      /\ Cardinality(B) \in Nat /\ Cardinality(S) \in Nat
  BY <1>2, FS_Subset, FS_CardinalityType
<1>4. Cardinality(S) = Cardinality(A) + Cardinality(Below(x, v))
  <2>1. A \cup Below(x, v) = S /\ A \cap Below(x, v) = {}
    BY <1>2
  <2>2. Cardinality(A \cup Below(x, v))
          = Cardinality(A) + Cardinality(Below(x, v))
              - Cardinality(A \cap Below(x, v))
    BY <1>3, FS_Union
  <2>3. Cardinality(A \cap Below(x, v)) = 0
    BY <2>1, FS_EmptySet
  <2>4. Cardinality(A \cup Below(x, v)) = Cardinality(S)
    BY <2>1
  <2>. HIDE DEF A
  <2>. QED
    BY <1>3, <2>2, <2>3, <2>4
<1>5. Cardinality(A) + Cardinality(B) > Cardinality(S)
  BY <1>1, <1>3, <1>4
<1>6. A \cap B # {}
  <2>. HIDE DEF A, B
  <2>. QED
    BY <1>2, <1>5, FS_MajoritiesIntersect
<1>7. PICK i \in S : i \in A /\ i \in B
  BY <1>2, <1>6
<1>8. v <= x[i] /\ y[i] <= AtPlace(y, k)
  BY <1>1, <1>7 DEF Below, UpTo
<1>. QED
  BY <1>8 DEF v

(* A family below another one is below it at every place.                  *)
LEMMA PlacesMonotone ==
  ASSUME NEW S, IsFiniteSet(S), NEW x \in [S -> Int], NEW y \in [S -> Int],
         \A i \in S : x[i] <= y[i], NEW k \in 1 .. Cardinality(S)
  PROVE  AtPlace(x, k) <= AtPlace(y, k)
<1>1. PICK i \in S : AtPlace(x, k) <= x[i] /\ y[i] <= AtPlace(y, k)
  BY PlacesMeet
<1>2. AtPlace(x, k) \in Int /\ AtPlace(y, k) \in Int
  BY PlaceIsTaken DEF Range
<1>3. x[i] \in Int /\ y[i] \in Int /\ x[i] <= y[i]
  OBVIOUS
<1>. QED
  BY <1>1, <1>2, <1>3

(* A percentile has a place among the values. *)
LEMMA PercentilePlaces ==
  ASSUME NEW n \in Nat \ {0}, NEW p \in 0 .. 100
  PROVE  PercentileIndex(n, p) \in 1 .. n
<1>1. (n - 1) * p \in Nat /\ (n - 1) * p <= (n - 1) * 100
  BY ProductNat
<1>2. ((n - 1) * p) \div 100 \in Nat /\ ((n - 1) * p) \div 100 <= n - 1
  BY <1>1, DivBounds, DivAtMost
<1>. QED
  BY <1>2 DEF PercentileIndex

-----------------------------------------------------------------------------
(* Rates, gates and findings. *)

LEMMA LeastNat ==
  ASSUME NEW a \in Nat, NEW b \in Nat
  PROVE  Least(a, b) \in Nat /\ Least(a, b) <= a /\ Least(a, b) <= b
  BY DEF Least

(* Division falls as its divisor grows. *)
LEMMA DivByMore ==
  ASSUME NEW c \in Nat, NEW d \in Nat \ {0}, NEW e \in Nat \ {0}, e <= d
  PROVE  c \div d <= c \div e
<1>. DEFINE q == c \div d
<1>1. q \in Nat /\ d * q <= c
  BY DivBounds
<1>. HIDE DEF q
<1>2. q * e <= c /\ q * e \in Nat
  <2>1. e * q <= d * q
    BY <1>1, ProductMonotone
  <2>2. e * q \in Nat /\ d * q \in Nat /\ q * e = e * q
    BY <1>1, ProductNat
  <2>. QED
    BY <1>1, <2>1, <2>2
<1>3. (q * e) \div e = q
  BY <1>1, ExactQuotient
<1>4. (q * e) \div e <= c \div e
  BY <1>2, DivMonotone
<1>. QED
  BY <1>3, <1>4 DEF q

LEMMA RateNat ==
  ASSUME NEW a \in Nat, NEW d \in Nat
  PROVE  RateBps(a, d) \in Nat
<1>1. CASE d = 0
  BY <1>1 DEF RateBps
<1>2. CASE d # 0
  <2>. DEFINE q == (a * BPS) \div d
  <2>1. q \in Nat
    BY <1>2, ProductNat, DivBounds, BPSAssumption
  <2>2. RateBps(a, d) = Least(q, MaxU16)
    BY <1>2 DEF RateBps
  <2>3. MaxU16 \in Nat
    BY DEF MaxU16
  <2>. HIDE DEF q
  <2>. QED
    BY <2>1, <2>2, <2>3, LeastNat
<1>. QED
  BY <1>1, <1>2

(* A rate grows with its part and falls as its whole grows, unless the     *)
(* whole is zero.                                                          *)
LEMMA RateMonotone ==
  ASSUME NEW a \in Nat, NEW b \in Nat, a <= b,
         NEW d \in Nat, NEW e \in Nat \ {0}, e <= d
  PROVE  RateBps(a, d) <= RateBps(b, e)
<1>. DEFINE l == (a * BPS) \div d
            m == (b * BPS) \div d
            r == (b * BPS) \div e
<1>1. d # 0 /\ BPS \in Nat
  BY BPSAssumption
<1>2. a * BPS \in Nat /\ b * BPS \in Nat /\ a * BPS <= b * BPS
  BY <1>1, ProductNat, ProductMonotone
<1>3. l <= m /\ m <= r /\ l \in Nat /\ m \in Nat /\ r \in Nat
  BY <1>1, <1>2, DivMonotone, DivByMore, DivBounds
<1>4. RateBps(a, d) = Least(l, MaxU16) /\ RateBps(b, e) = Least(r, MaxU16)
  BY <1>1 DEF RateBps
<1>. HIDE DEF l, m, r
<1>. QED
  BY <1>3, <1>4 DEF Least, MaxU16

LEMMA RateOfNothing ==
  ASSUME NEW d \in Nat
  PROVE  RateBps(0, d) = 0
<1>1. CASE d = 0
  BY <1>1 DEF RateBps
<1>2. CASE d # 0
  <2>1. 0 * BPS = 0 /\ 0 \div d = 0
    BY <1>2, BPSAssumption
  <2>. QED
    BY <1>2, <2>1 DEF RateBps, Least, MaxU16
<1>. QED
  BY <1>1, <1>2

(* The ratio of two percentiles, one of parts and one of wholes, is at     *)
(* most the rate of one of the paths and at least that of another.         *)
LEMMA TailBetweenPaths ==
  ASSUME NEW S, IsFiniteSet(S), NEW x \in [S -> Nat], NEW y \in [S -> Nat],
         \A i \in S : x[i] <= y[i], NEW k \in 1 .. Cardinality(S)
  PROVE  LET tail == RateBps(AtPlace(x, k), AtPlace(y, k))
         IN  /\ tail \in Nat
             /\ \E i \in S : RateBps(x[i], y[i]) <= tail
             /\ \E i \in S : tail <= RateBps(x[i], y[i])
<1>. DEFINE a == AtPlace(x, k)
            b == AtPlace(y, k)
<1>0. x \in [S -> Int] /\ y \in [S -> Int]
  OBVIOUS
<1>1. a \in Nat /\ b \in Nat /\ a <= b
  <2>1. Range(x) \subseteq Nat /\ Range(y) \subseteq Nat
    BY DEF Range
  <2>. QED
    BY <1>0, <2>1, PlaceIsTaken, PlacesMonotone
<1>2. PICK i \in S : a <= x[i] /\ y[i] <= b
  BY <1>0, PlacesMeet
<1>3. PICK j \in S : b <= y[j] /\ x[j] <= a
  BY <1>0, PlacesMeet
<1>. HIDE DEF a, b
<1>4. x[i] \in Nat /\ y[i] \in Nat /\ x[j] \in Nat /\ y[j] \in Nat
      /\ x[i] <= y[i] /\ x[j] <= y[j]
  OBVIOUS
<1>5. RateBps(a, b) <= RateBps(x[i], y[i])
  <2>1. CASE y[i] = 0
    <3>1. a = 0 /\ x[i] = 0
      BY <1>1, <1>2, <1>4, <2>1
    <3>. QED
      BY <1>1, <1>4, <3>1, RateOfNothing
  <2>2. CASE y[i] # 0
    BY <1>1, <1>2, <1>4, <2>2, RateMonotone
  <2>. QED
    BY <2>1, <2>2
<1>6. RateBps(x[j], y[j]) <= RateBps(a, b)
  <2>1. CASE b = 0
    <3>1. a = 0 /\ x[j] = 0
      BY <1>1, <1>3, <1>4, <2>1
    <3>. QED
      BY <1>1, <1>4, <3>1, RateOfNothing
  <2>2. CASE b # 0
    BY <1>1, <1>3, <1>4, <2>2, RateMonotone
  <2>. QED
    BY <2>1, <2>2
<1>7. RateBps(a, b) \in Nat
  BY <1>1, RateNat
<1>. QED
  BY <1>5, <1>6, <1>7 DEF a, b

Severities == {Pass, Warn, Block}

(* Gates: a severity, worse the further the figure is on the wrong side.   *)
LEMMA MaxGateMonotone ==
  ASSUME NEW a \in Int, NEW b \in Int, a <= b,
         NEW t, t.warn \in Nat, t.block \in Nat, t.warn <= t.block
  PROVE  MaxGate(a, t) <= MaxGate(b, t)
  BY DEF MaxGate, Pass, Warn, Block

LEMMA GateSeverity ==
  ASSUME NEW a, NEW t
  PROVE  MinGate(a, t) \in Severities /\ MaxGate(a, t) \in Severities
  BY DEF MinGate, MaxGate, Severities

-----------------------------------------------------------------------------
(* Verdicts. *)

PathSeqs == Seq(ReferenceQuoteReports) \ {<<>>}

FamilyOf(reports, f) == [i \in 1 .. Len(reports) |-> reports[i][f]]
FillRates(reports)   == [i \in 1 .. Len(reports) |-> FillRateBps(reports[i])]
Place(reports, p)    == PercentileIndex(Len(reports), p)

(* What the lemmas need to know of the paths of a scenario.                *)
WellFormed(reports) ==
  /\ DOMAIN reports = 1 .. Len(reports) /\ Len(reports) \in Nat \ {0}
  /\ IsFiniteSet(1 .. Len(reports))
  /\ Cardinality(1 .. Len(reports)) = Len(reports)
  /\ \A i \in 1 .. Len(reports) : reports[i] \in ReferenceQuoteReports
  /\ \A f \in CountFields : FamilyOf(reports, f) \in [1 .. Len(reports) -> Nat]
  /\ FillRates(reports) \in [1 .. Len(reports) -> Nat]
  /\ \A p \in 0 .. 100 : Place(reports, p) \in 1 .. Len(reports)

LEMMA PathSeqShape ==
  ASSUME NEW reports \in PathSeqs
  PROVE  WellFormed(reports)
<1>1. reports \in Seq(ReferenceQuoteReports) /\ reports # <<>>
  BY DEF PathSeqs
<1>2. DOMAIN reports = 1 .. Len(reports) /\ Len(reports) \in Nat \ {0}
  BY <1>1, LenProperties, EmptySeq
<1>3. \A i \in 1 .. Len(reports) : reports[i] \in ReferenceQuoteReports
  BY <1>1, ElementOfSeq
<1>4. IsFiniteSet(1 .. Len(reports)) /\ Cardinality(1 .. Len(reports)) = Len(reports)
  BY <1>2, FS_Interval
<1>5. \A f \in CountFields : FamilyOf(reports, f) \in [1 .. Len(reports) -> Nat]
  BY <1>3 DEF FamilyOf, ReferenceQuoteReports
<1>6. ASSUME NEW i \in 1 .. Len(reports) PROVE FillRateBps(reports[i]) \in Nat
  <2>1. reports[i].trades_filled \in Nat /\ reports[i].trades_attempted \in Nat
    BY <1>3 DEF ReferenceQuoteReports, CountFields
  <2>. QED
    BY <2>1, RateNat DEF FillRateBps
<1>7. \A p \in 0 .. 100 : Place(reports, p) \in 1 .. Len(reports)
  BY <1>2, PercentilePlaces DEF Place
<1>. QED
  BY <1>2, <1>3, <1>4, <1>5, <1>6, <1>7 DEF WellFormed, FillRates

(* What the gates look at. *)
LEMMA AggregateParts ==
  ASSUME NEW reports \in PathSeqs
  PROVE  /\ Aggregate(reports).paths = Len(reports)
         /\ Aggregate(reports).fill_rate_bps.p05
              = AtPlace(FillRates(reports), Place(reports, 5))
         /\ \A f \in CountFields :
              Aggregate(reports)[f].p95
                = AtPlace(FamilyOf(reports, f), Place(reports, 95))
<1>1. /\ DOMAIN reports = 1 .. Len(reports) /\ Len(reports) \in Nat \ {0}
      /\ Cardinality(1 .. Len(reports)) = Len(reports)
  BY PathSeqShape DEF WellFormed
<1>2. Aggregate(reports).fill_rate_bps = Summary(FillRates(reports))
  BY <1>1 DEF Aggregate, FillRates
<1>3. ASSUME NEW f \in CountFields
      PROVE  Aggregate(reports)[f] = Summary(FamilyOf(reports, f))
  <2>1. f # "paths" /\ f # "fill_rate_bps" /\ f \in ReportFields
    BY DEF CountFields, ReportFields
  <2>. QED
    BY <1>1, <2>1 DEF Aggregate, FamilyOf
<1>4. Aggregate(reports).paths = Len(reports)
  BY DEF Aggregate
<1>5. ASSUME NEW x, DOMAIN x = 1 .. Len(reports)
      PROVE  /\ Summary(x).p05 = AtPlace(x, Place(reports, 5))
             /\ Summary(x).p95 = AtPlace(x, Place(reports, 95))
  BY <1>1, <1>5 DEF Summary, Place
<1>6. DOMAIN FillRates(reports) = 1 .. Len(reports)
      /\ \A f \in CountFields : DOMAIN FamilyOf(reports, f) = 1 .. Len(reports)
  BY DEF FillRates, FamilyOf
<1>. QED
  BY <1>2, <1>3, <1>4, <1>5, <1>6

(* Of a single path every percentile is the figure of the path.            *)
LEMMA AggregateAlone ==
  ASSUME NEW r \in ReferenceQuoteReports
  PROVE  /\ <<r>> \in PathSeqs
         /\ Aggregate(<<r>>).fill_rate_bps.p05 = FillRateBps(r)
         /\ \A f \in CountFields : Aggregate(<<r>>)[f].p95 = r[f]
<1>. DEFINE one == <<r>>
<1>1. one \in PathSeqs /\ Len(one) = 1 /\ one[1] = r
  BY DEF PathSeqs
<1>. HIDE DEF one
<1>0. WellFormed(one)
  BY <1>1, PathSeqShape
<1>2. ASSUME NEW x \in [1 .. Len(one) -> Nat], NEW k \in 1 .. Len(one)
      PROVE  AtPlace(x, k) = x[1]
  <2>1. AtPlace(x, k) \in Range(x)
    <3>1. /\ IsFiniteSet(1 .. Len(one)) /\ Cardinality(1 .. Len(one)) = Len(one)
          /\ x \in [1 .. Len(one) -> Int]
      BY <1>0 DEF WellFormed
    <3>. QED
      BY <3>1, PlaceIsTaken
  <2>. QED
    BY <1>1, <2>1 DEF Range
<1>3. AtPlace(FillRates(one), Place(one, 5)) = FillRateBps(r)
  <2>1. FillRates(one) \in [1 .. Len(one) -> Nat]
    BY <1>0 DEF WellFormed
  <2>2. Place(one, 5) \in 1 .. Len(one)
    <3>1. \A p \in 0 .. 100 : Place(one, p) \in 1 .. Len(one)
      BY <1>0 DEF WellFormed
    <3>. QED
      BY <3>1
  <2>3. FillRates(one)[1] = FillRateBps(r)
    BY <1>1 DEF FillRates
  <2>. QED
    BY <1>2, <2>1, <2>2, <2>3
<1>4. ASSUME NEW f \in CountFields
      PROVE  AtPlace(FamilyOf(one, f), Place(one, 95)) = r[f]
  <2>1. FamilyOf(one, f) \in [1 .. Len(one) -> Nat]
    BY <1>0 DEF WellFormed
  <2>2. Place(one, 95) \in 1 .. Len(one)
    <3>1. \A p \in 0 .. 100 : Place(one, p) \in 1 .. Len(one)
      BY <1>0 DEF WellFormed
    <3>. QED
      BY <3>1
  <2>3. FamilyOf(one, f)[1] = r[f]
    BY <1>1 DEF FamilyOf
  <2>. QED
    BY <1>2, <2>1, <2>2, <2>3
<1>. QED
  BY <1>1, <1>3, <1>4, AggregateParts DEF one

Thresholds == DefaultThresholds

Verdict(reports) == Findings(Aggregate(reports), Thresholds)

Alone(reports, m) == {Verdict(<<r>>)[m] : r \in ToSet(reports)}

At95(reports, f) == AtPlace(FamilyOf(reports, f), Place(reports, 95))

(* Each metric is one gate of one or two percentiles.                      *)
LEMMA VerdictParts ==
  ASSUME NEW reports \in PathSeqs
  PROVE  LET verdict == Verdict(reports)
             TailGate(part, whole) == RateBps(At95(reports, part), At95(reports, whole))
         IN  /\ verdict.fill_rate_p05_bps
                  = MinGate(AtPlace(FillRates(reports), Place(reports, 5)),
                            Thresholds.fill_rate)
             /\ verdict.stale_reject_rate_p95_bps
                  = MaxGate(TailGate("rejected_stale", "trades_attempted"),
                            Thresholds.stale_reject_rate)
             /\ verdict.protected_reject_rate_p95_bps
                  = MaxGate(TailGate("rejected_protected", "trades_attempted"),
                            Thresholds.protected_reject_rate)
             /\ verdict.update_drop_rate_p95_bps
                  = MaxGate(TailGate("quote_updates_dropped", "quote_updates_sent"),
                            Thresholds.update_drop_rate)
             /\ verdict.max_quote_age_p95_slots
                  = MaxGate(At95(reports, "max_quote_age_slots"),
                            Thresholds.quote_age)
             /\ verdict.inventory_imbalance_p95_bps
                  = MaxGate(At95(reports, "max_abs_inventory_imbalance_bps"),
                            Thresholds.inventory_imbalance)
<1>1. /\ Aggregate(reports).fill_rate_bps.p05
           = AtPlace(FillRates(reports), Place(reports, 5))
      /\ \A f \in CountFields : Aggregate(reports)[f].p95 = At95(reports, f)
  BY AggregateParts DEF At95
<1>2. {"rejected_stale", "rejected_protected", "trades_attempted",
       "quote_updates_dropped", "quote_updates_sent", "max_quote_age_slots",
       "max_abs_inventory_imbalance_bps"} \subseteq CountFields
  BY DEF CountFields
<1>. QED
  BY <1>1, <1>2 DEF Verdict, Findings, TailRate

(* Of a path alone the percentiles are its own figures.                    *)
LEMMA VerdictAlone ==
  ASSUME NEW r \in ReferenceQuoteReports
  PROVE  LET verdict == Verdict(<<r>>)
         IN  /\ verdict.fill_rate_p05_bps
                  = MinGate(FillRateBps(r), Thresholds.fill_rate)
             /\ verdict.stale_reject_rate_p95_bps
                  = MaxGate(RateBps(r.rejected_stale, r.trades_attempted),
                            Thresholds.stale_reject_rate)
             /\ verdict.protected_reject_rate_p95_bps
                  = MaxGate(RateBps(r.rejected_protected, r.trades_attempted),
                            Thresholds.protected_reject_rate)
             /\ verdict.update_drop_rate_p95_bps
                  = MaxGate(RateBps(r.quote_updates_dropped, r.quote_updates_sent),
                            Thresholds.update_drop_rate)
             /\ verdict.max_quote_age_p95_slots
                  = MaxGate(r.max_quote_age_slots, Thresholds.quote_age)
             /\ verdict.inventory_imbalance_p95_bps
                  = MaxGate(r.max_abs_inventory_imbalance_bps,
                            Thresholds.inventory_imbalance)
<1>1. /\ Aggregate(<<r>>).fill_rate_bps.p05 = FillRateBps(r)
      /\ \A f \in CountFields : Aggregate(<<r>>)[f].p95 = r[f]
  BY AggregateAlone
<1>2. {"rejected_stale", "rejected_protected", "trades_attempted",
       "quote_updates_dropped", "quote_updates_sent", "max_quote_age_slots",
       "max_abs_inventory_imbalance_bps"} \subseteq CountFields
  BY DEF CountFields
<1>. QED
  BY <1>1, <1>2 DEF Verdict, Findings, TailRate

(* The thresholds warn before they block. *)
LEMMA ThresholdsInOrder ==
  \A m \in {"stale_reject_rate", "protected_reject_rate", "update_drop_rate",
            "quote_age", "inventory_imbalance"} :
    /\ Thresholds[m].warn \in Nat /\ Thresholds[m].block \in Nat
    /\ Thresholds[m].warn <= Thresholds[m].block
  BY DEF Thresholds, DefaultThresholds

LEMMA RatesBracketed ==
  ASSUME NEW reports \in PathSeqs,
         NEW part \in CountFields, NEW whole \in CountFields,
         \A i \in 1 .. Len(reports) : reports[i][part] <= reports[i][whole],
         NEW t, t.warn \in Nat, t.block \in Nat, t.warn <= t.block
  PROVE  LET Of(i) == MaxGate(RateBps(reports[i][part], reports[i][whole]), t)
             all   == MaxGate(RateBps(At95(reports, part), At95(reports, whole)), t)
         IN  /\ all \in Severities
             /\ \A i \in 1 .. Len(reports) : Of(i) \in Severities
             /\ \E i \in 1 .. Len(reports) : Of(i) <= all
             /\ \E i \in 1 .. Len(reports) : all <= Of(i)
<1>. DEFINE S == 1 .. Len(reports)
            x == FamilyOf(reports, part)
            y == FamilyOf(reports, whole)
            tail == RateBps(At95(reports, part), At95(reports, whole))
<1>1. WellFormed(reports)
  BY PathSeqShape
<1>2. IsFiniteSet(S) /\ Cardinality(S) = Len(reports)
      /\ x \in [S -> Nat] /\ y \in [S -> Nat]
  BY <1>1 DEF WellFormed
<1>3. Place(reports, 95) \in 1 .. Cardinality(S)
  <2>1. \A p \in 0 .. 100 : Place(reports, p) \in 1 .. Len(reports)
    BY <1>1 DEF WellFormed
  <2>2. Place(reports, 95) \in 1 .. Len(reports)
    BY <2>1
  <2>. HIDE DEF S
  <2>. QED
    BY <1>2, <2>2
<1>4. \A i \in S : x[i] = reports[i][part] /\ y[i] = reports[i][whole]
  BY DEF FamilyOf
<1>5. \A i \in S : x[i] <= y[i]
  BY <1>4
<1>6. /\ tail \in Nat
      /\ \E i \in S : RateBps(x[i], y[i]) <= tail
      /\ \E i \in S : tail <= RateBps(x[i], y[i])
  <2>. HIDE DEF x, y, S
  <2>. QED
    BY <1>2, <1>3, <1>5, TailBetweenPaths DEF At95, x, y
<1>. HIDE DEF x, y, S, tail
<1>7. \A i \in S : RateBps(x[i], y[i]) \in Nat
  BY <1>2, RateNat
<1>8. MaxGate(tail, t) \in Severities
  BY GateSeverity
<1>9. \A i \in S : MaxGate(RateBps(x[i], y[i]), t) \in Severities
  BY GateSeverity
<1>10. \E i \in S : MaxGate(RateBps(x[i], y[i]), t) <= MaxGate(tail, t)
  BY <1>6, <1>7, MaxGateMonotone
<1>11. \E i \in S : MaxGate(tail, t) <= MaxGate(RateBps(x[i], y[i]), t)
  BY <1>6, <1>7, MaxGateMonotone
<1>. QED
  BY <1>4, <1>8, <1>9, <1>10, <1>11 DEF tail, S

(* A percentile of one field is the figure of one path.                    *)
LEMMA FigureOfAPath ==
  ASSUME NEW reports \in PathSeqs
  PROVE  /\ \A f \in CountFields :
              \E i \in 1 .. Len(reports) : At95(reports, f) = reports[i][f]
         /\ \E i \in 1 .. Len(reports) :
              AtPlace(FillRates(reports), Place(reports, 5)) = FillRateBps(reports[i])
<1>. DEFINE S == 1 .. Len(reports)
<1>1. WellFormed(reports)
  BY PathSeqShape
<1>2. IsFiniteSet(S) /\ Cardinality(S) = Len(reports)
  BY <1>1 DEF WellFormed
<1>3. \A p \in 0 .. 100 : Place(reports, p) \in 1 .. Len(reports)
  BY <1>1 DEF WellFormed
<1>4. Place(reports, 95) \in 1 .. Cardinality(S)
      /\ Place(reports, 5) \in 1 .. Cardinality(S)
  <2>1. Place(reports, 95) \in 1 .. Len(reports)
        /\ Place(reports, 5) \in 1 .. Len(reports)
    BY <1>3
  <2>. HIDE DEF S
  <2>. QED
    BY <1>2, <2>1
<1>5. ASSUME NEW x \in [S -> Nat], NEW k \in 1 .. Cardinality(S)
      PROVE  \E i \in S : AtPlace(x, k) = x[i]
  <2>1. x \in [S -> Int]
    OBVIOUS
  <2>2. AtPlace(x, k) \in Range(x)
    BY <1>2, <2>1, PlaceIsTaken
  <2>. QED
    BY <2>2 DEF Range
<1>6. ASSUME NEW f \in CountFields
      PROVE  \E i \in S : At95(reports, f) = reports[i][f]
  <2>1. FamilyOf(reports, f) \in [S -> Nat]
    BY <1>1 DEF WellFormed
  <2>2. PICK i \in S : At95(reports, f) = FamilyOf(reports, f)[i]
    BY <1>4, <1>5, <2>1 DEF At95
  <2>. QED
    BY <2>2 DEF FamilyOf
<1>7. \E i \in S : AtPlace(FillRates(reports), Place(reports, 5))
                     = FillRateBps(reports[i])
  <2>1. FillRates(reports) \in [S -> Nat]
    BY <1>1 DEF WellFormed
  <2>2. PICK i \in S : AtPlace(FillRates(reports), Place(reports, 5))
                         = FillRates(reports)[i]
    BY <1>4, <1>5, <2>1
  <2>. QED
    BY <2>2 DEF FillRates
<1>. QED
  BY <1>6, <1>7

Metrics ==
  {"fill_rate_p05_bps", "stale_reject_rate_p95_bps",
   "protected_reject_rate_p95_bps", "update_drop_rate_p95_bps",
   "max_quote_age_p95_slots", "inventory_imbalance_p95_bps"}

(* Metric by metric, some path alone is graded at most as badly as all of  *)
(* them together, and some at least as badly.                              *)
LEMMA VerdictBracketed ==
  ASSUME NEW reports \in PathSeqs, NEW m \in Metrics
  PROVE  /\ Verdict(reports)[m] \in Severities
         /\ \A i \in 1 .. Len(reports) : Verdict(<<reports[i]>>)[m] \in Severities
         /\ \E i \in 1 .. Len(reports) :
              Verdict(<<reports[i]>>)[m] <= Verdict(reports)[m]
         /\ \E i \in 1 .. Len(reports) :
              Verdict(reports)[m] <= Verdict(<<reports[i]>>)[m]
<1>. DEFINE S == 1 .. Len(reports)
            Bracketed(all, Of(_)) ==
              /\ all \in Severities /\ \A i \in S : Of(i) \in Severities
              /\ \E i \in S : Of(i) <= all
              /\ \E i \in S : all <= Of(i)
            Goal == Bracketed(Verdict(reports)[m],
                              LAMBDA i : Verdict(<<reports[i]>>)[m])
<1>. SUFFICES Goal
  OBVIOUS
<1>1. \A i \in S : reports[i] \in ReferenceQuoteReports
  BY PathSeqShape DEF WellFormed
<1>2. \A i \in S : \A f \in CountFields : reports[i][f] \in Nat
  BY <1>1 DEF ReferenceQuoteReports
<1>3. \A s \in Severities : s <= s
  BY DEF Severities, Pass, Warn, Block
<1>4. {"rejected_stale", "rejected_protected", "trades_attempted", "trades_filled",
       "rejected_inventory", "rejected_other",
       "quote_updates_dropped", "quote_updates_sent", "quote_updates_landed",
       "max_quote_age_slots",
       "max_abs_inventory_imbalance_bps"} \subseteq CountFields
  BY DEF CountFields
<1>5. ASSUME NEW i \in S
      PROVE  /\ reports[i].rejected_stale <= reports[i].trades_attempted
             /\ reports[i].rejected_protected <= reports[i].trades_attempted
             /\ reports[i].quote_updates_dropped <= reports[i].quote_updates_sent
  <2>. DEFINE r == reports[i]
  <2>1. /\ r.trades_attempted \in Nat /\ r.trades_filled \in Nat
        /\ r.rejected_stale \in Nat /\ r.rejected_protected \in Nat
        /\ r.rejected_inventory \in Nat /\ r.rejected_other \in Nat
    BY <1>2, <1>4
  <2>2. /\ r.quote_updates_dropped \in Nat /\ r.quote_updates_landed \in Nat
        /\ r.quote_updates_sent \in Nat
    BY <1>2, <1>4
  <2>3. /\ r.trades_attempted =
             r.trades_filled + r.rejected_stale + r.rejected_protected
               + r.rejected_inventory + r.rejected_other
        /\ r.quote_updates_landed + r.quote_updates_dropped <= r.quote_updates_sent
    BY <1>1 DEF ReferenceQuoteReports
  <2>. HIDE DEF r
  <2>4. r.rejected_stale <= r.trades_attempted
    BY <2>1, <2>3
  <2>5. r.rejected_protected <= r.trades_attempted
    BY <2>1, <2>3
  <2>6. r.quote_updates_dropped <= r.quote_updates_sent
    BY <2>2, <2>3
  <2>. QED
    BY <2>4, <2>5, <2>6 DEF r
<1>6. CASE m = "fill_rate_p05_bps"
  <2>1. PICK i \in S : AtPlace(FillRates(reports), Place(reports, 5))
                         = FillRateBps(reports[i])
    BY FigureOfAPath
  <2>2. Verdict(reports)[m] = Verdict(<<reports[i]>>)[m]
    BY <1>1, <1>6, <2>1, VerdictParts, VerdictAlone
  <2>3. \A j \in S : Verdict(<<reports[j]>>)[m] \in Severities
    BY <1>1, <1>6, VerdictAlone, GateSeverity
  <2>. QED
    BY <1>3, <2>2, <2>3
<1>7. ASSUME NEW f \in {"max_quote_age_slots", "max_abs_inventory_imbalance_bps"},
             NEW t, t.warn \in Nat, t.block \in Nat, t.warn <= t.block,
             Verdict(reports)[m] = MaxGate(At95(reports, f), t),
             \A i \in S : Verdict(<<reports[i]>>)[m] = MaxGate(reports[i][f], t)
      PROVE  Goal
  <2>1. PICK i \in S : At95(reports, f) = reports[i][f]
    BY <1>4, FigureOfAPath
  <2>2. Verdict(reports)[m] = Verdict(<<reports[i]>>)[m]
    BY <1>7, <2>1
  <2>3. \A j \in S : Verdict(<<reports[j]>>)[m] \in Severities
    BY <1>7, GateSeverity
  <2>. QED
    BY <1>3, <2>2, <2>3
<1>8. CASE m = "max_quote_age_p95_slots"
  <2>1. Verdict(reports)[m]
          = MaxGate(At95(reports, "max_quote_age_slots"), Thresholds.quote_age)
    BY <1>8, VerdictParts
  <2>2. \A i \in S : Verdict(<<reports[i]>>)[m]
          = MaxGate(reports[i].max_quote_age_slots, Thresholds.quote_age)
    BY <1>1, <1>8, VerdictAlone
  <2>. QED
    BY <1>7, <2>1, <2>2, ThresholdsInOrder
<1>9. CASE m = "inventory_imbalance_p95_bps"
  <2>1. Verdict(reports)[m]
          = MaxGate(At95(reports, "max_abs_inventory_imbalance_bps"),
                    Thresholds.inventory_imbalance)
    BY <1>9, VerdictParts
  <2>2. \A i \in S : Verdict(<<reports[i]>>)[m]
          = MaxGate(reports[i].max_abs_inventory_imbalance_bps,
                    Thresholds.inventory_imbalance)
    BY <1>1, <1>9, VerdictAlone
  <2>. QED
    BY <1>7, <2>1, <2>2, ThresholdsInOrder
<1>10. ASSUME NEW part \in CountFields, NEW whole \in CountFields,
              \A i \in S : reports[i][part] <= reports[i][whole],
              NEW t, t.warn \in Nat, t.block \in Nat, t.warn <= t.block,
              Verdict(reports)[m]
                = MaxGate(RateBps(At95(reports, part), At95(reports, whole)), t),
              \A i \in S : Verdict(<<reports[i]>>)[m]
                = MaxGate(RateBps(reports[i][part], reports[i][whole]), t)
       PROVE  Goal
  BY <1>10, RatesBracketed
<1>11. CASE m = "stale_reject_rate_p95_bps"
  <2>1. Verdict(reports)[m]
          = MaxGate(RateBps(At95(reports, "rejected_stale"),
                            At95(reports, "trades_attempted")),
                    Thresholds.stale_reject_rate)
    BY <1>11, VerdictParts
  <2>2. \A i \in S : Verdict(<<reports[i]>>)[m]
          = MaxGate(RateBps(reports[i].rejected_stale, reports[i].trades_attempted),
                    Thresholds.stale_reject_rate)
    BY <1>1, <1>11, VerdictAlone
  <2>. QED
    BY <1>4, <1>5, <1>10, <2>1, <2>2, ThresholdsInOrder
<1>12. CASE m = "protected_reject_rate_p95_bps"
  <2>1. Verdict(reports)[m]
          = MaxGate(RateBps(At95(reports, "rejected_protected"),
                            At95(reports, "trades_attempted")),
                    Thresholds.protected_reject_rate)
    BY <1>12, VerdictParts
  <2>2. \A i \in S : Verdict(<<reports[i]>>)[m]
          = MaxGate(RateBps(reports[i].rejected_protected,
                            reports[i].trades_attempted),
                    Thresholds.protected_reject_rate)
    BY <1>1, <1>12, VerdictAlone
  <2>. QED
    BY <1>4, <1>5, <1>10, <2>1, <2>2, ThresholdsInOrder
<1>13. CASE m = "update_drop_rate_p95_bps"
  <2>1. Verdict(reports)[m]
          = MaxGate(RateBps(At95(reports, "quote_updates_dropped"),
                            At95(reports, "quote_updates_sent")),
                    Thresholds.update_drop_rate)
    BY <1>13, VerdictParts
  <2>2. \A i \in S : Verdict(<<reports[i]>>)[m]
          = MaxGate(RateBps(reports[i].quote_updates_dropped,
                            reports[i].quote_updates_sent),
                    Thresholds.update_drop_rate)
    BY <1>1, <1>13, VerdictAlone
  <2>. QED
    BY <1>4, <1>5, <1>10, <2>1, <2>2, ThresholdsInOrder
<1>14. \/ m = "fill_rate_p05_bps" \/ m = "stale_reject_rate_p95_bps"
       \/ m = "protected_reject_rate_p95_bps" \/ m = "update_drop_rate_p95_bps"
       \/ m = "max_quote_age_p95_slots" \/ m = "inventory_imbalance_p95_bps"
  BY DEF Metrics
<1>. HIDE DEF Goal
<1>. QED
  BY <1>6, <1>8, <1>9, <1>11, <1>12, <1>13, <1>14

(* The paths of the scenarios simulated so far; none is without a path.    *)
PackInv == packPaths \in Seq(PathSeqs)

LEMMA PathKeepsPack ==
  ASSUME NEW counts, PackInv, SimulatePath(counts)
  PROVE  PackInv'
<1>1. PICK r \in PathReports :
        packPaths' = IF ScenarioDone(counts) THEN Append(packPaths, <<r>>)
                     ELSE [packPaths EXCEPT ![Len(packPaths)] = Append(@, r)]
  BY DEF SimulatePath
<1>2. r \in ReferenceQuoteReports
  BY ReportsAssumption
<1>3. CASE ScenarioDone(counts)
  <2>1. <<r>> \in PathSeqs
    BY <1>2, AggregateAlone
  <2>2. packPaths' = Append(packPaths, <<r>>)
    BY <1>1, <1>3
  <2>. HIDE DEF PathSeqs
  <2>. QED
    BY <2>1, <2>2 DEF PackInv
<1>4. CASE ~ScenarioDone(counts)
  <2>. DEFINE n == Len(packPaths)
  <2>1. packPaths # <<>> /\ packPaths \in Seq(PathSeqs)
    BY <1>4 DEF ScenarioDone, PackInv
  <2>2. n \in 1 .. Len(packPaths)
    BY <2>1, EmptySeq, LenProperties
  <2>3. packPaths[n] \in PathSeqs
    BY <2>1, <2>2, ElementOfSeq
  <2>4. Append(packPaths[n], r) \in PathSeqs
    <3>1. packPaths[n] \in Seq(ReferenceQuoteReports)
      BY <2>3 DEF PathSeqs
    <3>2. \A paths \in Seq(ReferenceQuoteReports) :
            /\ Append(paths, r) \in Seq(ReferenceQuoteReports)
            /\ Append(paths, r) # <<>>
      BY <1>2, AppendProperties
    <3>. QED
      BY <3>1, <3>2 DEF PathSeqs
  <2>5. packPaths' = [packPaths EXCEPT ![n] = Append(packPaths[n], r)]
    BY <1>1, <1>4
  <2>. QED
    BY <2>1, <2>2, <2>4, <2>5, ExceptSeq DEF PackInv
<1>. QED
  BY <1>3, <1>4

LEMMA PackInductive == Spec => []PackInv
<1>1. Init => PackInv
  BY DEF Init, PackInit, PackInv
<1>2. PackInv /\ [Next]_vars => PackInv'
  <2>. SUFFICES ASSUME PackInv, [Next]_vars PROVE PackInv'
    OBVIOUS
  <2>1. CASE UNCHANGED packPaths
    BY <2>1 DEF PackInv
  <2>2. CASE RunSmoke \/ RunScenarioPack
    BY <2>1, <2>2, PathKeepsPack DEF RunSmoke, RunScenarioPack, PathFails
  <2>3. CASE RunCalibration \/ RunReplay \/ Panic \/ Finish \/ CarryOver
    BY <2>1, <2>3 DEF RunCalibration, RunReplay, Panic, Finish, CarryOver, packVars
  <2>4. CASE UNCHANGED vars
    BY <2>1, <2>4 DEF vars, packVars
  <2>. QED
    BY <2>2, <2>3, <2>4 DEF Next, Run
<1>. QED
  BY <1>1, <1>2, PTL DEF Spec

(* Whatever paths a pack is made of and whichever percentiles of theirs    *)
(* are divided by each other, a scenario is graded no better than its best *)
(* path and no worse than its worst, metric by metric.                     *)
THEOREM VerdictsBetween == Spec => []VerdictBetweenPaths
<1>1. ASSUME NEW reports \in PathSeqs, NEW m \in Metrics
      PROVE  /\ Min(Alone(reports, m)) <= Verdict(reports)[m]
             /\ Verdict(reports)[m] <= Max(Alone(reports, m))
  <2>. DEFINE A == Alone(reports, m)
              v == Verdict(reports)[m]
  <2>1. /\ \A i \in 1 .. Len(reports) : Verdict(<<reports[i]>>)[m] \in A
        /\ \A a \in A : \E i \in 1 .. Len(reports) : a = Verdict(<<reports[i]>>)[m]
    <3>1. DOMAIN reports = 1 .. Len(reports)
      BY PathSeqShape DEF WellFormed
    <3>. QED
      BY <3>1 DEF Alone, ToSet
  <2>. HIDE DEF A
  <2>2. A \subseteq Severities
    BY <2>1, VerdictBracketed
  <2>3. PICK lo \in A : lo <= v
    BY <2>1, VerdictBracketed
  <2>4. PICK hi \in A : v <= hi
    BY <2>1, VerdictBracketed
  <2>5. v \in Severities
    BY VerdictBracketed
  <2>6. IsFiniteSet(Severities) /\ Severities \subseteq Int
    <3>1. IsFiniteSet({Pass})
      BY FS_Singleton
    <3>2. IsFiniteSet({Pass} \cup {Warn})
      BY <3>1, FS_AddElement
    <3>3. IsFiniteSet(({Pass} \cup {Warn}) \cup {Block})
      BY <3>2, FS_AddElement
    <3>4. Severities = ({Pass} \cup {Warn}) \cup {Block}
      BY DEF Severities
    <3>5. Severities \subseteq Int
      BY DEF Severities, Pass, Warn, Block
    <3>. QED
      BY <3>3, <3>4, <3>5
  <2>7. IsFiniteSet(A) /\ A \subseteq Int /\ A # {}
    BY <2>2, <2>3, <2>6, FS_Subset
  <2>. HIDE DEF A, v
  <2>8. Min(A) \in Int /\ Min(A) <= lo
    BY <2>3, <2>7, MinIsLeast
  <2>9. Max(A) \in Int /\ hi <= Max(A)
    BY <2>4, <2>7, MaxIsGreatest
  <2>10. lo \in Int /\ hi \in Int /\ v \in Int
    BY <2>3, <2>4, <2>5, <2>6, <2>7
  <2>11. Min(A) <= v /\ v <= Max(A)
    BY <2>3, <2>4, <2>8, <2>9, <2>10
  <2>. QED
    BY <2>11 DEF A, v
<1>2. ASSUME NEW reports PROVE DOMAIN Verdict(reports) \ {"paths"} = Metrics
  BY DEF Verdict, Findings, Metrics
<1>3. PackInv => VerdictBetweenPaths
  <2>. SUFFICES ASSUME PackInv, NEW i \in DOMAIN packPaths,
                       NEW m \in DOMAIN Verdict(packPaths[i]) \ {"paths"}
                PROVE  /\ Min(Alone(packPaths[i], m)) <= Verdict(packPaths[i])[m]
                       /\ Verdict(packPaths[i])[m] <= Max(Alone(packPaths[i], m))
    BY DEF VerdictBetweenPaths, Verdict, Alone, Thresholds
  <2>1. packPaths[i] \in PathSeqs
    BY LenProperties, ElementOfSeq DEF PackInv
  <2>2. m \in Metrics
    BY <1>2
  <2>. QED
    BY <1>1, <2>1, <2>2
<1>. QED
  BY <1>3, PackInductive, PTL

-----------------------------------------------------------------------------
(* Candidates. *)

Policies ==
  [maker_update_period_slots : Nat, landing_latency_slots : Nat,
   update_success_probability_bps : Nat, same_slot_order : {"SwapBeforeUpdate"}]

ParamNames == ToSet(ParamFields)

ScenarioNames ==
  {"calm-fast-updates", "trending-slow-updates", "volatile-dropped-updates"}

(* Every pack of the candidates has three scenarios of one set of          *)
(* parameters, whose orders within a slot are the same.                    *)
UniformPacks ==
  {pack \in [1 .. 3 -> [name : ScenarioNames, params : [ParamNames -> Nat],
                        policy : Policies]] :
     \A i \in 1 .. 3 : pack[i].params = pack[1].params}

LEMMA ParamNamesAre ==
  ParamNames =
    {"fee_bps", "base_half_spread_bps", "aging_start_slots",
     "protected_start_slots", "expire_slots", "aging_surcharge_bps_per_slot",
     "max_aging_surcharge_bps", "max_trade_base_atoms",
     "protected_max_trade_base_atoms", "inventory_skew_bps_per_10k_imbalance",
     "max_inventory_skew_bps", "hard_inventory_band_bps"}
  BY DEF ParamNames, ParamFields, ToSet

LEMMA DefaultParamsType == DefaultParams \in [ParamNames -> Nat]
  BY ParamNamesAre DEF DefaultParams

LEMMA DefaultPackUniform == DefaultPack \in UniformPacks
<1>. DEFINE Scenario == [name : ScenarioNames, params : [ParamNames -> Nat],
                         policy : Policies]
            a == PackScenario("calm-fast-updates", 4, 1, 9900)
            b == PackScenario("trending-slow-updates", 9, 4, 8500)
            c == PackScenario("volatile-dropped-updates", 8, 6, 6500)
<1>1. ASSUME NEW name \in ScenarioNames, NEW period \in Nat, NEW latency \in Nat,
             NEW success \in Nat
      PROVE  /\ PackScenario(name, period, latency, success) \in Scenario
             /\ PackScenario(name, period, latency, success).params = DefaultParams
  BY DefaultParamsType DEF PackScenario, Policies
<1>2. /\ "calm-fast-updates" \in ScenarioNames
      /\ "trending-slow-updates" \in ScenarioNames
      /\ "volatile-dropped-updates" \in ScenarioNames
  BY DEF ScenarioNames
<1>3. /\ a \in Scenario /\ b \in Scenario /\ c \in Scenario
      /\ a.params = b.params /\ a.params = c.params
  <2>. HIDE DEF Scenario
  <2>1. a \in Scenario /\ a.params = DefaultParams
    BY <1>1, <1>2
  <2>2. b \in Scenario /\ b.params = DefaultParams
    BY <1>1, <1>2
  <2>3. c \in Scenario /\ c.params = DefaultParams
    BY <1>1, <1>2
  <2>. HIDE DEF a, b, c
  <2>. QED
    BY <2>1, <2>2, <2>3
<1>4. DefaultPack = <<a, b, c>>
  BY DEF DefaultPack
<1>5. UniformPacks = {pack \in [1 .. 3 -> Scenario] :
                        \A i \in 1 .. 3 : pack[i].params = pack[1].params}
  BY DEF UniformPacks
<1>. HIDE DEF Scenario, a, b, c
<1>6. <<a, b, c>> \in [1 .. 3 -> Scenario]
  BY <1>3
<1>7. ASSUME NEW i \in 1 .. 3
      PROVE  <<a, b, c>>[i].params = <<a, b, c>>[1].params
  <2>1. /\ <<a, b, c>>[1] = a
        /\ <<a, b, c>>[2] = b
        /\ <<a, b, c>>[3] = c
    OBVIOUS
  <2>2. i = 1 \/ i = 2 \/ i = 3
    OBVIOUS
  <2>. QED
    BY <1>3, <2>1, <2>2
<1>. QED
  BY <1>4, <1>5, <1>6, <1>7

LEMMA MapParamsUniform ==
  ASSUME NEW pack \in UniformPacks, NEW changed,
         \A f \in DOMAIN changed : changed[f] \in Nat
  PROVE  MapParams(pack, changed) \in UniformPacks
<1>. DEFINE New(p) == [f \in DOMAIN p |-> IF f \in DOMAIN changed THEN changed[f]
                                          ELSE p[f]]
<1>1. ASSUME NEW p \in [ParamNames -> Nat] PROVE New(p) \in [ParamNames -> Nat]
  OBVIOUS
<1>2. MapParams(pack, changed)
        = [i \in 1 .. 3 |-> [pack[i] EXCEPT !.params = New(pack[i].params)]]
  BY DEF MapParams, UniformPacks
<1>. HIDE DEF New
<1>. QED
  BY <1>1, <1>2 DEF UniformPacks

LEMMA FasterUniform ==
  ASSUME NEW pack \in UniformPacks
  PROVE  Faster(pack) \in UniformPacks
<1>1. ASSUME NEW p \in Policies PROVE FasterPolicy(p) \in Policies
  <2>1. ASSUME NEW n \in Nat
        PROVE  /\ Greatest(n \div 2, 2) \in Nat /\ Greatest(n \div 2, 1) \in Nat
               /\ Least(n + 900, 9950) \in Nat
    <3>1. n \div 2 \in Nat
      BY DivBounds
    <3>. QED
      BY <3>1 DEF Greatest, Least
  <2>2. /\ p.maker_update_period_slots \in Nat /\ p.landing_latency_slots \in Nat
        /\ p.update_success_probability_bps \in Nat
    BY DEF Policies
  <2>3. ASSUME NEW x \in Nat, NEW y \in Nat, NEW z \in Nat
        PROVE  [p EXCEPT !.maker_update_period_slots = x,
                         !.landing_latency_slots = y,
                         !.update_success_probability_bps = z] \in Policies
    BY DEF Policies
  <2>. DEFINE x == Greatest(p.maker_update_period_slots \div 2, 2)
              y == Greatest(p.landing_latency_slots \div 2, 1)
              z == Least(p.update_success_probability_bps + 900, 9950)
  <2>4. x \in Nat /\ y \in Nat /\ z \in Nat
    BY <2>1, <2>2
  <2>5. FasterPolicy(p) = [p EXCEPT !.maker_update_period_slots = x,
                                    !.landing_latency_slots = y,
                                    !.update_success_probability_bps = z]
    BY DEF FasterPolicy
  <2>. HIDE DEF x, y, z
  <2>6. [p EXCEPT !.maker_update_period_slots = x,
                  !.landing_latency_slots = y,
                  !.update_success_probability_bps = z] \in Policies
    BY <2>3, <2>4
  <2>. QED
    BY <2>5, <2>6
<1>2. Faster(pack)
        = [i \in 1 .. 3 |-> [pack[i] EXCEPT !.policy = FasterPolicy(pack[i].policy)]]
  BY DEF Faster, UniformPacks
<1>. QED
  BY <1>1, <1>2 DEF UniformPacks

CandidateNames ==
  {"baseline", "wider-spread", "faster-updates", "wide-and-fast", "tight-freshness"}

LEMMA CandidatesUniform ==
  /\ DOMAIN Candidates = 1 .. 5 /\ Len(Candidates) = 5
  /\ \A k \in 1 .. 5 : /\ Candidates[k].scenarios \in UniformPacks
                       /\ Candidates[k].name \in CandidateNames
<1>1. \A n \in Nat : \A f \in DOMAIN Wider(n) : Wider(n)[f] \in Nat
  BY DEF Wider
<1>2. \A f \in DOMAIN Tighter : Tighter[f] \in Nat
  BY DEF Tighter
<1>3. /\ DefaultPack \in UniformPacks
      /\ \A n \in Nat : MapParams(DefaultPack, Wider(n)) \in UniformPacks
      /\ MapParams(DefaultPack, Tighter) \in UniformPacks
  BY <1>1, <1>2, DefaultPackUniform, MapParamsUniform
<1>4. /\ Faster(DefaultPack) \in UniformPacks
      /\ \A n \in Nat : Faster(MapParams(DefaultPack, Wider(n))) \in UniformPacks
      /\ Faster(MapParams(DefaultPack, Tighter)) \in UniformPacks
  BY <1>3, FasterUniform
<1>5. Candidates =
        << [name |-> "baseline", scenarios |-> DefaultPack],
           [name |-> "wider-spread", scenarios |-> MapParams(DefaultPack, Wider(20))],
           [name |-> "faster-updates", scenarios |-> Faster(DefaultPack)],
           [name |-> "wide-and-fast",
            scenarios |-> Faster(MapParams(DefaultPack, Wider(18)))],
           [name |-> "tight-freshness",
            scenarios |-> Faster(MapParams(DefaultPack, Tighter))] >>
  BY DEF Candidates
<1>. QED
  BY <1>3, <1>4, <1>5 DEF CandidateNames

(* All scenarios of a pack agree on what they are priced with: the code's   *)
(* error of differing scenarios is never met.                               *)
LEMMA UniformStrategy ==
  ASSUME NEW pack \in UniformPacks
  PROVE  StrategyConfig(pack) = Ok([params |-> pack[1].params,
                                    quote_update_envelope |-> EnvelopeOf(pack)])
<1>1. DOMAIN pack = 1 .. 3
  BY DEF UniformPacks
<1>2. ASSUME NEW i \in 1 .. 3
      PROVE  /\ pack[i].params = pack[1].params
             /\ pack[i].policy.same_slot_order = pack[1].policy.same_slot_order
  <2>1. pack[i].policy \in Policies /\ pack[1].policy \in Policies
    BY DEF UniformPacks
  <2>2. \A p \in Policies : p.same_slot_order = "SwapBeforeUpdate"
    BY DEF Policies
  <2>. QED
    BY <2>1, <2>2 DEF UniformPacks
<1>. QED
  BY <1>1, <1>2 DEF StrategyConfig

PolicyNumbers ==
  {"maker_update_period_slots", "landing_latency_slots",
   "update_success_probability_bps"}

(* The extremes of a field over a pack are those of its scenarios.         *)
LEMMA FieldExtremes ==
  ASSUME NEW pack \in UniformPacks, NEW f \in PolicyNumbers
  PROVE  LET values == PolicyField(pack, f)
         IN  /\ Max(values) \in Nat /\ Min(values) \in Nat
             /\ \A i \in 1 .. 3 : /\ pack[i].policy[f] \in Nat
                                  /\ pack[i].policy[f] <= Max(values)
                                  /\ Min(values) <= pack[i].policy[f]
<1>0. PICK n \in Nat : n = 3
  OBVIOUS
<1>. DEFINE x == [i \in 1 .. n |-> pack[i].policy[f]]
<1>1. DOMAIN pack = 1 .. 3 /\ \A i \in 1 .. 3 : pack[i].policy \in Policies
  BY DEF UniformPacks
<1>2. \A p \in Policies : p[f] \in Nat
  BY DEF Policies, PolicyNumbers
<1>3. \A i \in 1 .. 3 : pack[i].policy[f] \in Nat /\ x[i] = pack[i].policy[f]
  BY <1>0, <1>1, <1>2
<1>4. PolicyField(pack, f) = Range(x)
  BY <1>0, <1>1 DEF PolicyField, Range
<1>6. IsFiniteSet(1 .. n)
  BY n \in Nat, FS_Interval
<1>7. DOMAIN x = 1 .. n /\ x \in [DOMAIN x -> Range(x)]
  BY DEF Range
<1>8. IsFiniteSet(Range(x))
  BY <1>6, <1>7, FiniteRange
<1>9. Range(x) \subseteq Nat /\ Range(x) # {} /\ \A i \in 1 .. n : x[i] \in Range(x)
  <2>1. 1 \in 1 .. n
    BY <1>0
  <2>. QED
    BY <1>0, <1>3, <2>1 DEF Range
<1>. HIDE DEF x
<1>10. /\ Max(Range(x)) \in Range(x) /\ \A v \in Range(x) : v <= Max(Range(x))
       /\ Min(Range(x)) \in Range(x) /\ \A v \in Range(x) : Min(Range(x)) <= v
  <2>1. Range(x) \subseteq Int
    BY <1>9
  <2>. QED
    BY <1>8, <1>9, <2>1, MaxIsGreatest, MinIsLeast
<1>. QED
  BY <1>0, <1>3, <1>4, <1>9, <1>10

-----------------------------------------------------------------------------
(* Graded candidates. *)

(* The worst of severities is one of them. *)
LEMMA WorstOfSeverities ==
  ASSUME NEW S, S \subseteq Severities, S # {}
  PROVE  Max(S) \in Severities
<1>1. IsFiniteSet({Pass})
  BY FS_Singleton
<1>2. IsFiniteSet({Pass} \cup {Warn})
  BY <1>1, FS_AddElement
<1>3. IsFiniteSet(({Pass} \cup {Warn}) \cup {Block})
  BY <1>2, FS_AddElement
<1>4. Severities = ({Pass} \cup {Warn}) \cup {Block}
  BY DEF Severities
<1>5. Severities \subseteq Int
  BY DEF Severities, Pass, Warn, Block
<1>6. IsFiniteSet(S) /\ S \subseteq Int
  BY <1>3, <1>4, <1>5, FS_Subset
<1>. QED
  BY <1>6, MaxIsGreatest

LEMMA PackSeverityType ==
  ASSUME NEW reports, NEW t
  PROVE  PackSeverity(reports, t) \in Severities
<1>1. ASSUME NEW r PROVE ScenarioSeverity(r, t) \in Severities
  <2>. DEFINE findings == Findings(r, t)
  <2>1. \A m \in DOMAIN findings : findings[m] \in Severities
    BY GateSeverity DEF Findings, Severities
  <2>2. "paths" \in DOMAIN findings
    BY DEF Findings
  <2>. HIDE DEF findings
  <2>3. {findings[m] : m \in DOMAIN findings} \subseteq Severities
    BY <2>1
  <2>4. {findings[m] : m \in DOMAIN findings} # {}
    BY <2>2
  <2>5. Max({findings[m] : m \in DOMAIN findings}) \in Severities
    BY <2>3, <2>4, WorstOfSeverities
  <2>. QED
    BY <2>5 DEF ScenarioSeverity, findings
<1>. DEFINE S == {Pass} \cup {ScenarioSeverity(reports[i], t) : i \in DOMAIN reports}
<1>2. S \subseteq Severities /\ S # {}
  BY <1>1 DEF Severities
<1>. HIDE DEF S
<1>3. Max(S) \in Severities
  BY <1>2, WorstOfSeverities
<1>. QED
  BY <1>3 DEF PackSeverity, S

(* What a calibration knows of a pack once its paths have run.             *)
PackSummaries(paths) == [i \in DOMAIN paths |-> Aggregate(paths[i])]

LEMMA ScoreType ==
  ASSUME NEW paths \in PackOutcomes
  PROVE  ScoreCandidate(PackSummaries(paths)).mean_p05_fill_rate_bps \in Int
<1>. DEFINE reports == PackSummaries(paths)
            x == [i \in DOMAIN reports |-> reports[i].fill_rate_bps.p05]
            n == Len(paths)
<1>1. n \in Nat /\ DOMAIN paths = 1 .. n /\ \A i \in 1 .. n : paths[i] \in PathSeqs
  <2>1. paths \in Seq(Seq(ReferenceQuoteReports)) /\ \A i \in DOMAIN paths : paths[i] # <<>>
    BY CalibrationAssumption
  <2>. QED
    BY <2>1, LenProperties, ElementOfSeq DEF PathSeqs
<1>2. DOMAIN reports = 1 .. n /\ reports \in Seq({reports[i] : i \in 1 .. n})
  BY <1>1 DEF PackSummaries
<1>3. Len(reports) = n
  BY <1>1, <1>2, LenProperties
<1>4. ASSUME NEW i \in 1 .. n PROVE x[i] \in Int
  <2>1. paths[i] \in PathSeqs
    BY <1>1
  <2>2. x[i] = Aggregate(paths[i]).fill_rate_bps.p05
    BY <1>1 DEF PackSummaries
  <2>3. PICK j \in 1 .. Len(paths[i]) : x[i] = FillRateBps(paths[i][j])
    <3>. HIDE DEF x
    <3>1. x[i] = AtPlace(FillRates(paths[i]), Place(paths[i], 5))
      BY <2>1, <2>2, AggregateParts
    <3>2. \E j \in 1 .. Len(paths[i]) :
            AtPlace(FillRates(paths[i]), Place(paths[i], 5)) = FillRateBps(paths[i][j])
      BY <2>1, FigureOfAPath
    <3>. QED
      BY <3>1, <3>2
  <2>4. FillRates(paths[i])[j] \in Nat
    BY <2>1, PathSeqShape DEF WellFormed
  <2>5. FillRates(paths[i])[j] = FillRateBps(paths[i][j])
    BY DEF FillRates
  <2>. QED
    BY <2>3, <2>4, <2>5
<1>5. IsFiniteSet(1 .. n)
  BY <1>1, FS_Interval
<1>6. x \in [1 .. n -> Int]
  BY <1>2, <1>4
<1>7. ScoreCandidate(reports).mean_p05_fill_rate_bps
        = TruncDiv(SumOf(x), Greatest(Len(reports), 1))
  BY DEF ScoreCandidate
<1>. HIDE DEF x, n, reports
<1>8. SumOf(x) \in Int
  BY <1>5, <1>6, SumIsInt DEF SumOf, TotalOf
<1>9. Greatest(Len(reports), 1) \in Nat \ {0}
  BY <1>1, <1>3 DEF Greatest
<1>. QED
  BY <1>7, <1>8, <1>9, TruncDivType DEF reports

(* The reports a candidate may get. *)
GradedCandidates ==
  {CandidateReport(Candidates[k], PackSummaries(paths)) :
     k \in 1 .. 5, paths \in PackOutcomes}

(* What is known of a graded candidate. *)
Graded(c) ==
  /\ c.scenarios \in UniformPacks
  /\ c.name \in CandidateNames
  /\ c.strategy = [params |-> c.scenarios[1].params,
                   quote_update_envelope |-> EnvelopeOf(c.scenarios)]
  /\ c.severity \in Severities
  /\ c.score.mean_p05_fill_rate_bps \in Int

LEMMA GradedShape ==
  ASSUME NEW c \in GradedCandidates
  PROVE  Graded(c)
<1>1. PICK k \in 1 .. 5, paths \in PackOutcomes :
        c = CandidateReport(Candidates[k], PackSummaries(paths))
  BY DEF GradedCandidates
<1>. DEFINE candidate == Candidates[k]
            reports == PackSummaries(paths)
<1>2. candidate.scenarios \in UniformPacks /\ candidate.name \in CandidateNames
  BY CandidatesUniform
<1>3. /\ c.scenarios = candidate.scenarios /\ c.name = candidate.name
      /\ c.strategy = StrategyConfig(candidate.scenarios).value
      /\ c.severity = PackSeverity(reports, DefaultThresholds)
      /\ c.score = ScoreCandidate(reports)
  BY <1>1 DEF CandidateReport
<1>4. StrategyConfig(candidate.scenarios).value
        = [params |-> candidate.scenarios[1].params,
           quote_update_envelope |-> EnvelopeOf(candidate.scenarios)]
  BY <1>2, UniformStrategy DEF Ok
<1>5. c.severity \in Severities
  BY <1>3, PackSeverityType
<1>6. c.score.mean_p05_fill_rate_bps \in Int
  BY <1>3, ScoreType
<1>. HIDE DEF candidate, reports
<1>. QED
  BY <1>2, <1>3, <1>4, <1>5, <1>6 DEF Graded

(* Reports are kept one per candidate and, once ranked, none comes before  *)
(* the first.                                                              *)
CalibrationInv ==
  /\ calibrated \in Seq(GradedCandidates)
  /\ calibrationResult = "Ranked" =>
       /\ calibrated # <<>>
       /\ \A i \in DOMAIN calibrated :
            i = 1 \/ ~Before(calibrated[i], calibrated[1])

LEMMA CandidateKeepsInv ==
  ASSUME CalibrationInv, CalibrateCandidate
  PROVE  CalibrationInv'
<1>. DEFINE k == Len(calibrated) + 1
<1>1. PICK paths \in PackOutcomes :
        /\ calibrationResult' = StrategyConfig(Candidates[k].scenarios).error
        /\ calibrated' = Append(calibrated,
                                CandidateReport(Candidates[k], PackSummaries(paths)))
  BY DEF CalibrateCandidate, PackSummaries
<1>2. k \in 1 .. 5
  <2>1. Len(calibrated) \in Nat /\ Len(calibrated) < 5
    BY CandidatesUniform, LenProperties DEF CalibrationInv, CalibrateCandidate
  <2>. QED
    BY <2>1
<1>3. calibrationResult' = NoError
  <2>1. Candidates[k].scenarios \in UniformPacks
    BY <1>2, CandidatesUniform
  <2>. HIDE DEF k
  <2>. QED
    BY <1>1, <2>1, UniformStrategy DEF Ok
<1>4. CandidateReport(Candidates[k], PackSummaries(paths)) \in GradedCandidates
  BY <1>2 DEF GradedCandidates
<1>. HIDE DEF k
<1>5. calibrated' \in Seq(GradedCandidates)
  BY <1>1, <1>4, AppendProperties DEF CalibrationInv
<1>. QED
  BY <1>3, <1>5 DEF CalibrationInv, NoError

LEMMA RankingKeepsInv ==
  ASSUME CalibrationInv, RankCandidates
  PROVE  CalibrationInv'
<1>1. PICK place \in Places :
        /\ \A k, l \in DOMAIN place :
             k < l => ~Before(calibrated[place[l]], calibrated[place[k]])
        /\ calibrated' = [k \in DOMAIN place |-> calibrated[place[k]]]
  BY DEF RankCandidates
<1>2. place \in [1 .. 5 -> 1 .. 5]
  BY CandidatesUniform DEF Places, Bijection, Injection
<1>3. DOMAIN calibrated = 1 .. 5
  BY CandidatesUniform, LenProperties DEF CalibrationInv, RankCandidates
<1>4. calibrated' \in [1 .. 5 -> GradedCandidates]
  <2>1. \A k \in 1 .. 5 : calibrated[k] \in GradedCandidates
    BY <1>3, LenProperties, ElementOfSeq DEF CalibrationInv
  <2>. QED
    BY <1>1, <1>2, <2>1
<1>5. calibrated' \in Seq(GradedCandidates) /\ calibrated' # <<>>
  <2>1. ASSUME NEW n \in Nat, n > 0, NEW s \in [1 .. n -> GradedCandidates]
        PROVE  s \in Seq(GradedCandidates) /\ s # <<>>
    <3>1. 1 \in DOMAIN s
      BY <2>1
    <3>2. DOMAIN <<>> = {}
      BY EmptySeq, LenProperties
    <3>. QED
      BY <3>1, <3>2
  <2>2. 5 \in Nat /\ 5 > 0
    OBVIOUS
  <2>. QED
    BY <1>4, <2>1, <2>2
<1>6. ASSUME NEW i \in 1 .. 5, i # 1
      PROVE  ~Before(calibrated'[i], calibrated'[1])
  <2>1. 1 < i /\ 1 \in 1 .. 5
    BY <1>6
  <2>2. calibrated'[i] = calibrated[place[i]] /\ calibrated'[1] = calibrated[place[1]]
    BY <1>1, <1>2, <2>1
  <2>. QED
    BY <1>1, <1>2, <2>1, <2>2
<1>7. DOMAIN calibrated' = 1 .. 5
  BY <1>4
<1>8. \A i \in DOMAIN calibrated' : i = 1 \/ ~Before(calibrated'[i], calibrated'[1])
  BY <1>6, <1>7
<1>9. (\A i \in DOMAIN calibrated : i = 1 \/ ~Before(calibrated[i], calibrated[1]))'
  BY <1>8
<1>. QED
  BY <1>5, <1>9 DEF CalibrationInv

LEMMA CalibrationInductive == Spec => []CalibrationInv
<1>1. Init => CalibrationInv
  BY DEF Init, CalibrationInit, CalibrationInv, NoError
<1>2. CalibrationInv /\ [Next]_vars => CalibrationInv'
  <2>. SUFFICES ASSUME CalibrationInv, [Next]_vars PROVE CalibrationInv'
    OBVIOUS
  <2>1. CASE UNCHANGED <<calibrated, calibrationResult>>
    BY <2>1 DEF CalibrationInv, Before
  <2>2. CASE CalibrateCandidate
    BY <2>2, CandidateKeepsInv
  <2>3. CASE CandidateFails
    BY <2>3 DEF CandidateFails, CalibrationInv
  <2>4. CASE RankCandidates
    BY <2>4, RankingKeepsInv
  <2>5. CASE ExportBest
    BY <2>5 DEF ExportBest, CalibrationInv
  <2>6. CASE RunCalibration
    BY <2>2, <2>3, <2>4, <2>5, <2>6 DEF RunCalibration
  <2>7. CASE RunSmoke \/ RunScenarioPack \/ RunReplay \/ Panic \/ Finish \/ CarryOver
    BY <2>1, <2>7 DEF RunSmoke, RunScenarioPack, RunReplay, Panic, Finish, CarryOver,
                      LoseLine, ImportDocument, calibrationVars
  <2>8. CASE UNCHANGED vars
    BY <2>1, <2>8 DEF vars, calibrationVars
  <2>. QED
    BY <2>6, <2>7, <2>8 DEF Next, Run
<1>. QED
  BY <1>1, <1>2, PTL DEF Spec

(* What is exported passed every gate that blocks whenever some candidate  *)
(* did, and among its equals keeps the best tail of fill rates, whatever   *)
(* the paths of the candidates were.                                       *)
THEOREM BestIsUnblocked == Spec => []BlockedOnlyIfUnavoidable
<1>1. ASSUME NEW c, NEW best, Graded(c), Graded(best), ~Before(c, best)
      PROVE  /\ best.severity <= c.severity
             /\ best.severity = c.severity =>
                  best.score.mean_p05_fill_rate_bps >= c.score.mean_p05_fill_rate_bps
  <2>. DEFINE l == RankKey(c)
              r == RankKey(best)
  <2>1. /\ c.severity \in Int /\ best.severity \in Int
        /\ c.score.mean_p05_fill_rate_bps \in Int
        /\ best.score.mean_p05_fill_rate_bps \in Int
    BY <1>1 DEF Graded, Severities, Pass, Warn, Block
  <2>2. /\ l[1] = c.severity /\ l[2] = -c.score.mean_p05_fill_rate_bps
        /\ r[1] = best.severity /\ r[2] = -best.score.mean_p05_fill_rate_bps
    BY DEF RankKey
  <2>3. \A i \in 1 .. 4 : ~(l[i] < r[i] /\ \A j \in 1 .. i - 1 : l[j] = r[j])
    BY <1>1 DEF Before
  <2>. HIDE DEF l, r
  <2>4. ~(l[1] < r[1])
    BY <2>3
  <2>5. ~(l[2] < r[2] /\ l[1] = r[1])
    BY <2>3
  <2>. QED
    BY <2>1, <2>2, <2>4, <2>5
<1>2. CalibrationInv => BlockedOnlyIfUnavoidable
  <2>. SUFFICES ASSUME CalibrationInv, calibrationResult = "Ranked",
                       NEW i \in DOMAIN calibrated
                PROVE  /\ Best.severity <= calibrated[i].severity
                       /\ Best.severity = calibrated[i].severity =>
                            Best.score.mean_p05_fill_rate_bps
                              >= calibrated[i].score.mean_p05_fill_rate_bps
    BY DEF BlockedOnlyIfUnavoidable
  <2>1. calibrated \in Seq(GradedCandidates) /\ calibrated # <<>>
    BY DEF CalibrationInv
  <2>2. 1 \in DOMAIN calibrated
    BY <2>1, EmptySeq, LenProperties
  <2>3. Graded(calibrated[i]) /\ Graded(Best)
    BY <2>1, <2>2, LenProperties, ElementOfSeq, GradedShape DEF Best
  <2>4. CASE i = 1
    <3>1. Best.severity \in Int /\ Best.score.mean_p05_fill_rate_bps \in Int
      BY <2>3 DEF Graded, Severities, Pass, Warn, Block
    <3>2. Best = calibrated[i]
      BY <2>4 DEF Best
    <3>. QED
      BY <3>1, <3>2
  <2>5. CASE i # 1
    <3>1. ~Before(calibrated[i], Best)
      BY <2>5 DEF CalibrationInv, Best
    <3>. QED
      BY <1>1, <2>3, <3>1
  <2>. QED
    BY <2>4, <2>5
<1>. QED
  BY <1>2, CalibrationInductive, PTL

(* A strategy the compiler accepts keeps its quote alive in every scenario *)
(* its figures come from: for any outcomes of the paths, the envelope is   *)
(* as slow as the slowest maker and the slowest link of the pack.          *)
THEOREM EnvelopeCoversPack == Spec => []ExportCoversScenarios
<1>1. ASSUME NEW c, Graded(c),
             EnvelopeValid(c.strategy.quote_update_envelope,
                           c.strategy.params.expire_slots),
             NEW i \in DOMAIN c.scenarios, NEW j \in DOMAIN c.scenarios
      PROVE  /\ c.scenarios[i].policy.maker_update_period_slots
                  + c.scenarios[j].policy.landing_latency_slots
                    < c.scenarios[i].params.expire_slots
             /\ c.scenarios[j].policy.update_success_probability_bps
                  >= c.strategy.quote_update_envelope.min_update_success_probability_bps
  <2>. DEFINE pack == c.scenarios
              e == c.strategy.quote_update_envelope
              period == PolicyField(pack, "maker_update_period_slots")
              latency == PolicyField(pack, "landing_latency_slots")
              success == PolicyField(pack, "update_success_probability_bps")
              expire == c.strategy.params.expire_slots
  <2>1. pack \in UniformPacks /\ e = EnvelopeOf(pack)
        /\ expire = pack[1].params.expire_slots
    BY <1>1 DEF Graded
  <2>2. i \in 1 .. 3 /\ j \in 1 .. 3 /\ pack[i].params = pack[1].params
        /\ pack[1].params \in [ParamNames -> Nat]
    BY <1>1, <2>1 DEF UniformPacks
  <2>3. expire \in Nat /\ pack[i].params.expire_slots = expire
    <3>1. "expire_slots" \in ParamNames
      BY DEF ParamNames, ParamFields, ToSet
    <3>. QED
      BY <2>1, <2>2, <3>1
  <2>4. /\ e.max_maker_update_period_slots = Max(period)
        /\ e.max_landing_latency_slots = Max(latency)
        /\ e.min_update_success_probability_bps = Min(success)
    BY <2>1 DEF EnvelopeOf
  <2>5. Max(period) + Max(latency) < expire
    BY <1>1, <2>4 DEF EnvelopeValid
  <2>6. /\ Max(period) \in Nat /\ Max(latency) \in Nat /\ Min(success) \in Nat
        /\ pack[i].policy.maker_update_period_slots \in Nat
        /\ pack[i].policy.maker_update_period_slots <= Max(period)
        /\ pack[j].policy.landing_latency_slots \in Nat
        /\ pack[j].policy.landing_latency_slots <= Max(latency)
        /\ pack[j].policy.update_success_probability_bps \in Nat
        /\ Min(success) <= pack[j].policy.update_success_probability_bps
    <3>. HIDE DEF pack
    <3>. QED
      BY <2>1, <2>2, FieldExtremes DEF PolicyNumbers
  <2>. HIDE DEF pack, e, period, latency, success, expire
  <2>7. pack[i].policy.maker_update_period_slots + pack[j].policy.landing_latency_slots
          < pack[i].params.expire_slots
    BY <2>3, <2>5, <2>6
  <2>8. pack[j].policy.update_success_probability_bps
          >= e.min_update_success_probability_bps
    BY <2>4, <2>6
  <2>. QED
    BY <2>7, <2>8 DEF pack, e
<1>2. CalibrationInv => \A c \in ToSet(calibrated) : Graded(c)
  BY LenProperties, ElementOfSeq, GradedShape DEF CalibrationInv, ToSet
<1>3. CalibrationInv => ExportCoversScenarios
  BY <1>1, <1>2 DEF ExportCoversScenarios
<1>. QED
  BY <1>3, CalibrationInductive, PTL

-----------------------------------------------------------------------------
(* Documents. *)

EnvelopeNames == ToSet(EnvelopeFields)

(* The names the compiler looks for. *)
ParseKeys ==
  (ParamNames \cup EnvelopeNames) \cup {"version", "mode", "same_slot_order"}

(* The field the exporter writes under a name the compiler looks for.      *)
OwnField(c, key) ==
  IF key \in ParamNames THEN Number(key, c.strategy.params[key])
  ELSE IF key \in EnvelopeNames
    THEN Number(key, c.strategy.quote_update_envelope[key])
  ELSE IF key = "version" THEN Number(key, 1)
  ELSE IF key = "mode" THEN Text(key, "ReferenceQuote")
  ELSE Text(key, "swap_before_update")

OtherKeys ==
  {"candidate_name", "warning", "severity", "scenario", "name",
   "mean_p05_fill_rate_bps", "mean_fill_rate_bps", "mean_update_drop_rate_bps",
   "rough_maker_score_quote_atoms"}

OtherTexts ==
  {NoText, "generated", "pass", "warn", "block"} \cup CandidateNames \cup ScenarioNames

OtherFields(c) ==
  {Number(f, c.score[f]) : f \in ToSet(ScoreFields)}
    \cup {Text(key, s) : key \in OtherKeys, s \in OtherTexts}

FieldsOf(c) == {OwnField(c, key) : key \in ParseKeys} \cup OtherFields(c)

LEMMA EnvelopeNamesAre ==
  EnvelopeNames =
    {"max_maker_update_period_slots", "max_landing_latency_slots",
     "min_update_success_probability_bps"}
  BY DEF EnvelopeNames, EnvelopeFields, ToSet

LEMMA ScoreNamesAre ==
  ToSet(ScoreFields) =
    {"mean_p05_fill_rate_bps", "mean_fill_rate_bps", "mean_update_drop_rate_bps",
     "rough_maker_score_quote_atoms"}
  BY DEF ScoreFields, ToSet

(* No name the compiler looks for is the name of another field or stands   *)
(* in the text of any.                                                     *)
LEMMA NamesApart ==
  /\ ParseKeys \cap OtherKeys = {}
  /\ ParseKeys \cap (OtherTexts \cup {"ReferenceQuote", "swap_before_update"}) = {}
  BY ParamNamesAre, EnvelopeNamesAre
     DEF ParseKeys, OtherKeys, OtherTexts, NoText, CandidateNames, ScenarioNames

LEMMA OwnFieldShape ==
  ASSUME NEW c, NEW key \in ParseKeys
  PROVE  /\ OwnField(c, key).key = key
         /\ OwnField(c, key).text \in {NoText, "ReferenceQuote", "swap_before_update"}
  BY DEF OwnField, Number, Text

LEMMA OtherFieldShape ==
  ASSUME NEW c, NEW e \in OtherFields(c)
  PROVE  e.key \in OtherKeys /\ e.text \in OtherTexts
  BY ScoreNamesAre DEF OtherFields, Number, Text, OtherKeys, OtherTexts

(* A name stands at its own field and nowhere else. *)
LEMMA StandsAtOwn ==
  ASSUME NEW c, NEW e \in FieldsOf(c), NEW key \in ParseKeys
  PROVE  /\ Stands(e, key) <=> e = OwnField(c, key)
         /\ OwnField(c, key).text # key
<1>1. OwnField(c, key).key = key /\ OwnField(c, key).text # key
  BY OwnFieldShape, NamesApart DEF OtherTexts
<1>2. ASSUME Stands(e, key) PROVE e = OwnField(c, key)
  <2>1. CASE e \in OtherFields(c)
    <3>1. e.key \in OtherKeys /\ e.text \in OtherTexts
      BY <2>1, OtherFieldShape
    <3>. QED
      BY <1>2, <3>1, NamesApart DEF Stands
  <2>2. ASSUME NEW own \in ParseKeys, e = OwnField(c, own)
        PROVE  e = OwnField(c, key)
    <3>1. e.key = own /\ e.text \in {NoText, "ReferenceQuote", "swap_before_update"}
      BY <2>2, OwnFieldShape
    <3>2. e.text # key
      BY <3>1, NamesApart DEF OtherTexts
    <3>. QED
      BY <1>2, <2>2, <3>1, <3>2 DEF Stands
  <2>. QED
    BY <2>1, <2>2 DEF FieldsOf
<1>. QED
  BY <1>1, <1>2 DEF Stands

(* In a document made of such fields the reader finds the field of a name  *)
(* or nothing, and nothing only if it is missing.                          *)
LEMMA FieldFound ==
  ASSUME NEW c, NEW doc \in Seq(FieldsOf(c)), NEW key \in ParseKeys
  PROVE  /\ FieldIndex(doc, key) # 0 =>
              doc[FieldIndex(doc, key)] = OwnField(c, key)
         /\ OwnField(c, key) \in ToSet(doc) => FieldIndex(doc, key) # 0
<1>. DEFINE I == {i \in 1 .. Len(doc) : Stands(doc[i], key)}
            first == SelectInSeq(doc, LAMBDA field : Stands(field, key))
<1>1. first = IF I # {} THEN Min(I) ELSE 0
  BY DEF SelectInSeq
<1>2. FieldIndex(doc, key) = IF first = 0 THEN 0
                             ELSE IF doc[first].text # key THEN first
                             ELSE IF first < Len(doc) THEN first + 1 ELSE 0
  BY DEF FieldIndex
<1>3. /\ Len(doc) \in Nat /\ DOMAIN doc = 1 .. Len(doc)
      /\ \A i \in 1 .. Len(doc) : doc[i] \in FieldsOf(c)
  BY LenProperties, ElementOfSeq
<1>4. \A i \in 1 .. Len(doc) : Stands(doc[i], key) <=> doc[i] = OwnField(c, key)
  BY <1>3, StandsAtOwn
<1>5. CASE I = {}
  <2>1. OwnField(c, key) \notin ToSet(doc)
    BY <1>3, <1>4, <1>5 DEF ToSet
  <2>2. FieldIndex(doc, key) = 0
    BY <1>1, <1>2, <1>5
  <2>. QED
    BY <2>1, <2>2
<1>6. CASE I # {}
  <2>1. Min(I) \in I
    <3>1. I \subseteq Nat
      BY <1>3
    <3>. HIDE DEF I
    <3>. QED
      BY <1>6, <3>1, MinIsFirst
  <2>2. /\ Min(I) \in 1 .. Len(doc) /\ doc[Min(I)] \in FieldsOf(c)
        /\ doc[Min(I)] = OwnField(c, key)
    BY <1>3, <1>4, <2>1
  <2>. HIDE DEF I, first
  <2>3. doc[Min(I)].text # key
    BY <2>2, StandsAtOwn
  <2>4. first = Min(I) /\ first # 0
    BY <1>1, <1>6, <2>2
  <2>. QED
    BY <1>2, <2>2, <2>3, <2>4
<1>. QED
  BY <1>5, <1>6

(* A list of errors is without a first one when it is without any.         *)
LEMMA FirstOfNone ==
  ASSUME NEW errors, NEW n \in Nat, errors \in [1 .. n -> {errors[i] : i \in 1 .. n}]
  PROVE  FirstError(errors) = NoError <=> \A i \in 1 .. n : errors[i] = NoError
<1>. DEFINE I == {i \in 1 .. Len(errors) : errors[i] # NoError}
            first == SelectInSeq(errors, LAMBDA e : e # NoError)
<1>1. first = IF I # {} THEN Min(I) ELSE 0
  BY DEF SelectInSeq
<1>2. FirstError(errors) = IF first = 0 THEN NoError ELSE errors[first]
  BY DEF FirstError
<1>3. Len(errors) = n
  BY LenProperties
<1>4. CASE I = {}
  BY <1>1, <1>2, <1>3, <1>4
<1>5. CASE I # {}
  <2>1. Min(I) \in I
    <3>1. I \subseteq Nat
      OBVIOUS
    <3>. HIDE DEF I
    <3>. QED
      BY <1>5, <3>1, MinIsFirst
  <2>2. Min(I) \in 1 .. n /\ errors[Min(I)] # NoError
    BY <1>3, <2>1
  <2>. HIDE DEF I, first
  <2>3. FirstError(errors) = errors[Min(I)]
    BY <1>1, <1>2, <1>5, <2>2
  <2>. QED
    BY <2>2, <2>3
<1>. QED
  BY <1>4, <1>5

LEMMA NumbersAre ==
  ASSUME NEW S, NEW n \in Nat, NEW fields, DOMAIN fields = 1 .. n, NEW values,
         \A f \in ToSet(fields) : Number(f, values[f]) \in S
  PROVE  /\ Numbers(fields, values) \in Seq(S)
         /\ \A f \in ToSet(fields) :
              Number(f, values[f]) \in ToSet(Numbers(fields, values))
<1>1. DOMAIN fields = 1 .. n /\ \A i \in 1 .. n : fields[i] \in ToSet(fields)
  BY DEF ToSet
<1>2. Numbers(fields, values) = [i \in 1 .. n |-> Number(fields[i], values[fields[i]])]
  BY <1>1 DEF Numbers
<1>3. Numbers(fields, values) \in [1 .. n -> S]
  BY <1>1, <1>2
<1>4. \A f \in ToSet(fields) : \E i \in 1 .. n : f = fields[i]
  BY <1>1 DEF ToSet
<1>. QED
  BY <1>2, <1>3, <1>4 DEF ToSet

LEMMA JoinedFields ==
  ASSUME NEW S, NEW s \in Seq(S), NEW t \in Seq(S)
  PROVE  /\ s \o t \in Seq(S)
         /\ ToSet(s) \subseteq ToSet(s \o t) /\ ToSet(t) \subseteq ToSet(s \o t)
<1>1. /\ s \o t \in Seq(S) /\ Len(s \o t) = Len(s) + Len(t)
      /\ \A i \in 1 .. Len(s) + Len(t) :
           (s \o t)[i] = IF i <= Len(s) THEN s[i] ELSE t[i - Len(s)]
  BY ConcatProperties
<1>2. /\ Len(s) \in Nat /\ Len(t) \in Nat
      /\ DOMAIN s = 1 .. Len(s) /\ DOMAIN t = 1 .. Len(t)
      /\ DOMAIN (s \o t) = 1 .. Len(s) + Len(t)
  BY <1>1, LenProperties
<1>3. ASSUME NEW i \in 1 .. Len(s)
      PROVE  i \in 1 .. Len(s) + Len(t) /\ (s \o t)[i] = s[i]
  BY <1>1, <1>2
<1>4. ASSUME NEW i \in 1 .. Len(t)
      PROVE  /\ i + Len(s) \in 1 .. Len(s) + Len(t)
             /\ (s \o t)[i + Len(s)] = t[i]
  <2>1. /\ i + Len(s) \in 1 .. Len(s) + Len(t) /\ ~(i + Len(s) <= Len(s))
        /\ (i + Len(s)) - Len(s) = i
    BY <1>2
  <2>. QED
    BY <1>1, <2>1
<1>5. \A e \in ToSet(s) : e \in ToSet(s \o t)
  BY <1>2, <1>3 DEF ToSet
<1>6. \A e \in ToSet(t) : e \in ToSet(s \o t)
  BY <1>2, <1>4 DEF ToSet
<1>. QED
  BY <1>1, <1>5, <1>6

(* The strategy of a graded candidate. *)
LEMMA StrategyShape ==
  ASSUME NEW c, Graded(c)
  PROVE  LET e == c.strategy.quote_update_envelope
         IN  /\ c.strategy.params \in [ParamNames -> Nat]
             /\ e = [max_maker_update_period_slots |-> e.max_maker_update_period_slots,
                     max_landing_latency_slots |-> e.max_landing_latency_slots,
                     min_update_success_probability_bps |->
                       e.min_update_success_probability_bps,
                     same_slot_order |-> "SwapBeforeUpdate"]
             /\ e.same_slot_order = "SwapBeforeUpdate"
             /\ c.strategy = [params |-> c.strategy.params,
                              quote_update_envelope |-> e]
<1>. DEFINE pack == c.scenarios
<1>1. pack \in UniformPacks
      /\ c.strategy = [params |-> pack[1].params,
                       quote_update_envelope |-> EnvelopeOf(pack)]
  BY DEF Graded
<1>2. pack[1].params \in [ParamNames -> Nat] /\ pack[1].policy \in Policies
  BY <1>1 DEF UniformPacks
<1>3. pack[1].policy.same_slot_order = "SwapBeforeUpdate"
  BY <1>2 DEF Policies
<1>. HIDE DEF pack
<1>. QED
  BY <1>1, <1>2, <1>3 DEF EnvelopeOf

(* A document the exporter writes has the field of every name the compiler *)
(* looks for, and otherwise only fields no name of which is looked for.    *)
LEMMA ExportedFields ==
  ASSUME NEW c, Graded(c)
  PROVE  /\ ExportConfig(c) \in Seq(FieldsOf(c))
         /\ \A key \in ParseKeys : OwnField(c, key) \in ToSet(ExportConfig(c))
<1>. DEFINE S == FieldsOf(c)
            e == c.strategy.quote_update_envelope
            head == <<Number("version", 1), Text("mode", "ReferenceQuote"),
                      Text("candidate_name", c.name), Text("warning", "generated")>>
            params == Numbers(ParamFields, c.strategy.params)
            env == Numbers(EnvelopeFields, e)
            order == <<Text("same_slot_order", SameSlotOrderStr(e.same_slot_order))>>
            scores == Numbers(ScoreFields, c.score)
            severity == <<Text("severity", SeverityStr(c.severity))>>
            scenarios == [i \in DOMAIN c.scenarios |->
                            Text("scenario", c.scenarios[i].name)]
            names == [i \in DOMAIN c.scenarios |-> Text("name", c.scenarios[i].name)]
<1>1. ExportConfig(c) = head \o params \o env \o order \o scores \o severity
                          \o scenarios \o names
  BY DEF ExportConfig
<1>2. /\ \A key \in ParamNames : OwnField(c, key) = Number(key, c.strategy.params[key])
      /\ \A key \in EnvelopeNames : OwnField(c, key) = Number(key, e[key])
      /\ OwnField(c, "version") = Number("version", 1)
      /\ OwnField(c, "mode") = Text("mode", "ReferenceQuote")
      /\ OwnField(c, "same_slot_order") = Text("same_slot_order", "swap_before_update")
  BY ParamNamesAre, EnvelopeNamesAre DEF OwnField
<1>3. \A key \in ParseKeys : OwnField(c, key) \in S
  BY DEF FieldsOf
<1>4. \A key \in OtherKeys, s \in OtherTexts : Text(key, s) \in S
  BY DEF FieldsOf, OtherFields
<1>5. head \in Seq(S) /\ OwnField(c, "version") \in ToSet(head)
      /\ OwnField(c, "mode") \in ToSet(head)
  <2>1. OwnField(c, "version") \in S /\ OwnField(c, "mode") \in S
    BY <1>3 DEF ParseKeys
  <2>2. Text("candidate_name", c.name) \in S /\ Text("warning", "generated") \in S
    BY <1>4 DEF Graded, OtherKeys, OtherTexts
  <2>3. ASSUME NEW a \in S, NEW b \in S, NEW f \in S, NEW g \in S
        PROVE  /\ <<a, b, f, g>> \in Seq(S)
               /\ a \in ToSet(<<a, b, f, g>>) /\ b \in ToSet(<<a, b, f, g>>)
    BY DEF ToSet
  <2>. HIDE DEF S
  <2>. QED
    BY <1>2, <2>1, <2>2, <2>3
<1>6. params \in Seq(S) /\ \A key \in ParamNames : OwnField(c, key) \in ToSet(params)
  <2>1. PICK n \in Nat : DOMAIN ParamFields = 1 .. n
    <3>1. DOMAIN ParamFields = 1 .. 12
      BY DEF ParamFields
    <3>. QED
      BY <3>1
  <2>2. \A key \in ToSet(ParamFields) : Number(key, c.strategy.params[key]) \in S
    BY <1>2, <1>3 DEF ParseKeys, ParamNames
  <2>. HIDE DEF S
  <2>3. /\ params \in Seq(S)
        /\ \A key \in ToSet(ParamFields) :
             Number(key, c.strategy.params[key]) \in ToSet(params)
    BY <2>1, <2>2, NumbersAre
  <2>. HIDE DEF params
  <2>. QED
    BY <1>2, <2>3 DEF ParamNames
<1>7. env \in Seq(S) /\ \A key \in EnvelopeNames : OwnField(c, key) \in ToSet(env)
  <2>1. PICK n \in Nat : DOMAIN EnvelopeFields = 1 .. n
    <3>1. DOMAIN EnvelopeFields = 1 .. 3
      BY DEF EnvelopeFields
    <3>. QED
      BY <3>1
  <2>2. \A key \in ToSet(EnvelopeFields) : Number(key, e[key]) \in S
    BY <1>2, <1>3 DEF ParseKeys, EnvelopeNames
  <2>. HIDE DEF S, e
  <2>. QED
    BY <1>2, <2>1, <2>2, NumbersAre DEF EnvelopeNames
<1>8. order \in Seq(S) /\ OwnField(c, "same_slot_order") \in ToSet(order)
  <2>1. e.same_slot_order = "SwapBeforeUpdate"
    BY StrategyShape
  <2>. HIDE DEF e
  <2>2. SameSlotOrderStr(e.same_slot_order) = "swap_before_update"
    BY <2>1 DEF SameSlotOrderStr
  <2>3. OwnField(c, "same_slot_order") \in S
    BY <1>3 DEF ParseKeys
  <2>4. ASSUME NEW a \in S PROVE <<a>> \in Seq(S) /\ a \in ToSet(<<a>>)
    BY DEF ToSet
  <2>. HIDE DEF S
  <2>. QED
    BY <1>2, <2>2, <2>3, <2>4
<1>9. scores \in Seq(S)
  <2>1. PICK n \in Nat : DOMAIN ScoreFields = 1 .. n
    <3>1. DOMAIN ScoreFields = 1 .. 4
      BY DEF ScoreFields
    <3>. QED
      BY <3>1
  <2>2. \A key \in ToSet(ScoreFields) : Number(key, c.score[key]) \in S
    BY DEF FieldsOf, OtherFields
  <2>. HIDE DEF S
  <2>. QED
    BY <2>1, <2>2, NumbersAre
<1>10. severity \in Seq(S)
  <2>1. SeverityStr(c.severity) \in {"pass", "warn", "block"}
    <3>1. c.severity = 0 \/ c.severity = 1 \/ c.severity = 2
      BY DEF Graded, Severities, Pass, Warn, Block
    <3>. QED
      BY <3>1 DEF SeverityStr
  <2>2. Text("severity", SeverityStr(c.severity)) \in S
    BY <1>4, <2>1 DEF OtherKeys, OtherTexts
  <2>. HIDE DEF S
  <2>. QED
    BY <2>2
<1>11. scenarios \in Seq(S) /\ names \in Seq(S)
  <2>1. DOMAIN c.scenarios = 1 .. 3 /\ \A i \in 1 .. 3 : c.scenarios[i].name \in ScenarioNames
    BY DEF Graded, UniformPacks
  <2>2. \A s \in ScenarioNames : Text("scenario", s) \in S /\ Text("name", s) \in S
    BY <1>4 DEF OtherKeys, OtherTexts
  <2>. HIDE DEF S
  <2>3. PICK n \in Nat : n = 3
    OBVIOUS
  <2>4. scenarios \in [1 .. n -> S] /\ names \in [1 .. n -> S]
    BY <2>1, <2>2, <2>3
  <2>5. \A s \in [1 .. n -> S] : s \in Seq(S)
    OBVIOUS
  <2>. HIDE DEF scenarios, names
  <2>. QED
    BY <2>4, <2>5
<1>. DEFINE d1 == head \o params
            d2 == d1 \o env
            d3 == d2 \o order
            d4 == d3 \o scores
            d5 == d4 \o severity
            d6 == d5 \o scenarios
            d7 == d6 \o names
<1>12. ExportConfig(c) = d7
  BY <1>1
<1>. HIDE DEF S, head, params, env, order, scores, severity, scenarios, names
<1>13. d1 \in Seq(S) /\ ToSet(head) \subseteq ToSet(d1) /\ ToSet(params) \subseteq ToSet(d1)
  BY <1>5, <1>6, JoinedFields
<1>. HIDE DEF d1
<1>14. d2 \in Seq(S) /\ ToSet(d1) \subseteq ToSet(d2) /\ ToSet(env) \subseteq ToSet(d2)
  BY <1>7, <1>13, JoinedFields
<1>. HIDE DEF d2
<1>15. d3 \in Seq(S) /\ ToSet(d2) \subseteq ToSet(d3) /\ ToSet(order) \subseteq ToSet(d3)
  BY <1>8, <1>14, JoinedFields
<1>. HIDE DEF d3
<1>16. d4 \in Seq(S) /\ ToSet(d3) \subseteq ToSet(d4)
  BY <1>9, <1>15, JoinedFields
<1>. HIDE DEF d4
<1>17. d5 \in Seq(S) /\ ToSet(d4) \subseteq ToSet(d5)
  BY <1>10, <1>16, JoinedFields
<1>. HIDE DEF d5
<1>18. d6 \in Seq(S) /\ ToSet(d5) \subseteq ToSet(d6)
  BY <1>11, <1>17, JoinedFields
<1>. HIDE DEF d6
<1>19. d7 \in Seq(S) /\ ToSet(d6) \subseteq ToSet(d7)
  BY <1>11, <1>18, JoinedFields
<1>. HIDE DEF d7
<1>20. \A key \in ParseKeys : \/ OwnField(c, key) \in ToSet(head)
                             \/ OwnField(c, key) \in ToSet(params)
                             \/ OwnField(c, key) \in ToSet(env)
                             \/ OwnField(c, key) \in ToSet(order)
  BY <1>5, <1>6, <1>7, <1>8 DEF ParseKeys
<1>. QED
  BY <1>12, <1>13, <1>14, <1>15, <1>16, <1>17, <1>18, <1>19, <1>20 DEF S

(* The loss of a line leaves a document of the same kinds of fields.       *)
LEMMA LossKeepsFields ==
  ASSUME NEW S, NEW doc \in Seq(S), NEW i \in DOMAIN doc
  PROVE  RemoveAt(doc, i) \in Seq(S)
<1>1. Len(doc) \in Nat /\ i \in 1 .. Len(doc) /\ \A j \in 1 .. Len(doc) : doc[j] \in S
  BY LenProperties, ElementOfSeq
<1>2. SubSeq(doc, 1, i - 1) \in Seq(S)
  <2>1. 1 \in Int /\ i - 1 \in Int /\ \A j \in 1 .. i - 1 : doc[j] \in S
    BY <1>1
  <2>. QED
    BY <2>1, SubSeqProperties
<1>3. SubSeq(doc, i + 1, Len(doc)) \in Seq(S)
  <2>1. i + 1 \in Int /\ Len(doc) \in Int /\ \A j \in i + 1 .. Len(doc) : doc[j] \in S
    BY <1>1
  <2>. QED
    BY <2>1, SubSeqProperties
<1>. QED
  BY <1>2, <1>3, ConcatProperties DEF RemoveAt

NumberKeys == (ParamNames \cup EnvelopeNames) \cup {"version"}
TextKeys   == {"mode", "same_slot_order"}

(* A name is read without an error exactly if its field is there.          *)
LEMMA FieldErrors ==
  ASSUME NEW c, NEW doc \in Seq(FieldsOf(c))
  PROVE  /\ \A key \in NumberKeys :
              /\ NumberError(doc, key) = NoError <=> FieldIndex(doc, key) # 0
              /\ FieldIndex(doc, key) # 0 =>
                   NumberAt(doc, key) = OwnField(c, key).number
         /\ \A key \in TextKeys :
              /\ TextError(doc, key) = NoError <=> FieldIndex(doc, key) # 0
              /\ FieldIndex(doc, key) # 0 => TextAt(doc, key) = OwnField(c, key).text
<1>1. NumberKeys \subseteq ParseKeys /\ TextKeys \subseteq ParseKeys
  BY DEF NumberKeys, TextKeys, ParseKeys
<1>2. ASSUME NEW key \in NumberKeys PROVE OwnField(c, key).text = NoText
  BY DEF NumberKeys, OwnField, Number
<1>3. ASSUME NEW key \in TextKeys PROVE OwnField(c, key).text # NoText
  BY ParamNamesAre, EnvelopeNamesAre DEF TextKeys, OwnField, Text, NoText
<1>4. ASSUME NEW key \in NumberKeys
      PROVE  /\ NumberError(doc, key) = NoError <=> FieldIndex(doc, key) # 0
             /\ FieldIndex(doc, key) # 0 =>
                  NumberAt(doc, key) = OwnField(c, key).number
  <2>1. FieldIndex(doc, key) # 0 => doc[FieldIndex(doc, key)] = OwnField(c, key)
    BY <1>1, FieldFound
  <2>. QED
    BY <1>2, <2>1 DEF NumberError, NumberAt, NoError
<1>5. ASSUME NEW key \in TextKeys
      PROVE  /\ TextError(doc, key) = NoError <=> FieldIndex(doc, key) # 0
             /\ FieldIndex(doc, key) # 0 => TextAt(doc, key) = OwnField(c, key).text
  <2>1. FieldIndex(doc, key) # 0 => doc[FieldIndex(doc, key)] = OwnField(c, key)
    BY <1>1, FieldFound
  <2>. QED
    BY <1>3, <2>1 DEF TextError, TextAt, NoError
<1>. QED
  BY <1>4, <1>5

LEMMA FirstNumberError ==
  ASSUME NEW doc, NEW n \in Nat, NEW fields, DOMAIN fields = 1 .. n
  PROVE  FirstError(NumberErrors(doc, fields)) = NoError
           <=> \A key \in ToSet(fields) : NumberError(doc, key) = NoError
<1>. DEFINE errors == NumberErrors(doc, fields)
<1>1. errors = [i \in 1 .. n |-> NumberError(doc, fields[i])]
  BY DEF NumberErrors
<1>2. errors \in [1 .. n -> {errors[i] : i \in 1 .. n}]
  BY <1>1
<1>. HIDE DEF errors
<1>3. FirstError(errors) = NoError <=> \A i \in 1 .. n : errors[i] = NoError
  BY <1>2, FirstOfNone
<1>4. (\A i \in 1 .. n : errors[i] = NoError)
        <=> \A key \in ToSet(fields) : NumberError(doc, key) = NoError
  BY <1>1 DEF ToSet
<1>. QED
  BY <1>3, <1>4 DEF errors

Present(doc) == \A key \in ParseKeys : FieldIndex(doc, key) # 0

(* A document without a field that is looked for is refused. *)
LEMMA MissingIsRefused ==
  ASSUME NEW c, NEW doc \in Seq(FieldsOf(c)), ParseError(doc) = NoError
  PROVE  Present(doc)
<1>1. /\ VersionError(doc) = NoError /\ ModeError(doc) = NoError
      /\ ParamsError(doc) = NoError /\ OrderError(doc) = NoError
      /\ EnvelopeError(doc) = NoError
  BY DEF ParseError
<1>2. /\ NumberError(doc, "version") = NoError /\ TextError(doc, "mode") = NoError
      /\ TextError(doc, "same_slot_order") = NoError
      /\ FirstError(NumberErrors(doc, ParamFields)) = NoError
      /\ FirstError(NumberErrors(doc, EnvelopeFields)) = NoError
  BY <1>1 DEF VersionError, ModeError, OrderError, ParamsError, EnvelopeError
<1>3. \A key \in ParamNames : NumberError(doc, key) = NoError
  <2>1. PICK n \in Nat : DOMAIN ParamFields = 1 .. n
    <3>1. DOMAIN ParamFields = 1 .. 12
      BY DEF ParamFields
    <3>. QED
      BY <3>1
  <2>. QED
    BY <1>2, <2>1, FirstNumberError DEF ParamNames
<1>4. \A key \in EnvelopeNames : NumberError(doc, key) = NoError
  <2>1. PICK n \in Nat : DOMAIN EnvelopeFields = 1 .. n
    <3>1. DOMAIN EnvelopeFields = 1 .. 3
      BY DEF EnvelopeFields
    <3>. QED
      BY <3>1
  <2>. QED
    BY <1>2, <2>1, FirstNumberError DEF EnvelopeNames
<1>. QED
  BY <1>2, <1>3, <1>4, FieldErrors DEF Present, ParseKeys, NumberKeys, TextKeys

(* A document with all of them is read as the strategy it was written of,  *)
(* and refused exactly if the compiler refuses the strategy.               *)
LEMMA PresentIsRead ==
  ASSUME NEW c, Graded(c), NEW doc \in Seq(FieldsOf(c)), Present(doc)
  PROVE  LET params   == c.strategy.params
             envelope == c.strategy.quote_update_envelope
         IN  /\ Record(doc, ParamFields) = params
             /\ ExportedEnvelope(doc) = envelope
             /\ ParseError(doc) = NoError
                  <=> /\ ConfigParamsValid(params)
                      /\ EnvelopeValid(envelope, params.expire_slots)
<1>. DEFINE params   == c.strategy.params
            envelope == c.strategy.quote_update_envelope
<1>1. /\ \A key \in NumberKeys : NumberError(doc, key) = NoError
                                 /\ NumberAt(doc, key) = OwnField(c, key).number
      /\ \A key \in TextKeys : TextError(doc, key) = NoError
                               /\ TextAt(doc, key) = OwnField(c, key).text
  BY FieldErrors DEF Present, ParseKeys, NumberKeys, TextKeys
<1>2. /\ \A key \in ParamNames : NumberAt(doc, key) = params[key]
      /\ \A key \in EnvelopeNames : NumberAt(doc, key) = envelope[key]
      /\ NumberAt(doc, "version") = 1
      /\ TextAt(doc, "mode") = "ReferenceQuote"
      /\ TextAt(doc, "same_slot_order") = "swap_before_update"
  <2>1. \A key \in ParamNames : OwnField(c, key).number = params[key]
    BY DEF OwnField, Number
  <2>2. \A key \in EnvelopeNames : OwnField(c, key).number = envelope[key]
    BY ParamNamesAre, EnvelopeNamesAre DEF OwnField, Number
  <2>3. /\ OwnField(c, "version").number = 1
        /\ OwnField(c, "mode").text = "ReferenceQuote"
        /\ OwnField(c, "same_slot_order").text = "swap_before_update"
    BY ParamNamesAre, EnvelopeNamesAre DEF OwnField, Number, Text
  <2>. QED
    BY <1>1, <2>1, <2>2, <2>3 DEF NumberKeys, TextKeys
<1>3. params \in [ParamNames -> Nat]
      /\ envelope = [max_maker_update_period_slots |->
                       envelope.max_maker_update_period_slots,
                     max_landing_latency_slots |-> envelope.max_landing_latency_slots,
                     min_update_success_probability_bps |->
                       envelope.min_update_success_probability_bps,
                     same_slot_order |-> "SwapBeforeUpdate"]
  BY StrategyShape
<1>. HIDE DEF params, envelope
<1>4. Record(doc, ParamFields) = params
  BY <1>2, <1>3 DEF Record, ParamNames
<1>5. ExportedEnvelope(doc) = envelope
  <2>1. /\ NumberAt(doc, "max_maker_update_period_slots")
             = envelope.max_maker_update_period_slots
        /\ NumberAt(doc, "max_landing_latency_slots") = envelope.max_landing_latency_slots
        /\ NumberAt(doc, "min_update_success_probability_bps")
             = envelope.min_update_success_probability_bps
    BY <1>2, EnvelopeNamesAre
  <2>2. ExportedOrder(doc) = "SwapBeforeUpdate"
    BY <1>2 DEF ExportedOrder
  <2>. QED
    BY <1>3, <2>1, <2>2 DEF ExportedEnvelope
<1>6. NumberAt(doc, "expire_slots") = params.expire_slots
  BY <1>2, ParamNamesAre
<1>7. /\ VersionError(doc) = NoError /\ ModeError(doc) = NoError
      /\ OrderError(doc) = NoError
  BY <1>1, <1>2 DEF VersionError, ModeError, OrderError, NumberKeys, TextKeys
<1>8. FirstError(NumberErrors(doc, ParamFields)) = NoError
  <2>1. PICK n \in Nat : DOMAIN ParamFields = 1 .. n
    <3>1. DOMAIN ParamFields = 1 .. 12
      BY DEF ParamFields
    <3>. QED
      BY <3>1
  <2>. QED
    BY <1>1, <2>1, FirstNumberError DEF ParamNames, NumberKeys
<1>9. FirstError(NumberErrors(doc, EnvelopeFields)) = NoError
  <2>1. PICK n \in Nat : DOMAIN EnvelopeFields = 1 .. n
    <3>1. DOMAIN EnvelopeFields = 1 .. 3
      BY DEF EnvelopeFields
    <3>. QED
      BY <3>1
  <2>. QED
    BY <1>1, <2>1, FirstNumberError DEF EnvelopeNames, NumberKeys
<1>10. ParamsError(doc) = IF ConfigParamsValid(params) THEN NoError ELSE "Config"
  BY <1>4, <1>8 DEF ParamsError
<1>11. EnvelopeError(doc) = IF EnvelopeValid(envelope, params.expire_slots)
                              THEN NoError ELSE "Config"
  BY <1>5, <1>6, <1>9 DEF EnvelopeError
<1>12. ParseError(doc) = NoError
         <=> ConfigParamsValid(params) /\ EnvelopeValid(envelope, params.expire_slots)
  BY <1>7, <1>10, <1>11 DEF ParseError, NoError
<1>. QED
  BY <1>4, <1>5, <1>12 DEF params, envelope

(* What was exported, the document it was written into, less one line at   *)
(* most, and what the compiler made of the document.                       *)
ExportInv ==
  /\ exported = <<>> => document = <<>> /\ imported = <<>>
  /\ exported # <<>> =>
       /\ calibrationResult = "Exported"
       /\ exported \in GradedCandidates
       /\ document \in Seq(FieldsOf(exported))
  /\ imported # <<>> =>
       \E budget, mint :
         imported = <<CompileExport(document, budget, mint, mint), budget, mint>>

LEMMA ExportInductive == Spec => []ExportInv
<1>1. Init => ExportInv
  BY DEF Init, ExportInit, ExportInv
<1>2. CalibrationInv /\ ExportInv /\ [Next]_vars => ExportInv'
  <2>. SUFFICES ASSUME CalibrationInv, ExportInv, [Next]_vars PROVE ExportInv'
    OBVIOUS
  <2>1. CASE UNCHANGED <<exportVars, calibrationResult>>
    BY <2>1 DEF ExportInv, exportVars
  <2>2. CASE UNCHANGED exportVars /\ calibrationResult # "Exported"
    BY <2>2 DEF ExportInv, exportVars
  <2>3. CASE ExportBest
    <3>1. exported = <<>> /\ imported = <<>>
      BY <2>3 DEF ExportBest, ExportInv
    <3>2. Best \in GradedCandidates
      <4>1. calibrated \in Seq(GradedCandidates) /\ calibrated # <<>>
        BY <2>3 DEF ExportBest, CalibrationInv
      <4>2. 1 \in 1 .. Len(calibrated)
        BY <4>1, EmptySeq, LenProperties
      <4>. QED
        BY <4>1, <4>2, ElementOfSeq DEF Best
    <3>3. ExportConfig(Best) \in Seq(FieldsOf(Best))
      BY <3>2, GradedShape, ExportedFields
    <3>4. Best # <<>>
      <4>1. "scenarios" \in DOMAIN Best
        BY <3>2 DEF GradedCandidates, CandidateReport
      <4>2. DOMAIN <<>> = {}
        BY EmptySeq, LenProperties
      <4>. QED
        BY <4>1, <4>2
    <3>5. /\ exported' = Best /\ document' = ExportConfig(Best)
          /\ calibrationResult' = "Exported" /\ imported' = <<>>
      BY <2>3, <3>1 DEF ExportBest
    <3>. QED
      BY <3>2, <3>3, <3>4, <3>5 DEF ExportInv
  <2>4. CASE LoseLine
    <3>1. PICK i \in DOMAIN document : document' = RemoveAt(document, i)
      BY <2>4 DEF LoseLine
    <3>2. exported # <<>>
      BY <2>4 DEF LoseLine, ExportInv
    <3>3. document \in Seq(FieldsOf(exported)) /\ exported \in GradedCandidates
          /\ calibrationResult = "Exported"
      BY <3>2 DEF ExportInv
    <3>4. document' \in Seq(FieldsOf(exported))
      BY <3>1, <3>3, LossKeepsFields
    <3>5. exported' = exported /\ imported' = imported /\ imported = <<>>
          /\ calibrationResult' = calibrationResult
      BY <2>4 DEF LoseLine, calibrationVars
    <3>. QED
      BY <3>2, <3>3, <3>4, <3>5 DEF ExportInv
  <2>5. CASE ImportDocument
    <3>1. \E budget, mint :
            imported' = <<CompileExport(document, budget, mint, mint), budget, mint>>
      BY <2>5 DEF ImportDocument
    <3>2. /\ exported' = exported /\ document' = document /\ exported # <<>>
          /\ calibrationResult' = calibrationResult
      BY <2>5 DEF ImportDocument, calibrationVars
    <3>. QED
      BY <3>1, <3>2 DEF ExportInv
  <2>6. CASE RunCalibration
    <3>1. CASE CalibrateCandidate \/ CandidateFails \/ RankCandidates
      <4>1. calibrationResult = NoError /\ calibrationResult # "Exported"
        BY <3>1 DEF CalibrateCandidate, CandidateFails, RankCandidates, NoError
      <4>2. UNCHANGED exportVars
        BY <2>6, <3>1, <4>1 DEF RunCalibration, ExportBest, NoError
      <4>. QED
        BY <2>2, <4>1, <4>2
    <3>. QED
      BY <2>3, <2>6, <3>1 DEF RunCalibration
  <2>7. CASE RunSmoke \/ RunScenarioPack \/ RunReplay \/ Panic \/ Finish
    BY <2>1, <2>7 DEF RunSmoke, RunScenarioPack, RunReplay, Panic, Finish,
                      calibrationVars
  <2>8. CASE CarryOver
    BY <2>4, <2>5, <2>8 DEF CarryOver
  <2>9. CASE UNCHANGED vars
    BY <2>1, <2>9 DEF vars, calibrationVars
  <2>. QED
    BY <2>6, <2>7, <2>8, <2>9 DEF Next, Run
<1>. QED
  BY <1>1, <1>2, CalibrationInductive, PTL DEF Spec

(* The pool is compiled with the strategy that was calibrated or not at    *)
(* all, whichever line of the document was lost; a document that arrived   *)
(* whole is refused exactly if the compiler refuses what it says.          *)
THEOREM ExportSurvivesTransport == Spec => []ImportReadsExport
<1>1. ExportInv => ImportReadsExport
  <2>. SUFFICES ASSUME ExportInv, imported # <<>> PROVE ImportReadsExport
    BY DEF ImportReadsExport
  <2>. DEFINE c == exported
              params == c.strategy.params
              envelope == c.strategy.quote_update_envelope
  <2>1. exported # <<>> /\ Graded(c) /\ document \in Seq(FieldsOf(c))
    BY GradedShape DEF ExportInv
  <2>2. PICK budget, mint :
          imported = <<CompileExport(document, budget, mint, mint), budget, mint>>
    BY DEF ExportInv
  <2>. DEFINE parsed == ParseStrategyExport(document)
              got == CompileExport(document, budget, mint, mint)
  <2>3. imported[1] = got /\ imported[2] = budget /\ imported[3] = mint
    BY <2>2
  <2>4. parsed = IF ParseError(document) # NoError THEN Err(ParseError(document))
                 ELSE Ok([params |-> Record(document, ParamFields),
                          quote_update_envelope |-> ExportedEnvelope(document)])
    BY DEF ParseStrategyExport
  <2>5. got = IF parsed.error # NoError THEN parsed
              ELSE IF ~ConfigCompiles(parsed.value.params,
                                      parsed.value.quote_update_envelope,
                                      budget, mint, mint) THEN Err("Config")
              ELSE parsed
    BY DEF CompileExport
  <2>6. c.strategy = [params |-> params, quote_update_envelope |-> envelope]
    BY <2>1, StrategyShape
  <2>7. ASSUME Present(document)
        PROVE  /\ Record(document, ParamFields) = params
               /\ ExportedEnvelope(document) = envelope
               /\ ParseError(document) = NoError
                    <=> /\ ConfigParamsValid(params)
                        /\ EnvelopeValid(envelope, params.expire_slots)
    BY <2>1, <2>7, PresentIsRead
  <2>8. ParseError(document) = NoError => Present(document) /\ parsed = Ok(c.strategy)
    <3>1. ParseError(document) = NoError => Present(document)
      BY <2>1, MissingIsRefused
    <3>. QED
      BY <2>4, <2>6, <2>7, <3>1
  <2>9. ParseError(document) # NoError => got.error = ParseError(document)
    BY <2>4, <2>5 DEF Err
  <2>10. ParseError(document) = NoError =>
           got = IF ~ConfigCompiles(params, envelope, budget, mint, mint)
                 THEN Err("Config") ELSE Ok(c.strategy)
    BY <2>5, <2>6, <2>8 DEF Ok
  <2>. HIDE DEF parsed, got, params, envelope
  <2>11. got.error = NoError => got.value = c.strategy
    BY <2>9, <2>10 DEF Ok, Err, NoError
  <2>12. ASSUME document = ExportConfig(c)
         PROVE  got.error = NoError <=> ConfigCompiles(params, envelope, budget, mint, mint)
    <3>1. Present(document)
      BY <2>1, <2>12, ExportedFields, FieldFound DEF Present
    <3>2. ConfigCompiles(params, envelope, budget, mint, mint) =>
            ParseError(document) = NoError
      BY <2>7, <3>1 DEF ConfigCompiles
    <3>. QED
      BY <2>9, <2>10, <3>2 DEF Ok, Err, NoError
  <2>. QED
    BY <2>3, <2>11, <2>12 DEF ImportReadsExport, params, envelope
<1>. QED
  BY <1>1, ExportInductive, PTL

-----------------------------------------------------------------------------
(* Recorded markets. *)

Flows     == [base_to_quote : BOOLEAN, amount_in : Cells]
SlotRows  == [slot : Cells, fair_price : Cells, flow : Flows]
UpdateRows == [publish_slot : Nat, landing_slot : Nat \cup {Drop}]

(* A rate is whole exactly when its part is. *)
LEMMA WholeRate ==
  ASSUME NEW n \in Nat \ {0}, NEW a \in Nat, a <= n
  PROVE  RateBps(a, n) = BPS <=> a = n
<1>. DEFINE q == (a * BPS) \div n
<1>1. BPS \in Nat \ {0} /\ MaxU16 \in Nat /\ BPS <= MaxU16
  BY BPSAssumption, ReportsAssumption DEF MaxU16
<1>2. RateBps(a, n) = Least(q, MaxU16)
  BY DEF RateBps
<1>3. a * BPS \in Nat /\ n * BPS \in Nat
  BY <1>1, ProductNat
<1>4. q \in Nat /\ n * q <= a * BPS
  BY <1>3, DivBounds
<1>5. CASE a = n
  <2>1. (n * BPS) \div n = BPS
    <3>1. n * BPS = BPS * n
      BY <1>1
    <3>2. (BPS * n) \div n = BPS
      BY <1>1, ExactQuotient
    <3>. QED
      BY <3>1, <3>2
  <2>2. q = BPS
    BY <1>5, <2>1
  <2>. HIDE DEF q
  <2>. QED
    BY <1>1, <1>2, <1>5, <2>2 DEF Least
<1>6. CASE a < n
  <2>. HIDE DEF q
  <2>1. q < BPS
    <3>. SUFFICES ASSUME BPS <= q PROVE FALSE
      BY <1>1, <1>4
    <3>1. BPS * n <= q * n
      BY <1>1, <1>4, ProductMonotone
    <3>2. (a + 1) * BPS <= n * BPS
      BY <1>1, <1>6, ProductMonotone
    <3>3. (a + 1) * BPS = a * BPS + BPS /\ BPS * n = n * BPS /\ q * n = n * q
      BY <1>1, <1>4
    <3>4. n * q \in Nat
      BY <1>4, ProductNat
    <3>. DEFINE x == a * BPS
                y == n * BPS
                z == n * q
    <3>5. y <= z /\ z <= x /\ x + BPS <= y /\ x \in Nat /\ y \in Nat /\ z \in Nat
      BY <1>3, <1>4, <3>1, <3>2, <3>3, <3>4
    <3>. HIDE DEF x, y, z
    <3>. QED
      BY <1>1, <3>5
  <2>2. Least(q, MaxU16) < BPS
    BY <1>1, <1>4, <2>1 DEF Least
  <2>3. Least(q, MaxU16) \in Nat
    BY <1>1, <1>4, LeastNat
  <2>. QED
    BY <1>1, <1>2, <1>6, <2>2, <2>3
<1>. QED
  BY <1>5, <1>6

(* What stands in a recording of updates. *)
LEMMA UpdateShape ==
  ASSUME NEW updates \in Seq(UpdateRows)
  PROVE  /\ Len(updates) \in Nat /\ DOMAIN updates = 1 .. Len(updates)
         /\ IsFiniteSet(1 .. Len(updates))
         /\ Cardinality(1 .. Len(updates)) = Len(updates)
         /\ \A i \in 1 .. Len(updates) : updates[i] \in UpdateRows
         /\ Landed(updates) \subseteq 1 .. Len(updates)
         /\ IsFiniteSet(Landed(updates))
<1>1. Len(updates) \in Nat /\ DOMAIN updates = 1 .. Len(updates)
      /\ \A i \in 1 .. Len(updates) : updates[i] \in UpdateRows
  BY LenProperties, ElementOfSeq
<1>2. IsFiniteSet(1 .. Len(updates)) /\ Cardinality(1 .. Len(updates)) = Len(updates)
  <2>1. 1 \in Int /\ Len(updates) \in Int
    BY <1>1
  <2>2. /\ IsFiniteSet(1 .. Len(updates))
        /\ Cardinality(1 .. Len(updates))
             = IF 1 > Len(updates) THEN 0 ELSE Len(updates) - 1 + 1
    BY <2>1, FS_Interval
  <2>. QED
    BY <1>1, <2>2
<1>3. Landed(updates) \subseteq 1 .. Len(updates)
  BY <1>1 DEF Landed
<1>4. IsFiniteSet(Landed(updates))
  BY <1>2, <1>3, FS_Subset
<1>. QED
  BY <1>1, <1>2, <1>3, <1>4

(* The period inferred is a positive one among those recorded.             *)
LEMMA PeriodBetween ==
  ASSUME NEW updates \in Seq(UpdateRows), DOMAIN Deltas(updates) # {}
  PROVE  LET period == SumOf(Deltas(updates)) \div Cardinality(DOMAIN Deltas(updates))
         IN  /\ period > 0
             /\ Between(period, {d \in Range(AllDeltas(updates)) : d > 0})
<1>. DEFINE all == AllDeltas(updates)
            deltas == Deltas(updates)
            D == {i \in DOMAIN all : all[i] > 0}
            period == SumOf(deltas) \div Cardinality(D)
            recorded == {d \in Range(all) : d > 0}
<1>1. /\ DOMAIN all = 2 .. Len(updates)
      /\ \A i \in DOMAIN all : all[i] \in Int
  <2>1. ASSUME NEW i \in 2 .. Len(updates)
        PROVE  updates[i].publish_slot - updates[i - 1].publish_slot \in Int
    <3>1. i \in 1 .. Len(updates) /\ i - 1 \in 1 .. Len(updates)
      BY UpdateShape
    <3>2. updates[i] \in UpdateRows /\ updates[i - 1] \in UpdateRows
      BY <3>1, UpdateShape
    <3>. QED
      BY <3>2 DEF UpdateRows
  <2>. QED
    BY <2>1 DEF AllDeltas
<1>2. deltas = [i \in D |-> all[i]] /\ DOMAIN deltas = D
  BY DEF Deltas, Restrict
<1>3. IsFiniteSet(D) /\ D # {}
  <2>1. D \subseteq 1 .. Len(updates)
    BY <1>1
  <2>2. D # {}
    BY <1>2
  <2>. HIDE DEF D
  <2>. QED
    BY <2>1, <2>2, UpdateShape, FS_Subset
<1>4. deltas \in [D -> Nat] /\ \A i \in D : deltas[i] > 0 /\ deltas[i] \in recorded
  BY <1>1, <1>2 DEF Range
<1>. HIDE DEF all, deltas, D, recorded
<1>5. /\ period \in Nat
      /\ \E i \in D : deltas[i] <= period
      /\ \E i \in D : period <= deltas[i]
  BY <1>3, <1>4, MeanBetween DEF SumOf, TotalOf
<1>. HIDE DEF period
<1>6. period > 0
  BY <1>4, <1>5
<1>7. Between(period, recorded)
  BY <1>4, <1>5 DEF Between
<1>. QED
  BY <1>2, <1>6, <1>7 DEF period, deltas, recorded, all

(* The latency inferred lies among those of the updates that landed.       *)
LEMMA LatencyBetween ==
  ASSUME NEW updates \in Seq(UpdateRows), Landed(updates) # {}
  PROVE  Between(LandingDistribution(updates).latency_slots.mean,
                 Range(Latencies(updates)))
<1>. DEFINE L == Landed(updates)
            x == Latencies(updates)
            mean == SumOf(x) \div Cardinality(L)
<1>1. ASSUME NEW i \in L
      PROVE  SaturatingSub(updates[i].landing_slot, updates[i].publish_slot) \in Nat
  <2>1. updates[i] \in UpdateRows /\ updates[i].landing_slot # Drop
    BY UpdateShape DEF Landed
  <2>2. updates[i].landing_slot \in Nat /\ updates[i].publish_slot \in Nat
    BY <2>1 DEF UpdateRows
  <2>. QED
    BY <2>2 DEF SaturatingSub
<1>2. x \in [L -> Nat] /\ DOMAIN x = L
  BY <1>1 DEF Latencies
<1>3. IsFiniteSet(L) /\ L # {}
  BY UpdateShape
<1>. HIDE DEF x, L
<1>4. Cardinality(L) \in Nat \ {0}
  BY <1>3, FS_CardinalityType, FS_EmptySet
<1>5. /\ SumOf(x) \in Nat /\ mean \in Nat
      /\ \E i \in L : x[i] <= mean
      /\ \E i \in L : mean <= x[i]
  BY <1>2, <1>3, MeanBetween DEF SumOf, TotalOf
<1>6. TruncDiv(SumOf(x), Cardinality(L)) = mean
  BY <1>5 DEF TruncDiv
<1>7. Summary(x).mean = TruncDiv(SumOf(x), Cardinality(L))
  BY <1>2, <1>4 DEF Summary
<1>8. \A i \in L : x[i] \in Range(x)
  BY <1>2 DEF Range
<1>. HIDE DEF mean
<1>9. Between(mean, Range(x))
  BY <1>5, <1>8 DEF Between
<1>10. LandingDistribution(updates).latency_slots = Summary(x)
  BY DEF LandingDistribution, x
<1>11. LandingDistribution(updates).latency_slots.mean = mean
  BY <1>6, <1>7, <1>10
<1>. QED
  BY <1>9, <1>11 DEF x

(* The chance inferred is whole exactly if every update landed.            *)
LEMMA ChanceIsWhole ==
  ASSUME NEW updates \in Seq(UpdateRows), Len(updates) # 0
  PROVE  LandingDistribution(updates).success_probability_bps = BPS
           <=> Landed(updates) = DOMAIN updates
<1>. DEFINE L == Landed(updates)
            n == Len(updates)
<1>1. /\ IsFiniteSet(1 .. n) /\ Cardinality(1 .. n) = n /\ L \subseteq 1 .. n
      /\ n \in Nat \ {0} /\ DOMAIN updates = 1 .. n
  BY UpdateShape
<1>2. LandingDistribution(updates).success_probability_bps
        = RateBps(Cardinality(L), n)
  BY DEF LandingDistribution
<1>. HIDE DEF L, n
<1>3. /\ Cardinality(L) \in Nat /\ Cardinality(L) <= n
      /\ Cardinality(L) = n => L = 1 .. n
  BY <1>1, FS_Subset, FS_CardinalityType
<1>4. RateBps(Cardinality(L), n) = BPS <=> Cardinality(L) = n
  BY <1>1, <1>3, WholeRate
<1>. QED
  BY <1>1, <1>2, <1>3, <1>4 DEF L, n

(* A recording has a row for every update; once a policy is inferred it is *)
(* that of the updates.                                                    *)
ReplayInv ==
  /\ recording.slots \in Seq(SlotRows)
  /\ recording.quote_updates \in Seq(UpdateRows)
  /\ recording.quote_updates # <<>> => recording.slots # <<>>
  /\ replayStage \in {"scenario", "report"} /\ replayResult = NoError =>
       /\ PolicyFromReplay(recording.quote_updates).error = NoError
       /\ inferred = PolicyFromReplay(recording.quote_updates).value

LEMMA RowKeepsReplay ==
  ASSUME ReplayInv, ReadRow
  PROVE  ReplayInv'
<1>1. PICK row \in Rows :
        IF RowError(row) # NoError THEN ReplayFails(RowError(row))
        ELSE /\ recording' =
                  [slots |-> Append(recording.slots,
                                    [slot |-> row.slot, fair_price |-> row.fair_price,
                                     flow |-> FlowOf(row)]),
                   quote_updates |-> recording.quote_updates \o UpdatesOf(row)]
             /\ UNCHANGED <<columns, inferred, replayStage, replayResult>>
  BY DEF ReadRow
<1>2. CASE RowError(row) # NoError
  <2>1. recording' = EmptyRecording /\ replayResult' # NoError
    BY <1>1, <1>2 DEF ReplayFails
  <2>. QED
    BY <2>1 DEF ReplayInv, EmptyRecording
<1>3. CASE RowError(row) = NoError
  <2>. DEFINE slotRow == [slot |-> row.slot, fair_price |-> row.fair_price,
                          flow |-> FlowOf(row)]
  <2>1. row \in [slot : Cells, fair_price : Cells, side : Sides, amount_in : Cells,
                 quote_landing_slot : Cells \cup {Drop}, quoted : BOOLEAN]
    BY ReplayCsvAssumption
  <2>2. FlowOf(row) \in Flows
    BY <2>1 DEF FlowOf, NoFlowOrder, Flows, Cells
  <2>3. slotRow \in SlotRows
    BY <2>1, <2>2 DEF SlotRows
  <2>4. UpdatesOf(row) \in Seq(UpdateRows)
    <3>1. CASE Cell(row, "quote_landing_slot") = Empty
      BY <3>1 DEF UpdatesOf
    <3>2. CASE Cell(row, "quote_landing_slot") # Empty
      <4>1. row.quote_landing_slot \notin {Empty, Malformed}
        BY <1>3, <3>2 DEF RowError, Cell, NoError
      <4>2. row.slot \notin {Empty, Malformed}
        BY <1>3 DEF RowError, NoError
      <4>3. [publish_slot |-> row.slot, landing_slot |-> row.quote_landing_slot]
              \in UpdateRows
        BY <2>1, <4>1, <4>2 DEF UpdateRows, Cells
      <4>4. UpdatesOf(row)
              = <<[publish_slot |-> row.slot, landing_slot |-> row.quote_landing_slot]>>
        BY <3>2 DEF UpdatesOf
      <4>. HIDE DEF UpdateRows
      <4>. QED
        BY <4>3, <4>4
    <3>. QED
      BY <3>1, <3>2
  <2>5. /\ recording'.slots = Append(recording.slots, slotRow)
        /\ recording'.quote_updates = recording.quote_updates \o UpdatesOf(row)
        /\ replayStage' = "rows"
    BY <1>1, <1>3 DEF ReadRow
  <2>. HIDE DEF slotRow
  <2>6. recording'.slots \in Seq(SlotRows) /\ recording'.slots # <<>>
    BY <2>3, <2>5, AppendProperties DEF ReplayInv
  <2>7. recording'.quote_updates \in Seq(UpdateRows)
    BY <2>4, <2>5, ConcatProperties DEF ReplayInv
  <2>. QED
    BY <2>5, <2>6, <2>7 DEF ReplayInv
<1>. QED
  BY <1>2, <1>3

LEMMA ReplayInductive == Spec => []ReplayInv
<1>1. Init => ReplayInv
  BY DEF Init, ReplayInit, EmptyRecording, ReplayInv
<1>2. ReplayInv /\ [Next]_vars => ReplayInv'
  <2>. SUFFICES ASSUME ReplayInv, [Next]_vars PROVE ReplayInv'
    OBVIOUS
  <2>1. CASE UNCHANGED replayVars
    BY <2>1 DEF ReplayInv, replayVars
  <2>2. ASSUME NEW error, error # NoError, ReplayFails(error) PROVE ReplayInv'
    <3>1. recording' = EmptyRecording /\ replayResult' # NoError
      BY <2>2 DEF ReplayFails
    <3>. QED
      BY <3>1 DEF ReplayInv, EmptyRecording
  <2>3. CASE NoHeader
    BY <2>2, <2>3 DEF NoHeader, NoError
  <2>4. CASE ReadHeader
    <3>1. CASE ReplayFails("MissingColumn")
      BY <2>2, <3>1 DEF NoError
    <3>2. CASE UNCHANGED recording /\ replayStage' = "rows"
      BY <3>2 DEF ReplayInv
    <3>. QED
      BY <2>4, <3>1, <3>2 DEF ReadHeader
  <2>5. CASE ReadRow
    BY <2>5, RowKeepsReplay
  <2>6. CASE EndOfFile
    BY <2>6 DEF EndOfFile, ReplayInv
  <2>7. CASE SummarizeFlow
    <3>1. CASE UNCHANGED recording /\ replayStage' = "policy"
      BY <3>1 DEF ReplayInv
    <3>. QED
      BY <2>2, <2>7, <3>1 DEF SummarizeFlow
  <2>8. CASE InferPolicy
    <3>. DEFINE p == PolicyFromReplay(recording.quote_updates)
    <3>1. CASE p.error # NoError
      BY <2>2, <2>8, <3>1 DEF InferPolicy
    <3>2. CASE p.error = NoError
      <4>1. inferred' = p.value /\ recording' = recording
        BY <2>8, <3>2 DEF InferPolicy
      <4>. QED
        BY <3>2, <4>1 DEF ReplayInv
    <3>. QED
      BY <3>1, <3>2
  <2>9. CASE SimulateRows
    <3>1. CASE /\ replayStage = "scenario" /\ replayResult = NoError
               /\ UNCHANGED <<recording, inferred>>
      BY <3>1 DEF ReplayInv
    <3>. QED
      BY <2>2, <2>9, <3>1 DEF SimulateRows, NoError
  <2>10. CASE RunReplay
    BY <2>3, <2>4, <2>5, <2>6, <2>7, <2>8, <2>9, <2>10 DEF RunReplay, ReplayNext
  <2>11. CASE RunSmoke \/ RunScenarioPack \/ RunCalibration \/ Panic \/ Finish
              \/ CarryOver
    BY <2>1, <2>11 DEF RunSmoke, RunScenarioPack, RunCalibration, Panic, Finish,
                       CarryOver
  <2>12. CASE UNCHANGED vars
    BY <2>1, <2>12 DEF vars
  <2>. QED
    BY <2>10, <2>11, <2>12 DEF Next, Run
<1>. QED
  BY <1>1, <1>2, PTL DEF Spec

(* Whatever market was recorded, a policy inferred from it is one the      *)
(* simulation runs and lies within what was recorded.                      *)
THEOREM InferredPolicyRuns == Spec => []InferredPolicyIsRunnable
<1>1. ASSUME ReplayInv, replayStage \in {"scenario", "report"}, replayResult = NoError
      PROVE  InferredPolicyIsRunnable
  <2>. DEFINE updates == recording.quote_updates
              deltas == Deltas(updates)
              landing == LandingDistribution(updates)
              period == SumOf(deltas) \div Cardinality(DOMAIN deltas)
  <2>1. /\ PolicyFromReplay(updates).error = NoError
        /\ inferred = PolicyFromReplay(updates).value
        /\ updates \in Seq(UpdateRows)
        /\ updates # <<>> => recording.slots # <<>>
    BY <1>1 DEF ReplayInv
  <2>2. PolicyFromReplay(updates) =
          IF ~UpdatesInOrder(updates) \/ DOMAIN deltas = {} THEN Err("InvalidConfig")
          ELSE Ok([maker_update_period_slots |-> period,
                   landing_latency_slots |-> landing.latency_slots.mean,
                   update_success_probability_bps |-> landing.success_probability_bps])
    BY DEF PolicyFromReplay
  <2>3. DOMAIN deltas # {} => Len(updates) # 0
    <3>1. DOMAIN deltas \subseteq 2 .. Len(updates)
      BY DEF Deltas, AllDeltas, Restrict
    <3>. HIDE DEF deltas, updates
    <3>. QED
      BY <3>1
  <2>. HIDE DEF deltas, landing, period, updates
  <2>4. UpdatesInOrder(updates) /\ DOMAIN deltas # {}
    <3>. SUFFICES ASSUME ~UpdatesInOrder(updates) \/ DOMAIN deltas = {}
                  PROVE  FALSE
      OBVIOUS
    <3>1. PolicyFromReplay(updates) = Err("InvalidConfig")
      BY <2>2
    <3>. QED
      BY <2>1, <3>1 DEF Err, NoError
  <2>5. /\ inferred.maker_update_period_slots = period
        /\ inferred.landing_latency_slots = landing.latency_slots.mean
        /\ inferred.update_success_probability_bps = landing.success_probability_bps
    BY <2>1, <2>2, <2>4 DEF Ok
  <2>6. period > 0 /\ Between(period, {d \in Range(AllDeltas(updates)) : d > 0})
    BY <2>1, <2>4, PeriodBetween DEF period, deltas
  <2>7. Landed(updates) # {} =>
          Between(landing.latency_slots.mean, Range(Latencies(updates)))
    BY <2>1, LatencyBetween DEF landing
  <2>8. landing.success_probability_bps = BPS <=> Landed(updates) = DOMAIN updates
    BY <2>1, <2>3, <2>4, ChanceIsWhole DEF landing
  <2>9. recording.slots # <<>>
    BY <2>1, <2>3, <2>4, EmptySeq
  <2>. QED
    BY <2>4, <2>5, <2>6, <2>7, <2>8, <2>9 DEF InferredPolicyIsRunnable, updates
<1>2. ReplayInv => InferredPolicyIsRunnable
  BY <1>1 DEF InferredPolicyIsRunnable
<1>. QED
  BY <1>2, ReplayInductive, PTL

=============================================================================
