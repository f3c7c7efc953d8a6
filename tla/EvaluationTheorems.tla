------------------------- MODULE EvaluationTheorems -------------------------
(***************************************************************************)
(* Proofs about Evaluation, for every set of tasks and handles, and every  *)
(* plan: what the graph, the metrics and the verdict say is what the       *)
(* application said, and a definite verdict holds whatever the tasks that  *)
(* are silent would have reported.                                         *)
(***************************************************************************)
EXTENDS Evaluation, FiniteSetTheorems, SequenceTheorems, TLAPS

-----------------------------------------------------------------------------
(* Verdicts.  They turn on how many tasks of an arm have each status.      *)

\* s is what the records r become when some of the tasks that did not report
\* turn out to have succeeded or failed.
Narrows(r, s) ==
    /\ DOMAIN s = DOMAIN r
    /\ \A t \in DOMAIN r :
          /\ s[t].arm = r[t].arm
          /\ s[t].status # r[t].status =>
                /\ r[t].status = "unreported"
                /\ s[t].status \in {"success", "failure"}

Of(r, arm, statuses) ==
    {t \in DOMAIN r : r[t].arm = arm /\ r[t].status \in statuses}

LEMMA CountType ==
    ASSUME NEW r, IsFiniteSet(DOMAIN r), NEW arm, NEW statuses
    PROVE  /\ IsFiniteSet(Of(r, arm, statuses))
           /\ Count(r, arm, statuses) = Cardinality(Of(r, arm, statuses))
           /\ Count(r, arm, statuses) \in Nat
<1>1. Of(r, arm, statuses) \in SUBSET DOMAIN r
  BY DEF Of
<1>2. Count(r, arm, statuses) = Cardinality(Of(r, arm, statuses))
  BY DEF Count, Of
<1> QED
  BY <1>1, <1>2, FS_Subset, FS_CardinalityType

\* Statuses that exclude each other add up.
LEMMA CountUnion ==
    ASSUME NEW r, IsFiniteSet(DOMAIN r), NEW arm, NEW S, NEW T,
           S \cap T = {}
    PROVE  Count(r, arm, S \cup T) = Count(r, arm, S) + Count(r, arm, T)
<1>1. Of(r, arm, S \cup T) = Of(r, arm, S) \cup Of(r, arm, T)
  BY DEF Of
<1>2. Of(r, arm, S) \cap Of(r, arm, T) = {}
  BY DEF Of
<1>3. /\ IsFiniteSet(Of(r, arm, S))
      /\ IsFiniteSet(Of(r, arm, T))
      /\ Count(r, arm, S \cup T) = Cardinality(Of(r, arm, S \cup T))
      /\ Count(r, arm, S) = Cardinality(Of(r, arm, S))
      /\ Count(r, arm, T) = Cardinality(Of(r, arm, T))
      /\ Count(r, arm, S) \in Nat /\ Count(r, arm, T) \in Nat
  BY CountType
<1>4. Cardinality(Of(r, arm, S) \cap Of(r, arm, T)) = 0
  BY <1>2, FS_EmptySet
<1>5. Cardinality(Of(r, arm, S) \cup Of(r, arm, T)) =
        Cardinality(Of(r, arm, S)) + Cardinality(Of(r, arm, T))
          - Cardinality(Of(r, arm, S) \cap Of(r, arm, T))
  BY <1>3, FS_Union
<1>6. Count(r, arm, S \cup T) =
        Cardinality(Of(r, arm, S) \cup Of(r, arm, T))
  BY <1>1, <1>3
<1> HIDE DEF Of
<1> QED
  BY <1>3, <1>4, <1>5, <1>6

LEMMA CountSubset ==
    ASSUME NEW r, IsFiniteSet(DOMAIN r), NEW s, IsFiniteSet(DOMAIN s),
           NEW arm, NEW S, NEW T, Of(r, arm, S) \subseteq Of(s, arm, T)
    PROVE  Count(r, arm, S) <= Count(s, arm, T)
<1>1. Of(r, arm, S) \in SUBSET Of(s, arm, T) /\ IsFiniteSet(Of(s, arm, T))
  BY CountType
<1>2. Cardinality(Of(r, arm, S)) <= Cardinality(Of(s, arm, T))
  BY <1>1, FS_Subset
<1> QED
  BY <1>2, CountType

\* The counts of an arm, their types, and the ways they add up.
LEMMA ArmCounts ==
    ASSUME NEW r, IsFiniteSet(DOMAIN r), NEW arm
    PROVE  /\ Failures(r, arm) \in Nat /\ Unreported(r, arm) \in Nat
           /\ Reported(r, arm) \in Nat /\ Closed(r, arm) \in Nat
           /\ Total(r, arm) \in Nat
           /\ Failures(r, arm) + Unreported(r, arm) =
                 Count(r, arm, {"failure", "unreported"})
           /\ Closed(r, arm) =
                 Count(r, arm, {"success", "failure", "unreported"})
           /\ Total(r, arm) = Closed(r, arm) + Count(r, arm, {"open"})
           /\ Failures(r, arm) <= Reported(r, arm)
           /\ Closed(r, arm) = Reported(r, arm) + Unreported(r, arm)
<1>1. /\ Count(r, arm, {"failure"}) \in Nat
      /\ Count(r, arm, {"unreported"}) \in Nat
      /\ Count(r, arm, {"success", "failure"}) \in Nat
      /\ Count(r, arm, {"open"}) \in Nat
  BY CountType
<1>2. Count(r, arm, {"failure", "unreported"}) =
        Count(r, arm, {"failure"}) + Count(r, arm, {"unreported"})
  <2>1. {"failure", "unreported"} = {"failure"} \cup {"unreported"}
    OBVIOUS
  <2>2. {"failure"} \cap {"unreported"} = {}
    OBVIOUS
  <2> QED
    BY <2>1, <2>2, CountUnion
<1>3. Count(r, arm, {"success", "failure", "unreported"}) =
        Count(r, arm, {"success", "failure"}) + Count(r, arm, {"unreported"})
  <2>1. {"success", "failure", "unreported"} =
           {"success", "failure"} \cup {"unreported"}
    OBVIOUS
  <2>2. {"success", "failure"} \cap {"unreported"} = {}
    OBVIOUS
  <2> QED
    BY <2>1, <2>2, CountUnion
<1>4. Count(r, arm, {"failure"}) <= Count(r, arm, {"success", "failure"})
  <2>1. Of(r, arm, {"failure"}) \subseteq Of(r, arm, {"success", "failure"})
    BY DEF Of
  <2> QED
    BY <2>1, CountSubset
<1> QED
  BY <1>1, <1>2, <1>3, <1>4
     DEF Failures, Unreported, Reported, Closed, Total

\* What late reports do to the counts of an arm.
LEMMA CountsNarrow ==
    ASSUME NEW r, IsFiniteSet(DOMAIN r), NEW s, Narrows(r, s), NEW arm
    PROVE  /\ Closed(s, arm) = Closed(r, arm)
           /\ Total(s, arm) = Total(r, arm)
           /\ Reported(r, arm) <= Reported(s, arm)
           /\ Failures(r, arm) <= Failures(s, arm)
           /\ Failures(s, arm) + Unreported(s, arm)
                 <= Failures(r, arm) + Unreported(r, arm)
<1>1. IsFiniteSet(DOMAIN s)
  BY DEF Narrows
<1>2. /\ Of(r, arm, {"open"}) = Of(s, arm, {"open"})
      /\ Of(r, arm, {"success", "failure", "unreported"}) =
            Of(s, arm, {"success", "failure", "unreported"})
  BY DEF Of, Narrows
<1>3. /\ Of(r, arm, {"success", "failure"}) \subseteq
            Of(s, arm, {"success", "failure"})
      /\ Of(r, arm, {"failure"}) \subseteq Of(s, arm, {"failure"})
      /\ Of(s, arm, {"failure", "unreported"}) \subseteq
            Of(r, arm, {"failure", "unreported"})
  BY DEF Of, Narrows
<1>4. /\ Count(r, arm, {"open"}) = Count(s, arm, {"open"})
      /\ Count(r, arm, {"success", "failure", "unreported"}) =
            Count(s, arm, {"success", "failure", "unreported"})
  BY <1>1, <1>2, CountType
<1>5. /\ Count(r, arm, {"success", "failure"})
            <= Count(s, arm, {"success", "failure"})
      /\ Count(r, arm, {"failure"}) <= Count(s, arm, {"failure"})
      /\ Count(s, arm, {"failure", "unreported"})
            <= Count(r, arm, {"failure", "unreported"})
  BY <1>1, <1>3, CountSubset
<1>6. /\ Closed(s, arm) = Closed(r, arm)
      /\ Total(s, arm) = Total(r, arm)
      /\ Failures(s, arm) + Unreported(s, arm)
            <= Failures(r, arm) + Unreported(r, arm)
  BY <1>1, <1>4, <1>5, ArmCounts
<1> QED
  BY <1>5, <1>6 DEF Failures, Reported

LEMMA ProductMonotonic ==
    ASSUME NEW a \in Nat, NEW b \in Nat, NEW n \in Nat, a <= b
    PROVE  a * n \in Nat /\ b * n \in Nat /\ a * n <= b * n
<1>1. PICK d \in Nat : b = a + d
  <2>1. b - a \in Nat /\ b = a + (b - a)
    OBVIOUS
  <2> QED
    BY <2>1
<1>2. d * n \in Nat /\ a * n \in Nat
  OBVIOUS
<1>3. (a + d) * n = a * n + d * n
  OBVIOUS
<1> QED
  BY <1>1, <1>2, <1>3

LEMMA Cancel ==
    ASSUME NEW a \in Int, NEW b \in Int, NEW n \in Nat \ {0}
    PROVE  a * n > b * n <=> a > b
<1>1. ASSUME NEW x \in Int, NEW y \in Int, x > y PROVE x * n > y * n
  <2>1. PICK d \in Nat \ {0} : x = y + d
    <3>1. x - y \in Nat \ {0} /\ x = y + (x - y)
      BY <1>1
    <3> QED
      BY <3>1
  <2>2. (y + d) * n = y * n + d * n /\ d * n >= n
    <3>1. PICK e \in Nat : d = e + 1
      <4>1. d - 1 \in Nat /\ d = (d - 1) + 1
        OBVIOUS
      <4> QED
        BY <4>1
    <3>2. (e + 1) * n = e * n + n /\ e * n \in Nat
      OBVIOUS
    <3>3. (y + d) * n = y * n + d * n
      OBVIOUS
    <3> QED
      BY <3>1, <3>2, <3>3
  <2>3. y * n \in Int /\ d * n \in Int
    OBVIOUS
  <2> QED
    BY <2>1, <2>2, <2>3
<1>2. ASSUME a * n > b * n, ~(a > b) PROVE FALSE
  <2>1. a = b \/ b > a
    BY <1>2
  <2>2. b > a => b * n > a * n
    BY <1>1
  <2>3. a * n \in Int /\ b * n \in Int
    OBVIOUS
  <2> QED
    BY <1>2, <2>1, <2>2, <2>3
<1> QED
  BY <1>1, <1>2

\* The least of some numbers.
LEMMA Least ==
    ASSUME NEW S \in SUBSET Nat, S # {}
    PROVE  \E m \in S : \A j \in S : m <= j
<1>1. PICK m \in S : \A j \in S : ~(<<j, m>> \in OpToRel(<, Nat))
  BY NatLessThanWellFounded, WFMin
<1>2. \A j \in S : ~(j < m)
  BY <1>1 DEF OpToRel
<1> QED
  BY <1>2

-----------------------------------------------------------------------------
(* The Wilson interval *)

\* Its upper end is the least part of Scale that is above it.
LEMMA WilsonLeast ==
    ASSUME NEW k, NEW n, <<k, n>> \in Samples
    PROVE  /\ k \in Nat /\ n \in Nat /\ k <= n
           /\ WilsonHigh[<<k, n>>] \in 0 .. Scale
           /\ Above(k, n, WilsonHigh[<<k, n>>])
           /\ \A m \in 0 .. Scale :
                 Above(k, n, m) => WilsonHigh[<<k, n>>] <= m
<1> DEFINE S == {m \in 0 .. Scale : Above(k, n, m)}
<1>1. /\ k \in Nat /\ n \in Nat /\ k <= n
      /\ <<k, n>>[1] = k /\ <<k, n>>[2] = n
  BY TripwireAssumption DEF Samples
<1>2. WilsonHigh[<<k, n>>] = CHOOSE m \in S : \A j \in S : m <= j
  BY <1>1 DEF WilsonHigh
<1>3. Scale \in S
  BY TripwireAssumption DEF Above
<1>4. S \in SUBSET Nat
  BY TripwireAssumption
<1> HIDE DEF S
<1>5. \E m \in S : \A j \in S : m <= j
  BY <1>3, <1>4, Least
<1>6. WilsonHigh[<<k, n>>] \in S /\ \A j \in S : WilsonHigh[<<k, n>>] <= j
  BY <1>2, <1>5
<1> QED
  BY <1>1, <1>6 DEF S

\* The rate is not above the upper end.
LEMMA WilsonCovers ==
    ASSUME NEW k, NEW n, <<k, n>> \in Samples
    PROVE  k * Scale <= n * WilsonHigh[<<k, n>>]
<1> DEFINE h == WilsonHigh[<<k, n>>]
<1>1. k \in Nat /\ n \in Nat /\ k <= n /\ h \in 0 .. Scale /\ Above(k, n, h)
  BY WilsonLeast
<1>2. Scale \in Nat
  BY TripwireAssumption
<1> SUFFICES k * Scale <= n * h
  OBVIOUS
<1> HIDE DEF h
<1>3. CASE h = Scale
  BY <1>1, <1>2, <1>3, ProductMonotonic
<1>4. CASE h # Scale
  <2>1. n * h - k * Scale >= 0
    BY <1>1, <1>4 DEF Above
  <2>2. n * h \in Int /\ k * Scale \in Int
    BY <1>1, <1>2
  <2> QED
    BY <2>1, <2>2
<1> QED
  BY <1>3, <1>4 DEF h

\* A greater gap has a greater square.
LEMMA SquareMonotonic ==
    ASSUME NEW a \in Nat, NEW b \in Nat, a <= b
    PROVE  a * a <= b * b
<1>1. a * a \in Nat /\ b * a \in Nat /\ a * a <= b * a
  BY ProductMonotonic
<1>2. a * b \in Nat /\ b * b \in Nat /\ a * b <= b * b
  BY ProductMonotonic
<1>3. a * b = b * a
  OBVIOUS
<1> QED
  BY <1>1, <1>2, <1>3

\* With fewer failures of as many the upper end is no higher.
LEMMA WilsonMonotonic ==
    ASSUME NEW k, NEW k2, NEW n, <<k, n>> \in Samples, <<k2, n>> \in Samples,
           k <= k2
    PROVE  WilsonHigh[<<k, n>>] <= WilsonHigh[<<k2, n>>]
<1> DEFINE h == WilsonHigh[<<k2, n>>]
<1>1. /\ k \in Nat /\ k2 \in Nat /\ n \in Nat
      /\ h \in 0 .. Scale /\ Above(k2, n, h)
  BY WilsonLeast
<1>2. Scale \in Nat
  BY TripwireAssumption
<1>3. SUFFICES Above(k, n, h)
  BY <1>1, WilsonLeast
<1> HIDE DEF h
<1>4. CASE h = Scale
  BY <1>4 DEF Above
<1>5. CASE h # Scale
  <2> DEFINE gap(x) == n * h - x * Scale
             spread == n * h * (Scale - h)
  <2>1. gap(k2) >= 0 /\ 13 * (gap(k2) * gap(k2)) > 50 * spread
    BY <1>1, <1>5 DEF Above
  <2>2. k * Scale \in Nat /\ k2 * Scale \in Nat /\ k * Scale <= k2 * Scale
    BY <1>1, <1>2, ProductMonotonic
  <2>3. n * h \in Int
    BY <1>1
  <2>4. gap(k2) \in Nat /\ gap(k) \in Nat /\ gap(k2) <= gap(k)
    BY <2>1, <2>2, <2>3
  <2>5. spread \in Int
    BY <1>1, <1>2
  <2>6. SUFFICES gap(k) >= 0 /\ 13 * (gap(k) * gap(k)) > 50 * spread
    BY DEF Above
  <2> DEFINE g == gap(k)
             g2 == gap(k2)
  <2>7. g \in Nat /\ g2 \in Nat /\ g2 <= g /\ 13 * (g2 * g2) > 50 * spread
    BY <2>1, <2>4
  <2>8. SUFFICES g >= 0 /\ 13 * (g * g) > 50 * spread
    OBVIOUS
  <2> HIDE DEF g, g2, spread
  <2>9. g2 * g2 <= g * g /\ g * g \in Nat /\ g2 * g2 \in Nat
    BY <2>7, SquareMonotonic
  <2> QED
    BY <2>5, <2>7, <2>9
<1> QED
  BY <1>4, <1>5

-----------------------------------------------------------------------------
(* The bounds of an arm *)

\* The sample of an arm is in the table.
Small(r) ==
    IsFiniteSet(DOMAIN r) /\ Cardinality(DOMAIN r) <= MaxSample

LEMMA ClosedSmall ==
    ASSUME NEW r, Small(r), NEW arm
    PROVE  Closed(r, arm) <= MaxSample
<1> DEFINE S == {"success", "failure", "unreported"}
<1>1. Of(r, arm, S) \in SUBSET DOMAIN r /\ IsFiniteSet(DOMAIN r)
  BY DEF Of, Small
<1>2. Cardinality(Of(r, arm, S)) <= Cardinality(DOMAIN r)
      /\ IsFiniteSet(Of(r, arm, S))
  BY <1>1, FS_Subset
<1>3. Closed(r, arm) = Cardinality(Of(r, arm, S))
  BY <1>1, ArmCounts, CountType
<1>4. Cardinality(Of(r, arm, S)) \in Nat /\ Cardinality(DOMAIN r) \in Nat
  BY <1>1, <1>2, FS_CardinalityType
<1> QED
  BY <1>2, <1>3, <1>4, TripwireAssumption DEF Small

\* The bounds of a rate hold it between them.
LEMMA BoundsHold ==
    ASSUME NEW r, Small(r), Powered(r), NEW arm \in Arms
    PROVE  /\ Closed(r, arm) \in Nat \ {0} /\ Failures(r, arm) \in Nat
           /\ Low(r, arm) \in 0 .. Scale /\ High(r, arm) \in 0 .. Scale
           /\ Closed(r, arm) * Low(r, arm) <= Failures(r, arm) * Scale
           /\ Failures(r, arm) * Scale <= Closed(r, arm) * High(r, arm)
           /\ Low(r, arm) <= High(r, arm)
<1> DEFINE n == Closed(r, arm)
           k == Failures(r, arm)
           u == Unreported(r, arm)
<1>1. /\ k \in Nat /\ u \in Nat /\ n \in Nat /\ Reported(r, arm) \in Nat
      /\ k <= Reported(r, arm) /\ n = Reported(r, arm) + u
  BY ArmCounts DEF Small
<1>2. Reported(r, arm) >= MinTasks /\ MinTasks \in Nat \ {0}
  BY TripwireAssumption DEF Powered
<1>3. n <= MaxSample /\ MaxSample \in Nat /\ Scale \in Nat \ {0}
  BY ClosedSmall, TripwireAssumption
<1>4. /\ High(r, arm) = WilsonHigh[<<k + u, n>>]
      /\ Low(r, arm) = Scale - WilsonHigh[<<n - k, n>>]
  BY DEF High, Low, WilsonLow
<1> HIDE DEF n, k, u
<1>5. /\ <<k + u, n>> \in Samples /\ <<n - k, n>> \in Samples
      /\ n \in Nat \ {0}
  BY <1>1, <1>2, <1>3 DEF Samples
<1> DEFINE h == WilsonHigh[<<k + u, n>>]
           g == WilsonHigh[<<n - k, n>>]
<1>6. /\ h \in 0 .. Scale /\ g \in 0 .. Scale
      /\ (k + u) * Scale <= n * h /\ (n - k) * Scale <= n * g
  BY <1>5, WilsonLeast, WilsonCovers
<1> HIDE DEF h, g
<1>7. k * Scale <= n * h
  <2>1. /\ k * Scale \in Nat /\ (k + u) * Scale \in Nat
        /\ k * Scale <= (k + u) * Scale
    BY <1>1, <1>3, ProductMonotonic
  <2>2. n * h \in Nat
    BY <1>1, <1>6
  <2> QED
    BY <1>6, <2>1, <2>2
<1>8. n * (Scale - g) <= k * Scale
  <2>1. n * (Scale - g) = n * Scale - n * g
    BY <1>1, <1>3, <1>6
  <2>2. (n - k) * Scale = n * Scale - k * Scale
    BY <1>1, <1>3
  <2>3. n * Scale \in Int /\ n * g \in Int /\ k * Scale \in Int
    BY <1>1, <1>3, <1>6
  <2> QED
    BY <1>6, <2>1, <2>2, <2>3
<1>9. Scale - g <= h
  <2> DEFINE l == Scale - g
  <2>1. l \in Int /\ h \in Int
    BY <1>3, <1>6
  <2>2. n * l <= k * Scale
    BY <1>8
  <2> HIDE DEF l
  <2>3. n * l \in Int /\ n * h \in Int /\ k * Scale \in Int
    BY <1>1, <1>3, <2>1
  <2>4. n * l <= n * h
    BY <1>7, <2>2, <2>3
  <2>5. n * l = l * n /\ n * h = h * n
    BY <1>1, <2>1
  <2>6. ~(l * n > h * n)
    BY <2>3, <2>4, <2>5
  <2>7. ~(l > h)
    BY <1>5, <2>1, <2>6, Cancel
  <2> QED
    BY <2>1, <2>7 DEF l
<1>10. Scale - g \in 0 .. Scale
  BY <1>3, <1>6
<1> QED
  BY <1>1, <1>4, <1>5, <1>6, <1>7, <1>8, <1>9, <1>10 DEF n, k, u, h, g

\* A greater rate against a smaller one exceeds the margin all the more.
LEMMA ExceedsMonotonic ==
    ASSUME NEW a \in Int, NEW b \in Int, NEW a2 \in Int, NEW b2 \in Int,
           a <= a2, b2 <= b, Exceeds(a, b)
    PROVE  Exceeds(a2, b2)
<1>1. Margin * Scale \in Int
  BY TripwireAssumption
<1> DEFINE M == Margin * Scale
<1>2. M \in Int /\ 100 * (a - b) > M
  BY <1>1 DEF Exceeds
<1>3. SUFFICES 100 * (a2 - b2) > M
  BY DEF Exceeds
<1> HIDE DEF M
<1> QED
  BY <1>2

\* The verdict of powered records, by the bounds of the two arms.
LEMMA PoweredVerdict ==
    ASSUME NEW r, NEW swaps,
           Verdict(r, swaps) \in Definitive \cup {"INCONCLUSIVE"}
    PROVE  /\ Powered(r)
           /\ ~NoOpSwap(r, swaps) /\ Total(r, "candidate") # 0
           /\ ~\A arm \in Arms : Total(r, arm) = 0
           /\ Verdict(r, swaps) =
                 IF Exceeds(Low(r, "candidate"), High(r, "baseline"))
                 THEN "GROSS_REGRESSION"
                 ELSE IF ~Exceeds(High(r, "candidate"), Low(r, "baseline"))
                 THEN "NO_GROSS_REGRESSION" ELSE "INCONCLUSIVE"
BY DEF Verdict, Definitive

LEMMA PoweredNarrow ==
    ASSUME NEW r, Small(r), NEW s, Narrows(r, s), Powered(r)
    PROVE  Small(s) /\ Powered(s)
<1>1. Small(s) /\ IsFiniteSet(DOMAIN r) /\ IsFiniteSet(DOMAIN s)
  BY DEF Narrows, Small
<1>2. ASSUME NEW arm \in Arms PROVE Reported(s, arm) >= MinTasks
  <2>1. /\ Reported(r, arm) >= MinTasks
        /\ Reported(r, arm) <= Reported(s, arm)
    BY <1>1, CountsNarrow DEF Powered
  <2>2. Reported(r, arm) \in Nat /\ Reported(s, arm) \in Nat
    BY <1>1, ArmCounts
  <2> QED
    BY <2>1, <2>2, TripwireAssumption
<1> QED
  BY <1>1, <1>2 DEF Powered

\* Late reports can only bring the bounds of an arm together.
LEMMA BoundsNarrow ==
    ASSUME NEW r, Small(r), NEW s, Narrows(r, s), Powered(r),
           NEW arm \in Arms
    PROVE  Low(r, arm) <= Low(s, arm) /\ High(s, arm) <= High(r, arm)
<1>1. Small(s) /\ Powered(s) /\ IsFiniteSet(DOMAIN r) /\ IsFiniteSet(DOMAIN s)
  BY PoweredNarrow DEF Small
<1> DEFINE n == Closed(r, arm)
           k == Failures(r, arm)
           w == Failures(r, arm) + Unreported(r, arm)
           k2 == Failures(s, arm)
           w2 == Failures(s, arm) + Unreported(s, arm)
<1>2. /\ k \in Nat /\ w \in Nat /\ n \in Nat /\ k2 \in Nat /\ w2 \in Nat
      /\ k2 <= n /\ w <= n /\ n <= MaxSample /\ MaxSample \in Nat
      /\ k <= k2 /\ w2 <= w
  <2>1. /\ Failures(r, arm) \in Nat /\ Unreported(r, arm) \in Nat
        /\ Reported(r, arm) \in Nat /\ n \in Nat
        /\ Failures(r, arm) <= Reported(r, arm)
        /\ n = Reported(r, arm) + Unreported(r, arm)
    BY <1>1, ArmCounts
  <2>2. /\ Failures(s, arm) \in Nat /\ Unreported(s, arm) \in Nat
        /\ Reported(s, arm) \in Nat /\ Failures(s, arm) <= Reported(s, arm)
        /\ Closed(s, arm) = Reported(s, arm) + Unreported(s, arm)
    BY <1>1, ArmCounts
  <2>3. Closed(s, arm) = n /\ k <= k2 /\ w2 <= w
    BY <1>1, CountsNarrow
  <2>4. n <= MaxSample /\ MaxSample \in Nat
    BY ClosedSmall, TripwireAssumption
  <2> QED
    BY <2>1, <2>2, <2>3, <2>4
<1>3. Closed(s, arm) = n
  BY <1>1, CountsNarrow
<1>4. /\ High(r, arm) = WilsonHigh[<<w, n>>]
      /\ High(s, arm) = WilsonHigh[<<w2, n>>]
      /\ Low(r, arm) = Scale - WilsonHigh[<<n - k, n>>]
      /\ Low(s, arm) = Scale - WilsonHigh[<<n - k2, n>>]
  BY <1>3 DEF High, Low, WilsonLow
<1> HIDE DEF n, k, w, k2, w2
<1>5. /\ <<w, n>> \in Samples /\ <<w2, n>> \in Samples
      /\ <<n - k, n>> \in Samples /\ <<n - k2, n>> \in Samples
      /\ n - k2 <= n - k
  BY <1>2 DEF Samples
<1>6. /\ WilsonHigh[<<w2, n>>] <= WilsonHigh[<<w, n>>]
      /\ WilsonHigh[<<n - k2, n>>] <= WilsonHigh[<<n - k, n>>]
  BY <1>2, <1>5, WilsonMonotonic
<1>7. /\ WilsonHigh[<<n - k2, n>>] \in 0 .. Scale
      /\ WilsonHigh[<<n - k, n>>] \in 0 .. Scale
  BY <1>5, WilsonLeast
<1> DEFINE x == WilsonHigh[<<n - k2, n>>]
           y == WilsonHigh[<<n - k, n>>]
<1>8. x \in Int /\ y \in Int /\ x <= y /\ Scale \in Int
  BY <1>6, <1>7, TripwireAssumption
<1>9. Low(r, arm) = Scale - y /\ Low(s, arm) = Scale - x
  BY <1>4
<1> HIDE DEF x, y
<1>10. Low(r, arm) <= Low(s, arm)
  BY <1>8, <1>9
<1> QED
  BY <1>4, <1>6, <1>10

\* So the comparisons of the bounds that hold for a verdict go on holding, and
\* those of the outer bounds follow from those of the inner ones.
LEMMA ComparisonsNarrow ==
    ASSUME NEW r, Small(r), NEW s, Narrows(r, s), Powered(r)
    PROVE  /\ Exceeds(Low(r, "candidate"), High(r, "baseline")) =>
                 Exceeds(Low(s, "candidate"), High(s, "baseline"))
           /\ Exceeds(High(s, "candidate"), Low(s, "baseline")) =>
                 Exceeds(High(r, "candidate"), Low(r, "baseline"))
           /\ Exceeds(Low(s, "candidate"), High(s, "baseline")) =>
                 Exceeds(High(s, "candidate"), Low(s, "baseline"))
<1>1. Small(s) /\ Powered(s) /\ {"candidate", "baseline"} \subseteq Arms
  BY PoweredNarrow DEF Arms
<1>2. \A arm \in {"candidate", "baseline"} :
         /\ Low(r, arm) \in 0 .. Scale /\ High(r, arm) \in 0 .. Scale
         /\ Low(s, arm) \in 0 .. Scale /\ High(s, arm) \in 0 .. Scale
         /\ Low(s, arm) <= High(s, arm)
  BY <1>1, BoundsHold
<1>3. \A arm \in {"candidate", "baseline"} :
         Low(r, arm) <= Low(s, arm) /\ High(s, arm) <= High(r, arm)
  BY <1>1, BoundsNarrow
<1>4. \A arm \in {"candidate", "baseline"} :
         /\ Low(r, arm) \in Int /\ High(r, arm) \in Int
         /\ Low(s, arm) \in Int /\ High(s, arm) \in Int
  BY <1>2
<1>5. Exceeds(Low(r, "candidate"), High(r, "baseline")) =>
         Exceeds(Low(s, "candidate"), High(s, "baseline"))
  BY <1>3, <1>4, ExceedsMonotonic
<1>6. Exceeds(High(s, "candidate"), Low(s, "baseline")) =>
         Exceeds(High(r, "candidate"), Low(r, "baseline"))
  BY <1>3, <1>4, ExceedsMonotonic
<1>7. Exceeds(Low(s, "candidate"), High(s, "baseline")) =>
         Exceeds(High(s, "candidate"), Low(s, "baseline"))
  BY <1>2, <1>4, ExceedsMonotonic
<1> QED
  BY <1>5, <1>6, <1>7

\* A definite verdict is the same after late reports.
LEMMA VerdictNarrow ==
    ASSUME NEW r, Small(r), NEW s, Narrows(r, s), NEW swaps,
           Verdict(r, swaps) \in Definitive
    PROVE  Verdict(s, swaps) = Verdict(r, swaps)
<1>1. /\ Powered(r) /\ ~NoOpSwap(r, swaps) /\ Total(r, "candidate") # 0
      /\ ~\A arm \in Arms : Total(r, arm) = 0
      /\ Verdict(r, swaps) =
            IF Exceeds(Low(r, "candidate"), High(r, "baseline"))
            THEN "GROSS_REGRESSION"
            ELSE IF ~Exceeds(High(r, "candidate"), Low(r, "baseline"))
            THEN "NO_GROSS_REGRESSION" ELSE "INCONCLUSIVE"
  BY PoweredVerdict
<1>2. \A arm \in Arms : Total(s, arm) = Total(r, arm)
  BY CountsNarrow DEF Small
<1>3. /\ ~NoOpSwap(s, swaps) /\ Total(s, "candidate") # 0
      /\ ~\A arm \in Arms : Total(s, arm) = 0
  BY <1>1, <1>2 DEF NoOpSwap, Arms
<1>4. Powered(s)
  BY <1>1, PoweredNarrow
<1>5. Verdict(s, swaps) =
            IF Exceeds(Low(s, "candidate"), High(s, "baseline"))
            THEN "GROSS_REGRESSION"
            ELSE IF ~Exceeds(High(s, "candidate"), Low(s, "baseline"))
            THEN "NO_GROSS_REGRESSION" ELSE "INCONCLUSIVE"
  BY <1>3, <1>4 DEF Verdict
<1>6. CASE Exceeds(Low(r, "candidate"), High(r, "baseline"))
  BY <1>1, <1>5, <1>6, ComparisonsNarrow
<1>7. CASE ~Exceeds(Low(r, "candidate"), High(r, "baseline"))
  <2>1. ~Exceeds(High(r, "candidate"), Low(r, "baseline"))
    BY <1>1, <1>7 DEF Definitive
  <2>2. /\ ~Exceeds(High(s, "candidate"), Low(s, "baseline"))
        /\ ~Exceeds(Low(s, "candidate"), High(s, "baseline"))
    BY <1>1, <2>1, ComparisonsNarrow
  <2> QED
    BY <1>1, <1>5, <1>7, <2>1, <2>2
<1> QED
  BY <1>6, <1>7

-----------------------------------------------------------------------------
(* Imputation *)

Silent(r) == {t \in DOMAIN r : r[t].status = "unreported"}

LEMMA ImputedNarrows ==
    ASSUME NEW r, NEW f \in [Silent(r) -> {"success", "failure"}]
    PROVE  /\ Narrows(r, Imputed(r, f))
           /\ DOMAIN Imputed(r, f) = DOMAIN r
           /\ \A t \in DOMAIN r :
                 /\ Imputed(r, f)[t].arm = r[t].arm
                 /\ Imputed(r, f)[t].status =
                       IF t \in Silent(r) THEN f[t] ELSE r[t].status
<1>1. DOMAIN f = Silent(r) /\ Silent(r) \subseteq DOMAIN r
  BY DEF Silent
<1>2. DOMAIN Imputed(r, f) = DOMAIN r
  BY DEF Imputed
<1>3. \A t \in DOMAIN r :
         Imputed(r, f)[t] =
            IF t \in Silent(r) THEN [arm |-> r[t].arm, status |-> f[t]]
            ELSE r[t]
  BY <1>1 DEF Imputed
<1>4. \A t \in DOMAIN r :
         /\ Imputed(r, f)[t].arm = r[t].arm
         /\ Imputed(r, f)[t].status =
               IF t \in Silent(r) THEN f[t] ELSE r[t].status
  <2> TAKE t \in DOMAIN r
  <2>1. CASE t \in Silent(r)
    <3>1. Imputed(r, f)[t] = [arm |-> r[t].arm, status |-> f[t]]
      BY <1>3, <2>1
    <3> QED
      BY <2>1, <3>1
  <2>2. CASE t \notin Silent(r)
    BY <1>3, <2>2
  <2> QED
    BY <2>1, <2>2
<1>5. Narrows(r, Imputed(r, f))
  BY <1>2, <1>4 DEF Narrows, Silent
<1> QED
  BY <1>2, <1>4, <1>5

\* If every silent task of an arm succeeds, its failures are those reported;
\* if every one fails, they are as many as the upper bound takes them to be.
LEMMA ImputedCounts ==
    ASSUME NEW r, IsFiniteSet(DOMAIN r), NEW arm,
           NEW f \in [Silent(r) -> {"success", "failure"}]
    PROVE  /\ (\A t \in Silent(r) : r[t].arm = arm => f[t] = "success") =>
                 Failures(Imputed(r, f), arm) = Failures(r, arm)
           /\ (\A t \in Silent(r) : r[t].arm = arm => f[t] = "failure") =>
                 Failures(Imputed(r, f), arm) =
                    Failures(r, arm) + Unreported(r, arm)
<1> DEFINE s == Imputed(r, f)
<1>1. /\ DOMAIN s = DOMAIN r
      /\ \A t \in DOMAIN r :
            /\ s[t].arm = r[t].arm
            /\ s[t].status = IF t \in Silent(r) THEN f[t] ELSE r[t].status
  BY ImputedNarrows
<1> HIDE DEF s
<1>2. ASSUME \A t \in Silent(r) : r[t].arm = arm => f[t] = "success"
      PROVE  Of(s, arm, {"failure"}) = Of(r, arm, {"failure"})
  BY <1>1, <1>2 DEF Of, Silent
<1>3. ASSUME \A t \in Silent(r) : r[t].arm = arm => f[t] = "failure"
      PROVE  Of(s, arm, {"failure"}) = Of(r, arm, {"failure", "unreported"})
  BY <1>1, <1>3 DEF Of, Silent
<1>4. /\ Failures(s, arm) = Cardinality(Of(s, arm, {"failure"}))
      /\ Failures(r, arm) = Cardinality(Of(r, arm, {"failure"}))
      /\ Failures(r, arm) + Unreported(r, arm) =
            Cardinality(Of(r, arm, {"failure", "unreported"}))
  BY <1>1, CountType, ArmCounts DEF Failures
<1>5. (\A t \in Silent(r) : r[t].arm = arm => f[t] = "success") =>
         Failures(s, arm) = Failures(r, arm)
  BY <1>2, <1>4
<1>6. (\A t \in Silent(r) : r[t].arm = arm => f[t] = "failure") =>
         Failures(s, arm) = Failures(r, arm) + Unreported(r, arm)
  BY <1>3, <1>4
<1> QED
  BY <1>5, <1>6 DEF s

\* The interval holds the gap of the rates.
LEMMA GapAbove ==
    ASSUME NEW x \in Int, NEW y \in Int, NEW f \in Nat, NEW g \in Nat,
           NEW m \in Nat \ {0}, NEW n \in Nat \ {0},
           m * x <= f * Scale, g * Scale <= n * y, Exceeds(x, y)
    PROVE  100 * (f * n - g * m) > Margin * (m * n)
<1>1. Scale \in Nat \ {0} /\ Margin \in Nat
  BY TripwireAssumption
<1> DEFINE P == m * n
<1>2. P \in Nat \ {0}
  OBVIOUS
<1>3. (100 * (x - y)) * P > (Margin * Scale) * P
  <2>1. 100 * (x - y) > Margin * Scale
    BY DEF Exceeds
  <2>2. 100 * (x - y) \in Int /\ Margin * Scale \in Int
    BY <1>1
  <2> HIDE DEF P
  <2> QED
    BY <1>2, <2>1, <2>2, Cancel
<1>4. x * P <= (f * n) * Scale
  <2>1. ~((m * x) * n > (f * Scale) * n)
    <3>1. m * x \in Int /\ f * Scale \in Int /\ ~(m * x > f * Scale)
      BY <1>1
    <3> QED
      BY <3>1, Cancel
  <2>2. (m * x) * n = x * P
    OBVIOUS
  <2>3. (f * Scale) * n = (f * n) * Scale
    BY <1>1
  <2>4. x * P \in Int /\ (f * n) * Scale \in Int
    BY <1>1, <1>2
  <2> QED
    BY <2>1, <2>2, <2>3, <2>4
<1>5. (g * m) * Scale <= y * P
  <2>1. ~((g * Scale) * m > (n * y) * m)
    <3>1. n * y \in Int /\ g * Scale \in Int /\ ~(g * Scale > n * y)
      BY <1>1
    <3> QED
      BY <3>1, Cancel
  <2>2. (n * y) * m = y * P
    OBVIOUS
  <2>3. (g * Scale) * m = (g * m) * Scale
    BY <1>1
  <2>4. y * P \in Int /\ (g * m) * Scale \in Int
    BY <1>1, <1>2
  <2> QED
    BY <2>1, <2>2, <2>3, <2>4
<1> DEFINE A == f * n
           B == g * m
<1>6. A \in Int /\ B \in Int
  OBVIOUS
<1>7. x * P <= A * Scale /\ B * Scale <= y * P
  BY <1>4, <1>5
<1>8. SUFFICES 100 * (A - B) > Margin * P
  OBVIOUS
<1> HIDE DEF A, B, P
<1>9. /\ (100 * (x - y)) * P = 100 * (x * P) - 100 * (y * P)
      /\ (100 * (A - B)) * Scale = 100 * (A * Scale) - 100 * (B * Scale)
      /\ (Margin * Scale) * P = (Margin * P) * Scale
  BY <1>1, <1>2, <1>6
<1>10. /\ x * P \in Int /\ y * P \in Int /\ A * Scale \in Int
       /\ B * Scale \in Int /\ (Margin * P) * Scale \in Int
  BY <1>1, <1>2, <1>6
<1>11. (100 * (A - B)) * Scale > (Margin * P) * Scale
  BY <1>3, <1>7, <1>9, <1>10
<1>12. 100 * (A - B) \in Int /\ Margin * P \in Int
  BY <1>1, <1>2, <1>6
<1> QED
  BY <1>1, <1>11, <1>12, Cancel

LEMMA GapBelow ==
    ASSUME NEW x \in Int, NEW y \in Int, NEW f \in Nat, NEW g \in Nat,
           NEW m \in Nat \ {0}, NEW n \in Nat \ {0},
           f * Scale <= m * x, n * y <= g * Scale,
           100 * (f * n - g * m) > Margin * (m * n)
    PROVE  Exceeds(x, y)
<1>1. Scale \in Nat \ {0} /\ Margin \in Nat
  BY TripwireAssumption
<1> DEFINE P == m * n
           A == f * n
           B == g * m
<1>2. P \in Nat \ {0} /\ A \in Int /\ B \in Int
  OBVIOUS
<1>3. (100 * (A - B)) * Scale > (Margin * P) * Scale
  <2>1. 100 * (A - B) > Margin * P
    OBVIOUS
  <2> HIDE DEF P, A, B
  <2>2. 100 * (A - B) \in Int /\ Margin * P \in Int
    BY <1>1, <1>2
  <2> QED
    BY <1>1, <2>1, <2>2, Cancel
<1>4. A * Scale <= x * P
  <2>1. ~((f * Scale) * n > (m * x) * n)
    <3>1. m * x \in Int /\ f * Scale \in Int /\ ~(f * Scale > m * x)
      BY <1>1
    <3> QED
      BY <3>1, Cancel
  <2>2. (m * x) * n = x * P
    OBVIOUS
  <2>3. (f * Scale) * n = A * Scale
    BY <1>1
  <2>4. x * P \in Int /\ A * Scale \in Int
    BY <1>1, <1>2
  <2> QED
    BY <2>1, <2>2, <2>3, <2>4
<1>5. y * P <= B * Scale
  <2>1. ~((n * y) * m > (g * Scale) * m)
    <3>1. n * y \in Int /\ g * Scale \in Int /\ ~(n * y > g * Scale)
      BY <1>1
    <3> QED
      BY <3>1, Cancel
  <2>2. (n * y) * m = y * P
    OBVIOUS
  <2>3. (g * Scale) * m = B * Scale
    BY <1>1
  <2>4. y * P \in Int /\ B * Scale \in Int
    BY <1>1, <1>2
  <2> QED
    BY <2>1, <2>2, <2>3, <2>4
<1> HIDE DEF A, B, P
<1>6. /\ (100 * (x - y)) * P = 100 * (x * P) - 100 * (y * P)
      /\ (100 * (A - B)) * Scale = 100 * (A * Scale) - 100 * (B * Scale)
      /\ (Margin * P) * Scale = (Margin * Scale) * P
  BY <1>1, <1>2
<1>7. /\ x * P \in Int /\ y * P \in Int /\ A * Scale \in Int
      /\ B * Scale \in Int /\ (Margin * P) * Scale \in Int
  BY <1>1, <1>2
<1>8. (100 * (x - y)) * P > (Margin * Scale) * P
  BY <1>3, <1>4, <1>5, <1>6, <1>7
<1>9. 100 * (x - y) \in Int /\ Margin * Scale \in Int
  BY <1>1
<1>10. 100 * (x - y) > Margin * Scale
  BY <1>2, <1>8, <1>9, Cancel
<1> QED
  BY <1>10 DEF Exceeds

\* What the comparisons of the bounds say of the rates themselves.
LEMMA RatesBetween ==
    ASSUME NEW s, Small(s), Powered(s)
    PROVE  /\ Exceeds(Low(s, "candidate"), High(s, "baseline")) => FailsMore(s)
           /\ FailsMore(s) => Exceeds(High(s, "candidate"), Low(s, "baseline"))
<1>1. \A arm \in {"candidate", "baseline"} :
         /\ Closed(s, arm) \in Nat \ {0} /\ Failures(s, arm) \in Nat
         /\ Low(s, arm) \in Int /\ High(s, arm) \in Int
         /\ Closed(s, arm) * Low(s, arm) <= Failures(s, arm) * Scale
         /\ Failures(s, arm) * Scale <= Closed(s, arm) * High(s, arm)
  <2>1. \A arm \in {"candidate", "baseline"} :
           /\ Closed(s, arm) \in Nat \ {0} /\ Failures(s, arm) \in Nat
           /\ Low(s, arm) \in 0 .. Scale /\ High(s, arm) \in 0 .. Scale
           /\ Closed(s, arm) * Low(s, arm) <= Failures(s, arm) * Scale
           /\ Failures(s, arm) * Scale <= Closed(s, arm) * High(s, arm)
    BY BoundsHold DEF Arms
  <2> QED
    BY <2>1
<1>2. FailsMore(s) <=>
         100 * (Failures(s, "candidate") * Closed(s, "baseline")
                  - Failures(s, "baseline") * Closed(s, "candidate"))
             > Margin * (Closed(s, "candidate") * Closed(s, "baseline"))
  BY DEF FailsMore
<1>3. ASSUME Exceeds(Low(s, "candidate"), High(s, "baseline"))
      PROVE  FailsMore(s)
  BY <1>1, <1>2, <1>3, GapAbove
<1>4. ASSUME FailsMore(s)
      PROVE  Exceeds(High(s, "candidate"), Low(s, "baseline"))
  BY <1>1, <1>2, <1>4, GapBelow
<1> QED
  BY <1>3, <1>4

\* Reports of the silent tasks that are as good as possible for one arm and as
\* bad as possible for the other.
Favouring(r, arm) ==
    [t \in Silent(r) |-> IF r[t].arm = arm THEN "success" ELSE "failure"]

\* They bring the bounds of both arms to one end.
LEMMA FavouringBounds ==
    ASSUME NEW r, Small(r), NEW arm \in Arms, NEW other \in Arms, arm # other
    PROVE  /\ Favouring(r, arm) \in [Silent(r) -> {"success", "failure"}]
           /\ Low(Imputed(r, Favouring(r, arm)), arm) = Low(r, arm)
           /\ High(Imputed(r, Favouring(r, arm)), other) = High(r, other)
<1> DEFINE f == Favouring(r, arm)
           s == Imputed(r, f)
<1>1. f \in [Silent(r) -> {"success", "failure"}]
  BY DEF Favouring
<1>2. /\ \A t \in Silent(r) : r[t].arm = arm => f[t] = "success"
      /\ \A t \in Silent(r) : r[t].arm = other => f[t] = "failure"
  BY DEF Favouring
<1> HIDE DEF f
<1>3. /\ Narrows(r, s) /\ IsFiniteSet(DOMAIN r) /\ IsFiniteSet(DOMAIN s)
      /\ \A t \in DOMAIN s : s[t].status # "unreported"
  BY <1>1, ImputedNarrows DEF Small, Silent
<1>4. /\ Failures(s, arm) = Failures(r, arm)
      /\ Failures(s, other) = Failures(r, other) + Unreported(r, other)
  BY <1>1, <1>2, <1>3, ImputedCounts
<1> HIDE DEF s
<1>5. /\ Closed(s, arm) = Closed(r, arm)
      /\ Closed(s, other) = Closed(r, other)
  BY <1>3, CountsNarrow
<1>6. Unreported(s, other) = 0 /\ Failures(s, other) \in Nat
  <2>1. Of(s, other, {"unreported"}) = {}
    BY <1>3 DEF Of
  <2>2. Unreported(s, other) = Cardinality(Of(s, other, {"unreported"}))
    BY <1>3, CountType DEF Unreported
  <2> QED
    BY <1>3, <2>1, <2>2, FS_EmptySet, ArmCounts
<1>7. /\ Low(s, arm) = Low(r, arm)
      /\ High(s, other) = High(r, other)
  BY <1>4, <1>5, <1>6 DEF Low, High
<1> QED
  BY <1>1, <1>7 DEF s, f

\* What the three verdicts of powered records say of the silent tasks.
LEMMA VerdictImputes ==
    ASSUME NEW r, Small(r), NEW swaps
    PROVE  LET F == [Silent(r) -> {"success", "failure"}]
           IN  /\ Verdict(r, swaps) \in Definitive \cup {"INCONCLUSIVE"} =>
                     \A v \in Definitive :
                        Verdict(r, swaps) = v <=>
                           \A f \in F : Verdict(Imputed(r, f), swaps) = v
               /\ Verdict(r, swaps) = "GROSS_REGRESSION" =>
                     \A f \in F : FailsMore(Imputed(r, f))
               /\ Verdict(r, swaps) = "NO_GROSS_REGRESSION" =>
                     \A f \in F : ~FailsMore(Imputed(r, f))
<1> DEFINE F == [Silent(r) -> {"success", "failure"}]
<1>1. \A f \in F : Narrows(r, Imputed(r, f))
  BY ImputedNarrows
<1>2. /\ Favouring(r, "candidate") \in F /\ Favouring(r, "baseline") \in F
      /\ LET s == Imputed(r, Favouring(r, "candidate"))
         IN  /\ Low(s, "candidate") = Low(r, "candidate")
             /\ High(s, "baseline") = High(r, "baseline")
      /\ LET s == Imputed(r, Favouring(r, "baseline"))
         IN  /\ Low(s, "baseline") = Low(r, "baseline")
             /\ High(s, "candidate") = High(r, "candidate")
  BY FavouringBounds DEF Arms
<1> HIDE DEF F
<1>3. ASSUME Verdict(r, swaps) \in Definitive, NEW f \in F
      PROVE  /\ Verdict(Imputed(r, f), swaps) = Verdict(r, swaps)
             /\ FailsMore(Imputed(r, f)) <=>
                   Verdict(r, swaps) = "GROSS_REGRESSION"
  <2> DEFINE s == Imputed(r, f)
  <2>1. Verdict(s, swaps) = Verdict(r, swaps)
    BY <1>1, <1>3, VerdictNarrow
  <2>2. Small(s) /\ Powered(s)
    BY <1>1, <1>3, PoweredVerdict, PoweredNarrow
  <2> HIDE DEF s
  <2>3. Verdict(s, swaps) =
           IF Exceeds(Low(s, "candidate"), High(s, "baseline"))
           THEN "GROSS_REGRESSION"
           ELSE IF ~Exceeds(High(s, "candidate"), Low(s, "baseline"))
           THEN "NO_GROSS_REGRESSION" ELSE "INCONCLUSIVE"
    BY <1>3, <2>1, PoweredVerdict
  <2>4. FailsMore(s) <=> Verdict(r, swaps) = "GROSS_REGRESSION"
    BY <1>3, <2>1, <2>2, <2>3, RatesBetween DEF Definitive
  <2> QED
    BY <2>1, <2>4 DEF s
<1>4. ASSUME Verdict(r, swaps) = "INCONCLUSIVE"
      PROVE  /\ Verdict(Imputed(r, Favouring(r, "candidate")), swaps)
                   # "GROSS_REGRESSION"
             /\ Verdict(Imputed(r, Favouring(r, "baseline")), swaps)
                   # "NO_GROSS_REGRESSION"
  <2>1. /\ Powered(r)
        /\ ~Exceeds(Low(r, "candidate"), High(r, "baseline"))
        /\ Exceeds(High(r, "candidate"), Low(r, "baseline"))
    BY <1>4, PoweredVerdict
  <2>2. ~Exceeds(Low(Imputed(r, Favouring(r, "candidate")), "candidate"),
                 High(Imputed(r, Favouring(r, "candidate")), "baseline"))
    BY <1>2, <2>1
  <2>3. Exceeds(High(Imputed(r, Favouring(r, "baseline")), "candidate"),
                Low(Imputed(r, Favouring(r, "baseline")), "baseline"))
    BY <1>2, <2>1
  <2> DEFINE s == Imputed(r, Favouring(r, "candidate"))
             q == Imputed(r, Favouring(r, "baseline"))
  <2>4. ~Exceeds(Low(s, "candidate"), High(s, "baseline"))
    BY <2>2
  <2>5. Exceeds(High(q, "candidate"), Low(q, "baseline"))
    BY <2>3
  <2> HIDE DEF s, q
  <2>6. Verdict(s, swaps) # "GROSS_REGRESSION"
    BY <2>4, PoweredVerdict DEF Definitive
  <2>7. Verdict(q, swaps) # "NO_GROSS_REGRESSION"
    BY <2>5, PoweredVerdict DEF Definitive
  <2> QED
    BY <2>6, <2>7 DEF s, q
<1>5. ASSUME Verdict(r, swaps) \in Definitive \cup {"INCONCLUSIVE"},
             NEW v \in Definitive
      PROVE  Verdict(r, swaps) = v <=>
                \A f \in F : Verdict(Imputed(r, f), swaps) = v
  <2>1. CASE Verdict(r, swaps) \in Definitive
    BY <1>2, <1>3, <2>1
  <2>2. CASE Verdict(r, swaps) = "INCONCLUSIVE"
    BY <1>2, <1>4, <2>2 DEF Definitive
  <2> QED
    BY <1>5, <2>1, <2>2
<1>6. /\ Verdict(r, swaps) = "GROSS_REGRESSION" =>
            \A f \in F : FailsMore(Imputed(r, f))
      /\ Verdict(r, swaps) = "NO_GROSS_REGRESSION" =>
            \A f \in F : ~FailsMore(Imputed(r, f))
  BY <1>3 DEF Definitive
<1> QED
  BY <1>5, <1>6 DEF F

-----------------------------------------------------------------------------
(* The invariant *)

Event ==
    [handle : Handle, n : Nat, status : Statuses \cup {"started"},
     success : Success]

Outcome ==
    [task : Task, n : Nat, report : Report, by : {"block", "exit", "after"}]

\* Everything that was posted, whether it has arrived or not.
Posted == eventPosts \cup Rows(events) \cup toolEvents
Said(t) == Rows(outcomes[t]) \cup {o \in outcomePosts : o.task = t}

EndsBy(h) == {e \in Posted : e.handle = h /\ e.status \in Statuses}

LifecycleTypes ==
    /\ plan \in Plans
    /\ app \in [Task -> {"new", "open", "left"}]
    /\ reported \in [Task -> BOOLEAN]
    /\ at \in [Handle -> {"new", "open", "cut", "left"}]
    /\ terminal \in [Handle -> BOOLEAN]
    /\ emits \in [Handle -> Nat]
    /\ posts \in [Task -> Nat]
    /\ resends \in 0 .. plan.maxResends
    /\ ended \in [Handle -> Statuses \cup {Nil}]
    /\ interrupted \subseteq Handle
    /\ told \subseteq Handle \cup Task

EventTypes ==
    /\ eventPosts \subseteq Event
    /\ events \in Seq(Event)
    /\ toolEvents \subseteq Event

OutcomeTypes ==
    /\ outcomePosts \subseteq Outcome
    /\ IsFiniteSet(outcomePosts)
    /\ outcomes \in [Task -> Seq(Outcome)]

TraceTypes ==
    /\ traces \subseteq [task : Task, by : Step \cup {Nil}]
    /\ IsFiniteSet(traces)
    /\ ceilinged \cup mixed \cup idle \subseteq Task
    /\ \A t \in ceilinged \cup idle : InData(t)

Types == LifecycleTypes /\ EventTypes /\ OutcomeTypes /\ TraceTypes

\* The events of a handle are numbered, and no two have the same number.
EventsNumbered ==
    /\ \A h \in Handle : emits[h] <= plan.maxEmits
    /\ \A e \in Posted :
          e.handle \in plan.handles /\ e.n \in 1 .. emits[e.handle]
    /\ \A e, f \in Posted : e.handle = f.handle /\ e.n = f.n => e = f
    /\ \A i, j \in DOMAIN events : events[i] = events[j] => i = j

\* A block that was entered belongs to the plan; only a block that was entered
\* is reported on, or called from.
BlocksEntered ==
    /\ \A h \in Handle : at[h] # "new" => h \in plan.handles
    /\ \A trace \in traces : trace.by # Nil => at[trace.by] # "new"

\* Unless it was interrupted, a block has one end from the time it is reported
\* or left, and it is the end that was given.  (The end of a tool may be lost
\* for good.)
Over(h) == terminal[h] \/ at[h] = "left"

EndsOnceOf(h) ==
    /\ \A e, f \in EndsBy(h) : e = f
    /\ \A e \in EndsBy(h) : Over(h) /\ e.status = ended[h]
    /\ Over(h) /\ h \notin Tool => EndsBy(h) # {}

EndsOnce == \A h \in Handle \ interrupted : EndsOnceOf(h)

StepSuccessesTold ==
    \A e \in Posted :
        e.success = TRUE /\ e.handle \notin Tool => e.handle \in told

TaskSuccessesTold ==
    \A t \in Task : \A o \in Said(t) : o.report = "success" => t \in told

\* The automatic report is the last a block has, and is not given after one of
\* the application's own.
OneKindOf(t) ==
    /\ \A o \in Said(t) :
          /\ o.task = t
          /\ o.by = "exit" => app[t] = "left"
          /\ o.by = "block" => reported[t]
    /\ \A o, p \in Said(t) : ~(o.by = "block" /\ p.by = "exit")

OneKindOfReport == \A t \in Task : OneKindOf(t)

InFlight(t) == {o \in outcomePosts : o.task = t}

OutcomesCounted ==
    /\ \A o \in outcomePosts : o.n <= posts[o.task]
    /\ \A t \in Task : posts[t] = Len(outcomes[t]) + Cardinality(InFlight(t))

Inv ==
    /\ Types
    /\ EventsNumbered
    /\ BlocksEntered
    /\ EndsOnce
    /\ StepSuccessesTold
    /\ TaskSuccessesTold
    /\ OneKindOfReport
    /\ OutcomesCounted

LEMMA PlanFacts ==
    ASSUME plan \in Plans
    PROVE  /\ plan.tasks \subseteq Task /\ plan.handles \subseteq Handle
           /\ plan.reports \subseteq Report /\ plan.successes \subseteq Success
           /\ plan.maxPosts \in Nat /\ plan.maxEmits \in Nat
           /\ plan.maxInterrupts \in Nat /\ plan.maxResends \in Nat
BY LifecycleAssumption

LEMMA IdentityFacts ==
    ASSUME NEW h \in Handle
    PROVE  Identity[h].task \in Task
BY LifecycleAssumption

LEMMA RowsAppend ==
    ASSUME NEW S, NEW s \in Seq(S), NEW x \in S
    PROVE  /\ Append(s, x) \in Seq(S)
           /\ Rows(Append(s, x)) = Rows(s) \cup {x}
           /\ Rows(s) \subseteq S
<1> DEFINE q == Append(s, x)
<1>1. /\ q \in Seq(S) /\ Len(q) = Len(s) + 1 /\ Len(s) \in Nat
      /\ \A i \in 1 .. Len(s) : q[i] = s[i]
      /\ q[Len(s) + 1] = x
  OBVIOUS
<1> HIDE DEF q
<1>2. /\ DOMAIN q = 1 .. Len(q) /\ DOMAIN s = 1 .. Len(s)
      /\ 1 .. Len(q) = (1 .. Len(s)) \cup {Len(s) + 1}
  BY <1>1
<1>3. Rows(q) = Rows(s) \cup {x}
  BY <1>1, <1>2 DEF Rows
<1>4. Rows(s) \subseteq S
  BY <1>2 DEF Rows
<1> QED
  BY <1>1, <1>3, <1>4 DEF q

LEMMA RowsFinite ==
    ASSUME NEW S, NEW s \in Seq(S)
    PROVE  IsFiniteSet(Rows(s))
<1> DEFINE f == [i \in DOMAIN s |-> s[i]]
<1>1. DOMAIN s = 1 .. Len(s) /\ Len(s) \in Nat
  OBVIOUS
<1>2. IsFiniteSet(DOMAIN s)
  BY <1>1, FS_Interval
<1>3. f \in Surjection(DOMAIN s, Rows(s))
  BY DEF Surjection, Rows
<1> QED
  BY <1>2, <1>3, FS_Surjection

\* A success that an event takes is one, whoever it is of.
LEMMA DefaultedType ==
    ASSUME NEW h, NEW status, NEW success \in Success
    PROVE  Defaulted(h, status, success) \in Success
<1>1. (status = "completed") \in BOOLEAN
  OBVIOUS
<1> QED
  BY <1>1 DEF Defaulted, Success

-----------------------------------------------------------------------------
(* Type correctness *)

LEMMA EmitTypes ==
    ASSUME LifecycleTypes, EventTypes, NEW h \in Handle,
           NEW status \in Statuses \cup {"started"}, NEW success \in Success,
           Emit(h, status, success), UNCHANGED <<events, toolEvents>>
    PROVE  /\ emits' \in [Handle -> Nat]
           /\ EventTypes'
<1>1. emits[h] \in Nat /\ emits[h] + 1 \in Nat
  BY DEF LifecycleTypes
<1>2. emits' \in [Handle -> Nat]
  BY <1>1 DEF Emit, LifecycleTypes
<1> DEFINE e == [handle |-> h, n |-> emits[h] + 1, status |-> status,
                 success |-> success]
<1>3. e \in Event
  BY <1>1 DEF Event
<1>4. eventPosts' = eventPosts \cup {e}
  BY DEF Emit
<1> HIDE DEF e
<1> QED
  BY <1>2, <1>3, <1>4 DEF EventTypes

LEMMA PostTypes ==
    ASSUME LifecycleTypes, OutcomeTypes, NEW t \in Task,
           NEW report \in Report, NEW by \in {"block", "exit", "after"},
           PostOutcome(t, report, by), UNCHANGED outcomes
    PROVE  /\ posts' \in [Task -> Nat]
           /\ OutcomeTypes'
<1>1. posts[t] \in Nat /\ posts[t] + 1 \in Nat
  BY DEF LifecycleTypes
<1>2. posts' \in [Task -> Nat]
  BY <1>1 DEF PostOutcome, LifecycleTypes
<1> DEFINE o == [task |-> t, n |-> posts[t] + 1, report |-> report, by |-> by]
<1>3. o \in Outcome
  BY <1>1 DEF Outcome
<1>4. outcomePosts' = outcomePosts \cup {o}
  BY DEF PostOutcome
<1> HIDE DEF o
<1>5. IsFiniteSet(outcomePosts')
  BY <1>4, FS_AddElement DEF OutcomeTypes
<1> QED
  BY <1>2, <1>3, <1>4, <1>5 DEF OutcomeTypes

\* The operations of the lifecycle, one by one.
LEMMA LifecycleTypesStep ==
    ASSUME Types, LifecycleNext, UNCHANGED traceVars
    PROVE  LifecycleTypes' /\ EventTypes' /\ OutcomeTypes'
<1> USE DEF Types
<1> USE DEF lifecycleVars, taskVars, handleVars, rowVars, historyVars
<1>1. ASSUME NEW t \in Task, OpenTask(t)
      PROVE  LifecycleTypes' /\ EventTypes' /\ OutcomeTypes'
  BY <1>1 DEF OpenTask, LifecycleTypes, EventTypes, OutcomeTypes
<1>2. ASSUME NEW t \in Task, NEW report \in Report, ReportTask(t, report)
      PROVE  LifecycleTypes' /\ EventTypes' /\ OutcomeTypes'
  <2> DEFINE by == IF app[t] = "open" THEN "block" ELSE "after"
  <2>1. PostOutcome(t, report, by) /\ by \in {"block", "exit", "after"}
    BY <1>2 DEF ReportTask
  <2>2. posts' \in [Task -> Nat] /\ OutcomeTypes'
    BY <1>2, <2>1, PostTypes DEF ReportTask
  <2> QED
    BY <1>2, <2>2 DEF ReportTask, LifecycleTypes, EventTypes
<1>3. ASSUME NEW t \in Task, NEW failed \in BOOLEAN, LeaveTask(t, failed)
      PROVE  LifecycleTypes' /\ EventTypes' /\ OutcomeTypes'
  <2>1. CASE failed /\ ~reported[t]
    <3>1. PostOutcome(t, "failure", "exit")
      BY <1>3, <2>1 DEF LeaveTask
    <3>2. posts' \in [Task -> Nat] /\ OutcomeTypes'
      BY <1>3, <3>1, PostTypes DEF LeaveTask, Report
    <3> QED
      BY <1>3, <2>1, <3>2 DEF LeaveTask, LifecycleTypes, EventTypes
  <2>2. CASE ~(failed /\ ~reported[t])
    BY <1>3, <2>2 DEF LeaveTask, LifecycleTypes, EventTypes, OutcomeTypes
  <2> QED
    BY <2>1, <2>2
<1>4. ASSUME NEW h \in Handle, Enter(h)
      PROVE  LifecycleTypes' /\ EventTypes' /\ OutcomeTypes'
  <2>1. emits' \in [Handle -> Nat] /\ EventTypes'
    BY <1>4, EmitTypes DEF Enter, Success
  <2> QED
    BY <1>4, <2>1 DEF Enter, LifecycleTypes, OutcomeTypes
<1>5. ASSUME NEW h \in Handle, EnterInterrupted(h)
      PROVE  LifecycleTypes' /\ EventTypes' /\ OutcomeTypes'
  <2>1. emits' \in [Handle -> Nat] /\ EventTypes'
    BY <1>5, EmitTypes DEF EnterInterrupted, Success
  <2> QED
    BY <1>5, <2>1
       DEF EnterInterrupted, Interrupt, LifecycleTypes, OutcomeTypes
<1>6. ASSUME NEW h \in Handle, NEW status \in Statuses,
             NEW success \in Success, ReportEnd(h, status, success)
      PROVE  LifecycleTypes' /\ EventTypes' /\ OutcomeTypes'
  <2>1. emits' \in [Handle -> Nat] /\ EventTypes'
    BY <1>6, EmitTypes, DefaultedType DEF ReportEnd
  <2> QED
    BY <1>6, <2>1 DEF ReportEnd, Tell, LifecycleTypes, OutcomeTypes
<1>7. ASSUME NEW h \in Handle, NEW status \in Statuses,
             NEW success \in Success, ReportInterrupted(h, status, success)
      PROVE  LifecycleTypes' /\ EventTypes' /\ OutcomeTypes'
  <2>1. emits' \in [Handle -> Nat] /\ EventTypes'
    BY <1>7, EmitTypes, DefaultedType DEF ReportInterrupted
  <2> QED
    BY <1>7, <2>1
       DEF ReportInterrupted, Interrupt, Tell, LifecycleTypes, OutcomeTypes
<1>8. ASSUME NEW h \in Handle, ReportInvalid(h)
      PROVE  LifecycleTypes' /\ EventTypes' /\ OutcomeTypes'
  BY <1>8 DEF ReportInvalid, LifecycleTypes, EventTypes, OutcomeTypes
<1>9. ASSUME NEW h \in Handle, NEW failed \in BOOLEAN, Leave(h, failed)
      PROVE  LifecycleTypes' /\ EventTypes' /\ OutcomeTypes'
  <2> DEFINE status == IF failed THEN "failed" ELSE "completed"
  <2>1. status \in Statuses
    BY DEF Statuses
  <2>2. CASE terminal[h]
    BY <1>9, <2>2 DEF Leave, LifecycleTypes, EventTypes, OutcomeTypes
  <2>3. CASE ~terminal[h]
    <3>1. Emit(h, status, Defaulted(h, status, Nil))
      BY <1>9, <2>3 DEF Leave
    <3>2. Defaulted(h, status, Nil) \in Success
      BY DefaultedType DEF Success
    <3>3. emits' \in [Handle -> Nat] /\ EventTypes'
      BY <1>9, <2>1, <3>1, <3>2, EmitTypes DEF Leave
    <3>4. at' = [at EXCEPT ![h] = "left"] /\ ended' = [ended EXCEPT ![h] = status]
      BY <1>9, <2>3 DEF Leave
    <3> HIDE DEF status
    <3> QED
      BY <1>9, <2>1, <3>3, <3>4 DEF Leave, LifecycleTypes, OutcomeTypes
  <2> QED
    BY <2>2, <2>3
<1>10. ASSUME NEW e \in eventPosts, NEW again \in BOOLEAN, StoreEvent(e, again)
       PROVE  LifecycleTypes' /\ EventTypes' /\ OutcomeTypes'
  <2>1. e \in Event /\ eventPosts' \subseteq eventPosts
    BY <1>10 DEF StoreEvent, EventTypes
  <2>2. Append(events, e) \in Seq(Event)
    BY <2>1, RowsAppend DEF EventTypes
  <2>3. events' \in {events, Append(events, e)}
        /\ toolEvents' \in {toolEvents, toolEvents \cup {e}}
    BY <1>10 DEF StoreEvent, Insert
  <2>4. EventTypes'
    BY <2>1, <2>2, <2>3 DEF EventTypes
  <2>5. resends' \in 0 .. plan.maxResends
    BY <1>10, PlanFacts DEF StoreEvent, LifecycleTypes
  <2> QED
    BY <1>10, <2>4, <2>5 DEF StoreEvent, LifecycleTypes, OutcomeTypes
<1>11. ASSUME NEW o \in outcomePosts, StoreOutcome(o)
       PROVE  LifecycleTypes' /\ EventTypes' /\ OutcomeTypes'
  <2>1. o \in Outcome /\ o.task \in Task
    BY DEF OutcomeTypes, Outcome
  <2>2. outcomes[o.task] \in Seq(Outcome)
    BY <2>1 DEF OutcomeTypes
  <2>3. Append(outcomes[o.task], o) \in Seq(Outcome)
    BY <2>1, <2>2, RowsAppend
  <2>4. outcomes' \in [Task -> Seq(Outcome)]
    BY <1>11, <2>1, <2>3 DEF StoreOutcome, OutcomeTypes
  <2>5. IsFiniteSet(outcomePosts') /\ outcomePosts' \subseteq Outcome
    BY <1>11, FS_RemoveElement DEF StoreOutcome, OutcomeTypes
  <2> QED
    BY <1>11, <2>4, <2>5
       DEF StoreOutcome, LifecycleTypes, EventTypes, OutcomeTypes
<1> QED
  BY <1>1, <1>2, <1>3, <1>4, <1>5, <1>6, <1>7, <1>8, <1>9, <1>10, <1>11
     DEF LifecycleNext

LEMMA TraceTypesStep ==
    ASSUME Types, Next PROVE TraceTypes'
<1> USE DEF Types
<1>1. ASSUME UNCHANGED traceVars PROVE TraceTypes'
  BY <1>1 DEF traceVars, TraceTypes, InData
<1>2. plan.tasks \subseteq Task
  BY PlanFacts DEF LifecycleTypes
<1>3. ASSUME NEW t \in plan.tasks, NEW by \in Step \cup {Nil}, Call(t, by)
      PROVE  TraceTypes'
  <2> DEFINE trace == [task |-> t, by |-> by]
  <2>1. trace \in [task : Task, by : Step \cup {Nil}]
    BY <1>2
  <2>2. traces' = traces \cup {trace}
    BY <1>3 DEF Call
  <2> HIDE DEF trace
  <2>3. IsFiniteSet(traces')
    BY <2>2, FS_AddElement DEF TraceTypes
  <2> QED
    BY <1>3, <2>1, <2>2, <2>3 DEF Call, TraceTypes, InData
<1>4. ASSUME NEW t \in plan.tasks, Ceiling(t) PROVE TraceTypes'
  BY <1>2, <1>4 DEF Ceiling, TraceTypes, InData
<1>5. ASSUME NEW t \in plan.tasks, Mix(t) PROVE TraceTypes'
  BY <1>2, <1>5 DEF Mix, TraceTypes, InData
<1>6. ASSUME NEW t \in plan.tasks, GoIdle(t) PROVE TraceTypes'
  BY <1>2, <1>6 DEF GoIdle, TraceTypes, InData
<1> QED
  BY <1>1, <1>3, <1>4, <1>5, <1>6 DEF Next

\* Calls, refusals, another experiment and time do nothing to the lifecycle.
LEMMA TraceStep ==
    ASSUME Next, ~LifecycleNext
    PROVE  UNCHANGED lifecycleVars
BY DEF Next, Call, Ceiling, Mix, GoIdle

LEMMA TypesStep ==
    ASSUME Types, Next PROVE Types'
<1>1. CASE LifecycleNext /\ UNCHANGED traceVars
  BY <1>1, LifecycleTypesStep, TraceTypesStep DEF Types
<1>2. CASE UNCHANGED lifecycleVars
  <2>1. LifecycleTypes' /\ EventTypes' /\ OutcomeTypes'
    BY <1>2 DEF Types, LifecycleTypes, EventTypes, OutcomeTypes, lifecycleVars,
                taskVars, handleVars, rowVars, historyVars
  <2> QED
    BY <2>1, TraceTypesStep DEF Types
<1> QED
  BY <1>1, <1>2 DEF Next, Call, Ceiling, Mix, GoIdle

-----------------------------------------------------------------------------
(* What is posted.  An event is put in flight by its handle and, from then *)
(* on, is in flight or among the rows.                                     *)

NewEvent(h, status, success) ==
    [handle |-> h, n |-> emits[h] + 1, status |-> status, success |-> success]

LEMMA EmitPosted ==
    ASSUME NEW h, NEW status, NEW success, Emit(h, status, success),
           UNCHANGED <<events, toolEvents>>
    PROVE  Posted' = Posted \cup {NewEvent(h, status, success)}
BY DEF Emit, Posted, Rows, NewEvent

LEMMA StorePosted ==
    ASSUME EventTypes, NEW e \in eventPosts, NEW again,
           StoreEvent(e, again)
    PROVE  Posted' = Posted
<1>1. events \in Seq(Event) /\ e \in Event
  BY DEF EventTypes
<1>2. Rows(Append(events, e)) = Rows(events) \cup {e}
  BY <1>1, RowsAppend
<1>3. CASE e.handle \in Tool
  BY <1>3, <1>2 DEF StoreEvent, Insert, Posted, Rows
<1>4. CASE e.handle \notin Tool
  <2>1. Rows(events') = Rows(events) \cup {e} /\ toolEvents' = toolEvents
    BY <1>2, <1>4 DEF StoreEvent, Insert
  <2>2. Rows(events)' = Rows(events) \cup {e}
    BY <2>1 DEF Rows
  <2>3. eventPosts' = eventPosts \/ eventPosts' = eventPosts \ {e}
    BY DEF StoreEvent
  <2> QED
    BY <2>1, <2>2, <2>3 DEF Posted
<1> QED
  BY <1>3, <1>4

\* The ways the events change: a handle emits one, the gateway stores one, or
\* they do not.
Emits(h, status, success) ==
    /\ h \in plan.handles \/ at[h] # "new"
    /\ Emit(h, status, success)
    /\ UNCHANGED <<plan, events, toolEvents>>

LEMMA EventsChange ==
    ASSUME LifecycleNext
    PROVE  \/ \E h \in Handle, status \in Statuses \cup {"started"} :
                 \E success \in Success : Emits(h, status, success)
           \/ \E e \in eventPosts, again \in BOOLEAN : StoreEvent(e, again)
           \/ UNCHANGED <<plan, emits, eventPosts, events, toolEvents>>
<1> DEFINE SomeEmit ==
              \E h \in Handle, status \in Statuses \cup {"started"} :
                 \E success \in Success : Emits(h, status, success)
           Same == UNCHANGED <<plan, emits, eventPosts, events, toolEvents>>
<1> USE DEF taskVars, handleVars, rowVars, historyVars
<1>1. ASSUME NEW t \in Task, OpenTask(t) PROVE Same
  BY <1>1 DEF OpenTask
<1>2. ASSUME NEW t \in Task, NEW report \in Report, ReportTask(t, report)
      PROVE  Same
  BY <1>2 DEF ReportTask
<1>3. ASSUME NEW t \in Task, NEW failed \in BOOLEAN, LeaveTask(t, failed)
      PROVE  Same
  BY <1>3 DEF LeaveTask
<1>4. ASSUME NEW h \in Handle, Enter(h) \/ EnterInterrupted(h)
      PROVE  SomeEmit
  <2>1. Emits(h, "started", Nil)
    BY <1>4 DEF Enter, EnterInterrupted, MayEnter, Emits
  <2> QED
    BY <2>1 DEF Success
<1>5. ASSUME NEW h \in Handle, NEW status \in Statuses,
             NEW success \in Success,
             \/ ReportEnd(h, status, success)
             \/ ReportInterrupted(h, status, success)
      PROVE  SomeEmit
  <2>1. Emits(h, status, Defaulted(h, status, success))
    BY <1>5 DEF ReportEnd, ReportInterrupted, Emits
  <2> QED
    BY <2>1, DefaultedType
<1>6. ASSUME NEW h \in Handle, ReportInvalid(h) PROVE Same
  BY <1>6 DEF ReportInvalid
<1>7. ASSUME NEW h \in Handle, NEW failed \in BOOLEAN, Leave(h, failed)
      PROVE  SomeEmit \/ Same
  <2> DEFINE status == IF failed THEN "failed" ELSE "completed"
  <2>1. CASE terminal[h]
    BY <1>7, <2>1 DEF Leave
  <2>2. CASE ~terminal[h]
    <3>1. Emits(h, status, Defaulted(h, status, Nil))
      BY <1>7, <2>2 DEF Leave, InnermostOpen, Emits
    <3>2. status \in Statuses /\ Defaulted(h, status, Nil) \in Success
      BY DefaultedType DEF Statuses, Success
    <3> QED
      BY <3>1, <3>2
  <2> QED
    BY <2>1, <2>2
<1>8. ASSUME NEW o \in outcomePosts, StoreOutcome(o) PROVE Same
  BY <1>8 DEF StoreOutcome
<1> HIDE DEF SomeEmit, Same
<1>9. \/ SomeEmit
      \/ \E e \in eventPosts, again \in BOOLEAN : StoreEvent(e, again)
      \/ Same
  BY <1>1, <1>2, <1>3, <1>4, <1>5, <1>6, <1>7, <1>8 DEF LifecycleNext
<1> QED
  BY <1>9 DEF SomeEmit, Same

LEMMA NumberedEmit ==
    ASSUME Inv, NEW h \in Handle, NEW status, NEW success,
           Emits(h, status, success)
    PROVE  EventsNumbered'
<1> DEFINE e == NewEvent(h, status, success)
<1>1. Posted' = Posted \cup {e}
  BY EmitPosted DEF Emits
<1>2. e.handle = h /\ e.n = emits[h] + 1
  BY DEF NewEvent
<1>3. /\ emits \in [Handle -> Nat] /\ emits[h] \in Nat
      /\ emits[h] < plan.maxEmits /\ plan.maxEmits \in Nat
      /\ emits' = [emits EXCEPT ![h] = emits[h] + 1]
      /\ plan' = plan /\ events' = events
  BY PlanFacts DEF Inv, Types, LifecycleTypes, Emits, Emit
<1>4. h \in plan.handles /\ plan.handles \subseteq Handle
  BY PlanFacts DEF Inv, Types, LifecycleTypes, BlocksEntered, Emits
<1>5. /\ \A g \in Handle : emits[g] <= plan.maxEmits
      /\ \A f \in Posted :
            f.handle \in plan.handles /\ f.n \in 1 .. emits[f.handle]
      /\ \A f, g \in Posted : f.handle = g.handle /\ f.n = g.n => f = g
      /\ \A i, j \in DOMAIN events : events[i] = events[j] => i = j
  BY DEF Inv, EventsNumbered
<1> HIDE DEF e
<1>6. \A g \in Handle : emits'[g] <= plan'.maxEmits
  BY <1>3, <1>5
<1>7. \A f \in Posted' :
         f.handle \in plan'.handles /\ f.n \in 1 .. emits'[f.handle]
  <2>1. \A f \in Posted :
           f.handle \in plan'.handles /\ f.n \in 1 .. emits'[f.handle]
    <3> SUFFICES ASSUME NEW f \in Posted
                 PROVE  /\ f.handle \in plan'.handles
                        /\ f.n \in 1 .. emits'[f.handle]
      OBVIOUS
    <3>1. f.handle \in Handle /\ emits[f.handle] \in Nat
      BY <1>3, <1>4, <1>5
    <3>2. emits'[f.handle] =
             IF f.handle = h THEN emits[h] + 1 ELSE emits[f.handle]
      BY <1>3, <3>1
    <3>3. f.n \in 1 .. emits[f.handle]
      BY <1>5
    <3> QED
      BY <1>3, <1>5, <3>1, <3>2, <3>3
  <2>2. e.handle \in plan'.handles /\ e.n \in 1 .. emits'[e.handle]
    BY <1>2, <1>3, <1>4
  <2> QED
    BY <1>1, <2>1, <2>2
<1>8. \A f, g \in Posted' : f.handle = g.handle /\ f.n = g.n => f = g
  <2>1. \A f \in Posted : f.handle = e.handle => f.n # e.n
    BY <1>2, <1>3, <1>5
  <2> QED
    BY <1>1, <1>5, <2>1
<1> QED
  BY <1>3, <1>5, <1>6, <1>7, <1>8 DEF EventsNumbered

LEMMA NumberedStore ==
    ASSUME Inv, NEW e \in eventPosts, NEW again \in BOOLEAN,
           StoreEvent(e, again)
    PROVE  EventsNumbered'
<1>1. Posted' = Posted
  BY StorePosted DEF Inv, Types
<1>2. emits' = emits /\ plan' = plan
  BY DEF StoreEvent
<1>3. events \in Seq(Event) /\ e \in Event
  BY DEF Inv, Types, EventTypes
<1>4. \A i, j \in DOMAIN events' : events'[i] = events'[j] => i = j
  <2>1. \A i, j \in DOMAIN events : events[i] = events[j] => i = j
    BY DEF Inv, EventsNumbered
  <2>2. CASE events' = events
    BY <2>1, <2>2
  <2>3. CASE events' # events
    <3> DEFINE q == Append(events, e)
    <3>1. events' = q /\ e \notin Rows(events)
      BY <2>3 DEF StoreEvent, Insert
    <3>2. /\ Len(q) = Len(events) + 1 /\ Len(events) \in Nat
          /\ DOMAIN q = 1 .. Len(q) /\ DOMAIN events = 1 .. Len(events)
          /\ \A i \in 1 .. Len(events) : q[i] = events[i]
          /\ q[Len(events) + 1] = e
      BY <1>3
    <3> HIDE DEF q
    <3>3. \A i \in 1 .. Len(events) : q[i] # e
      BY <3>1, <3>2 DEF Rows
    <3>4. 1 .. Len(q) = (1 .. Len(events)) \cup {Len(events) + 1}
      BY <3>2
    <3>5. \A i, j \in 1 .. Len(q) : q[i] = q[j] => i = j
      BY <2>1, <3>2, <3>3, <3>4
    <3> QED
      BY <3>1, <3>2, <3>5
  <2> QED
    BY <2>2, <2>3
<1> QED
  BY <1>1, <1>2, <1>4 DEF Inv, EventsNumbered

LEMMA NumberedStep ==
    ASSUME Inv, Next PROVE EventsNumbered'
<1>1. CASE UNCHANGED <<plan, emits, eventPosts, events, toolEvents>>
  BY <1>1 DEF Inv, EventsNumbered, Posted, Rows
<1>2. CASE UNCHANGED lifecycleVars
  BY <1>1, <1>2 DEF lifecycleVars, handleVars, rowVars
<1>3. CASE LifecycleNext
  BY <1>1, <1>3, EventsChange, NumberedEmit, NumberedStore
<1> QED
  BY <1>2, <1>3, TraceStep

LEMMA EnteredStep ==
    ASSUME Inv, Next PROVE BlocksEntered'
<1> USE DEF lifecycleVars, taskVars, handleVars, rowVars, historyVars, traceVars
<1>1. /\ at \in [Handle -> {"new", "open", "cut", "left"}]
      /\ \A h \in Handle : at[h] # "new" => h \in plan.handles
      /\ \A trace \in traces : trace.by # Nil => at[trace.by] # "new"
      /\ \A trace \in traces : trace.by # Nil => trace.by \in Handle
  BY DEF Inv, Types, LifecycleTypes, TraceTypes, BlocksEntered, Step
<1>2. ASSUME LifecycleNext, UNCHANGED traceVars PROVE BlocksEntered'
  <2>1. /\ plan' = plan
        /\ \/ at' = at
           \/ \E h \in plan.handles, where \in {"open", "cut", "left"} :
                 at' = [at EXCEPT ![h] = where]
    <3>1. ASSUME NEW h \in Handle,
                 \/ Enter(h) \/ EnterInterrupted(h)
                 \/ \E failed \in BOOLEAN : Leave(h, failed)
          PROVE  \E where \in {"open", "cut", "left"} :
                    /\ h \in plan.handles /\ plan' = plan
                    /\ at' = [at EXCEPT ![h] = where]
      BY <1>1, <3>1
         DEF Enter, EnterInterrupted, MayEnter, Leave, InnermostOpen
    <3>2. CASE \E h \in Handle :
                  \/ Enter(h) \/ EnterInterrupted(h)
                  \/ \E failed \in BOOLEAN : Leave(h, failed)
      BY <3>1, <3>2
    <3>3. CASE ~\E h \in Handle :
                  \/ Enter(h) \/ EnterInterrupted(h)
                  \/ \E failed \in BOOLEAN : Leave(h, failed)
      BY <1>2, <3>3
         DEF LifecycleNext, OpenTask, ReportTask, LeaveTask, ReportEnd,
             ReportInterrupted, ReportInvalid, StoreEvent, StoreOutcome
    <3> QED
      BY <3>2, <3>3
  <2>2. \A h \in Handle : at[h] # "new" => at'[h] # "new"
    BY <1>1, <2>1
  <2>3. \A h \in Handle : at'[h] # "new" => h \in plan.handles
    BY <1>1, <2>1
  <2> QED
    BY <1>1, <1>2, <2>1, <2>2, <2>3 DEF BlocksEntered
<1>3. ASSUME NEW t \in plan.tasks, NEW by \in Step \cup {Nil}, Call(t, by)
      PROVE  BlocksEntered'
  <2>1. by # Nil => at[by] # "new"
    BY <1>3 DEF Call
  <2>2. /\ traces' = traces \cup {[task |-> t, by |-> by]}
        /\ at' = at /\ plan' = plan
    BY <1>3 DEF Call
  <2>3. \A trace \in traces' : trace.by # Nil => at[trace.by] # "new"
    BY <1>1, <2>1, <2>2
  <2> QED
    BY <1>1, <2>2, <2>3 DEF BlocksEntered
<1>4. ASSUME NEW t \in plan.tasks, Ceiling(t) \/ Mix(t) \/ GoIdle(t)
      PROVE  BlocksEntered'
  BY <1>1, <1>4 DEF Ceiling, Mix, GoIdle, BlocksEntered
<1> QED
  BY <1>2, <1>3, <1>4 DEF Next

-----------------------------------------------------------------------------
(* Ends *)

LEMMA EndsKept ==
    ASSUME NEW g \in Handle, EndsOnceOf(g), EndsBy(g)' = EndsBy(g),
           terminal'[g] = terminal[g], ended'[g] = ended[g],
           at'[g] = "left" <=> at[g] = "left"
    PROVE  EndsOnceOf(g)'
<1>1. Over(g)' <=> Over(g)
  BY DEF Over
<1> QED
  BY <1>1 DEF EndsOnceOf

LEMMA EndsKeptBy ==
    ASSUME NEW g, NEW h, NEW status, NEW success, Emit(h, status, success),
           UNCHANGED <<events, toolEvents>>, g # h \/ status \notin Statuses
    PROVE  EndsBy(g)' = EndsBy(g)
<1>1. Posted' = Posted \cup {NewEvent(h, status, success)}
  BY EmitPosted
<1>2. /\ NewEvent(h, status, success).handle = h
      /\ NewEvent(h, status, success).status = status
  BY DEF NewEvent
<1> QED
  BY <1>1, <1>2 DEF EndsBy

\* The end of a block that had none.
LEMMA EndGiven ==
    ASSUME Inv, NEW h \in Handle \ interrupted, NEW status \in Statuses,
           NEW success, Emit(h, status, success),
           UNCHANGED <<events, toolEvents>>,
           ~Over(h), Over(h)', ended'[h] = status
    PROVE  EndsOnceOf(h)'
<1> DEFINE e == NewEvent(h, status, success)
<1>1. Posted' = Posted \cup {e}
  BY EmitPosted
<1>2. e.handle = h /\ e.status = status
  BY DEF NewEvent
<1>3. EndsBy(h) = {}
  BY DEF Inv, EndsOnce, EndsOnceOf
<1> HIDE DEF e
<1>4. EndsBy(h)' = {e}
  BY <1>1, <1>2, <1>3 DEF EndsBy
<1> QED
  BY <1>2, <1>4 DEF EndsOnceOf

LEMMA EndsStep ==
    ASSUME Inv, Next PROVE EndsOnce'
<1> USE DEF lifecycleVars, taskVars, handleVars, rowVars, historyVars
<1>1. /\ at \in [Handle -> {"new", "open", "cut", "left"}]
      /\ terminal \in [Handle -> BOOLEAN]
      /\ ended \in [Handle -> Statuses \cup {Nil}]
      /\ \A g \in Handle \ interrupted : EndsOnceOf(g)
  BY DEF Inv, Types, LifecycleTypes, EndsOnce
<1>2. ASSUME UNCHANGED <<at, terminal, ended, interrupted>>,
             Posted' = Posted
      PROVE  EndsOnce'
  <2>1. \A g \in Handle : EndsBy(g)' = EndsBy(g)
    BY <1>2 DEF EndsBy
  <2> QED
    BY <1>1, <1>2, <2>1, EndsKept DEF EndsOnce
<1>3. ASSUME UNCHANGED <<at, terminal, ended, interrupted, eventPosts, events,
                         toolEvents>>
      PROVE  EndsOnce'
  BY <1>2, <1>3 DEF Posted, Rows
<1>4. ASSUME NEW h \in Handle, Enter(h) \/ EnterInterrupted(h)
      PROVE  EndsOnce'
  <2>1. /\ at[h] = "new" /\ Emit(h, "started", Nil)
        /\ UNCHANGED <<events, toolEvents, terminal, ended>>
        /\ at' = [at EXCEPT ![h] = "open"] \/ at' = [at EXCEPT ![h] = "cut"]
        /\ interrupted \subseteq interrupted'
    BY <1>4 DEF Enter, EnterInterrupted, MayEnter, Interrupt
  <2>2. \A g \in Handle : EndsBy(g)' = EndsBy(g)
    BY <2>1, EndsKeptBy DEF Statuses
  <2>3. \A g \in Handle : at'[g] = "left" <=> at[g] = "left"
    BY <1>1, <2>1
  <2> QED
    BY <1>1, <2>1, <2>2, <2>3, EndsKept DEF EndsOnce
<1>5. ASSUME NEW h \in Handle, NEW status \in Statuses,
             NEW success \in Success, ReportEnd(h, status, success)
      PROVE  EndsOnce'
  <2> DEFINE s == Defaulted(h, status, success)
  <2>1. /\ at[h] = "open" /\ ~terminal[h] /\ Emit(h, status, s)
        /\ UNCHANGED <<events, toolEvents, at, interrupted>>
        /\ terminal' = [terminal EXCEPT ![h] = TRUE]
        /\ ended' = [ended EXCEPT ![h] = status]
    BY <1>5 DEF ReportEnd
  <2> HIDE DEF s
  <2>2. ASSUME NEW g \in Handle \ interrupted, g # h PROVE EndsOnceOf(g)'
    <3>1. EndsBy(g)' = EndsBy(g)
      BY <2>1, <2>2, EndsKeptBy
    <3> QED
      BY <1>1, <2>1, <2>2, <3>1, EndsKept
  <2>3. ~Over(h) /\ Over(h)' /\ ended'[h] = status
    BY <1>1, <2>1 DEF Over
  <2>4. ASSUME h \notin interrupted PROVE EndsOnceOf(h)'
    BY <2>1, <2>3, <2>4, EndGiven
  <2> QED
    BY <2>1, <2>2, <2>4 DEF EndsOnce
<1>6. ASSUME NEW h \in Handle, NEW status \in Statuses,
             NEW success \in Success, ReportInterrupted(h, status, success)
      PROVE  EndsOnce'
  <2> DEFINE s == Defaulted(h, status, success)
  <2>1. /\ Emit(h, status, s)
        /\ UNCHANGED <<events, toolEvents, at, terminal, ended>>
        /\ interrupted' = interrupted \cup {h}
    BY <1>6 DEF ReportInterrupted, Interrupt
  <2> HIDE DEF s
  <2>2. ASSUME NEW g \in Handle \ interrupted, g # h PROVE EndsOnceOf(g)'
    <3>1. EndsBy(g)' = EndsBy(g)
      BY <2>1, <2>2, EndsKeptBy
    <3> QED
      BY <1>1, <2>1, <2>2, <3>1, EndsKept
  <2> QED
    BY <2>1, <2>2 DEF EndsOnce
<1>7. ASSUME NEW h \in Handle, ReportInvalid(h) PROVE EndsOnce'
  <2>1. /\ h \in Tool /\ at[h] = "open" /\ ~terminal[h]
        /\ terminal' = [terminal EXCEPT ![h] = TRUE]
        /\ UNCHANGED <<at, ended, interrupted, eventPosts, events, toolEvents>>
    BY <1>7 DEF ReportInvalid
  <2>2. \A g \in Handle : EndsBy(g)' = EndsBy(g)
    BY <2>1 DEF EndsBy, Posted, Rows
  <2>3. ASSUME NEW g \in Handle \ interrupted, g # h PROVE EndsOnceOf(g)'
    BY <1>1, <2>1, <2>2, <2>3, EndsKept
  <2>4. ASSUME h \notin interrupted PROVE EndsOnceOf(h)'
    <3>1. ~Over(h) /\ EndsBy(h) = {}
      BY <1>1, <2>1, <2>4 DEF Over, EndsOnceOf
    <3> QED
      BY <2>1, <2>2, <3>1 DEF EndsOnceOf
  <2> QED
    BY <2>1, <2>3, <2>4 DEF EndsOnce
<1>8. ASSUME NEW h \in Handle, NEW failed \in BOOLEAN, Leave(h, failed)
      PROVE  EndsOnce'
  <2> DEFINE status == IF failed THEN "failed" ELSE "completed"
             s == Defaulted(h, status, Nil)
  <2>1. /\ at[h] = "open" /\ at' = [at EXCEPT ![h] = "left"]
        /\ UNCHANGED <<events, toolEvents, terminal, interrupted>>
        /\ IF terminal[h] THEN UNCHANGED <<emits, eventPosts, ended>>
           ELSE Emit(h, status, s) /\ ended' = [ended EXCEPT ![h] = status]
    BY <1>8 DEF Leave, InnermostOpen
  <2>2. status \in Statuses
    BY DEF Statuses
  <2> HIDE DEF status, s
  <2>3. CASE terminal[h]
    <3>1. \A g \in Handle : EndsBy(g)' = EndsBy(g)
      BY <2>1, <2>3 DEF EndsBy, Posted, Rows
    <3>2. ASSUME NEW g \in Handle \ interrupted, g # h PROVE EndsOnceOf(g)'
      BY <1>1, <2>1, <2>3, <3>1, <3>2, EndsKept
    <3>3. ASSUME h \notin interrupted PROVE EndsOnceOf(h)'
      <4>1. Over(h) /\ Over(h)' /\ ended' = ended /\ EndsOnceOf(h)
        BY <1>1, <2>1, <2>3, <3>3 DEF Over
      <4> QED
        BY <3>1, <4>1 DEF EndsOnceOf
    <3> QED
      BY <2>1, <3>2, <3>3 DEF EndsOnce
  <2>4. CASE ~terminal[h]
    <3>1. ASSUME NEW g \in Handle \ interrupted, g # h PROVE EndsOnceOf(g)'
      <4>1. EndsBy(g)' = EndsBy(g)
        BY <2>1, <2>4, <3>1, EndsKeptBy
      <4> QED
        BY <1>1, <2>1, <2>4, <3>1, <4>1, EndsKept
    <3>2. ~Over(h) /\ Over(h)' /\ ended'[h] = status
      BY <1>1, <2>1, <2>4 DEF Over
    <3>3. ASSUME h \notin interrupted PROVE EndsOnceOf(h)'
      BY <2>1, <2>2, <2>4, <3>2, <3>3, EndGiven
    <3> QED
      BY <2>1, <3>1, <3>3 DEF EndsOnce
  <2> QED
    BY <2>3, <2>4
<1>9. ASSUME NEW e \in eventPosts, NEW again \in BOOLEAN, StoreEvent(e, again)
      PROVE  EndsOnce'
  <2>1. Posted' = Posted
    BY <1>9, StorePosted DEF Inv, Types
  <2> QED
    BY <1>2, <1>9, <2>1 DEF StoreEvent
<1>10. ASSUME NEW t \in Task,
              \/ OpenTask(t) \/ \E report \in Report : ReportTask(t, report)
              \/ \E failed \in BOOLEAN : LeaveTask(t, failed)
       PROVE  EndsOnce'
  BY <1>3, <1>10 DEF OpenTask, ReportTask, LeaveTask
<1>11. ASSUME NEW o \in outcomePosts, StoreOutcome(o) PROVE EndsOnce'
  BY <1>3, <1>11 DEF StoreOutcome
<1>12. CASE LifecycleNext
  BY <1>4, <1>5, <1>6, <1>7, <1>8, <1>9, <1>10, <1>11, <1>12
     DEF LifecycleNext
<1>13. CASE UNCHANGED lifecycleVars
  BY <1>3, <1>13
<1> QED
  BY <1>12, <1>13, TraceStep

-----------------------------------------------------------------------------
(* Reports of tasks *)

NewOutcome(t, report, by) ==
    [task |-> t, n |-> posts[t] + 1, report |-> report, by |-> by]

LEMMA PostSaid ==
    ASSUME NEW t \in Task, NEW report, NEW by, PostOutcome(t, report, by),
           UNCHANGED outcomes
    PROVE  /\ Said(t)' = Said(t) \cup {NewOutcome(t, report, by)}
           /\ \A u \in Task : u # t => Said(u)' = Said(u)
<1> DEFINE o == NewOutcome(t, report, by)
<1>1. outcomePosts' = outcomePosts \cup {o}
  BY DEF PostOutcome, NewOutcome
<1>2. o.task = t
  BY DEF NewOutcome
<1> HIDE DEF o
<1>3. \A u : Rows(outcomes[u])' = Rows(outcomes[u])
  BY DEF Rows
<1>4. Said(t)' = Said(t) \cup {o}
  BY <1>1, <1>2, <1>3 DEF Said
<1>5. \A u \in Task : u # t => Said(u)' = Said(u)
  BY <1>1, <1>2, <1>3 DEF Said
<1> QED
  BY <1>4, <1>5 DEF o

LEMMA StoreSaid ==
    ASSUME OutcomeTypes, NEW o \in outcomePosts, StoreOutcome(o)
    PROVE  \A u \in Task : Said(u)' = Said(u)
<1>1. o \in Outcome /\ o.task \in Task /\ outcomes \in [Task -> Seq(Outcome)]
  BY DEF OutcomeTypes, Outcome
<1>2. /\ outcomes' = [outcomes EXCEPT ![o.task] = Append(outcomes[o.task], o)]
      /\ outcomePosts' = outcomePosts \ {o}
  BY DEF StoreOutcome
<1>3. outcomes[o.task] \in Seq(Outcome)
  BY <1>1
<1>4. Rows(Append(outcomes[o.task], o)) = Rows(outcomes[o.task]) \cup {o}
  BY <1>1, <1>3, RowsAppend
<1>5. ASSUME NEW u \in Task, u # o.task PROVE Said(u)' = Said(u)
  <2>1. outcomes'[u] = outcomes[u]
    BY <1>1, <1>2, <1>5
  <2> QED
    BY <1>2, <1>5, <2>1 DEF Said, Rows
<1>6. Said(o.task)' = Said(o.task)
  <2>1. outcomes'[o.task] = Append(outcomes[o.task], o)
    BY <1>1, <1>2
  <2>2. Rows(outcomes[o.task])' = Rows(outcomes[o.task]) \cup {o}
    BY <1>4, <2>1 DEF Rows
  <2> QED
    BY <1>2, <2>2 DEF Said
<1> QED
  BY <1>5, <1>6

\* The ways the reports of tasks change.
Posts(t, report, by) == PostOutcome(t, report, by) /\ UNCHANGED outcomes

LEMMA TaskReport ==
    ASSUME NEW t \in Task, NEW report \in Report, ReportTask(t, report)
    PROVE  \E by \in {"block", "after"} :
              /\ by = "block" <=> app[t] = "open"
              /\ Posts(t, report, by)
BY DEF ReportTask, Posts, rowVars

LEMMA ReportsSame ==
    ASSUME LifecycleNext
    PROVE  \/ \E t \in Task, report \in Report : ReportTask(t, report)
           \/ \E t \in Task, failed \in BOOLEAN : LeaveTask(t, failed)
           \/ \E o \in outcomePosts : StoreOutcome(o)
           \/ /\ UNCHANGED <<posts, outcomePosts, outcomes, reported>>
              /\ told \subseteq told'
              /\ \A t \in Task : app[t] = "left" => app'[t] = "left"
<1> USE DEF taskVars, handleVars, rowVars, historyVars
<1> DEFINE Same == /\ UNCHANGED <<posts, outcomePosts, outcomes, reported>>
                   /\ told \subseteq told'
                   /\ \A t \in Task : app[t] = "left" => app'[t] = "left"
<1>1. ASSUME NEW t \in Task, OpenTask(t) PROVE Same
  BY <1>1 DEF OpenTask
<1>2. ASSUME NEW h \in Handle,
             \/ Enter(h) \/ EnterInterrupted(h) \/ ReportInvalid(h)
             \/ \E failed \in BOOLEAN : Leave(h, failed)
      PROVE  Same
  BY <1>2 DEF Enter, EnterInterrupted, ReportInvalid, Leave
<1>3. ASSUME NEW h \in Handle, NEW status \in Statuses, NEW success \in Success,
             \/ ReportEnd(h, status, success)
             \/ ReportInterrupted(h, status, success)
      PROVE  Same
  BY <1>3 DEF ReportEnd, ReportInterrupted, Tell
<1>4. ASSUME NEW e \in eventPosts, NEW again \in BOOLEAN, StoreEvent(e, again)
      PROVE  Same
  BY <1>4 DEF StoreEvent
<1> HIDE DEF Same
<1>5. \/ \E t \in Task, report \in Report : ReportTask(t, report)
      \/ \E t \in Task, failed \in BOOLEAN : LeaveTask(t, failed)
      \/ \E o \in outcomePosts : StoreOutcome(o)
      \/ Same
  BY <1>1, <1>2, <1>3, <1>4 DEF LifecycleNext
<1> QED
  BY <1>5 DEF Same

LEMMA KindStep ==
    ASSUME Inv, Next PROVE OneKindOfReport'
<1> USE DEF lifecycleVars, taskVars, handleVars, rowVars, historyVars
<1> DEFINE Goal == \A t \in Task : OneKindOf(t)'
<1>1. /\ app \in [Task -> {"new", "open", "left"}]
      /\ reported \in [Task -> BOOLEAN]
      /\ \A t \in Task : OneKindOf(t)
  BY DEF Inv, Types, LifecycleTypes, OneKindOfReport
<1>2. SUFFICES Goal
  BY DEF OneKindOfReport
<1>3. ASSUME \A t \in Task : Said(t)' = Said(t),
             \A t \in Task : reported[t] => reported'[t],
             \A t \in Task : app[t] = "left" => app'[t] = "left"
      PROVE  Goal
  BY <1>1, <1>3 DEF OneKindOf
<1>4. ASSUME NEW t \in Task, NEW report \in Report, ReportTask(t, report)
      PROVE  Goal
  <2>1. PICK by \in {"block", "after"} :
           (by = "block" <=> app[t] = "open") /\ Posts(t, report, by)
    BY <1>4, TaskReport
  <2>2. app' = app /\ reported' = [reported EXCEPT ![t] = TRUE]
    BY <1>4 DEF ReportTask
  <2> DEFINE o == NewOutcome(t, report, by)
  <2>3. o.task = t /\ o.by = by
    BY DEF NewOutcome
  <2>4. /\ Said(t)' = Said(t) \cup {o}
        /\ \A u \in Task : u # t => Said(u)' = Said(u)
    BY <2>1, PostSaid DEF Posts
  <2> HIDE DEF o
  <2> QED
    BY <1>1, <2>1, <2>2, <2>3, <2>4 DEF OneKindOf
<1>5. ASSUME NEW t \in Task, NEW failed \in BOOLEAN, LeaveTask(t, failed)
      PROVE  Goal
  <2>1. CASE failed /\ ~reported[t]
    <3>1. /\ Posts(t, "failure", "exit")
          /\ app' = [app EXCEPT ![t] = "left"]
          /\ reported' = [reported EXCEPT ![t] = TRUE]
      BY <1>5, <2>1 DEF LeaveTask, Posts
    <3> DEFINE o == NewOutcome(t, "failure", "exit")
    <3>2. o.task = t /\ o.by = "exit"
      BY DEF NewOutcome
    <3>3. /\ Said(t)' = Said(t) \cup {o}
          /\ \A u \in Task : u # t => Said(u)' = Said(u)
      BY <3>1, PostSaid DEF Posts
    <3> HIDE DEF o
    <3> QED
      BY <1>1, <2>1, <3>1, <3>2, <3>3 DEF OneKindOf
  <2>2. CASE ~(failed /\ ~reported[t])
    <3>1. /\ app' = [app EXCEPT ![t] = "left"]
          /\ UNCHANGED <<reported, outcomePosts, outcomes>>
      BY <1>5, <2>2 DEF LeaveTask
    <3>2. \A u \in Task : Said(u)' = Said(u)
      BY <3>1 DEF Said, Rows
    <3> QED
      BY <1>1, <1>3, <3>1, <3>2
  <2> QED
    BY <2>1, <2>2
<1>6. ASSUME NEW o \in outcomePosts, StoreOutcome(o) PROVE Goal
  <2>1. \A u \in Task : Said(u)' = Said(u)
    BY <1>6, StoreSaid DEF Inv, Types
  <2> QED
    BY <1>3, <1>6, <2>1 DEF StoreOutcome
<1>7. ASSUME UNCHANGED <<outcomePosts, outcomes, reported>>,
             \A t \in Task : app[t] = "left" => app'[t] = "left"
      PROVE  Goal
  <2>1. \A u \in Task : Said(u)' = Said(u)
    BY <1>7 DEF Said, Rows
  <2> QED
    BY <1>3, <1>7, <2>1
<1>8. CASE LifecycleNext
  BY <1>4, <1>5, <1>6, <1>7, <1>8, ReportsSame
<1>9. CASE UNCHANGED lifecycleVars
  BY <1>7, <1>9
<1> QED
  BY <1>8, <1>9, TraceStep

LEMMA TaskSuccessStep ==
    ASSUME Inv, Next PROVE TaskSuccessesTold'
<1> USE DEF lifecycleVars, taskVars, handleVars, rowVars, historyVars
<1>1. \A t \in Task : \A o \in Said(t) : o.report = "success" => t \in told
  BY DEF Inv, TaskSuccessesTold
<1>2. ASSUME \A t \in Task : Said(t)' = Said(t), told \subseteq told'
      PROVE  TaskSuccessesTold'
  BY <1>1, <1>2 DEF TaskSuccessesTold
<1>3. ASSUME UNCHANGED <<outcomePosts, outcomes>>, told \subseteq told'
      PROVE  TaskSuccessesTold'
  <2>1. \A u \in Task : Said(u)' = Said(u)
    BY <1>3 DEF Said, Rows
  <2> QED
    BY <1>2, <1>3, <2>1
<1>4. ASSUME NEW t \in Task, NEW report \in Report, NEW by,
             Posts(t, report, by), told \subseteq told',
             report = "success" => t \in told'
      PROVE  TaskSuccessesTold'
  <2> DEFINE o == NewOutcome(t, report, by)
  <2>1. o.report = report
    BY DEF NewOutcome
  <2>2. /\ Said(t)' = Said(t) \cup {o}
        /\ \A u \in Task : u # t => Said(u)' = Said(u)
    BY <1>4, PostSaid DEF Posts
  <2> HIDE DEF o
  <2> QED
    BY <1>1, <1>4, <2>1, <2>2 DEF TaskSuccessesTold
<1>5. ASSUME NEW t \in Task, NEW report \in Report, ReportTask(t, report)
      PROVE  TaskSuccessesTold'
  <2>1. told \subseteq told' /\ (report = "success" => t \in told')
    BY <1>5 DEF ReportTask
  <2> QED
    BY <1>4, <1>5, <2>1, TaskReport
<1>6. ASSUME NEW t \in Task, NEW failed \in BOOLEAN, LeaveTask(t, failed)
      PROVE  TaskSuccessesTold'
  <2>1. CASE failed /\ ~reported[t]
    <3>1. Posts(t, "failure", "exit") /\ told' = told
      BY <1>6, <2>1 DEF LeaveTask, Posts
    <3> QED
      BY <1>4, <3>1 DEF Report
  <2>2. CASE ~(failed /\ ~reported[t])
    BY <1>3, <1>6, <2>2 DEF LeaveTask
  <2> QED
    BY <2>1, <2>2
<1>7. ASSUME NEW o \in outcomePosts, StoreOutcome(o)
      PROVE  TaskSuccessesTold'
  <2>1. \A u \in Task : Said(u)' = Said(u)
    BY <1>7, StoreSaid DEF Inv, Types
  <2> QED
    BY <1>2, <1>7, <2>1 DEF StoreOutcome
<1>8. CASE LifecycleNext
  BY <1>3, <1>5, <1>6, <1>7, <1>8, ReportsSame
<1>9. CASE UNCHANGED lifecycleVars
  BY <1>3, <1>9
<1> QED
  BY <1>8, <1>9, TraceStep

LEMMA StepSuccessStep ==
    ASSUME Inv, Next PROVE StepSuccessesTold'
<1> USE DEF lifecycleVars, taskVars, handleVars, rowVars, historyVars
<1>1. \A e \in Posted : e.success = TRUE /\ e.handle \notin Tool =>
                            e.handle \in told
  BY DEF Inv, StepSuccessesTold
<1>2. ASSUME Posted' = Posted, told \subseteq told'
      PROVE  StepSuccessesTold'
  BY <1>1, <1>2 DEF StepSuccessesTold
<1>3. ASSUME UNCHANGED <<eventPosts, events, toolEvents>>,
             told \subseteq told'
      PROVE  StepSuccessesTold'
  BY <1>2, <1>3 DEF Posted, Rows
<1>4. ASSUME NEW h \in Handle, NEW status, NEW success,
             Emit(h, status, success), UNCHANGED <<events, toolEvents>>,
             told \subseteq told',
             success = TRUE /\ h \notin Tool => h \in told'
      PROVE  StepSuccessesTold'
  <2> DEFINE e == NewEvent(h, status, success)
  <2>1. e.handle = h /\ e.success = success
    BY DEF NewEvent
  <2>2. Posted' = Posted \cup {e}
    BY <1>4, EmitPosted
  <2> HIDE DEF e
  <2> QED
    BY <1>1, <1>4, <2>1, <2>2 DEF StepSuccessesTold
<1>5. Nil # TRUE
  BY LifecycleAssumption
<1>6. ASSUME NEW h \in Handle, Enter(h) \/ EnterInterrupted(h)
      PROVE  StepSuccessesTold'
  <2>1. Emit(h, "started", Nil) /\ UNCHANGED <<events, toolEvents, told>>
    BY <1>6 DEF Enter, EnterInterrupted, Interrupt
  <2> QED
    BY <1>4, <1>5, <2>1
<1>7. ASSUME NEW h \in Handle, NEW status \in Statuses,
             NEW success \in Success,
             \/ ReportEnd(h, status, success)
             \/ ReportInterrupted(h, status, success)
      PROVE  StepSuccessesTold'
  <2> DEFINE s == Defaulted(h, status, success)
  <2>1. /\ Emit(h, status, s) /\ UNCHANGED <<events, toolEvents>>
        /\ Tell(h, success)
    BY <1>7 DEF ReportEnd, ReportInterrupted
  <2>2. h \notin Tool => s = success
    BY DEF Defaulted
  <2>3. told \subseteq told' /\ (success = TRUE => h \in told')
    BY <2>1 DEF Tell
  <2> HIDE DEF s
  <2>4. s = TRUE /\ h \notin Tool => h \in told'
    BY <2>2, <2>3
  <2> QED
    BY <1>4, <2>1, <2>3, <2>4
<1>8. ASSUME NEW h \in Handle, ReportInvalid(h)
      PROVE  StepSuccessesTold'
  BY <1>3, <1>8 DEF ReportInvalid
<1>9. ASSUME NEW h \in Handle, NEW failed \in BOOLEAN, Leave(h, failed)
      PROVE  StepSuccessesTold'
  <2> DEFINE status == IF failed THEN "failed" ELSE "completed"
             s == Defaulted(h, status, Nil)
  <2>1. CASE terminal[h]
    BY <1>3, <1>9, <2>1 DEF Leave
  <2>2. CASE ~terminal[h]
    <3>1. Emit(h, status, s) /\ UNCHANGED <<events, toolEvents, told>>
      BY <1>9, <2>2 DEF Leave
    <3>2. h \notin Tool => s = Nil
      BY DEF Defaulted
    <3> HIDE DEF s, status
    <3> QED
      BY <1>4, <1>5, <3>1, <3>2
  <2> QED
    BY <2>1, <2>2
<1>10. ASSUME NEW e \in eventPosts, NEW again \in BOOLEAN,
              StoreEvent(e, again)
       PROVE  StepSuccessesTold'
  <2>1. Posted' = Posted
    BY <1>10, StorePosted DEF Inv, Types
  <2> QED
    BY <1>2, <1>10, <2>1 DEF StoreEvent
<1>11. ASSUME NEW t \in Task,
              \/ OpenTask(t) \/ \E report \in Report : ReportTask(t, report)
              \/ \E failed \in BOOLEAN : LeaveTask(t, failed)
       PROVE  StepSuccessesTold'
  BY <1>3, <1>11 DEF OpenTask, ReportTask, LeaveTask
<1>12. ASSUME NEW o \in outcomePosts, StoreOutcome(o)
       PROVE  StepSuccessesTold'
  BY <1>3, <1>12 DEF StoreOutcome
<1>13. CASE LifecycleNext
  BY <1>6, <1>7, <1>8, <1>9, <1>10, <1>11, <1>12, <1>13 DEF LifecycleNext
<1>14. CASE UNCHANGED lifecycleVars
  BY <1>3, <1>14
<1> QED
  BY <1>13, <1>14, TraceStep

LEMMA CountedPost ==
    ASSUME Inv, NEW t \in Task, NEW report, NEW by, Posts(t, report, by)
    PROVE  OutcomesCounted'
<1> DEFINE o == NewOutcome(t, report, by)
<1>1. /\ posts \in [Task -> Nat]
      /\ outcomePosts \subseteq Outcome /\ IsFiniteSet(outcomePosts)
      /\ \A x \in outcomePosts : x.task \in Task /\ x.n <= posts[x.task]
      /\ \A u \in Task : posts[u] = Len(outcomes[u]) + Cardinality(InFlight(u))
  BY DEF Inv, Types, LifecycleTypes, OutcomeTypes, Outcome, OutcomesCounted
<1>2. /\ posts' = [posts EXCEPT ![t] = posts[t] + 1]
      /\ outcomePosts' = outcomePosts \cup {o} /\ outcomes' = outcomes
  BY DEF Posts, PostOutcome, NewOutcome
<1>3. o.task = t /\ o.n = posts[t] + 1
  BY DEF NewOutcome
<1> HIDE DEF o
<1>4. \A x \in outcomePosts' : x.n <= posts'[x.task]
  <2>1. \A u \in Task :
           posts'[u] = IF u = t THEN posts[t] + 1 ELSE posts[u]
    BY <1>1, <1>2
  <2>2. \A x \in outcomePosts : x.n \in Nat
    BY <1>1 DEF Outcome
  <2>3. \A x \in outcomePosts : x.n <= posts'[x.task]
    BY <1>1, <2>1, <2>2
  <2> QED
    BY <1>1, <1>2, <1>3, <2>1, <2>3
<1>5. ASSUME NEW u \in Task, u # t
      PROVE  posts'[u] = Len(outcomes'[u]) + Cardinality(InFlight(u)')
  <2>1. InFlight(u)' = InFlight(u)
    BY <1>2, <1>3, <1>5 DEF InFlight
  <2>2. posts'[u] = posts[u]
    BY <1>1, <1>2, <1>5
  <2> QED
    BY <1>1, <1>2, <2>1, <2>2
<1>6. posts'[t] = Len(outcomes'[t]) + Cardinality(InFlight(t)')
  <2>1. InFlight(t)' = InFlight(t) \cup {o}
    BY <1>2, <1>3 DEF InFlight
  <2>2. o \notin InFlight(t)
    BY <1>1, <1>3 DEF InFlight
  <2>3. InFlight(t) \in SUBSET outcomePosts
    BY DEF InFlight
  <2>4. IsFiniteSet(InFlight(t)) /\ Cardinality(InFlight(t)) \in Nat
    BY <1>1, <2>3, FS_Subset, FS_CardinalityType
  <2>5. Cardinality(InFlight(t) \cup {o}) = Cardinality(InFlight(t)) + 1
    BY <2>2, <2>4, FS_AddElement
  <2>6. outcomes[t] \in Seq(Outcome) /\ Len(outcomes[t]) \in Nat
    BY DEF Inv, Types, OutcomeTypes
  <2>7. posts'[t] = posts[t] + 1
    BY <1>1, <1>2
  <2> QED
    BY <1>1, <1>2, <2>1, <2>4, <2>5, <2>6, <2>7
<1> QED
  BY <1>4, <1>5, <1>6 DEF OutcomesCounted

LEMMA CountedStore ==
    ASSUME Inv, NEW o \in outcomePosts, StoreOutcome(o)
    PROVE  OutcomesCounted'
<1>1. /\ posts \in [Task -> Nat]
      /\ outcomePosts \subseteq Outcome /\ IsFiniteSet(outcomePosts)
      /\ outcomes \in [Task -> Seq(Outcome)]
      /\ \A x \in outcomePosts : x.n <= posts[x.task]
      /\ \A u \in Task : posts[u] = Len(outcomes[u]) + Cardinality(InFlight(u))
  BY DEF Inv, Types, LifecycleTypes, OutcomeTypes, OutcomesCounted
<1>2. /\ posts' = posts /\ outcomePosts' = outcomePosts \ {o}
      /\ outcomes' = [outcomes EXCEPT ![o.task] = Append(outcomes[o.task], o)]
  BY DEF StoreOutcome, taskVars
<1>3. o \in Outcome /\ o.task \in Task
  BY <1>1 DEF Outcome
<1>4. ASSUME NEW u \in Task, u # o.task
      PROVE  posts'[u] = Len(outcomes'[u]) + Cardinality(InFlight(u)')
  <2>1. InFlight(u)' = InFlight(u)
    BY <1>2, <1>4 DEF InFlight
  <2>2. outcomes'[u] = outcomes[u]
    BY <1>1, <1>2, <1>4
  <2> QED
    BY <1>1, <1>2, <2>1, <2>2
<1>5. posts'[o.task] = Len(outcomes'[o.task]) + Cardinality(InFlight(o.task)')
  <2> DEFINE t == o.task
  <2>1. InFlight(t)' = InFlight(t) \ {o} /\ o \in InFlight(t)
    BY <1>2 DEF InFlight
  <2>2. InFlight(t) \in SUBSET outcomePosts
    BY DEF InFlight
  <2>3. IsFiniteSet(InFlight(t)) /\ Cardinality(InFlight(t)) \in Nat
    BY <1>1, <2>2, FS_Subset, FS_CardinalityType
  <2>4. Cardinality(InFlight(t) \ {o}) = Cardinality(InFlight(t)) - 1
    BY <2>1, <2>3, FS_RemoveElement
  <2>5. outcomes[t] \in Seq(Outcome)
    BY <1>1, <1>3
  <2>6. /\ Len(Append(outcomes[t], o)) = Len(outcomes[t]) + 1
        /\ Len(outcomes[t]) \in Nat
    BY <1>3, <2>5
  <2>7. outcomes'[t] = Append(outcomes[t], o)
    BY <1>1, <1>2, <1>3
  <2> QED
    BY <1>1, <1>2, <1>3, <2>1, <2>3, <2>4, <2>6, <2>7
<1> QED
  BY <1>1, <1>2, <1>4, <1>5 DEF OutcomesCounted

LEMMA CountedStep ==
    ASSUME Inv, Next PROVE OutcomesCounted'
<1> USE DEF lifecycleVars, taskVars, rowVars
<1>1. ASSUME UNCHANGED <<posts, outcomePosts, outcomes>>
      PROVE  OutcomesCounted'
  BY <1>1 DEF Inv, OutcomesCounted, InFlight
<1>2. ASSUME NEW t \in Task, NEW failed \in BOOLEAN, LeaveTask(t, failed)
      PROVE  OutcomesCounted'
  <2>1. CASE failed /\ ~reported[t]
    BY <1>2, <2>1, CountedPost DEF LeaveTask, Posts
  <2>2. CASE ~(failed /\ ~reported[t])
    BY <1>1, <1>2, <2>2 DEF LeaveTask
  <2> QED
    BY <2>1, <2>2
<1>3. CASE LifecycleNext
  BY <1>1, <1>2, <1>3, ReportsSame, TaskReport, CountedPost, CountedStore
<1>4. CASE UNCHANGED lifecycleVars
  BY <1>1, <1>4
<1> QED
  BY <1>3, <1>4, TraceStep

-----------------------------------------------------------------------------
(* The invariant holds *)

LEMMA InvInit == Init => Inv
<1> SUFFICES ASSUME Init PROVE Inv
  OBVIOUS
<1> USE DEF Init, LifecycleInit
<1>1. /\ plan.maxEmits \in Nat /\ plan.maxResends \in Nat
  BY PlanFacts
<1>2. Rows(<<>>) = {}
  BY DEF Rows
<1>3. Posted = {} /\ \A t \in Task : Said(t) = {} /\ InFlight(t) = {}
  BY <1>2 DEF Posted, Said, InFlight
<1>4. LifecycleTypes
  BY <1>1 DEF LifecycleTypes
<1>5. EventTypes /\ OutcomeTypes /\ TraceTypes
  BY FS_EmptySet DEF EventTypes, OutcomeTypes, TraceTypes
<1>6. EventsNumbered /\ BlocksEntered
  BY <1>1, <1>3 DEF EventsNumbered, BlocksEntered
<1>7. EndsOnce
  BY <1>3 DEF EndsOnce, EndsOnceOf, EndsBy, Over
<1>8. StepSuccessesTold /\ TaskSuccessesTold /\ OneKindOfReport
  BY <1>3 DEF StepSuccessesTold, TaskSuccessesTold, OneKindOfReport, OneKindOf
<1>9. OutcomesCounted
  <2>1. ASSUME NEW t \in Task
        PROVE  posts[t] = Len(outcomes[t]) + Cardinality(InFlight(t))
    <3>1. InFlight(t) = {}
      BY <1>3
    <3>2. Cardinality(InFlight(t)) = 0
      BY <3>1, FS_EmptySet
    <3>3. posts[t] = 0 /\ Len(outcomes[t]) = 0
      OBVIOUS
    <3> QED
      BY <3>2, <3>3
  <2> QED
    BY <2>1 DEF OutcomesCounted
<1> QED
  BY <1>4, <1>5, <1>6, <1>7, <1>8, <1>9 DEF Inv, Types

LEMMA InvStutter ==
    ASSUME Inv, UNCHANGED vars PROVE Inv'
BY DEF Inv, vars, lifecycleVars, taskVars, handleVars, rowVars, historyVars,
       traceVars, Types, LifecycleTypes, EventTypes, OutcomeTypes, TraceTypes,
       InData, EventsNumbered, BlocksEntered, EndsOnce, EndsOnceOf, EndsBy,
       Over, StepSuccessesTold, TaskSuccessesTold, OneKindOfReport, OneKindOf,
       OutcomesCounted, InFlight, Posted, Said, Rows

THEOREM EvaluationInv == Spec => []Inv
<1>1. Inv /\ [Next]_vars => Inv'
  <2>1. ASSUME Inv, Next PROVE Inv'
    BY <2>1, TypesStep, NumberedStep, EnteredStep, EndsStep, StepSuccessStep,
       TaskSuccessStep, KindStep, CountedStep
       DEF Inv
  <2> QED
    BY <2>1, InvStutter
<1> QED
  BY InvInit, <1>1, PTL DEF Spec

LEMMA InvTypeOK == Inv => TypeOK
<1> SUFFICES ASSUME Inv PROVE TypeOK
  OBVIOUS
<1>1. AreEvents(eventPosts \cup Rows(events) \cup toolEvents)
  <2>1. ASSUME NEW e \in Posted
        PROVE  /\ e.handle \in plan.handles /\ e.n \in 1 .. emits[e.handle]
               /\ e.status \in Statuses \cup {"started"}
               /\ e.success \in Success
    <3>1. e \in Event
      BY RowsAppend DEF Inv, Types, EventTypes, Posted, Rows
    <3> QED
      BY <3>1 DEF Event, Inv, EventsNumbered
  <2> QED
    BY <2>1 DEF AreEvents, Posted
<1>2. \A h \in Handle : emits[h] \in 0 .. plan.maxEmits
  BY PlanFacts DEF Inv, EventsNumbered, Types, LifecycleTypes
<1>3. LifecycleTypeOK
  BY <1>1, <1>2 DEF LifecycleTypeOK, Inv, Types, LifecycleTypes,
                    EventsNumbered, OutcomesCounted, InFlight
<1> QED
  BY <1>3 DEF TypeOK, Inv, Types, TraceTypes

\* The state is well typed: in particular, an outcome that was posted is in
\* flight or among the rows of its task, never both or twice, and the events
\* of the gateway have distinct ids.
THEOREM EvaluationTypeCorrect == Spec => []TypeOK
BY EvaluationInv, InvTypeOK, PTL

-----------------------------------------------------------------------------
(* What the graph, the metrics and the status of a task show *)

LEMMA AtMostOne ==
    ASSUME NEW S, \A x, y \in S : x = y
    PROVE  IsFiniteSet(S) /\ Cardinality(S) \in {0, 1}
<1>1. CASE S = {}
  BY <1>1, FS_EmptySet
<1>2. CASE S # {}
  <2>1. PICK x : x \in S
    BY <1>2
  <2>2. S = {x}
    BY <2>1
  <2> QED
    BY <2>2, FS_Singleton
<1> QED
  BY <1>1, <1>2

\* The latest of some places.
LEMMA Latest ==
    ASSUME NEW n \in Nat, NEW S \in SUBSET (1 .. n), S # {}
    PROVE  \E i \in S : \A j \in S : j <= i
<1> DEFINE T == {k \in Nat : n - k \in S}
<1>1. PICK i \in S : i \in 1 .. n
  OBVIOUS
<1>2. n - i \in T
  BY <1>1
<1>3. PICK k \in T : \A l \in T : ~(<<l, k>> \in OpToRel(<, Nat))
  BY <1>2, NatLessThanWellFounded, WFMin
<1>4. \A l \in T : ~(l < k)
  BY <1>3 DEF OpToRel
<1>5. \A j \in S : n - j \in T
  OBVIOUS
<1>6. ASSUME NEW j \in S PROVE j <= n - k
  <2>1. ~(n - j < k)
    BY <1>4, <1>5
  <2>2. j \in Nat /\ k \in Nat
    OBVIOUS
  <2> QED
    BY <2>1, <2>2
<1> QED
  BY <1>6

LEMMA LastEndIsAnEnd ==
    ASSUME Inv, NEW run, EndsOf(run) # {}
    PROVE  /\ LastEnd(run) \in Posted
           /\ LastEnd(run).handle \in HandlesOf(run)
<1>1. events \in Seq(Event)
  BY DEF Inv, Types, EventTypes
<1>2. EndsOf(run) \in SUBSET (1 .. Len(events)) /\ Len(events) \in Nat
  BY <1>1 DEF EndsOf
<1>3. PICK i \in EndsOf(run) :
         /\ \A j \in EndsOf(run) : j <= i
         /\ LastEnd(run) = events[i]
  BY <1>2, Latest DEF LastEnd
<1> QED
  BY <1>3 DEF EndsOf, Posted, Rows

LEMMA InvOneTerminalEvent == Inv => OneTerminalEvent
<1> SUFFICES ASSUME Inv, NEW h \in Handle \ interrupted
             PROVE  Cardinality({e \in Rows(events) \cup toolEvents :
                        e.handle = h /\ e.status \in Statuses}) <= 1
  BY DEF OneTerminalEvent
<1> DEFINE S == {e \in Rows(events) \cup toolEvents :
                        e.handle = h /\ e.status \in Statuses}
<1>1. \A e, f \in S : e = f
  BY DEF Inv, EndsOnce, EndsOnceOf, EndsBy, Posted
<1> HIDE DEF S
<1>2. Cardinality(S) \in {0, 1}
  BY <1>1, AtMostOne
<1>3. Cardinality(S) <= 1
  BY <1>2
<1> QED
  BY <1>3 DEF S

\* The facts known of a run of one handle, and its ends, are that handle's.
LEMMA OwnFacts ==
    ASSUME Inv, NEW h \in plan.handles \ Tool, h \in Handle,
           HandlesOf(RunOf(h)) \cap plan.handles = {h}
    PROVE  /\ \A i \in EndsOf(RunOf(h)) : events[i] \in EndsBy(h)
           /\ \A field : \A x, y \in Facts(RunOf(h), field) : x = y
<1> DEFINE run == RunOf(h)
<1>1. \A e \in Rows(events) : e.handle \in plan.handles
  BY DEF Inv, EventsNumbered, Posted
<1>2. \A g \in HandlesOf(run) : g \in Handle /\ g # Nil
  BY LifecycleAssumption DEF HandlesOf, Step
<1>3. \A trace \in traces : trace.by \in HandlesOf(run) =>
                               trace.by \in plan.handles
  BY <1>2 DEF Inv, BlocksEntered
<1>4. \A g \in HandlesOf(run) : g \in plan.handles => g = h
  OBVIOUS
<1>5. ASSUME NEW i \in EndsOf(run) PROVE events[i] \in EndsBy(h)
  BY <1>1, <1>4 DEF EndsOf, EndsBy, Posted, Rows
<1>6. ASSUME NEW field, NEW x \in Facts(run, field)
      PROVE  x = Identity[h][field]
  <2> HIDE DEF run
  <2>1. PICK g \in HandlesOf(run) :
           /\ x = Identity[g][field]
           /\ \/ \E e \in Rows(events) : e.handle = g
              \/ \E trace \in traces : trace.by = g
    BY <1>6 DEF Facts
  <2>2. g \in plan.handles
    BY <1>1, <1>3, <2>1
  <2> QED
    BY <1>4, <2>1, <2>2
<1> QED
  BY <1>5, <1>6

\* When every event of a handle has arrived, so has its end.
LEMMA AllArrived ==
    ASSUME Inv, NEW h \in Handle, NEW e \in EndsBy(h),
           Cardinality({x \in Rows(events) : x.handle = h}) = emits[h]
    PROVE  e \in Rows(events)
<1> DEFINE stored == {x \in Rows(events) : x.handle = h}
           others == (1 .. emits[h]) \ {e.n}
           f == [x \in stored |-> x.n]
<1> SUFFICES ASSUME e \notin Rows(events) PROVE FALSE
  OBVIOUS
<1>1. /\ e.handle = h /\ e.n \in 1 .. emits[h] /\ emits[h] \in Nat
      /\ \A x \in stored : x.n \in 1 .. emits[h]
      /\ \A x, y \in stored : x.n = y.n => x = y
      /\ \A x \in stored : x.n # e.n
  BY DEF Inv, Types, LifecycleTypes, EventsNumbered, EndsBy, Posted
<1>2. f \in Injection(stored, others)
  BY <1>1 DEF Injection, IsInjective
<1>3. IsFiniteSet(1 .. emits[h]) /\ Cardinality(1 .. emits[h]) = emits[h]
  BY <1>1, FS_Interval
<1>4. IsFiniteSet(others) /\ Cardinality(others) = emits[h] - 1
  BY <1>1, <1>3, FS_RemoveElement
<1>5. Cardinality(stored) <= Cardinality(others)
  <2>1. IsFiniteSet(others)
    BY <1>4
  <2> HIDE DEF stored, others, f
  <2> QED
    BY ONLY <1>2, <2>1, FS_Injection, Zenon
<1>6. Cardinality(stored) = emits[h]
  OBVIOUS
<1> HIDE DEF stored, others
<1> QED
  BY <1>1, <1>4, <1>5, <1>6

LEMMA InvRunStatusFaithful == Inv => RunStatusFaithful
<1> SUFFICES ASSUME Inv, NEW h \in plan.handles \ (Tool \cup interrupted),
                    HandlesOf(RunOf(h)) \cap plan.handles = {h}
             PROVE  /\ RunStatus(RunOf(h)) \in {"observed", "active", ended[h]}
                    /\ /\ at[h] = "left"
                       /\ Cardinality({e \in Rows(events) : e.handle = h})
                             = emits[h]
                       => RunStatus(RunOf(h)) = ended[h]
  BY DEF RunStatusFaithful
<1> DEFINE run == RunOf(h)
<1>1. h \in Handle \ interrupted /\ h \notin Tool /\ EndsOnceOf(h)
  BY PlanFacts DEF Inv, Types, LifecycleTypes, EndsOnce
<1>2. /\ \A i \in EndsOf(run) : events[i] \in EndsBy(h)
      /\ \A field : \A x, y \in Facts(run, field) : x = y
  BY <1>1, OwnFacts
<1>3. \A s \in EndStatuses(run) : s = ended[h]
  BY <1>1, <1>2 DEF EndStatuses, EndsOnceOf
<1>4. /\ ~(Cardinality(EndStatuses(run)) > 1)
      /\ ~(Cardinality(Facts(run, "step")) > 1)
      /\ ~(Cardinality(Facts(run, "attempt")) > 1)
  <2>1. /\ Cardinality(EndStatuses(run)) \in {0, 1}
        /\ Cardinality(Facts(run, "step")) \in {0, 1}
        /\ Cardinality(Facts(run, "attempt")) \in {0, 1}
    BY <1>2, <1>3, AtMostOne
  <2> QED
    BY <2>1
<1> HIDE DEF run
<1>5. /\ EndStatuses(run) # {} => RunStatus(run) = ended[h]
      /\ EndStatuses(run) = {} => RunStatus(run) \in {"observed", "active"}
  BY <1>3, <1>4 DEF RunStatus
<1>6. ASSUME at[h] = "left",
             Cardinality({e \in Rows(events) : e.handle = h}) = emits[h]
      PROVE  EndStatuses(run) # {}
  <2>1. PICK e : e \in EndsBy(h)
    BY <1>1, <1>6 DEF EndsOnceOf, Over
  <2>2. e \in Rows(events)
    BY <1>1, <1>6, <2>1, AllArrived
  <2>3. PICK i \in DOMAIN events : events[i] = e
    BY <2>2 DEF Rows
  <2>4. h \in HandlesOf(run)
    BY <1>1 DEF HandlesOf, Step, run
  <2>5. i \in EndsOf(run)
    BY <2>1, <2>3, <2>4 DEF EndsOf, EndsBy
  <2> QED
    BY <2>5 DEF EndStatuses
<1>7. RunStatus(run) \in {"observed", "active", ended[h]}
  BY <1>5
<1> QED
  BY <1>5, <1>6, <1>7 DEF run

\* The graph shows each run as it was ended, whatever was lost, delayed or
\* posted again (sdk/lifecycle.py, workflow/graph.py).
THEOREM RunsAreFaithful == Spec => []RunsFaithful
<1>1. Inv => RunsFaithful
  BY InvOneTerminalEvent, InvRunStatusFaithful DEF RunsFaithful
<1> QED
  BY EvaluationInv, <1>1, PTL

-----------------------------------------------------------------------------
(* Successes *)

LEMMA RunSuccess ==
    ASSUME Inv, NEW run, EndsOf(run) # {}, LastEnd(run).success = TRUE
    PROVE  EndedAsTold(run)
<1>1. LastEnd(run) \in Posted /\ LastEnd(run).handle \in HandlesOf(run)
  BY LastEndIsAnEnd
<1>2. LastEnd(run).handle \notin Tool
  BY <1>1 DEF HandlesOf, Step
<1>3. LastEnd(run).handle \in told
  BY <1>1, <1>2 DEF Inv, StepSuccessesTold
<1> QED
  BY <1>3 DEF EndedAsTold

LEMMA CountedTold ==
    ASSUME Inv, NEW run, CountedSuccess(run) = TRUE
    PROVE  EndedAsTold(run)
<1>1. Nil # TRUE
  BY LifecycleAssumption
<1>2. /\ Cardinality(EndStatuses(run)) = 1
      /\ LastEnd(run).success = TRUE
  BY <1>1 DEF CountedSuccess
<1>3. EndStatuses(run) # {}
  BY <1>2, FS_EmptySet
<1>4. EndsOf(run) # {}
  BY <1>3 DEF EndStatuses
<1> QED
  BY <1>2, <1>4, RunSuccess

\* A run that has traces has facts, and finitely many.
LEMMA FactsOfTraced ==
    ASSUME Inv, NEW t, NEW run \in TracedRuns(t), NEW field
    PROVE  IsFiniteSet(Facts(run, field)) /\ Facts(run, field) # {}
<1> DEFINE shown == {x \in Rows(events) : x.handle \in HandlesOf(run)}
           called == {x \in traces : x.by \in HandlesOf(run)}
           f == [x \in shown |-> Identity[x.handle][field]]
           g == [x \in called |-> Identity[x.by][field]]
           F == {Identity[x.handle][field] : x \in shown}
           H == {Identity[x.by][field] : x \in called}
<1>1. events \in Seq(Event) /\ IsFiniteSet(traces)
      /\ traces \subseteq [task : Task, by : Step \cup {Nil}]
  BY DEF Inv, Types, EventTypes, TraceTypes
<1>2. IsFiniteSet(shown) /\ IsFiniteSet(called)
  BY <1>1, RowsFinite, FS_Subset
<1>3. f \in Surjection(shown, F) /\ g \in Surjection(called, H)
  BY DEF Surjection
<1>4. IsFiniteSet(F) /\ IsFiniteSet(H)
  <2> HIDE DEF f, g, F, H, shown, called
  <2> QED
    BY <1>2, <1>3, FS_Surjection
<1>5. Facts(run, field) = F \cup H
  BY DEF Facts
<1>6. IsFiniteSet(F \cup H)
  <2> HIDE DEF F, H
  <2> QED
    BY <1>4, FS_Union
<1>7. PICK trace \in traces : trace.by # Nil /\ run = RunOf(trace.by)
  BY DEF TracedRuns
<1>8. trace.by \in HandlesOf(run)
  BY <1>1, <1>7 DEF HandlesOf
<1>9. Identity[trace.by][field] \in Facts(run, field)
  BY <1>7, <1>8 DEF Facts
<1> QED
  BY <1>5, <1>6, <1>9

\* Where the last end of a run that has traces is a success, the metrics count
\* it, or the ends or the steps differ and the graph says so.
LEMMA MetricsAgree ==
    ASSUME Inv, NEW t, NEW run \in TracedRuns(t),
           EndsOf(run) # {}, LastEnd(run).success = TRUE
    PROVE  CountedSuccess(run) = TRUE \/ RunStatus(run) = "inconsistent"
<1>1. EndStatuses(run) \subseteq Statuses /\ EndStatuses(run) # {}
  BY DEF EndStatuses, EndsOf
<1>2. IsFiniteSet(Statuses)
  <2>1. IsFiniteSet({"completed"}) /\ IsFiniteSet({"failed"})
    BY FS_Singleton
  <2>2. Statuses = {"completed"} \cup {"failed"}
    BY DEF Statuses
  <2> QED
    BY <2>1, <2>2, FS_Union
<1>3. IsFiniteSet(EndStatuses(run))
  BY <1>1, <1>2, FS_Subset
<1>4. \A S : IsFiniteSet(S) /\ S # {} =>
         Cardinality(S) \in Nat /\ Cardinality(S) # 0
  BY FS_EmptySet, FS_CardinalityType
<1>5. /\ Cardinality(EndStatuses(run)) \in Nat \ {0}
      /\ Cardinality(Facts(run, "step")) \in Nat \ {0}
  BY <1>1, <1>3, <1>4, FactsOfTraced
<1> QED
  BY <1>5 DEF CountedSuccess, RunStatus

\* An experiment on a step takes a task for a success when every run it has
\* traces of was reported as one.
LEMMA SuccessOfRunsTold ==
    ASSUME Inv, NEW t, SuccessOfRuns(t) = TRUE, NEW run \in TracedRuns(t)
    PROVE  BornOut(run)
<1> DEFINE runs == TracedRuns(t)
           explicit == {r \in runs : EndsOf(r) # {}}
           successes == {LastEnd(r).success : r \in explicit}
<1>1. Nil # TRUE
  BY LifecycleAssumption
<1>2. explicit = runs /\ successes = {TRUE}
  <2>1. SuccessOfRuns(t) =
           IF FALSE \in successes THEN FALSE
           ELSE IF explicit = runs /\ successes = {TRUE} THEN TRUE
           ELSE Nil
    BY DEF SuccessOfRuns
  <2> HIDE DEF runs, explicit, successes
  <2> QED
    BY <1>1, <2>1
<1>3. EndsOf(run) # {} /\ LastEnd(run).success = TRUE
  BY <1>2
<1>4. CountedSuccess(run) = TRUE \/ RunStatus(run) = "inconsistent"
  BY <1>3, MetricsAgree
<1> QED
  BY <1>3, <1>4, RunSuccess DEF BornOut

LEMMA TaskSuccess ==
    ASSUME Inv, NEW t \in Task, StatusOf(t) = "success"
    PROVE  IF plan.stepScoped
           THEN \A run \in TracedRuns(t) : BornOut(run)
           ELSE \/ t \in told
                \/ plan.threshold
                      /\ \E o \in Rows(outcomes[t]) : o.report = "high"
<1>1. Nil \notin {"success", "failure", "low", "high"}
  BY LifecycleAssumption DEF Report
<1>2. \/ LatestReport(t) = "success"
      \/ /\ plan.threshold
         /\ LatestReport(t) \notin {Nil, "success", "failure", "low"}
  BY DEF StatusOf
<1>3. CASE plan.stepScoped
  <2>1. LatestReport(t) \in {Nil, "success", "failure"}
    BY <1>3 DEF LatestReport
  <2>2. LatestReport(t) = "success"
    BY <1>2, <2>1
  <2>3. SuccessOfRuns(t) # Nil /\ SuccessOfRuns(t)
    BY <1>1, <1>3, <2>2 DEF LatestReport
  <2>4. SuccessOfRuns(t) \in BOOLEAN \cup {Nil}
    BY DEF SuccessOfRuns
  <2>5. SuccessOfRuns(t) = TRUE
    BY <2>3, <2>4
  <2> QED
    BY <1>3, <2>5, SuccessOfRunsTold
<1>4. CASE ~plan.stepScoped
  <2>1. LatestReport(t) = IF outcomes[t] = <<>> THEN Nil
                          ELSE outcomes[t][Len(outcomes[t])].report
    BY <1>4 DEF LatestReport
  <2>2. outcomes[t] # <<>>
    BY <1>1, <1>2, <2>1
  <2> DEFINE o == outcomes[t][Len(outcomes[t])]
  <2>3. outcomes[t] \in Seq(Outcome)
    BY DEF Inv, Types, OutcomeTypes
  <2>4. /\ Len(outcomes[t]) \in DOMAIN outcomes[t]
        /\ o \in Outcome
    BY <2>2, <2>3
  <2>5. o \in Rows(outcomes[t])
    BY <2>4 DEF Rows
  <2>6. LatestReport(t) = o.report /\ o.report \in Report
    BY <2>1, <2>2, <2>4 DEF Outcome
  <2>7. o.report = "success" => t \in told
    BY <2>5 DEF Inv, TaskSuccessesTold, Said
  <2> HIDE DEF o
  <2> QED
    BY <1>2, <1>4, <2>5, <2>6, <2>7 DEF Report
<1> QED
  BY <1>3, <1>4

LEMMA InvSuccessIsReported == Inv => SuccessIsReported
<1> SUFFICES ASSUME Inv PROVE SuccessIsReported
  OBVIOUS
<1>1. \A t \in DOMAIN Records \cap Task : Records[t].status = StatusOf(t)
  BY DEF Records
<1>2. \A t \in DOMAIN Records \cap Task : Records[t].status = "success" =>
          IF plan.stepScoped
          THEN \A run \in TracedRuns(t) : BornOut(run)
          ELSE \/ t \in told
               \/ plan.threshold
                     /\ \E o \in Rows(outcomes[t]) : o.report = "high"
  BY <1>1, TaskSuccess
<1>3. \A run \in Runs :
          CountedSuccess(run) = TRUE => EndedAsTold(run)
  BY CountedTold
<1> QED
  BY <1>2, <1>3 DEF SuccessIsReported

LEMMA InvOwnReportStands == Inv => OwnReportStands
<1> SUFFICES ASSUME Inv, NEW t \in Task,
                    {"block", "exit"} \cap {o.by : o \in Said(t)}
                       = {"block", "exit"}
             PROVE  FALSE
  BY DEF OwnReportStands, Said
<1>1. PICK o \in Said(t) : o.by = "block"
  OBVIOUS
<1>2. PICK p \in Said(t) : p.by = "exit"
  OBVIOUS
<1> QED
  BY <1>1, <1>2 DEF Inv, OneKindOfReport, OneKindOf

\* Nothing counts as a success that was not reported as one, and a report of
\* the application's own stands (workflow/metrics.py, eval/tripwire.py,
\* Task._finalize() of sdk/lifecycle.py).
THEOREM ReportsStandAlways == Spec => []ReportsStand
<1>1. Inv => ReportsStand
  BY InvSuccessIsReported, InvOwnReportStands DEF ReportsStand
<1> QED
  BY EvaluationInv, <1>1, PTL

-----------------------------------------------------------------------------
(* Verdicts of the experiment *)

LEMMA RecordsSmall ==
    ASSUME Inv
    PROVE  Small(Records)
<1> DEFINE tasks == {t \in Task : InData(t)}
           earlier == DOMAIN plan.earlier
<1>1. DOMAIN Records = tasks \cup earlier
  BY DEF Records
<1>2. plan \in Plans
  BY DEF Inv, Types, LifecycleTypes
<1>3. /\ IsFiniteSet(Task) /\ IsFiniteSet(earlier)
      /\ Cardinality(Task) + Cardinality(earlier) <= MaxSample
  BY <1>2, EvaluationAssumption
<1>4. tasks \in SUBSET Task
  OBVIOUS
<1> HIDE DEF tasks, earlier
<1>5. /\ IsFiniteSet(tasks) /\ Cardinality(tasks) <= Cardinality(Task)
      /\ Cardinality(Task) \in Nat /\ Cardinality(tasks) \in Nat
      /\ Cardinality(earlier) \in Nat
  BY <1>3, <1>4, FS_Subset, FS_CardinalityType
<1>6. /\ IsFiniteSet(tasks \cup earlier)
      /\ Cardinality(tasks \cup earlier) =
            Cardinality(tasks) + Cardinality(earlier)
              - Cardinality(tasks \cap earlier)
      /\ Cardinality(tasks \cap earlier) \in Nat
  <2>1. IsFiniteSet(tasks \cap earlier)
    BY <1>5, FS_Intersection
  <2> QED
    BY <1>3, <1>5, <2>1, FS_Union, FS_CardinalityType
<1>7. Cardinality(tasks \cup earlier) <= MaxSample
  BY <1>3, <1>5, <1>6, TripwireAssumption
<1> QED
  BY <1>1, <1>6, <1>7 DEF Small

LEMMA InvImputationSound == Inv => ImputationSound
<1> SUFFICES ASSUME Inv PROVE ImputationSound
  OBVIOUS
<1>1. Small(Records)
  BY RecordsSmall
<1> DEFINE r == Records
           F == [Silent(r) -> {"success", "failure"}]
           verdict == Verdict(r, plan.swaps)
           imputed == {Imputed(r, f) : f \in F}
<1>2. Silent(r) = {t \in DOMAIN r : r[t].status = "unreported"}
  BY DEF Silent
<1>3. /\ verdict \in Definitive \cup {"INCONCLUSIVE"} =>
            \A v \in Definitive :
               verdict = v <=>
                  \A f \in F : Verdict(Imputed(r, f), plan.swaps) = v
      /\ verdict = "GROSS_REGRESSION" =>
            \A f \in F : FailsMore(Imputed(r, f))
      /\ verdict = "NO_GROSS_REGRESSION" =>
            \A f \in F : ~FailsMore(Imputed(r, f))
  BY <1>1, VerdictImputes
<1> HIDE DEF F, verdict
<1>4. /\ verdict \in Definitive \cup {"INCONCLUSIVE"} =>
            \A v \in Definitive :
               verdict = v <=> \A s \in imputed : Verdict(s, plan.swaps) = v
      /\ verdict = "GROSS_REGRESSION" => \A s \in imputed : FailsMore(s)
      /\ verdict = "NO_GROSS_REGRESSION" => \A s \in imputed : ~FailsMore(s)
  BY <1>3
<1> HIDE DEF imputed
<1> QED
  BY <1>2, <1>4 DEF ImputationSound, imputed, F, verdict

\* With reports enough, a definite verdict is given if, and only if, the sample
\* would bear it out whatever the silent tasks had reported, and the rates
\* themselves are then apart as it says (eval/tripwire.py).
THEOREM VerdictsAreSound == Spec => []ImputationSound
BY EvaluationInv, InvImputationSound, PTL

LEMMA LateReportNarrows ==
    ASSUME plan' = plan, LateReport(Records, Records')
    PROVE  Narrows(Records, Records')
<1>1. \A t \in DOMAIN Records :
         Records[t].arm = IF t \in Task THEN Arm[t] ELSE plan.earlier[t].arm
  BY DEF Records
<1>2. \A t \in DOMAIN Records' :
         Records'[t].arm = IF t \in Task THEN Arm[t] ELSE plan.earlier[t].arm
  BY DEF Records
<1> QED
  BY <1>1, <1>2 DEF LateReport, Narrows

\* A report that comes late does not turn a definite verdict.
THEOREM VerdictsKept == Spec => LateReportsKeepVerdict
<1> DEFINE Late == LateReport(Records, Records') /\ CurrentVerdict \in Definitive
<1>1. ASSUME Inv, Next, Late PROVE UNCHANGED CurrentVerdict
  <2>1. plan' = plan
    <3>1. CASE LifecycleNext
      BY <3>1, EventsChange DEF Emits, StoreEvent
    <3>2. CASE UNCHANGED lifecycleVars
      BY <3>2 DEF lifecycleVars
    <3> QED
      BY <1>1, <3>1, <3>2, TraceStep
  <2>2. CurrentVerdict' = Verdict(Records', plan.swaps)
    BY <2>1 DEF CurrentVerdict
  <2>3. Small(Records) /\ Narrows(Records, Records')
    BY <1>1, <2>1, RecordsSmall, LateReportNarrows
  <2> QED
    BY <1>1, <2>2, <2>3, VerdictNarrow DEF CurrentVerdict
<1>2. Inv /\ [Next]_vars => [Late => UNCHANGED CurrentVerdict]_vars
  BY <1>1
<1> QED
  BY EvaluationInv, <1>2, PTL DEF Spec, LateReportsKeepVerdict

=============================================================================
