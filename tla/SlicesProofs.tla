---------------------------- MODULE SlicesProofs ----------------------------
(* What split_slice returns, for every number of items and every setting.   *)
EXTENDS Slices, TLAPS

\* Division and remainder, from which everything below follows.
LEMMA DivBounds ==
  ASSUME NEW a \in Nat, NEW b \in Nat \ {0}
  PROVE  /\ a \div b \in Nat
         /\ (a \div b) * b <= a
         /\ a < (a \div b) * b + b
BY Z3

\* A larger factor, a larger product.
LEMMA TimesMonotone ==
  ASSUME NEW a \in Nat, NEW b \in Nat, NEW c \in Nat, a <= b
  PROVE  a * c <= b * c
BY Z3

LEMMA AveragePositive ==
  ASSUME NEW total \in Nat, NEW min \in Nat \ {0}, NEW max \in Nat \ {0}
  PROVE  /\ Average(total, min, max) \in Nat \ {0}
         /\ Average(total, min, max) >= total \div max + 1
BY DivBounds, SMT DEF Average

\* Number of slices Cut returns.
Count(total, avg) ==
  IF (total \div avg) * avg < total THEN total \div avg + 1 ELSE total \div avg

LEMMA CutDomain ==
  ASSUME NEW total \in Nat, NEW avg \in Nat \ {0}
  PROVE  /\ Count(total, avg) \in Nat
         /\ DOMAIN Cut(total, avg) = 1 .. Count(total, avg)
BY DivBounds DEF Cut, Count

LEMMA CutShape ==
  ASSUME NEW total \in Nat, NEW avg \in Nat \ {0}, NEW k \in DOMAIN Cut(total, avg)
  PROVE  Cut(total, avg)[k] =
           Range((k - 1) * avg, IF k <= total \div avg THEN k * avg ELSE total)
BY DEF Cut

\* A slice begins before it ends, lies within the items and ends where the next
\* one begins at the latest.
LEMMA SliceBounds ==
  ASSUME NEW total \in Nat, NEW avg \in Nat \ {0}, NEW k \in DOMAIN Cut(total, avg)
  PROVE  LET r == Cut(total, avg)[k] IN
         /\ r.begin = (k - 1) * avg /\ r.begin \in Nat
         /\ r.end \in Nat /\ r.begin < r.end
         /\ r.end <= total /\ r.end <= k * avg
<1> DEFINE n == total \div avg
           r == Cut(total, avg)[k]
<1>1. /\ n \in Nat /\ n * avg <= total /\ total < n * avg + avg
  BY DivBounds
<1>2. /\ k \in 1 .. Count(total, avg)
      /\ r = Range((k - 1) * avg, IF k <= n THEN k * avg ELSE total)
  BY CutShape, CutDomain
<1>3. k \in Nat \ {0} /\ k <= n + 1 /\ (k = n + 1 => n * avg < total)
  BY <1>1, <1>2 DEF Count
<1>4. r.begin = (k - 1) * avg /\ r.end = IF k <= n THEN k * avg ELSE total
  BY <1>2 DEF Range
<1>5. (k - 1) * avg \in Nat /\ k * avg = (k - 1) * avg + avg
  BY <1>3, Z3
<1>6. CASE k <= n
  <2>1. k * avg <= n * avg
    BY <1>1, <1>3, <1>6, TimesMonotone
  <2> QED
    BY <1>1, <1>3, <1>4, <1>5, <1>6, <2>1
<1>7. CASE k = n + 1
  <2>1. (k - 1) * avg = n * avg
    BY <1>7, <1>1
  <2> QED
    BY <1>1, <1>4, <1>5, <1>7, <1>3, <2>1
<1> QED
  BY <1>3, <1>6, <1>7, <1>1

\* The slices of a list are disjoint, so no item is computed or sent twice.
THEOREM SlicesDisjoint ==
  ASSUME NEW total \in Nat, NEW avg \in Nat \ {0},
         NEW k \in DOMAIN Cut(total, avg), NEW l \in DOMAIN Cut(total, avg), k # l
  PROVE  ItemsOf(Cut(total, avg)[k]) \cap ItemsOf(Cut(total, avg)[l]) = {}
<1> DEFINE s == Cut(total, avg)
<1>1. k \in Nat \ {0} /\ l \in Nat \ {0}
  <2>1. Count(total, avg) \in Nat /\ DOMAIN Cut(total, avg) = 1 .. Count(total, avg)
    BY CutDomain
  <2>2. k \in 1 .. Count(total, avg) /\ l \in 1 .. Count(total, avg)
    BY <2>1
  <2> QED
    BY <2>1, <2>2
<1>2. /\ s[k].begin = (k - 1) * avg /\ s[k].begin \in Nat /\ s[k].end \in Nat /\ s[k].end <= k * avg
      /\ s[l].begin = (l - 1) * avg /\ s[l].begin \in Nat /\ s[l].end \in Nat /\ s[l].end <= l * avg
  BY SliceBounds
<1>3. CASE k < l
  <2>1. k * avg <= (l - 1) * avg
    BY <1>1, <1>3, TimesMonotone
  <2>2. s[k].end <= s[l].begin
    BY <1>1, <1>2, <2>1
  <2> QED
    BY <1>2, <2>2 DEF ItemsOf
<1>4. CASE l < k
  <2>1. l * avg <= (k - 1) * avg
    BY <1>1, <1>4, TimesMonotone
  <2>2. s[l].end <= s[k].begin
    BY <1>1, <1>2, <2>1
  <2> QED
    BY <1>2, <2>2 DEF ItemsOf
<1> QED
  BY <1>1, <1>3, <1>4

\* Together the slices are the whole list, so no item is left out.
THEOREM SlicesCover ==
  ASSUME NEW total \in Nat, NEW avg \in Nat \ {0}
  PROVE  UNION {ItemsOf(Cut(total, avg)[k]) : k \in DOMAIN Cut(total, avg)} = 0 .. total - 1
<1> DEFINE s == Cut(total, avg)
           n == total \div avg
<1>1. ASSUME NEW k \in DOMAIN s PROVE ItemsOf(s[k]) \subseteq 0 .. total - 1
  <2>1. s[k].begin \in Nat /\ s[k].end \in Nat /\ s[k].end <= total
    BY <1>1, SliceBounds
  <2> HIDE DEF s
  <2> QED
    BY <2>1 DEF ItemsOf
<1>2. ASSUME NEW x \in 0 .. total - 1 PROVE \E k \in DOMAIN s : x \in ItemsOf(s[k])
  <2> DEFINE q == x \div avg
  <2>1. q \in Nat /\ q * avg <= x /\ x < q * avg + avg
    BY DivBounds
  <2>2. n \in Nat /\ n * avg <= total /\ total < n * avg + avg
    BY DivBounds
  <2>3. (q + 1) * avg = q * avg + avg
    BY <2>1, Z3
  <2>4. q <= n
    <3>1. SUFFICES ASSUME q > n PROVE FALSE
      BY <2>1, <2>2
    <3>2. (n + 1) * avg <= q * avg
      BY <2>1, <2>2, <3>1, TimesMonotone
    <3>3. (n + 1) * avg = n * avg + avg
      BY <2>2, Z3
    <3>4. n * avg + avg <= x
      BY <3>2, <3>3, <2>1, <2>2
    <3> QED
      BY <2>2, <3>4
  <2>5. q + 1 \in DOMAIN s
    <3>1. q = n => n * avg < total
      BY <2>1
    <3> QED
      <4>1. DOMAIN s = 1 .. Count(total, avg)
        BY CutDomain
      <4>2. q + 1 \in 1 .. Count(total, avg)
        BY <2>1, <2>2, <2>4, <3>1 DEF Count
      <4> QED
        BY <4>1, <4>2
  <2>6. PICK k \in DOMAIN s : k = q + 1
    BY <2>5
  <2>7. s[k] = Range((k - 1) * avg, IF k <= n THEN k * avg ELSE total)
    BY CutShape
  <2>8. k - 1 = q /\ (k - 1) * avg = q * avg /\ k * avg = q * avg + avg
    BY <2>1, <2>3, <2>6
  <2>9. s[k].begin = q * avg /\ s[k].end = IF k <= n THEN q * avg + avg ELSE total
    BY <2>7, <2>8 DEF Range
  <2>10. x \in ItemsOf(s[k])
    <3> HIDE DEF s, n, q
    <3> QED
      BY <2>1, <2>9 DEF ItemsOf
  <2> QED
    BY <2>10
<1> QED
  BY <1>1, <1>2

\* split_slice makes no more slices than it may use tasks.
THEOREM SlicesWithinTasks ==
  ASSUME NEW total \in Nat, NEW min \in Nat \ {0}, NEW max \in Nat \ {0}
  PROVE  \A k \in DOMAIN split_slice(total, min, max) : k \in 1 .. max
<1> DEFINE avg == Average(total, min, max)
           n == total \div avg
           q == total \div max
<1>1. avg \in Nat \ {0} /\ avg >= q + 1
  BY AveragePositive
<1>2. n \in Nat /\ n * avg <= total
  BY <1>1, DivBounds
<1>3. q \in Nat /\ total < q * max + max
  BY DivBounds
<1>4. total < avg * max
  <2>1. (q + 1) * max <= avg * max
    BY <1>1, <1>3, TimesMonotone
  <2>2. (q + 1) * max = q * max + max
    BY <1>3, Z3
  <2> HIDE DEF avg, q
  <2>3. avg * max \in Nat
    BY <1>1, Z3
  <2> QED
    BY <1>3, <2>1, <2>2, <2>3
<1>5. n < max
  <2>1. SUFFICES ASSUME max <= n PROVE FALSE
    BY <1>2
  <2>2. max * avg <= n * avg
    BY <1>1, <1>2, <2>1, TimesMonotone
  <2> HIDE DEF avg, n
  <2>3. max * avg = avg * max
    BY <1>1, Z3
  <2> QED
    BY <1>1, <1>2, <1>4, <2>2, <2>3
<1>6. DOMAIN Cut(total, avg) = 1 .. Count(total, avg) /\ Count(total, avg) <= n + 1
  <2> HIDE DEF avg
  <2> QED
    <3>1. DOMAIN Cut(total, avg) = 1 .. Count(total, avg)
      BY <1>1, CutDomain
    <3>2. Count(total, avg) <= n + 1
      BY <1>2 DEF Count
    <3> QED
      BY <3>1, <3>2
<1>7. split_slice(total, min, max) = Cut(total, avg)
  BY DEF split_slice
<1> QED
  <2> HIDE DEF avg, n
  <2>1. Count(total, avg) \in Nat
    BY <1>1, CutDomain
  <2> QED
    BY <1>2, <1>5, <1>6, <1>7, <2>1
=============================================================================
