------------------------- MODULE ArenaCopyPlanProofs -------------------------
(***************************************************************************)
(* What a plan of copies does, for any arena, dirty ranges and limits.     *)
(* Sorting is a CHOOSE and merging a fold: that there is a sorted sequence *)
(* and what the fold computes are shown by looking at the least number for *)
(* which it fails.                                                         *)
(***************************************************************************)
EXTENDS ArenaCopyPlan, FiniteSetTheorems, WellFoundedInduction, TLAPS

RangeType == [offset : Nat, bytes : Nat]

-----------------------------------------------------------------------------
(* A set of numbers that is not empty has a least one.                      *)
LEMMA LeastNumber ==
  ASSUME NEW S \in SUBSET Nat, S # {}
  PROVE  \E m \in S : \A k \in S : m <= k
<1> DEFINE R == OpToRel(<, Nat)
<1>1. IsWellFoundedOn(R, Nat) BY NatLessThanWellFounded
<1>2. \A x, y \in Nat : y < x => <<y, x>> \in R BY DEF OpToRel
<1> HIDE DEF R
<1>3. PICK x \in S : \A y \in S : ~ (<<y, x>> \in R) BY <1>1, WFMin
<1>4. \A y \in S : ~ (y < x) BY <1>2, <1>3
<1> QED BY <1>4

(* The smaller and the larger of two numbers.                               *)
LEMMA TwoNumbers ==
  ASSUME NEW a \in Int, NEW b \in Int
  PROVE  /\ Min({a, b}) = IF a <= b THEN a ELSE b
         /\ Max({a, b}) = IF a >= b THEN a ELSE b
<1>1. Min({a, b}) = IF a <= b THEN a ELSE b
  <2> DEFINE c == IF a <= b THEN a ELSE b
  <2>1. c \in {a, b} /\ \A y \in {a, b} : c =< y OBVIOUS
  <2>2. \A x \in {a, b} : (\A y \in {a, b} : x =< y) => x = c OBVIOUS
  <2> HIDE DEF c
  <2>3. Min({a, b}) = c BY <2>1, <2>2 DEF Min
  <2> QED BY <2>3 DEF c
<1>2. Max({a, b}) = IF a >= b THEN a ELSE b
  <2> DEFINE c == IF a >= b THEN a ELSE b
  <2>1. c \in {a, b} /\ \A y \in {a, b} : c >= y OBVIOUS
  <2>2. \A x \in {a, b} : (\A y \in {a, b} : x >= y) => x = c OBVIOUS
  <2> HIDE DEF c
  <2>3. Max({a, b}) = c BY <2>1, <2>2 DEF Max
  <2> QED BY <2>3 DEF c
<1> QED BY <1>1, <1>2

(* The last of the first k numbers.                                         *)
LEMMA LastNumber ==
  ASSUME NEW k \in Nat, NEW s \in SUBSET (1..k + 1), k + 1 \in s
  PROVE  Max(s) = k + 1
<1>1. \A y \in s : k + 1 >= y OBVIOUS
<1>2. \A x \in s : (\A y \in s : x >= y) => x = k + 1 OBVIOUS
<1> QED BY <1>1, <1>2 DEF Max

-----------------------------------------------------------------------------
(* The ranges s in the order of their offsets.                              *)
Sorted(s, n, ranges) ==
  /\ s \in [1..n -> ranges]
  /\ \A i, j \in 1..n : i < j => s[i] # s[j] /\ s[i].offset <= s[j].offset

(* Ranges can be sorted: one with the least offset goes first.              *)
LEMMA SortedExists ==
  ASSUME NEW n \in Nat
  PROVE  \A ranges \in SUBSET RangeType : IsFiniteSet(ranges) /\ Cardinality(ranges) = n
           => \E s : Sorted(s, n, ranges)
<1> DEFINE Sorts(k) == \A ranges \in SUBSET RangeType :
                          IsFiniteSet(ranges) /\ Cardinality(ranges) = k
                            => \E s : Sorted(s, k, ranges)
           Bad == {k \in Nat : ~Sorts(k)}
<1>1. Sorts(0)
  <2>1. ASSUME NEW ranges PROVE Sorted(<<>>, 0, ranges)
    <3>1. <<>> \in [1..0 -> ranges] OBVIOUS
    <3> QED BY <3>1 DEF Sorted
  <2> QED BY <2>1
<1>2. ASSUME NEW k \in Nat, Sorts(k) PROVE Sorts(k + 1)
  <2> SUFFICES ASSUME NEW ranges \in SUBSET RangeType, IsFiniteSet(ranges),
                      Cardinality(ranges) = k + 1
               PROVE  \E s : Sorted(s, k + 1, ranges)
    OBVIOUS
  <2> DEFINE offsets == {r.offset : r \in ranges}
  <2>1. ranges # {} BY FS_EmptySet
  <2>2. offsets \in SUBSET Nat /\ offsets # {} BY <2>1 DEF RangeType
  <2>3. PICK m \in offsets : \A o \in offsets : m <= o BY <2>2, LeastNumber
  <2>4. PICK first \in ranges : first.offset = m BY <2>3
  <2>5. \A r \in ranges : first.offset <= r.offset BY <2>3, <2>4
  <2> DEFINE rest == ranges \ {first}
  <2>6. IsFiniteSet(rest) /\ Cardinality(rest) = k /\ rest \in SUBSET RangeType
    <3>1. IsFiniteSet(rest) /\ Cardinality(rest) = Cardinality(ranges) - 1
      BY FS_RemoveElement
    <3> QED BY <3>1
  <2>7. PICK t : Sorted(t, k, rest) BY <1>2, <2>6
  <2> DEFINE s == [i \in 1..k + 1 |-> IF i = 1 THEN first ELSE t[i - 1]]
  <2>8. \A i \in 1..k + 1 : i # 1 => i - 1 \in 1..k OBVIOUS
  <2>9. \A i \in 1..k : t[i] \in rest /\ t[i] \in ranges /\ t[i] # first
    BY <2>7 DEF Sorted
  <2>10. s \in [1..k + 1 -> ranges] BY <2>8, <2>9
  <2>11. ASSUME NEW i \in 1..k + 1, NEW j \in 1..k + 1, i < j
         PROVE  s[i] # s[j] /\ s[i].offset <= s[j].offset
    <3>1. j # 1 /\ j - 1 \in 1..k /\ s[j] = t[j - 1] BY <2>8, <2>11
    <3>2. CASE i = 1
      <4>1. s[i] = first BY <3>2
      <4> QED BY <2>5, <2>9, <3>1, <4>1
    <3>3. CASE i # 1
      <4>1. i - 1 \in 1..k /\ s[i] = t[i - 1] /\ i - 1 < j - 1 BY <2>8, <2>11, <3>3
      <4> HIDE DEF s
      <4> QED BY <2>7, <3>1, <4>1 DEF Sorted
    <3> QED BY <3>2, <3>3
  <2> HIDE DEF s
  <2>12. Sorted(s, k + 1, ranges) BY <2>10, <2>11 DEF Sorted
  <2> QED BY <2>12
<1> HIDE DEF Sorts
<1>3. Bad = {}
  <2>1. SUFFICES ASSUME Bad # {} PROVE FALSE OBVIOUS
  <2>2. PICK m \in Bad : \A k \in Bad : m <= k BY <2>1, LeastNumber
  <2>3. m # 0 /\ m - 1 \in Nat /\ m - 1 \notin Bad BY <1>1, <2>2
  <2>4. Sorts(m - 1) BY <2>3
  <2>5. Sorts((m - 1) + 1) BY <1>2, <2>3, <2>4
  <2>6. (m - 1) + 1 = m BY <2>3
  <2> QED BY <2>2, <2>5, <2>6
<1> QED BY <1>3 DEF Sorts

(* So ByOffset is a sequence of all the ranges by their offsets.            *)
LEMMA ByOffsetSorts ==
  ASSUME NEW ranges \in SUBSET RangeType, IsFiniteSet(ranges)
  PROVE  /\ Cardinality(ranges) \in Nat
         /\ Sorted(ByOffset(ranges), Cardinality(ranges), ranges)
         /\ \A r \in ranges : \E i \in 1..Cardinality(ranges) : ByOffset(ranges)[i] = r
<1> DEFINE n == Cardinality(ranges)
           s == ByOffset(ranges)
<1>1. n \in Nat BY FS_CardinalityType
<1>2. \E t : Sorted(t, n, ranges) BY <1>1, SortedExists
<1>3. Sorted(s, n, ranges) BY <1>2 DEF Sorted, ByOffset
<1> HIDE DEF s, n
<1>4. s \in Injection(1..n, ranges)
  BY <1>1, <1>3 DEF Sorted, Injection, IsInjective
<1>5. IsFiniteSet(1..n) /\ Cardinality(1..n) = Cardinality(ranges)
  BY <1>1, FS_Interval DEF n
<1>6. s \in Surjection(1..n, ranges)
  BY <1>4, <1>5, FS_Injection
<1> QED BY <1>1, <1>3, <1>6 DEF Surjection, s, n

-----------------------------------------------------------------------------
(* The fold over the first n ranges is well defined.                        *)
Folds(it, n, ranges, gap) ==
  it = [s \in SUBSET (1..n) |->
          IF s = {} THEN <<>> ELSE Merge(it[s \ {Max(s)}], ranges[Max(s)], gap)]

(* It is, step by step: the last range is merged after the others.          *)
LEMMA FoldExists ==
  ASSUME NEW n \in Nat, NEW ranges, NEW gap
  PROVE  \E it : Folds(it, n, ranges, gap)
<1> DEFINE Defined(k) == \E it : Folds(it, k, ranges, gap)
           Bad == {k \in Nat : ~Defined(k)}
<1>1. Defined(0)
  <2> DEFINE it == [s \in {{}} |-> <<>>]
  <2>1. SUBSET (1..0) = {{}} OBVIOUS
  <2>2. it = [s \in SUBSET (1..0) |->
                IF s = {} THEN <<>> ELSE Merge(it[s \ {Max(s)}], ranges[Max(s)], gap)]
    BY <2>1
  <2> QED BY <2>2 DEF Folds
<1>2. ASSUME NEW k \in Nat, Defined(k) PROVE Defined(k + 1)
  <2>1. PICK it : Folds(it, k, ranges, gap) BY <1>2
  <2> DEFINE new == [s \in SUBSET (1..k + 1) |->
                       IF k + 1 \in s THEN Merge(it[s \ {k + 1}], ranges[k + 1], gap)
                       ELSE it[s]]
  <2>2. \A s \in SUBSET (1..k) : s \in SUBSET (1..k + 1) /\ k + 1 \notin s OBVIOUS
  <2>3. \A s \in SUBSET (1..k) : new[s] = it[s] BY <2>2
  <2>4. ASSUME NEW s \in SUBSET (1..k + 1)
        PROVE  new[s] = IF s = {} THEN <<>>
                        ELSE Merge(new[s \ {Max(s)}], ranges[Max(s)], gap)
    <3>1. CASE k + 1 \in s
      <4>1. Max(s) = k + 1 BY <3>1, LastNumber
      <4>2. s \ {k + 1} \in SUBSET (1..k) OBVIOUS
      <4>3. new[s \ {k + 1}] = it[s \ {k + 1}] BY <2>3, <4>2
      <4>4. new[s] = Merge(it[s \ {k + 1}], ranges[k + 1], gap) BY <3>1
      <4> HIDE DEF new
      <4> QED BY <3>1, <4>1, <4>3, <4>4
    <3>2. CASE k + 1 \notin s
      <4>4. \A x \in s : x \in 1..k + 1 /\ x # k + 1 BY <3>2
      <4>5. \A x \in s : x \in 1..k BY <4>4
      <4>1. s \in SUBSET (1..k) /\ s \ {Max(s)} \in SUBSET (1..k) BY <4>5
      <4>2. new[s] = it[s] /\ new[s \ {Max(s)}] = it[s \ {Max(s)}] BY <2>3, <4>1
      <4>3. it[s] = IF s = {} THEN <<>>
                    ELSE Merge(it[s \ {Max(s)}], ranges[Max(s)], gap)
        BY <2>1, <4>1 DEF Folds
      <4> HIDE DEF new
      <4> QED BY <4>2, <4>3
    <3> QED BY <3>1, <3>2
  <2>5. new = [s \in SUBSET (1..k + 1) |-> new[s]] OBVIOUS
  <2> HIDE DEF new
  <2>6. Folds(new, k + 1, ranges, gap) BY <2>4, <2>5 DEF Folds
  <2> QED BY <2>6
<1> HIDE DEF Defined
<1>3. Bad = {}
  <2>1. SUFFICES ASSUME Bad # {} PROVE FALSE OBVIOUS
  <2>2. PICK m \in Bad : \A k \in Bad : m <= k BY <2>1, LeastNumber
  <2>3. m # 0 /\ m - 1 \in Nat /\ m - 1 \notin Bad BY <1>1, <2>2
  <2>4. Defined((m - 1) + 1) BY <1>2, <2>3
  <2>5. (m - 1) + 1 = m BY <2>3
  <2> QED BY <2>2, <2>4, <2>5
<1> QED BY <1>3 DEF Defined

(* The plans for the first ranges, and for all of them.                     *)
Steps(plan, n, ranges, gap) ==
  /\ plan[0] = <<>> /\ plan[n] = Merged(ranges, gap)
  /\ \A k \in 1..n : plan[k] = Merge(plan[k - 1], ranges[k], gap)

(* Merged merges one range after the other.                                 *)
LEMMA MergedSteps ==
  ASSUME NEW n \in Nat, NEW ranges, DOMAIN ranges = 1..n, NEW gap
  PROVE  \E plan : Steps(plan, n, ranges, gap)
<1> DEFINE it == CHOOSE it : Folds(it, n, ranges, gap)
           plan == [k \in 0..n |-> it[1..k]]
<1>1. Folds(it, n, ranges, gap) BY FoldExists
<1>2. Merged(ranges, gap) = it[1..n] BY DEF Merged, FoldLeft, MapThenFoldSet, Folds
<1> HIDE DEF it
<1>3. it[1..0] = <<>> BY <1>1 DEF Folds
<1>4. ASSUME NEW k \in 1..n
      PROVE  it[1..k] = Merge(it[1..(k - 1)], ranges[k], gap)
  <2>1. 1..k \in SUBSET (1..n) /\ 1..k # {} /\ (1..k) \ {k} = 1..(k - 1) OBVIOUS
  <2>2. Max(1..k) = k
    <3> DEFINE l == k - 1
    <3>1. l \in Nat /\ l + 1 = k /\ 1..k \in SUBSET (1..l + 1) /\ l + 1 \in 1..k OBVIOUS
    <3> HIDE DEF l
    <3>2. Max(1..k) = l + 1 BY <3>1, LastNumber
    <3> QED BY <3>1, <3>2
  <2>3. it[1..k] = Merge(it[(1..k) \ {Max(1..k)}], ranges[Max(1..k)], gap)
    BY <1>1, <2>1 DEF Folds
  <2> QED BY <2>1, <2>2, <2>3
<1>5. plan[0] = <<>> /\ plan[n] = Merged(ranges, gap) BY <1>2, <1>3
<1>6. \A k \in 1..n : plan[k] = Merge(plan[k - 1], ranges[k], gap)
  BY <1>4
<1> HIDE DEF plan
<1>7. Steps(plan, n, ranges, gap) BY <1>5, <1>6 DEF Steps
<1> QED BY <1>7

-----------------------------------------------------------------------------
(* A plan for the first k of the sorted ranges s: its copies lie in the     *)
(* arena, in order and apart, every range is within one of them, and the    *)
(* last one begins no later than the last range.                            *)
PlanOf(plan, k, s, gap, arena) ==
  /\ plan \in Seq(RangeType) /\ (k = 0 <=> plan = <<>>)
  /\ \A j \in 1..Len(plan) : plan[j].bytes > 0 /\ End(plan[j]) <= arena
  /\ \A j \in 1..Len(plan) - 1 : plan[j + 1].offset > End(plan[j]) + gap
  /\ \A i \in 1..k : \E j \in 1..Len(plan) :
       plan[j].offset <= s[i].offset /\ End(s[i]) <= End(plan[j])
  /\ k > 0 => plan[Len(plan)].offset <= s[k].offset

(* Ranges that Normalized has cut to the arena.                             *)
InArena(s, n, arena) ==
  /\ \A i \in 1..n : s[i] \in RangeType /\ s[i].bytes > 0 /\ End(s[i]) <= arena
  /\ \A i, j \in 1..n : i < j => s[i].offset <= s[j].offset

(* A range and its end.                                                     *)
LEMMA RangeFacts ==
  ASSUME NEW r \in RangeType
  PROVE  /\ r.offset \in Nat /\ r.bytes \in Nat
         /\ End(r) = r.offset + r.bytes /\ End(r) \in Nat
BY DEF RangeType, End

(* Joining a range to the last copy, or adding a copy for it.               *)
LEMMA MergeStep ==
  ASSUME NEW n \in Nat, NEW s, NEW gap \in Nat, NEW arena \in Nat, InArena(s, n, arena),
         NEW k \in Nat, k + 1 \in 1..n, NEW plan, PlanOf(plan, k, s, gap, arena)
  PROVE  PlanOf(Merge(plan, s[k + 1], gap), k + 1, s, gap, arena)
<1> DEFINE r == s[k + 1]
           L == Len(plan)
           new == Merge(plan, r, gap)
<1>1. r \in RangeType /\ r.bytes > 0 /\ End(r) <= arena BY DEF InArena
<1>2. /\ r.offset \in Nat /\ r.bytes \in Nat /\ End(r) = r.offset + r.bytes
      /\ End(r) \in Nat
  BY <1>1, RangeFacts
<1>3. plan \in Seq(RangeType) /\ L \in Nat BY DEF PlanOf
<1>4. \A j \in 1..L : /\ plan[j] \in RangeType
                      /\ plan[j].offset \in Nat /\ plan[j].bytes \in Nat
                      /\ End(plan[j]) = plan[j].offset + plan[j].bytes
                      /\ End(plan[j]) \in Nat
  <2>1. \A j \in 1..L : plan[j] \in RangeType BY <1>3
  <2> QED BY <2>1, RangeFacts
<1>5. L > 0 <=> plan # <<>> BY <1>3
<1>6. \A i \in 1..k : i \in 1..n /\ s[i].offset \in Nat /\ s[i].bytes \in Nat
                      /\ End(s[i]) = s[i].offset + s[i].bytes /\ End(s[i]) \in Nat
  BY RangeFacts DEF InArena
<1>7. ASSUME L > 0
      PROVE  k > 0 /\ plan[L].offset <= r.offset
  <2>1. k > 0 BY <1>5, <1>7 DEF PlanOf
  <2>2. plan[L].offset <= s[k].offset BY <2>1 DEF PlanOf
  <2>3. s[k].offset <= r.offset BY <2>1 DEF InArena
  <2> QED BY <1>2, <1>4, <1>6, <1>7, <2>1, <2>2, <2>3
<1> HIDE DEF r, L
<1>8. CASE plan # <<>> /\ r.offset - End(plan[L]) <= gap
  <2> DEFINE last == plan[L]
             top == IF End(last) >= End(r) THEN End(last) ELSE End(r)
             joined == [last EXCEPT !.bytes = top - last.offset]
  <2>1. L \in 1..L /\ last \in RangeType /\ last.offset \in Nat /\ last.bytes \in Nat
        /\ last.offset <= r.offset /\ End(last) = last.offset + last.bytes
        /\ last.bytes > 0 /\ End(last) <= arena
    BY <1>3, <1>4, <1>5, <1>7, <1>8 DEF PlanOf, L
  <2>2. Max({End(last), End(r)}) = top
    <3>1. End(last) \in Int /\ End(r) \in Int BY <1>2, <2>1
    <3> HIDE DEF last
    <3> QED BY <3>1, TwoNumbers
  <2>3. new = [plan EXCEPT ![L] = joined]
    <3>1. new = [plan EXCEPT ![L].bytes = Max({End(last), End(r)}) - last.offset]
      BY <1>8 DEF Merge, Last, L
    <3> QED BY <2>2, <3>1
  <2>4. top \in Nat /\ top >= End(last) /\ top >= End(r) /\ top <= arena
    BY <1>1, <1>2, <2>1
  <2> HIDE DEF top
  <2>5. /\ joined \in RangeType /\ joined.offset = last.offset
        /\ joined.bytes = top - last.offset
    BY <1>2, <2>1, <2>4 DEF RangeType
  <2>6. joined.bytes > 0 /\ End(joined) = top BY <1>2, <2>1, <2>4, <2>5 DEF End
  <2> HIDE DEF joined, new
  <2>7. /\ new \in Seq(RangeType) /\ Len(new) = L /\ new[L] = joined
        /\ \A j \in 1..L : j # L => new[j] = plan[j]
    BY <1>3, <2>1, <2>3, <2>5 DEF L
  <2>8. new # <<>> /\ k + 1 # 0 BY <1>3, <2>1, <2>7
  <2>9. \A j \in 1..Len(new) : new[j].bytes > 0 /\ End(new[j]) <= arena
    BY <2>4, <2>6, <2>7 DEF PlanOf, L
  <2>10. ASSUME NEW j \in 1..Len(new) - 1 PROVE new[j + 1].offset > End(new[j]) + gap
    <3>1. j \in 1..L - 1 /\ j # L /\ j \in 1..L /\ j + 1 \in 1..L BY <1>3, <2>7
    <3>2. new[j] = plan[j] /\ new[j + 1].offset = plan[j + 1].offset
      BY <2>5, <2>7, <3>1
    <3> QED BY <3>1, <3>2 DEF PlanOf, L
  <2>11. ASSUME NEW i \in 1..k + 1
         PROVE  \E j \in 1..Len(new) :
                  new[j].offset <= s[i].offset /\ End(s[i]) <= End(new[j])
    <3>1. CASE i = k + 1
      <4>1. new[L].offset <= r.offset /\ End(r) <= End(new[L])
        BY <2>1, <2>4, <2>5, <2>6, <2>7
      <4> QED BY <2>1, <2>7, <3>1, <4>1 DEF r
    <3>2. CASE i # k + 1
      <4>1. i \in 1..k BY <3>2
      <4>2. PICK j \in 1..L : plan[j].offset <= s[i].offset /\ End(s[i]) <= End(plan[j])
        BY <4>1 DEF PlanOf, L
      <4>3. new[j].offset = plan[j].offset /\ End(plan[j]) <= End(new[j])
             /\ End(new[j]) \in Nat
        <5>1. CASE j = L BY <2>1, <2>4, <2>5, <2>6, <2>7, <5>1
        <5>2. CASE j # L
          <6>1. new[j] = plan[j] /\ End(plan[j]) \in Nat BY <1>4, <2>7, <4>2, <5>2
          <6> QED BY <6>1
        <5> QED BY <5>1, <5>2
      <4>4. End(s[i]) \in Nat /\ End(plan[j]) \in Nat
        BY <1>4, <1>6, <4>1, <4>2
      <4> QED BY <2>7, <4>2, <4>3, <4>4
    <3> QED BY <3>1, <3>2
  <2>12. new[Len(new)].offset <= s[k + 1].offset BY <2>1, <2>5, <2>7 DEF r
  <2> QED BY <2>7, <2>8, <2>9, <2>10, <2>11, <2>12 DEF PlanOf, new, r
<1>9. CASE ~(plan # <<>> /\ r.offset - End(plan[L]) <= gap)
  <2>1. new = Append(plan, r) BY <1>9 DEF Merge, Last, L
  <2> HIDE DEF new
  <2>2. /\ new \in Seq(RangeType) /\ Len(new) = L + 1 /\ new[L + 1] = r
        /\ \A j \in 1..L : new[j] = plan[j]
    BY <1>1, <1>3, <2>1 DEF L
  <2>3. new # <<>> /\ k + 1 # 0 BY <1>3, <2>2
  <2>4. \A j \in 1..Len(new) : new[j].bytes > 0 /\ End(new[j]) <= arena
    <3>1. \A j \in 1..L + 1 : j = L + 1 \/ j \in 1..L BY <1>3
    <3> QED BY <1>1, <2>2, <3>1 DEF PlanOf, L
  <2>5. ASSUME NEW j \in 1..Len(new) - 1 PROVE new[j + 1].offset > End(new[j]) + gap
    <3>1. CASE j = L
      <4>1. L \in 1..L /\ plan # <<>> BY <1>3, <1>5, <2>2, <3>1
      <4>2. r.offset - End(plan[L]) > gap BY <1>2, <1>4, <1>9, <4>1
      <4>3. r.offset > End(plan[L]) + gap
        <5>1. End(plan[L]) \in Nat BY <1>4, <4>1
        <5> QED BY <1>2, <4>2, <5>1
      <4> QED BY <2>2, <3>1, <4>1, <4>3
    <3>2. CASE j # L
      <4>1. j \in 1..L - 1 /\ j \in 1..L /\ j + 1 \in 1..L BY <1>3, <2>2, <3>2
      <4> QED BY <2>2, <4>1 DEF PlanOf, L
    <3> QED BY <3>1, <3>2
  <2>6. ASSUME NEW i \in 1..k + 1
        PROVE  \E j \in 1..Len(new) :
                 new[j].offset <= s[i].offset /\ End(s[i]) <= End(new[j])
    <3>1. CASE i = k + 1
      <4>1. L + 1 \in 1..Len(new) /\ r.offset <= r.offset /\ End(r) <= End(r)
        BY <1>2, <1>3, <2>2
      <4> QED BY <2>2, <3>1, <4>1 DEF r
    <3>2. CASE i # k + 1
      <4>1. i \in 1..k BY <3>2
      <4>2. PICK j \in 1..L : plan[j].offset <= s[i].offset /\ End(s[i]) <= End(plan[j])
        BY <4>1 DEF PlanOf, L
      <4> QED BY <1>3, <2>2, <4>2
    <3> QED BY <3>1, <3>2
  <2>7. new[Len(new)].offset <= s[k + 1].offset BY <1>2, <2>2 DEF r
  <2> QED BY <2>2, <2>3, <2>4, <2>5, <2>6, <2>7 DEF PlanOf, new, r
<1> QED BY <1>8, <1>9

(* So Merged is a plan for all the ranges.                                  *)
LEMMA MergedIsPlan ==
  ASSUME NEW n \in Nat, NEW s, DOMAIN s = 1..n, NEW gap \in Nat, NEW arena \in Nat,
         InArena(s, n, arena)
  PROVE  PlanOf(Merged(s, gap), n, s, gap, arena)
<1>0. PICK plan : Steps(plan, n, s, gap) BY MergedSteps
<1>1. /\ plan[0] = <<>> /\ plan[n] = Merged(s, gap)
      /\ \A k \in 1..n : plan[k] = Merge(plan[k - 1], s[k], gap)
  BY <1>0 DEF Steps
<1> DEFINE Bad == {k \in 0..n : ~PlanOf(plan[k], k, s, gap, arena)}
<1>2. PlanOf(plan[0], 0, s, gap, arena)
  <2>1. <<>> \in Seq(RangeType) /\ Len(<<>>) = 0 OBVIOUS
  <2> QED BY <1>1, <2>1 DEF PlanOf
<1>3. Bad = {}
  <2>1. SUFFICES ASSUME Bad # {} PROVE FALSE OBVIOUS
  <2>2. Bad \in SUBSET Nat OBVIOUS
  <2>3. PICK m \in Bad : \A k \in Bad : m <= k BY <2>1, <2>2, LeastNumber
  <2> DEFINE l == m - 1
  <2>4. m # 0 /\ l \in Nat /\ l \in 0..n /\ m = l + 1 /\ m \in 1..n /\ l \notin Bad
    BY <1>2, <2>3
  <2> HIDE DEF l
  <2>5. PlanOf(plan[l], l, s, gap, arena) BY <2>4
  <2>6. PlanOf(Merge(plan[l], s[l + 1], gap), l + 1, s, gap, arena)
    BY <2>4, <2>5, MergeStep
  <2>7. plan[l + 1] = Merge(plan[l], s[l + 1], gap)
    <3>1. l + 1 \in 1..n /\ (l + 1) - 1 = l BY <2>4
    <3> QED BY <1>1, <3>1
  <2> QED BY <2>3, <2>4, <2>6, <2>7
<1> QED BY <1>1, <1>3

-----------------------------------------------------------------------------
(* What Normalized keeps of a dirty range.                                  *)
Cut(r, arena) == [r EXCEPT !.bytes = Min({@, arena - r.offset})]

Touches(r, arena) == r.bytes # 0 /\ r.offset < arena

(* It is the part inside the arena.                                         *)
LEMMA CutFacts ==
  ASSUME NEW arena \in Nat, NEW r \in RangeType, Touches(r, arena)
  PROVE  /\ Cut(r, arena) \in RangeType /\ Cut(r, arena).offset = r.offset
         /\ Cut(r, arena).bytes > 0
         /\ End(Cut(r, arena)) = IF End(r) <= arena THEN End(r) ELSE arena
<1> DEFINE a == r.bytes
           b == arena - r.offset
           m == Min({a, b})
<1>1. r.offset \in Nat /\ r.bytes \in Nat /\ End(r) = r.offset + r.bytes BY RangeFacts
<1>2. a \in Int /\ b \in Int /\ a > 0 /\ b > 0 BY <1>1 DEF Touches
<1>3. Cut(r, arena) = [r EXCEPT !.bytes = m] BY DEF Cut
<1> HIDE DEF a, b
<1>4. m = IF a <= b THEN a ELSE b BY <1>2, TwoNumbers
<1> HIDE DEF m
<1>5. m \in Nat /\ m > 0 BY <1>2, <1>4
<1>6. /\ Cut(r, arena) \in RangeType /\ Cut(r, arena).offset = r.offset
      /\ Cut(r, arena).bytes = m
  BY <1>3, <1>5 DEF RangeType
<1>7. End(Cut(r, arena)) = r.offset + m BY <1>6 DEF End
<1> QED BY <1>1, <1>4, <1>5, <1>6, <1>7 DEF a, b

(* Normalized is finite and made of such parts.                             *)
LEMMA NormalizedFacts ==
  ASSUME NEW arena \in Nat, NEW dirty \in SUBSET RangeType, IsFiniteSet(dirty)
  PROVE  /\ Normalized(arena, dirty) \in SUBSET RangeType
         /\ IsFiniteSet(Normalized(arena, dirty))
         /\ \A c \in Normalized(arena, dirty) : \E r \in dirty :
              Touches(r, arena) /\ c = Cut(r, arena)
         /\ \A r \in dirty : Touches(r, arena) => Cut(r, arena) \in Normalized(arena, dirty)
<1> DEFINE touching == {d \in dirty : Touches(d, arena)}
           f == [r \in touching |-> Cut(r, arena)]
           N == Normalized(arena, dirty)
<1>1. N = {Cut(r, arena) : r \in touching} BY DEF Normalized, Cut, Touches
<1> HIDE DEF N
<1>2. N \in SUBSET RangeType BY <1>1, CutFacts
<1>3. f \in Surjection(touching, N) BY <1>1 DEF Surjection
<1>4. IsFiniteSet(touching) BY FS_Subset
<1> HIDE DEF f, touching
<1>5. IsFiniteSet(N) BY <1>3, <1>4, FS_Surjection
<1> QED BY <1>1, <1>2, <1>5 DEF N, touching

(* A plan of copies: in the arena, in order, apart, and with every dirty    *)
(* range of the arena in one of the copies.                                 *)
Plans(plan, arena, dirty, gap) ==
  /\ plan \in Seq(RangeType)
  /\ (plan = <<>>) <=> \A r \in dirty : ~Touches(r, arena)
  /\ \A j \in 1..Len(plan) : plan[j].bytes > 0 /\ End(plan[j]) <= arena
  /\ \A j \in 1..Len(plan) - 1 : plan[j + 1].offset > End(plan[j]) + gap
  /\ \A r \in dirty : Touches(r, arena) => \E j \in 1..Len(plan) :
       plan[j].offset <= r.offset /\ End(Cut(r, arena)) <= End(plan[j])

(* The merged ranges are such a plan.                                       *)
LEMMA MergedPlans ==
  ASSUME NEW arena \in Nat, NEW dirty \in SUBSET RangeType, IsFiniteSet(dirty),
         NEW gap \in Nat
  PROVE  Plans(Merged(ByOffset(Normalized(arena, dirty)), gap), arena, dirty, gap)
<1> DEFINE N == Normalized(arena, dirty)
           s == ByOffset(N)
           n == Cardinality(N)
           plan == Merged(s, gap)
<1>1. /\ N \in SUBSET RangeType /\ IsFiniteSet(N)
      /\ \A c \in N : \E r \in dirty : Touches(r, arena) /\ c = Cut(r, arena)
      /\ \A r \in dirty : Touches(r, arena) => Cut(r, arena) \in N
  BY NormalizedFacts
<1> HIDE DEF N
<1>2. n \in Nat /\ Sorted(s, n, N) /\ \A r \in N : \E i \in 1..n : s[i] = r
  BY <1>1, ByOffsetSorts
<1>3. \A c \in N : c.bytes > 0 /\ End(c) <= arena
  <2> SUFFICES ASSUME NEW c \in N PROVE c.bytes > 0 /\ End(c) <= arena OBVIOUS
  <2>1. PICK r \in dirty : Touches(r, arena) /\ c = Cut(r, arena) BY <1>1
  <2>2. /\ c.bytes > 0 /\ End(c) = (IF End(r) <= arena THEN End(r) ELSE arena)
        /\ End(r) \in Nat
    BY <2>1, CutFacts, RangeFacts
  <2> QED BY <2>2
<1> HIDE DEF s, n
<1>4. DOMAIN s = 1..n /\ \A i \in 1..n : s[i] \in N BY <1>2 DEF Sorted
<1>5. InArena(s, n, arena) BY <1>1, <1>2, <1>3, <1>4 DEF InArena, Sorted
<1>6. PlanOf(plan, n, s, gap, arena) BY <1>2, <1>4, <1>5, MergedIsPlan
<1> HIDE DEF plan
<1>7. (plan = <<>>) <=> \A r \in dirty : ~Touches(r, arena)
  <2>1. plan = <<>> <=> n = 0 BY <1>6 DEF PlanOf
  <2>2. n = 0 <=> N = {} BY <1>1, FS_EmptySet DEF n
  <2>3. N = {} <=> \A r \in dirty : ~Touches(r, arena) BY <1>1
  <2> QED BY <2>1, <2>2, <2>3
<1>8. ASSUME NEW r \in dirty, Touches(r, arena)
      PROVE  \E j \in 1..Len(plan) :
               plan[j].offset <= r.offset /\ End(Cut(r, arena)) <= End(plan[j])
  <2> DEFINE c == Cut(r, arena)
  <2>1. c \in N /\ c.offset = r.offset BY <1>1, <1>8, CutFacts
  <2> HIDE DEF c
  <2>2. PICK i \in 1..n : s[i] = c BY <1>2, <2>1
  <2>3. PICK j \in 1..Len(plan) : plan[j].offset <= s[i].offset /\ End(s[i]) <= End(plan[j])
    BY <1>6 DEF PlanOf
  <2> QED BY <2>1, <2>2, <2>3 DEF c
<1>9. Plans(plan, arena, dirty, gap) BY <1>6, <1>7, <1>8 DEF Plans, PlanOf
<1> QED BY <1>9 DEF plan, s, N

(* And so is one copy of the whole arena, if there is something to copy.    *)
LEMMA FullPlans ==
  ASSUME NEW arena \in Nat, NEW dirty \in SUBSET RangeType, NEW gap \in Nat,
         NEW d \in dirty, Touches(d, arena)
  PROVE  Plans(FullArenaPlan(arena), arena, dirty, gap)
<1> DEFINE full == [offset |-> 0, bytes |-> arena]
<1>1. d.offset \in Nat /\ arena > 0 BY RangeFacts DEF Touches
<1>2. FullArenaPlan(arena) = <<full>> BY <1>1 DEF FullArenaPlan
<1>3. full \in RangeType /\ full.offset = 0 /\ full.bytes = arena /\ End(full) = arena
  BY DEF RangeType, End
<1> HIDE DEF full
<1>4. <<full>> \in Seq(RangeType) /\ Len(<<full>>) = 1 /\ <<full>>[1] = full /\ <<full>> # <<>>
  BY <1>3
<1>5. ASSUME NEW r \in dirty, Touches(r, arena)
      PROVE  full.offset <= r.offset /\ End(Cut(r, arena)) <= End(full)
  <2>1. /\ r.offset \in Nat /\ End(r) \in Nat
        /\ End(Cut(r, arena)) = (IF End(r) <= arena THEN End(r) ELSE arena)
    BY <1>5, CutFacts, RangeFacts
  <2> QED BY <1>3, <2>1
<1>6. \A j \in 1..Len(<<full>>) : j = 1 BY <1>4
<1>7. 1 \in 1..Len(<<full>>) BY <1>4
<1>8. \A j \in 1..Len(<<full>>) :
         <<full>>[j].bytes > 0 /\ End(<<full>>[j]) <= arena
  BY <1>1, <1>3, <1>4, <1>6
<1>9. 1..Len(<<full>>) - 1 = {} BY <1>4
<1>10. Plans(<<full>>, arena, dirty, gap)
  BY <1>4, <1>5, <1>7, <1>8, <1>9 DEF Plans
<1> QED BY <1>2, <1>10

(* PlanReusableHostBufferArenaCopies takes one of the two.                  *)
LEMMA PlanFacts ==
  ASSUME NEW arena \in Nat, NEW dirty \in SUBSET RangeType, IsFiniteSet(dirty),
         NEW max, NEW gap \in Nat, NEW overhead
  PROVE  Plans(PlanReusableHostBufferArenaCopies(arena, dirty, max, gap, overhead),
               arena, dirty, gap)
<1> DEFINE merged == Merged(ByOffset(Normalized(arena, dirty)), gap)
           plan == PlanReusableHostBufferArenaCopies(arena, dirty, max, gap, overhead)
<1>1. Plans(merged, arena, dirty, gap) BY MergedPlans
<1>2. plan = merged \/ (merged # <<>> /\ plan = FullArenaPlan(arena))
  BY DEF PlanReusableHostBufferArenaCopies
<1> HIDE DEF merged, plan
<1>3. CASE merged # <<>> /\ plan = FullArenaPlan(arena)
  <2>1. PICK d \in dirty : Touches(d, arena) BY <1>1, <1>3 DEF Plans
  <2> QED BY <1>3, <2>1, FullPlans DEF plan
<1> QED BY <1>1, <1>2, <1>3 DEF plan

(* Byte by byte: the copies bring every dirty byte of the arena to the      *)
(* device and no byte outside it, and nothing is copied if nothing is dirty.*)
LEMMA DirtyBytesAreCopied ==
  ASSUME NEW arena_bytes \in Nat, NEW dirty \in SUBSET RangeType, IsFiniteSet(dirty),
         NEW max_ranges, NEW merge_gap \in Nat, NEW overhead
  PROVE  CopiesDirtyBytes(
           PlanReusableHostBufferArenaCopies(arena_bytes, dirty, max_ranges, merge_gap, overhead),
           arena_bytes, dirty, merge_gap)
<1> DEFINE plan == PlanReusableHostBufferArenaCopies(arena_bytes, dirty, max_ranges,
                                                     merge_gap, overhead)
           arena == 0 .. arena_bytes - 1
           dirty_bytes == (UNION {BytesOf(r) : r \in dirty}) \cap arena
           copied == UNION {BytesOf(plan[i]) : i \in DOMAIN plan}
<1>1. Plans(plan, arena_bytes, dirty, merge_gap) BY PlanFacts
<1> HIDE DEF plan
<1>2. plan \in Seq(RangeType) /\ DOMAIN plan = 1..Len(plan) /\ Len(plan) \in Nat
  BY <1>1 DEF Plans
<1>3. \A i \in 1..Len(plan) : /\ plan[i].offset \in Nat /\ End(plan[i]) \in Nat
                              /\ End(plan[i]) <= arena_bytes
  <2>1. \A i \in 1..Len(plan) : plan[i] \in RangeType BY <1>2
  <2> QED BY <1>1, <2>1, RangeFacts DEF Plans
<1>4. ASSUME NEW r \in dirty, NEW x \in BytesOf(r) \cap arena
      PROVE  /\ Touches(r, arena_bytes)
             /\ \E i \in DOMAIN plan : x \in BytesOf(plan[i])
  <2>1. r.offset \in Nat /\ r.bytes \in Nat /\ End(r) = r.offset + r.bytes BY RangeFacts
  <2>2. /\ x \in Int /\ r.offset <= x /\ x < End(r) /\ x < arena_bytes
    BY <2>1 DEF BytesOf
  <2>3. Touches(r, arena_bytes) BY <2>1, <2>2 DEF Touches
  <2>4. PICK i \in 1..Len(plan) : /\ plan[i].offset <= r.offset
                                  /\ End(Cut(r, arena_bytes)) <= End(plan[i])
    BY <1>1, <2>3 DEF Plans
  <2>5. End(Cut(r, arena_bytes)) = IF End(r) <= arena_bytes THEN End(r) ELSE arena_bytes
    BY <2>3, CutFacts
  <2>6. x < End(Cut(r, arena_bytes)) /\ End(Cut(r, arena_bytes)) \in Int
    BY <2>1, <2>2, <2>5
  <2>7. plan[i].offset \in Nat /\ End(plan[i]) \in Nat BY <1>3
  <2>8. plan[i].offset <= x /\ x < End(plan[i]) BY <2>1, <2>2, <2>4, <2>6, <2>7
  <2>9. x \in BytesOf(plan[i]) BY <2>2, <2>7, <2>8 DEF BytesOf
  <2> QED BY <1>2, <2>3, <2>9
<1>5. dirty_bytes \subseteq copied BY <1>4
<1>6. copied \subseteq arena
  <2>1. ASSUME NEW i \in 1..Len(plan) PROVE BytesOf(plan[i]) \subseteq arena
    BY <1>3 DEF BytesOf
  <2> QED BY <1>2, <2>1
<1>7. ASSUME plan # <<>> PROVE dirty_bytes # {}
  <2>1. PICK r \in dirty : Touches(r, arena_bytes) BY <1>1, <1>7 DEF Plans
  <2>2. r.offset \in Nat /\ r.bytes \in Nat /\ End(r) = r.offset + r.bytes BY RangeFacts
  <2>3. r.offset \in BytesOf(r) /\ r.offset \in arena
    BY <2>1, <2>2 DEF BytesOf, Touches
  <2> QED BY <2>3
<1>8. \A i \in 1 .. Len(plan) - 1 : plan[i + 1].offset > End(plan[i]) + merge_gap
  BY <1>1 DEF Plans
<1> HIDE DEF dirty_bytes, copied, arena
<1>9. /\ dirty_bytes \subseteq copied /\ copied \subseteq arena
      /\ dirty_bytes = {} => plan = <<>>
      /\ \A i \in 1 .. Len(plan) - 1 : plan[i + 1].offset > End(plan[i]) + merge_gap
  BY <1>5, <1>6, <1>7, <1>8
<1> QED BY <1>9 DEF CopiesDirtyBytes, plan, dirty_bytes, copied, arena

(* A dirty range of the arena is within one copy, so a slot is flushed as a *)
(* whole.                                                                   *)
LEMMA DirtyRangeIsCopied ==
  ASSUME NEW arena \in Nat, NEW dirty \in SUBSET RangeType, IsFiniteSet(dirty),
         NEW max, NEW gap \in Nat, NEW overhead,
         NEW r \in dirty, r.bytes > 0, End(r) <= arena
  PROVE  LET plan == PlanReusableHostBufferArenaCopies(arena, dirty, max, gap, overhead)
         IN  \E i \in DOMAIN plan : plan[i].offset <= r.offset /\ End(r) <= End(plan[i])
<1> DEFINE plan == PlanReusableHostBufferArenaCopies(arena, dirty, max, gap, overhead)
<1>1. Plans(plan, arena, dirty, gap) BY PlanFacts
<1> HIDE DEF plan
<1>2. r.offset \in Nat /\ r.bytes \in Nat /\ End(r) = r.offset + r.bytes BY RangeFacts
<1>3. Touches(r, arena) BY <1>2 DEF Touches
<1>4. End(Cut(r, arena)) = End(r) BY <1>3, CutFacts
<1>5. PICK i \in 1..Len(plan) : plan[i].offset <= r.offset /\ End(r) <= End(plan[i])
  BY <1>1, <1>3, <1>4 DEF Plans
<1>6. DOMAIN plan = 1..Len(plan) BY <1>1 DEF Plans
<1> QED BY <1>5, <1>6 DEF plan

-----------------------------------------------------------------------------
(* The saturating sum of the bytes of the copies is well defined, by the    *)
(* same argument as the fold of the ranges.                                 *)
Adds(it, n, plan) ==
  it = [s \in SUBSET (1..n) |->
          IF s = {} THEN 0 ELSE SaturatingAdd(it[s \ {Max(s)}], plan[Max(s)].bytes)]

(* It is, step by step: the last copy is added after the others.            *)
LEMMA SumExists ==
  ASSUME NEW n \in Nat, NEW plan
  PROVE  \E it : Adds(it, n, plan)
<1> DEFINE Defined(k) == \E it : Adds(it, k, plan)
           Bad == {k \in Nat : ~Defined(k)}
<1>1. Defined(0)
  <2> DEFINE it == [s \in {{}} |-> 0]
  <2>1. SUBSET (1..0) = {{}} OBVIOUS
  <2>2. it = [s \in SUBSET (1..0) |->
                IF s = {} THEN 0 ELSE SaturatingAdd(it[s \ {Max(s)}], plan[Max(s)].bytes)]
    BY <2>1
  <2> QED BY <2>2 DEF Adds
<1>2. ASSUME NEW k \in Nat, Defined(k) PROVE Defined(k + 1)
  <2>1. PICK it : Adds(it, k, plan) BY <1>2
  <2> DEFINE new == [s \in SUBSET (1..k + 1) |->
                       IF k + 1 \in s THEN SaturatingAdd(it[s \ {k + 1}], plan[k + 1].bytes)
                       ELSE it[s]]
  <2>2. \A s \in SUBSET (1..k) : s \in SUBSET (1..k + 1) /\ k + 1 \notin s OBVIOUS
  <2>3. \A s \in SUBSET (1..k) : new[s] = it[s] BY <2>2
  <2>4. ASSUME NEW s \in SUBSET (1..k + 1)
        PROVE  new[s] = IF s = {} THEN 0
                        ELSE SaturatingAdd(new[s \ {Max(s)}], plan[Max(s)].bytes)
    <3>1. CASE k + 1 \in s
      <4>1. Max(s) = k + 1 BY <3>1, LastNumber
      <4>2. s \ {k + 1} \in SUBSET (1..k) OBVIOUS
      <4>3. new[s \ {k + 1}] = it[s \ {k + 1}] BY <2>3, <4>2
      <4>4. new[s] = SaturatingAdd(it[s \ {k + 1}], plan[k + 1].bytes) BY <3>1
      <4> HIDE DEF new
      <4> QED BY <3>1, <4>1, <4>3, <4>4
    <3>2. CASE k + 1 \notin s
      <4>1. \A x \in s : x \in 1..k + 1 /\ x # k + 1 BY <3>2
      <4>2. \A x \in s : x \in 1..k BY <4>1
      <4>3. s \in SUBSET (1..k) /\ s \ {Max(s)} \in SUBSET (1..k) BY <4>2
      <4>4. new[s] = it[s] /\ new[s \ {Max(s)}] = it[s \ {Max(s)}] BY <2>3, <4>3
      <4>5. it[s] = IF s = {} THEN 0
                    ELSE SaturatingAdd(it[s \ {Max(s)}], plan[Max(s)].bytes)
        BY <2>1, <4>3 DEF Adds
      <4> HIDE DEF new
      <4> QED BY <4>4, <4>5
    <3> QED BY <3>1, <3>2
  <2>5. new = [s \in SUBSET (1..k + 1) |-> new[s]] OBVIOUS
  <2> HIDE DEF new
  <2>6. Adds(new, k + 1, plan) BY <2>4, <2>5 DEF Adds
  <2> QED BY <2>6
<1> HIDE DEF Defined
<1>3. Bad = {}
  <2>1. SUFFICES ASSUME Bad # {} PROVE FALSE OBVIOUS
  <2>2. PICK m \in Bad : \A k \in Bad : m <= k BY <2>1, LeastNumber
  <2>3. m # 0 /\ m - 1 \in Nat /\ m - 1 \notin Bad BY <1>1, <2>2
  <2>4. Defined((m - 1) + 1) BY <1>2, <2>3
  <2>5. (m - 1) + 1 = m BY <2>3
  <2> QED BY <2>2, <2>4, <2>5
<1> QED BY <1>3 DEF Defined

(* The sums of the first copies, and of all of them.                        *)
Sums(sum, n, plan) ==
  /\ sum[0] = 0 /\ sum[n] = TransferredBytes(plan)
  /\ \A k \in 1..n : sum[k] = SaturatingAdd(sum[k - 1], plan[k].bytes)

(* TransferredBytes adds one copy after the other.                          *)
LEMMA TransferredBytesSteps ==
  ASSUME NEW n \in Nat, NEW plan, DOMAIN plan = 1..n
  PROVE  \E sum : Sums(sum, n, plan)
<1> DEFINE it == CHOOSE it : Adds(it, n, plan)
           sum == [k \in 0..n |-> it[1..k]]
<1>1. Adds(it, n, plan) BY SumExists
<1>2. TransferredBytes(plan) = it[1..n]
  BY DEF TransferredBytes, FoldLeft, MapThenFoldSet, Adds
<1> HIDE DEF it
<1>3. it[1..0] = 0 BY <1>1 DEF Adds
<1>4. ASSUME NEW k \in 1..n
      PROVE  it[1..k] = SaturatingAdd(it[1..(k - 1)], plan[k].bytes)
  <2>1. 1..k \in SUBSET (1..n) /\ 1..k # {} /\ (1..k) \ {k} = 1..(k - 1) OBVIOUS
  <2>2. Max(1..k) = k
    <3> DEFINE l == k - 1
    <3>1. l \in Nat /\ l + 1 = k /\ 1..k \in SUBSET (1..l + 1) /\ l + 1 \in 1..k OBVIOUS
    <3> HIDE DEF l
    <3>2. Max(1..k) = l + 1 BY <3>1, LastNumber
    <3> QED BY <3>1, <3>2
  <2>3. it[1..k] = SaturatingAdd(it[(1..k) \ {Max(1..k)}], plan[Max(1..k)].bytes)
    BY <1>1, <2>1 DEF Adds
  <2> QED BY <2>1, <2>2, <2>3
<1>5. sum[0] = 0 /\ sum[n] = TransferredBytes(plan) BY <1>2, <1>3
<1>6. \A k \in 1..n : sum[k] = SaturatingAdd(sum[k - 1], plan[k].bytes) BY <1>4
<1> HIDE DEF sum
<1>7. Sums(sum, n, plan) BY <1>5, <1>6 DEF Sums
<1> QED BY <1>7

(* The bytes of the first k copies.                                         *)
CopiedBytes(plan, k) == UNION {BytesOf(plan[i]) : i \in 1..k}

(* A sum that did not saturate counts each of them.                         *)
Counts(sum, plan, k) ==
  /\ IsFiniteSet(CopiedBytes(plan, k))
  /\ sum \in 0..SizeMax
  /\ sum < SizeMax => Cardinality(CopiedBytes(plan, k)) <= sum

(* So does the sum with one copy more.                                      *)
LEMMA CountStep ==
  ASSUME NEW k \in Nat, NEW plan, plan[k + 1] \in RangeType, NEW sum,
         Counts(sum, plan, k)
  PROVE  Counts(SaturatingAdd(sum, plan[k + 1].bytes), plan, k + 1)
<1> DEFINE r == plan[k + 1]
           A == CopiedBytes(plan, k)
           B == BytesOf(r)
           C == CopiedBytes(plan, k + 1)
           new == SaturatingAdd(sum, r.bytes)
<1>1. r.offset \in Nat /\ r.bytes \in Nat /\ End(r) = r.offset + r.bytes BY RangeFacts
<1>2. C = A \cup B
  <2>1. \A i : i \in 1..k + 1 <=> i \in 1..k \/ i = k + 1 OBVIOUS
  <2> QED BY <2>1 DEF CopiedBytes
<1>3. IsFiniteSet(B) /\ Cardinality(B) <= r.bytes
  <2>1. /\ IsFiniteSet(r.offset .. (End(r) - 1))
        /\ Cardinality(r.offset .. (End(r) - 1)) =
             IF r.offset > End(r) - 1 THEN 0 ELSE (End(r) - 1) - r.offset + 1
    <3> DEFINE a == r.offset
               b == End(r) - 1
    <3>1. a \in Int /\ b \in Int BY <1>1
    <3> HIDE DEF a, b
    <3>2. /\ IsFiniteSet(a..b)
          /\ Cardinality(a..b) = IF a > b THEN 0 ELSE b - a + 1
      BY <3>1, FS_Interval
    <3> QED BY <3>2 DEF a, b
  <2> QED BY <1>1, <2>1 DEF BytesOf
<1>4. SizeMax \in Nat BY SizeMaxAssumption
<1>5. IsFiniteSet(A) /\ sum \in 0..SizeMax /\ (sum < SizeMax => Cardinality(A) <= sum)
  BY DEF Counts
<1>6. /\ IsFiniteSet(A \cup B)
      /\ Cardinality(A \cup B) = Cardinality(A) + Cardinality(B) - Cardinality(A \cap B)
  BY <1>3, <1>5, FS_Union
<1>7. /\ Cardinality(A) \in Nat /\ Cardinality(B) \in Nat /\ Cardinality(A \cap B) \in Nat
  BY <1>3, <1>5, FS_CardinalityType, FS_Intersection
<1>8. new = IF r.bytes > SizeMax - sum THEN SizeMax ELSE sum + r.bytes
  BY DEF SaturatingAdd
<1> HIDE DEF A, B, C, new
<1>9. IsFiniteSet(C) BY <1>2, <1>6
<1>10. Cardinality(C) <= Cardinality(A) + r.bytes /\ Cardinality(C) \in Int
  BY <1>1, <1>2, <1>3, <1>6, <1>7
<1>11. new \in 0..SizeMax BY <1>1, <1>4, <1>5, <1>8
<1>12. ASSUME new < SizeMax PROVE Cardinality(C) <= new
  <2>1. new = sum + r.bytes /\ sum < SizeMax BY <1>1, <1>4, <1>5, <1>8, <1>12
  <2> QED BY <1>1, <1>5, <1>7, <1>10, <2>1
<1> QED BY <1>9, <1>11, <1>12 DEF Counts, C, new, r

(* TransferredBytes counts every byte that is copied, unless it saturated.  *)
LEMMA TransferredBytesCounts ==
  ASSUME NEW plan \in Seq(RangeType)
  PROVE  Counts(TransferredBytes(plan), plan, Len(plan))
<1> DEFINE n == Len(plan)
<1>1. n \in Nat /\ DOMAIN plan = 1..n /\ \A i \in 1..n : plan[i] \in RangeType OBVIOUS
<1> HIDE DEF n
<1>2. PICK sum : Sums(sum, n, plan) BY <1>1, TransferredBytesSteps
<1>3. /\ sum[0] = 0 /\ sum[n] = TransferredBytes(plan)
      /\ \A k \in 1..n : sum[k] = SaturatingAdd(sum[k - 1], plan[k].bytes)
  BY <1>2 DEF Sums
<1> DEFINE Bad == {k \in 0..n : ~Counts(sum[k], plan, k)}
<1>4. Counts(sum[0], plan, 0)
  <2>1. CopiedBytes(plan, 0) = {} BY DEF CopiedBytes
  <2>2. IsFiniteSet({}) /\ Cardinality({}) = 0 BY FS_EmptySet
  <2>3. SizeMax \in Nat BY SizeMaxAssumption
  <2>4. Counts(0, plan, 0) BY <2>1, <2>2, <2>3 DEF Counts
  <2> QED BY <1>3, <2>4
<1>5. ASSUME NEW k \in Nat, k + 1 \in 1..n, Counts(sum[k], plan, k)
      PROVE  Counts(sum[k + 1], plan, k + 1)
  <2>1. sum[k + 1] = SaturatingAdd(sum[k], plan[k + 1].bytes)
    <3>1. sum[k + 1] = SaturatingAdd(sum[(k + 1) - 1], plan[k + 1].bytes) BY <1>3, <1>5
    <3>2. (k + 1) - 1 = k OBVIOUS
    <3> QED BY <3>1, <3>2
  <2>2. plan[k + 1] \in RangeType BY <1>1, <1>5
  <2> QED BY <1>5, <2>1, <2>2, CountStep
<1>6. Bad = {}
  <2>1. SUFFICES ASSUME Bad # {} PROVE FALSE OBVIOUS
  <2>2. Bad \in SUBSET Nat BY <1>1
  <2>3. PICK m \in Bad : \A k \in Bad : m <= k BY <2>1, <2>2, LeastNumber
  <2>4. m \in 0..n /\ m # 0 BY <1>4, <2>3
  <2>5. m - 1 \in 0..n /\ m - 1 \in Nat /\ m - 1 < m /\ (m - 1) + 1 = m BY <1>1, <2>4
  <2>6. m - 1 \notin Bad BY <2>3, <2>5
  <2>7. Counts(sum[m - 1], plan, m - 1) BY <2>5, <2>6
  <2>8. Counts(sum[(m - 1) + 1], plan, (m - 1) + 1) BY <1>1, <1>5, <2>4, <2>5, <2>7
  <2> QED BY <2>3, <2>5, <2>8
<1>7. n \in 0..n BY <1>1
<1>8. Counts(sum[n], plan, n) BY <1>6, <1>7
<1> QED BY <1>3, <1>8 DEF n

(* Saturating arithmetic at the comparison of the costs: a plan of ranges   *)
(* is only taken if its cost did not saturate.                              *)
LEMMA CostIsExact ==
  ASSUME NEW bytes \in Nat, NEW n \in Nat, NEW overhead \in Nat, NEW arena \in Nat,
         SaturatingAdd(bytes, SaturatingTimes(n, overhead)) < SaturatingAdd(arena, overhead)
  PROVE  bytes + n * overhead < arena + overhead /\ bytes < SizeMax
<1>1. SizeMax \in Nat BY SizeMaxAssumption
<1> DEFINE times == SaturatingTimes(n, overhead)
           product == n * overhead
           cost == SaturatingAdd(bytes, times)
           full == SaturatingAdd(arena, overhead)
<1>2. product \in Nat OBVIOUS
<1>3. times = SizeMax \/ times = product BY DEF SaturatingTimes
<1>4. cost = IF times > SizeMax - bytes THEN SizeMax ELSE bytes + times BY DEF SaturatingAdd
<1>5. full = IF overhead > SizeMax - arena THEN SizeMax ELSE arena + overhead
  BY DEF SaturatingAdd
<1>6. cost < full OBVIOUS
<1> HIDE DEF times, product, cost, full
<1>7. times \in Nat BY <1>1, <1>2, <1>3
<1>8. full <= SizeMax /\ full <= arena + overhead /\ full \in Int BY <1>1, <1>5
<1>9. cost = bytes + times /\ times <= SizeMax - bytes BY <1>1, <1>4, <1>6, <1>7, <1>8
<1>10. times = product \/ (times = SizeMax /\ bytes + SizeMax < SizeMax)
  BY <1>1, <1>3, <1>6, <1>7, <1>8, <1>9
<1>11. times = product BY <1>1, <1>10
<1> QED BY <1>1, <1>2, <1>6, <1>7, <1>8, <1>9, <1>11 DEF product

(* The chosen plan is no dearer than a copy of the whole arena.             *)
LEMMA PlanIsCheap ==
  ASSUME NEW arena \in Nat, NEW dirty \in SUBSET RangeType, IsFiniteSet(dirty),
         NEW max \in Nat, NEW gap \in Nat, NEW overhead \in Nat
  PROVE  IsCheap(PlanReusableHostBufferArenaCopies(arena, dirty, max, gap, overhead),
                 arena, max, overhead)
<1> DEFINE merged == Merged(ByOffset(Normalized(arena, dirty)), gap)
           plan == PlanReusableHostBufferArenaCopies(arena, dirty, max, gap, overhead)
           bytes == TransferredBytes(merged)
           n == Len(merged)
           copied == UNION {BytesOf(merged[i]) : i \in DOMAIN merged}
<1>1. merged \in Seq(RangeType) BY MergedPlans DEF Plans
<1>2. \/ plan \in {<<>>, FullArenaPlan(arena)}
      \/ /\ plan = merged /\ ~(n > max)
         /\ ~(SaturatingAdd(bytes, SaturatingTimes(n, overhead)) >= SaturatingAdd(arena, overhead))
  BY DEF PlanReusableHostBufferArenaCopies
<1> HIDE DEF plan, merged
<1>3. CASE plan \in {<<>>, FullArenaPlan(arena)} BY <1>3 DEF IsCheap, plan
<1>4. CASE /\ plan = merged /\ ~(n > max)
           /\ ~(SaturatingAdd(bytes, SaturatingTimes(n, overhead)) >= SaturatingAdd(arena, overhead))
  <2>1. n \in Nat /\ DOMAIN merged = 1..n BY <1>1
  <2>2. Counts(bytes, merged, n) BY <1>1, TransferredBytesCounts
  <2>3. copied = CopiedBytes(merged, n) BY <2>1 DEF CopiedBytes
  <2> HIDE DEF bytes, n, copied
  <2>4. SizeMax \in Nat BY SizeMaxAssumption
  <2>5. bytes \in Nat /\ bytes <= SizeMax BY <2>2, <2>4 DEF Counts
  <2>6. n * overhead \in Nat BY <2>1
  <2>7. SaturatingAdd(bytes, SaturatingTimes(n, overhead)) < SaturatingAdd(arena, overhead)
    <3> DEFINE times == SaturatingTimes(n, overhead)
    <3>1. times \in Nat BY <2>4, <2>6 DEF SaturatingTimes
    <3> HIDE DEF times
    <3>2. SaturatingAdd(bytes, times) \in Int /\ SaturatingAdd(arena, overhead) \in Int
      BY <2>4, <2>5, <3>1 DEF SaturatingAdd
    <3> QED BY <1>4, <3>2 DEF times
  <2>8. bytes + n * overhead < arena + overhead /\ bytes < SizeMax
    BY <2>1, <2>5, <2>7, CostIsExact
  <2>9. Cardinality(copied) \in Nat /\ Cardinality(copied) <= bytes
    BY <2>2, <2>3, <2>8, FS_CardinalityType DEF Counts
  <2>10. Cardinality(copied) + n * overhead < arena + overhead BY <2>5, <2>6, <2>8, <2>9
  <2>11. n <= max BY <1>4, <2>1
  <2> QED BY <1>4, <2>10, <2>11 DEF IsCheap, plan, n, copied
<1> QED BY <1>2, <1>3, <1>4

(* For any arena, dirty ranges and limits, the copies that                  *)
(* PlanReusableHostBufferArenaCopies plans bring every dirty byte of the    *)
(* arena to the device and no byte outside it; nothing is copied when       *)
(* nothing is dirty; the copies are in order and further apart than the gap *)
(* below which they are merged; and they are either one copy of the arena,  *)
(* or no more than permitted and cheaper than that, although the costs are  *)
(* computed in saturating arithmetic.                                       *)
THEOREM CopyPlanTheorem ==
  ASSUME NEW arena_bytes \in Nat, NEW dirty \in SUBSET RangeType, IsFiniteSet(dirty),
         NEW max_ranges \in Nat, NEW merge_gap \in Nat, NEW overhead \in Nat
  PROVE  CorrectPlan(
           PlanReusableHostBufferArenaCopies(arena_bytes, dirty, max_ranges, merge_gap, overhead),
           arena_bytes, dirty, max_ranges, merge_gap, overhead)
BY DirtyBytesAreCopied, PlanIsCheap DEF CorrectPlan
====
