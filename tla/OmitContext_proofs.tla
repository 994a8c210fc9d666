------------------------- MODULE OmitContext_proofs -------------------------
(***************************************************************************)
(* The arrays of an OMIT context answer what sets of days would, for every *)
(* list of commands and every length of the arrays.                        *)
(*                                                                         *)
(* The binary search is exact on a sorted array: by the size of the range  *)
(* that it still looks at, as each half of it is searched exactly.  The    *)
(* insertion keeps an array sorted, so that the search stays exact through *)
(* all commands (ArraysStaySorted, SearchIsExactAlways).  What each        *)
(* command adds to the sets, through the loops over its days, makes every  *)
(* step one of OmitSets (OmitsImplementSets).                              *)
(***************************************************************************)
EXTENDS OmitContext, NatLemmas, SequenceTheorems

Sorted(a) == \A i, j \in 1 .. Len(a) : i < j => a[i] < a[j]
Arrays    == {a \in Seq(Int) : Sorted(a)}

Within(a, key, bot, top) == \E i \in bot .. top : a[i] = key

\* A round of the binary search over bot .. top, by what the halves hold.
Halved(a, key, bot, top, found) ==
    LET mid == (top - 1 + bot - 1) \div 2 + 1
    IN  /\ top >= bot
        /\ \/ a[mid] = key
           \/ a[mid] > key /\ found[<<bot, mid - 1>>]
           \/ a[mid] < key /\ found[<<mid + 1, top>>]

(* One half of a sorted array is enough to know the whole.                 *)
LEMMA HalvedIsWithin ==
    ASSUME NEW a \in Arrays, NEW key \in Int,
           NEW bot \in 1 .. Len(a) + 1, NEW top \in 0 .. Len(a), NEW found,
           LET mid == (top - 1 + bot - 1) \div 2 + 1
           IN  top >= bot => /\ found[<<bot, mid - 1>>] <=> Within(a, key, bot, mid - 1)
                             /\ found[<<mid + 1, top>>] <=> Within(a, key, mid + 1, top)
    PROVE  Halved(a, key, bot, top, found) <=> Within(a, key, bot, top)
<1> DEFINE mid == (top - 1 + bot - 1) \div 2 + 1
<1>1. CASE ~(top >= bot)
  <2>1. bot .. top = {}
    BY <1>1
  <2> QED
    BY <1>1, <2>1 DEF Halved, Within
<1>2. CASE top >= bot
  <2>1. mid \in bot .. top /\ mid \in 1 .. Len(a)
    BY <1>2
  <2> HIDE DEF mid
  <2>2. \A i \in 1 .. Len(a) : a[i] \in Int
    BY DEF Arrays
  <2>3. \A i \in 1 .. Len(a) : (i < mid => a[i] < a[mid]) /\ (mid < i => a[mid] < a[i])
    BY <2>1 DEF Arrays, Sorted
  <2>4. CASE a[mid] = key
    <3>1. Within(a, key, bot, top)
      BY <2>1, <2>4 DEF Within
    <3> QED
      BY <1>2, <2>4, <3>1 DEF Halved, mid
  <2>5. CASE a[mid] > key
    <3>1. Within(a, key, bot, top) <=> Within(a, key, bot, mid - 1)
      <4>1. \A i \in bot .. top : a[i] = key => i < mid
        <5> SUFFICES ASSUME NEW i \in bot .. top, a[i] = key, ~(i < mid) PROVE FALSE
          OBVIOUS
        <5>1. i \in 1 .. Len(a)
          OBVIOUS
        <5> QED
          BY <2>1, <2>2, <2>3, <2>5, <5>1
      <4> QED
        BY <2>1, <4>1 DEF Within
    <3>2. Halved(a, key, bot, top, found) <=> found[<<bot, mid - 1>>]
      <4>1. a[mid] # key /\ ~(a[mid] < key)
        BY <2>1, <2>2, <2>5
      <4> QED
        BY <1>2, <2>5, <4>1, Zenon DEF Halved, mid
    <3> QED
      BY <1>2, <3>1, <3>2 DEF mid
  <2>6. CASE a[mid] < key
    <3>1. Within(a, key, bot, top) <=> Within(a, key, mid + 1, top)
      <4>1. \A i \in bot .. top : a[i] = key => i > mid
        BY SMTT(30), <2>1, <2>2, <2>3, <2>6
      <4> QED
        BY <2>1, <4>1 DEF Within
    <3>2. Halved(a, key, bot, top, found) <=> found[<<mid + 1, top>>]
      <4>1. a[mid] # key /\ ~(a[mid] > key)
        BY <2>1, <2>2, <2>6
      <4> QED
        BY <1>2, <2>6, <4>1, Zenon DEF Halved, mid
    <3> QED
      BY <1>2, <3>1, <3>2 DEF mid
  <2> QED
    BY <2>1, <2>2, <2>4, <2>5, <2>6
<1> QED
  BY <1>1, <1>2

(* BexistsIntArray finds what is in a sorted array, and nothing else.      *)
LEMMA SearchFinds ==
    ASSUME NEW a \in Arrays, NEW key \in Int
    PROVE  BexistsIntArray(a, key) <=> Within(a, key, 1, Len(a))
<1> DEFINE N == Len(a)
           Pairs == (1 .. N + 1) \X (0 .. N)
           W == [r \in Pairs |-> Within(a, key, r[1], r[2])]
           Is(f) == f = [r \in Pairs |-> Halved(a, key, r[1], r[2], f)]
           found == CHOOSE f : Is(f)
<1>0. N \in Nat
  BY DEF Arrays
<1>1. BexistsIntArray(a, key) <=> found[<<1, N>>]
  BY Zenon DEF BexistsIntArray, Halved
<1>2. ASSUME NEW bot \in 1 .. N + 1, NEW top \in 0 .. N, top >= bot
      PROVE  LET mid == (top - 1 + bot - 1) \div 2 + 1
             IN  <<bot, mid - 1>> \in Pairs /\ <<mid + 1, top>> \in Pairs
                 /\ mid - 1 - bot < top - bot /\ top - (mid + 1) < top - bot
                 /\ mid - 1 - bot + 1 \in Nat /\ top - (mid + 1) + 1 \in Nat
  <2> HIDE DEF N
  <2> QED
    BY <1>0, <1>2
<1>3. ASSUME NEW bot \in 1 .. N + 1, NEW top \in 0 .. N
      PROVE  W[<<bot, top>>] <=> Halved(a, key, bot, top, W)
  <2> DEFINE mid == (top - 1 + bot - 1) \div 2 + 1
  <2>1. \A b, t : <<b, t>> \in Pairs => (W[<<b, t>>] <=> Within(a, key, b, t))
    OBVIOUS
  <2>2. top >= bot => /\ W[<<bot, mid - 1>>] <=> Within(a, key, bot, mid - 1)
                      /\ W[<<mid + 1, top>>] <=> Within(a, key, mid + 1, top)
    <3> HIDE DEF W, Pairs
    <3> QED
      BY <1>2, <2>1
  <2>3. Halved(a, key, bot, top, W) <=> Within(a, key, bot, top)
    <3> HIDE DEF W
    <3> QED
      BY <2>2, HalvedIsWithin
  <2> QED
    BY <2>1, <2>3
<1>4. Is(W)
  <2>1. \A r \in Pairs : Within(a, key, r[1], r[2]) <=> Halved(a, key, r[1], r[2], W)
    <3> SUFFICES ASSUME NEW r \in Pairs
                 PROVE  Within(a, key, r[1], r[2]) <=> Halved(a, key, r[1], r[2], W)
      OBVIOUS
    <3>1. r[1] \in 1 .. N + 1 /\ r[2] \in 0 .. N /\ r = <<r[1], r[2]>>
      OBVIOUS
    <3>2. W[r] <=> Within(a, key, r[1], r[2])
      OBVIOUS
    <3> HIDE DEF W
    <3> QED
      BY <1>3, <3>1, <3>2
  <2>2. \A r \in Pairs : Within(a, key, r[1], r[2]) = Halved(a, key, r[1], r[2], W)
    <3> HIDE DEF W, Pairs
    <3> QED
      BY <2>1, Zenon DEF Within, Halved
  <2> QED
    BY <2>2, Zenon
<1>5. Is(found)
  <2> HIDE DEF Is
  <2> QED
    BY <1>4, Zenon
<1>6. \A bot \in 1 .. N + 1, top \in 0 .. N :
         found[<<bot, top>>] <=> Halved(a, key, bot, top, found)
  <2> HIDE DEF found
  <2> QED
    BY <1>5
<1>7. \A bot \in 1 .. N + 1, top \in 0 .. N :
         found[<<bot, top>>] <=> Within(a, key, bot, top)
  <2> HIDE DEF found, Is
  <2> DEFINE Size(r) == IF r[2] >= r[1] THEN r[2] - r[1] + 1 ELSE 0
             Bad == {r \in Pairs : ~(found[r] <=> Within(a, key, r[1], r[2]))}
             Sizes == {Size(r) : r \in Bad}
  <2> SUFFICES ASSUME Bad # {} PROVE FALSE
    OBVIOUS
  <2>1. Sizes \in SUBSET Nat /\ Sizes # {}
    <3> HIDE DEF N
    <3> QED
      BY <1>0
  <2>2. PICK s \in Sizes : \A z \in Sizes : s <= z
    <3> HIDE DEF Sizes
    <3> QED
      BY <2>1, LeastNumber
  <2>3. PICK r \in Bad : s = Size(r)
    OBVIOUS
  <2> DEFINE bot == r[1]
             top == r[2]
             mid == (top - 1 + bot - 1) \div 2 + 1
  <2>4. bot \in 1 .. N + 1 /\ top \in 0 .. N /\ r = <<bot, top>>
    OBVIOUS
  <2>5. ASSUME top >= bot
        PROVE  /\ found[<<bot, mid - 1>>] <=> Within(a, key, bot, mid - 1)
               /\ found[<<mid + 1, top>>] <=> Within(a, key, mid + 1, top)
    <3>1. <<bot, mid - 1>> \in Pairs /\ <<mid + 1, top>> \in Pairs
      <4> HIDE DEF bot, top, Pairs
      <4> QED
        BY <1>2, <2>4, <2>5
    <3>2. Size(<<bot, mid - 1>>) < s /\ Size(<<mid + 1, top>>) < s
      <4>1. Size(<<bot, mid - 1>>) = IF mid - 1 >= bot THEN mid - 1 - bot + 1 ELSE 0
        OBVIOUS
      <4>2. Size(<<mid + 1, top>>) = IF top >= mid + 1 THEN top - (mid + 1) + 1 ELSE 0
        OBVIOUS
      <4>3. s = top - bot + 1
        BY <2>3, <2>5
      <4>4. bot \in Int /\ top \in Int
        BY <1>0, <2>4
      <4> HIDE DEF bot, top, Size
      <4> QED
        BY <2>5, <4>1, <4>2, <4>3, <4>4
    <3>3. <<bot, mid - 1>> \notin Bad /\ <<mid + 1, top>> \notin Bad
      <4>1. \A q \in Bad : Size(q) \in Sizes
        OBVIOUS
      <4>2. \A q \in Pairs : Size(q) \in Int
        <5> HIDE DEF N
        <5> QED
          BY <1>0
      <4>3. s \in Int
        BY <2>1
      <4> HIDE DEF bot, top, mid, Size, Bad, Pairs, Sizes
      <4> QED
        BY <2>2, <3>1, <3>2, <4>1, <4>2, <4>3
    <3> HIDE DEF bot, top, mid
    <3>4. \A b, t : <<b, t>> \in Pairs /\ <<b, t>> \notin Bad
                      => (found[<<b, t>>] <=> Within(a, key, b, t))
      <4> HIDE DEF Pairs, N
      <4> QED
        OBVIOUS
    <3> HIDE DEF Bad, Pairs
    <3> QED
      BY <3>1, <3>3, <3>4
  <2>6. Halved(a, key, bot, top, found) <=> Within(a, key, bot, top)
    <3> HIDE DEF bot, top, Bad
    <3> QED
      BY <2>4, <2>5, HalvedIsWithin
  <2>7. found[<<bot, top>>] <=> Halved(a, key, bot, top, found)
    <3> HIDE DEF bot, top, Bad
    <3> QED
      BY <1>6, <2>4
  <2>8. ~(found[r] <=> Within(a, key, bot, top))
    OBVIOUS
  <2> HIDE DEF Bad, bot, top
  <2> QED
    BY <2>4, <2>6, <2>7, <2>8
<1>8. 1 \in 1 .. N + 1 /\ N \in 0 .. N
  BY <1>0
<1> HIDE DEF found
<1> QED
  BY <1>1, <1>7, <1>8

-----------------------------------------------------------------------------
(* InsertIntoSortedArray puts a new key at its place.                      *)
LEMMA InsertKeepsOrder ==
    ASSUME NEW a \in Arrays, NEW key \in Int, ~Within(a, key, 1, Len(a))
    PROVE  LET b == InsertIntoSortedArray(a, key)
           IN  /\ b \in Arrays
               /\ Len(b) = Len(a) + 1
               /\ ToSet(b) = ToSet(a) \cup {key}
<1> DEFINE N == Len(a)
           Low == {0} \cup {i \in DOMAIN a : a[i] <= key}
           k == Max(Low)
           b == InsertIntoSortedArray(a, key)
<1>0. N \in Nat /\ a \in Seq(Int) /\ DOMAIN a = 1 .. N /\ \A i \in 1 .. N : a[i] \in Int
  BY DEF Arrays
<1>1. k \in Low /\ \A y \in Low : k >= y
  <2>1. Low \in SUBSET (0 .. N) /\ Low # {}
    <3> HIDE DEF N
    <3> QED
      BY <1>0
  <2> HIDE DEF Low
  <2> QED
    BY <1>0, <2>1, MaxIsMember
<1>2. k \in 0 .. N
  <2> HIDE DEF k, N
  <2> QED
    BY <1>0, <1>1
<1>3. \A i \in 1 .. N : (i <= k => a[i] < key) /\ (k < i => key < a[i])
  <2> SUFFICES ASSUME NEW i \in 1 .. N
               PROVE  (i <= k => a[i] < key) /\ (k < i => key < a[i])
    OBVIOUS
  <2>1. a[i] # key
    BY DEF Within
  <2>2. k < i => key < a[i]
    <3>1. ASSUME k < i PROVE i \notin Low
      <4> HIDE DEF Low, k
      <4> QED
        BY <1>1, <1>2, <3>1, <1>0
    <3> HIDE DEF k, N
    <3> QED
      BY <1>0, <2>1, <3>1
  <2>3. i <= k => a[i] < key
    <3>1. ASSUME i <= k PROVE k \in 1 .. N /\ a[k] <= key
      <4>1. k # 0
        <5> HIDE DEF k, N
        <5> QED
          BY <1>0, <1>2, <3>1
      <4> HIDE DEF k, N
      <4> QED
        BY <1>0, <1>1, <1>2, <4>1
    <3>2. ASSUME i < k PROVE k \in 1 .. N => a[i] < a[k]
      <4> HIDE DEF k
      <4> QED
        BY <1>2, <3>2 DEF Arrays, Sorted
    <3> HIDE DEF k, N
    <3> QED
      BY <1>0, <1>2, <2>1, <3>1, <3>2
  <2> QED
    BY <2>2, <2>3
<1> DEFINE left  == SubSeq(a, 1, k)
           right == SubSeq(a, k + 1, N)
<1>4. b = left \o <<key>> \o right
  BY DEF InsertIntoSortedArray
<1> HIDE DEF k, b, Low, N
<1>l. left \in Seq(Int) /\ Len(left) = k /\ \A i \in 1 .. k : left[i] = a[i]
  BY <1>0, <1>2 DEF N
<1>r. right \in Seq(Int) /\ Len(right) = N - k /\ \A i \in 1 .. N - k : right[i] = a[k + i]
  <2>1. k + 1 \in 1 .. N + 1
    BY <1>0, <1>2
  <2>2. Len(right) = N - (k + 1) + 1 /\ right \in Seq(Int)
    BY <1>0, <2>1, SubSeqProperties DEF N
  <2>3. \A i \in 1 .. N - (k + 1) + 1 : right[i] = a[(k + 1) + i - 1]
    BY SMTT(30), <1>0, <2>1, SubSeqProperties DEF N
  <2> HIDE DEF right
  <2> QED
    BY <1>0, <1>2, <2>2, <2>3
<1> DEFINE low == left \o <<key>>
<1>c. low \in Seq(Int) /\ Len(low) = k + 1
      /\ (\A i \in 1 .. k : low[i] = a[i]) /\ low[k + 1] = key
  <2> HIDE DEF left
  <2>1. <<key>> \in Seq(Int) /\ Len(<<key>>) = 1 /\ <<key>>[1] = key
    OBVIOUS
  <2>2. low \in Seq(Int) /\ Len(low) = Len(left) + 1
        /\ \A i \in 1 .. Len(left) + 1 :
             low[i] = IF i <= Len(left) THEN left[i] ELSE <<key>>[i - Len(left)]
    BY <1>2, <1>l, <2>1, ConcatProperties
  <2> HIDE DEF low
  <2> QED
    BY <1>2, <1>l, <2>1, <2>2
<1>d. b = low \o right
  BY <1>4
<1> HIDE DEF left, right, low
<1>e. b \in Seq(Int) /\ Len(b) = Len(low) + Len(right)
      /\ \A i \in 1 .. Len(low) + Len(right) :
           b[i] = IF i <= Len(low) THEN low[i] ELSE right[i - Len(low)]
  BY <1>d, <1>c, <1>r, ConcatProperties
<1>5. b \in Seq(Int) /\ Len(b) = N + 1
  BY <1>0, <1>2, <1>c, <1>e, <1>r
<1>6. \A i \in 1 .. N + 1 : b[i] = IF i <= k THEN a[i] ELSE IF i = k + 1 THEN key ELSE a[i - 1]
  BY <1>0, <1>2, <1>c, <1>e, <1>r
<1>7. Sorted(b)
  <2> SUFFICES ASSUME NEW i \in 1 .. N + 1, NEW j \in 1 .. N + 1, i < j PROVE b[i] < b[j]
    BY <1>5 DEF Sorted
  <2>1. \A x, y \in 1 .. N : x < y => a[x] < a[y]
    BY DEF Arrays, Sorted, N
  <2> QED
    BY <1>0, <1>2, <1>3, <1>6, <2>1
<1>8. ToSet(b) = ToSet(a) \cup {key}
  <2>1. DOMAIN b = 1 .. N + 1
    BY <1>5
  <2>2. ASSUME NEW x \in ToSet(b) PROVE x \in ToSet(a) \cup {key}
    <3>1. PICK i \in 1 .. N + 1 : x = b[i]
      BY <2>1 DEF ToSet
    <3>2. CASE i <= k
      <4>1. i \in 1 .. N
        BY <3>2, <1>0, <1>2
      <4> QED
        BY <1>0, <1>6, <3>1, <3>2, <4>1 DEF ToSet
    <3>3. CASE i = k + 1
      <4>1. ~(i <= k)
        BY <3>3, <1>2
      <4> QED
        BY <1>6, <3>1, <3>3, <4>1
    <3>4. CASE i > k + 1
      <4>1. i - 1 \in 1 .. N /\ ~(i <= k) /\ i # k + 1
        BY <3>4, <1>0, <1>2
      <4> QED
        BY <1>0, <1>6, <3>1, <4>1 DEF ToSet
    <3> QED
      BY <1>2, <3>2, <3>3, <3>4
  <2>3. key \in ToSet(b)
    <3>1. k + 1 \in 1 .. N + 1 /\ ~(k + 1 <= k)
      BY <1>0, <1>2
    <3> QED
      BY <1>6, <2>1, <3>1 DEF ToSet
  <2>4. ASSUME NEW x \in ToSet(a) PROVE x \in ToSet(b)
    <3>1. PICK i \in 1 .. N : x = a[i]
      BY <1>0 DEF ToSet
    <3>2. CASE i <= k
      <4>1. i \in 1 .. N + 1
        BY <1>0
      <4> QED
        BY <1>6, <2>1, <3>1, <3>2, <4>1 DEF ToSet
    <3>3. CASE ~(i <= k)
      <4>1. i + 1 \in 1 .. N + 1 /\ ~(i + 1 <= k) /\ i + 1 # k + 1 /\ (i + 1) - 1 = i
        BY <1>0, <1>2, <3>3
      <4> QED
        BY <1>6, <2>1, <3>1, <4>1 DEF ToSet
    <3> QED
      BY <3>2, <3>3
  <2> QED
    BY <2>2, <2>3, <2>4
<1> QED
  BY <1>5, <1>7, <1>8 DEF Arrays, b, N

(* The length of a sorted array is the size of its set.                    *)
LEMMA ArrayHasNoDoubles ==
    ASSUME NEW a \in Arrays
    PROVE  IsFiniteSet(ToSet(a)) /\ Cardinality(ToSet(a)) = Len(a)
<1>1. Len(a) \in Nat /\ DOMAIN a = 1 .. Len(a) /\ \A i \in 1 .. Len(a) : a[i] \in Int
  BY DEF Arrays
<1>2. a \in Bijection(1 .. Len(a), ToSet(a))
  <2>1. a \in [1 .. Len(a) -> ToSet(a)]
    BY <1>1 DEF ToSet, Arrays
  <2>2. \A i, j \in 1 .. Len(a) : a[i] = a[j] => i = j
    BY <1>1 DEF Arrays, Sorted
  <2>3. \A x \in ToSet(a) : \E i \in 1 .. Len(a) : a[i] = x
    BY <1>1 DEF ToSet
  <2> QED
    BY <2>1, <2>2, <2>3 DEF Bijection, Injection, Surjection, IsInjective
<1>3. ExistsBijection(1 .. Len(a), ToSet(a))
  BY <1>2 DEF ExistsBijection
<1>4. IsFiniteSet(1 .. Len(a)) /\ Cardinality(1 .. Len(a)) = Len(a)
  BY <1>1, FS_Interval
<1> QED
  BY <1>3, <1>4, FS_Bijection

(* The search of a sorted array is a search of its set.                    *)
LEMMA SearchesTheSet ==
    ASSUME NEW a \in Arrays, NEW key \in Int
    PROVE  BexistsIntArray(a, key) <=> key \in ToSet(a)
<1>1. DOMAIN a = 1 .. Len(a)
  BY DEF Arrays
<1>2. Within(a, key, 1, Len(a)) <=> key \in ToSet(a)
  BY <1>1 DEF Within, ToSet
<1> QED
  BY <1>2, SearchFinds

-----------------------------------------------------------------------------
(* Days are coded in their order.                                          *)
LEMMA SyndromeOrder ==
    ASSUME NEW m \in 0 .. 11, NEW k \in 0 .. 11, NEW d \in 1 .. 31, NEW e \in 1 .. 31
    PROVE  /\ Syndrome(m, d) \in Int
           /\ Syndrome(m, d) <= Syndrome(k, e) <=> m < k \/ (m = k /\ d <= e)
BY DEF Syndrome

LEMMA SyndromeIsInt == \A m \in 0 .. 11, d \in 1 .. 31 : Syndrome(m, d) \in Int
BY DEF Syndrome

(* OmitSets counts its days with the same calendar.                        *)
LEMMA SameCalendar ==
    /\ Sets!Weekdays = Weekdays
    /\ Sets!MonthDays = MonthDays
    /\ \A m, y : Sets!DaysInMonth(m, y) = DaysInMonth(m, y)
    /\ \A y, m, d : Sets!DSE(y, m, d) = DSE(y, m, d)
    /\ \A dse : Sets!FromDSE(dse) = FromDSE(dse)
<1>1. Sets!Weekdays = Weekdays
  BY DEF Sets!Weekdays, Weekdays
<1>2. Sets!MonthDays = MonthDays
  BY DEF Sets!MonthDays, MonthDays
<1>3. ASSUME NEW y PROVE Sets!IsLeapYear(y) <=> IsLeapYear(y)
  BY DEF Sets!IsLeapYear, IsLeapYear
<1>4. ASSUME NEW m, NEW y PROVE Sets!DaysInMonth(m, y) = DaysInMonth(m, y)
  BY <1>2, <1>3, Zenon DEF Sets!DaysInMonth, DaysInMonth
<1>5. ASSUME NEW y, NEW m, NEW d PROVE Sets!DSE(y, m, d) = DSE(y, m, d)
  BY Zenon
     DEF Sets!DSE, DSE, Sets!BASE, BASE, Sets!IsLeapYear, IsLeapYear,
         Sets!LeapYearsBefore, LeapYearsBefore, Sets!MonthIndex, MonthIndex
<1>6. ASSUME NEW S PROVE Sets!Max(S) = Max(S)
  BY Zenon DEF Sets!Max, Max
<1>7. ASSUME NEW dse PROVE Sets!DSEYear(dse) = DSEYear(dse)
  <2>1. {y \in BASE .. dse \div 365 + BASE : Sets!DSE(y, 0, 1) <= dse}
          = {y \in BASE .. dse \div 365 + BASE : DSE(y, 0, 1) <= dse}
    BY <1>5, Zenon
  <2> QED
    BY <1>6, <2>1 DEF Sets!DSEYear, DSEYear, Sets!BASE, BASE
<1>8. ASSUME NEW dse PROVE Sets!FromDSE(dse) = FromDSE(dse)
  <2> DEFINE y == DSEYear(dse)
  <2>1. {k \in 0 .. 11 : Sets!DSE(y, k, 1) <= dse} = {k \in 0 .. 11 : DSE(y, k, 1) <= dse}
    BY <1>5, Zenon
  <2> QED
    BY <1>5, <1>6, <1>7, <2>1, Zenon DEF Sets!FromDSE, FromDSE
<1> QED
  BY <1>1, <1>2, <1>4, <1>5, <1>8

(* The table of the days before the months, entry by entry.                *)
LEMMA MonthIndexValues ==
    /\ MonthIndex[0] = 0   /\ MonthIndex[1] = 31  /\ MonthIndex[2] = 59   /\ MonthIndex[3] = 90
    /\ MonthIndex[4] = 120 /\ MonthIndex[5] = 151 /\ MonthIndex[6] = 181  /\ MonthIndex[7] = 212
    /\ MonthIndex[8] = 243 /\ MonthIndex[9] = 273 /\ MonthIndex[10] = 304 /\ MonthIndex[11] = 334
<1>1. MonthIndex[0] = 0 /\ MonthIndex[1] = 31 /\ MonthIndex[2] = 59 /\ MonthIndex[3] = 90
  BY DEF MonthIndex
<1>2. MonthIndex[4] = 120 /\ MonthIndex[5] = 151 /\ MonthIndex[6] = 181 /\ MonthIndex[7] = 212
  BY DEF MonthIndex
<1>3. MonthIndex[8] = 243 /\ MonthIndex[9] = 273 /\ MonthIndex[10] = 304 /\ MonthIndex[11] = 334
  BY DEF MonthIndex
<1> QED
  BY <1>1, <1>2, <1>3

(* The table of the lengths of the months, entry by entry.                 *)
LEMMA MonthDaysValues ==
    /\ MonthDays[0] = 31 /\ MonthDays[1] = 29 /\ MonthDays[2] = 31  /\ MonthDays[3] = 30
    /\ MonthDays[4] = 31 /\ MonthDays[5] = 30 /\ MonthDays[6] = 31  /\ MonthDays[7] = 31
    /\ MonthDays[8] = 30 /\ MonthDays[9] = 31 /\ MonthDays[10] = 30 /\ MonthDays[11] = 31
<1>1. MonthDays[0] = 31 /\ MonthDays[1] = 29 /\ MonthDays[2] = 31 /\ MonthDays[3] = 30
  BY DEF MonthDays
<1>2. MonthDays[4] = 31 /\ MonthDays[5] = 30 /\ MonthDays[6] = 31 /\ MonthDays[7] = 31
  BY DEF MonthDays
<1>3. MonthDays[8] = 30 /\ MonthDays[9] = 31 /\ MonthDays[10] = 30 /\ MonthDays[11] = 31
  BY DEF MonthDays
<1> QED
  BY <1>1, <1>2, <1>3

(* The days of a year make a ring: each but the last is followed by the    *)
(* next, and the last by the first.                                        *)
LEMMA YearIsARing ==
    /\ \A x \in Sets!RealDays :
          /\ DayOfYear(x) \in 1 .. 366
          /\ DayAfter(x) \in Sets!RealDays
          /\ DayOfYear(DayAfter(x)) = (DayOfYear(x) % 366) + 1
    /\ \A x, z \in Sets!RealDays :
          Syndrome(x.m, x.d) <= Syndrome(z.m, z.d) <=> DayOfYear(x) <= DayOfYear(z)
<1> DEFINE Start(m) == MonthIndex[m] + (IF m > 1 THEN 1 ELSE 0)
           Length(m) == MonthDays[m]
<1>a. /\ Start(0) = 0   /\ Start(1) = 31  /\ Start(2) = 60  /\ Start(3) = 91
      /\ Start(4) = 121 /\ Start(5) = 152 /\ Start(6) = 182 /\ Start(7) = 213
  BY MonthIndexValues
<1>b. Start(8) = 244 /\ Start(9) = 274 /\ Start(10) = 305 /\ Start(11) = 335
  BY MonthIndexValues
<1>c. /\ Length(0) = 31 /\ Length(1) = 29 /\ Length(2) = 31  /\ Length(3) = 30
      /\ Length(4) = 31 /\ Length(5) = 30 /\ Length(6) = 31  /\ Length(7) = 31
      /\ Length(8) = 30 /\ Length(9) = 31 /\ Length(10) = 30 /\ Length(11) = 31
  BY MonthDaysValues, Zenon
<1> HIDE DEF Start, Length
<1>d. \A m \in 0 .. 11 : Length(m) \in 29 .. 31 /\ Start(m) \in 0 .. 335
  BY <1>a, <1>b, <1>c
<1>e. \A m \in 0 .. 10 : Start(m) + Length(m) = Start(m + 1)
  BY <1>a, <1>b, <1>c
<1>f. \A m, k \in 0 .. 11 : m < k => Start(m) + Length(m) <= Start(k)
  BY <1>a, <1>b, <1>c
<1>g. \A m \in 0 .. 11 : Start(m) + Length(m) <= 366
  BY <1>a, <1>b, <1>c
<1> USE DEF Start
<1>1. \A m \in 0 .. 11 : MonthDays[m] \in 29 .. 31 /\ Start(m) \in 0 .. 335
  BY <1>d, Zenon DEF Length
<1>2. Start(0) = 0 /\ Start(11) + MonthDays[11] = 366
      /\ \A m \in 0 .. 10 : Start(m) + MonthDays[m] = Start(m + 1)
  <2> HIDE DEF Start
  <2>1. Start(11) + Length(11) = 366
    BY <1>b, <1>c
  <2> QED
    BY <1>a, <1>e, <2>1, Zenon DEF Length
<1>3. \A m, k \in 0 .. 11 : m < k => Start(m) + MonthDays[m] <= Start(k)
  BY <1>f, Zenon DEF Length
<1>4. \A x \in Sets!RealDays : /\ x.m \in 0 .. 11 /\ x.d \in 1 .. 31 /\ x.d <= MonthDays[x.m]
                               /\ x = [m |-> x.m, d |-> x.d]
                               /\ DayOfYear(x) = Start(x.m) + x.d
  <2>1. \A x \in [m : 0 .. 11, d : 1 .. 31] : x.m \in 0 .. 11 /\ x.d \in 1 .. 31
                                            /\ x = [m |-> x.m, d |-> x.d]
    OBVIOUS
  <2>2. \A x \in Sets!RealDays : x \in [m : 0 .. 11, d : 1 .. 31] /\ x.d <= MonthDays[x.m]
    BY SameCalendar, Zenon DEF Sets!RealDays
  <2>3. \A x : DayOfYear(x) = Start(x.m) + x.d
    BY Zenon DEF DayOfYear
  <2> HIDE DEF Start
  <2> QED
    BY <2>1, <2>2, <2>3, Zenon
<1>5. \A m \in 0 .. 11, d \in 1 .. 31 : d <= MonthDays[m] =>
         [m |-> m, d |-> d] \in Sets!RealDays
  <2> TAKE m \in 0 .. 11, d \in 1 .. 31
  <2>1. [m |-> m, d |-> d] \in [m : 0 .. 11, d : 1 .. 31]
    OBVIOUS
  <2>2. [m |-> m, d |-> d].m = m /\ [m |-> m, d |-> d].d = d
    OBVIOUS
  <2> QED
    BY SameCalendar, Zenon, <2>1, <2>2 DEF Sets!RealDays
<1> HIDE DEF Start
<1>6. ASSUME NEW x \in Sets!RealDays
      PROVE  /\ DayOfYear(x) \in 1 .. 366
             /\ DayAfter(x) \in Sets!RealDays
             /\ DayOfYear(DayAfter(x)) = (DayOfYear(x) % 366) + 1
  <2>1. DayOfYear(x) \in 1 .. 366
    <3>1. Start(x.m) + MonthDays[x.m] <= 366
      <4>1. x.m \in 0 .. 11 /\ (x.m < 11 => Start(x.m) + MonthDays[x.m] <= Start(11))
        BY <1>3, <1>4
      <4>2. Start(x.m) \in 0 .. 335 /\ Start(11) \in 0 .. 335
            /\ MonthDays[x.m] \in 29 .. 31 /\ MonthDays[11] \in 29 .. 31
        BY <1>1, <4>1
      <4> QED
        BY <1>2, <4>1, <4>2
    <3>2. Start(x.m) \in Int /\ MonthDays[x.m] \in Int /\ x.d \in 1 .. 31 /\ x.d <= MonthDays[x.m]
          /\ Start(x.m) >= 0 /\ DayOfYear(x) = Start(x.m) + x.d
      <4>1. x.m \in 0 .. 11 /\ x.d \in 1 .. 31 /\ x.d <= MonthDays[x.m]
            /\ DayOfYear(x) = Start(x.m) + x.d
        BY <1>4
      <4>2. Start(x.m) \in 0 .. 335 /\ MonthDays[x.m] \in 29 .. 31
        BY <1>1, <4>1
      <4> QED
        BY <4>1, <4>2
    <3>3. \A i, j, d \in Int : i >= 0 /\ d >= 1 /\ d <= j /\ i + j <= 366 => i + d \in 1 .. 366
      OBVIOUS
    <3>4. x.d \in Int /\ x.d >= 1
      BY <3>2
    <3>5. Start(x.m) + x.d \in 1 .. 366
      BY <3>1, <3>2, <3>3, <3>4
    <3> QED
      BY <3>2, <3>5, Zenon
  <2>2. CASE x.d < MonthDays[x.m]
    <3>1. DayAfter(x) = [m |-> x.m, d |-> x.d + 1]
      BY <2>2 DEF DayAfter
    <3>0. x.m \in 0 .. 11 /\ x.d + 1 \in 1 .. 31 /\ x.d + 1 <= MonthDays[x.m]
      <4>1. x.m \in 0 .. 11 /\ x.d \in 1 .. 31 /\ MonthDays[x.m] \in 29 .. 31
        BY <1>1, <1>4
      <4> QED
        BY <2>2, <4>1
    <3>2. DayAfter(x) \in Sets!RealDays
      BY <1>5, <3>0, <3>1, Zenon
    <3>3. DayOfYear(DayAfter(x)) = Start(x.m) + x.d + 1
      <4>1. DayAfter(x).m = x.m /\ DayAfter(x).d = x.d + 1
        BY <3>1
      <4>2. DayOfYear(DayAfter(x)) = Start(x.m) + (x.d + 1)
        BY <1>4, <3>2, <4>1, Zenon
      <4>3. Start(x.m) \in 0 .. 335 /\ x.d \in 1 .. 31
        BY <1>1, <1>4
      <4> DEFINE b == Start(x.m)
                 d == x.d
                 n == DayOfYear(DayAfter(x))
      <4>4. n = b + (d + 1) /\ b \in 0 .. 335 /\ d \in 1 .. 31
        BY <4>2, <4>3, Zenon
      <4> HIDE DEF b, d, n
      <4>5. n = b + d + 1
        BY <4>4
      <4> QED
        BY <4>5, Zenon DEF b, d, n
    <3>4. Start(x.m) + x.d < 366
      <4> DEFINE b == Start(x.m)
                 d == x.d
                 n == MonthDays[x.m]
      <4>1. /\ b \in 0 .. 335 /\ d \in 1 .. 31 /\ n \in 29 .. 31
            /\ b + n <= 366 /\ d < n
        BY <1>1, <1>4, <1>g, <2>2, Zenon DEF Length
      <4> HIDE DEF b, d, n
      <4>2. b + d < 366
        BY <4>1
      <4> QED
        BY <4>2, Zenon DEF b, d
    <3> QED
      BY <1>1, <1>4, <2>1, <3>2, <3>3, <3>4
  <2>3. CASE ~(x.d < MonthDays[x.m])
    <3>1. DayAfter(x) = [m |-> (x.m + 1) % 12, d |-> 1]
      BY <2>3 DEF DayAfter
    <3>2. (x.m + 1) % 12 = IF x.m = 11 THEN 0 ELSE x.m + 1
      BY <1>4
    <3>3. DayAfter(x) \in Sets!RealDays
      <4>1. (x.m + 1) % 12 \in 0 .. 11
        BY <1>4
      <4>2. 1 \in 1 .. 31 /\ 1 <= MonthDays[(x.m + 1) % 12]
        BY <1>1, <4>1
      <4> QED
        BY <1>5, <3>1, <4>1, <4>2, Zenon
    <3>4. DayOfYear(DayAfter(x)) = Start((x.m + 1) % 12) + 1
      <4>1. DayAfter(x).m = (x.m + 1) % 12 /\ DayAfter(x).d = 1
        BY <3>1
      <4> QED
        BY <1>4, <3>3, <4>1, Zenon
    <3>5. DayOfYear(x) = Start(x.m) + MonthDays[x.m]
      BY <1>1, <1>4, <2>3
    <3>6. CASE x.m = 11
      <4>1. DayOfYear(x) = 366 /\ DayOfYear(DayAfter(x)) = 1
        BY <1>2, <3>2, <3>4, <3>5, <3>6
      <4> QED
        BY <2>1, <3>3, <4>1
    <3>7. CASE x.m # 11
      <4>1. x.m \in 0 .. 10
        BY <1>4, <3>7
      <4>2. DayOfYear(x) = Start(x.m + 1) /\ DayOfYear(DayAfter(x)) = Start(x.m + 1) + 1
        BY <1>2, <3>2, <3>4, <3>5, <3>7, <4>1
      <4>3. Start(x.m + 1) \in 0 .. 335
        BY <1>1, <4>1
      <4> QED
        BY <2>1, <3>3, <4>2, <4>3
    <3> QED
      BY <3>6, <3>7
  <2> QED
    BY <2>2, <2>3
<1>7. ASSUME NEW x \in Sets!RealDays, NEW z \in Sets!RealDays
      PROVE  Syndrome(x.m, x.d) <= Syndrome(z.m, z.d) <=> DayOfYear(x) <= DayOfYear(z)
  <2>2. DayOfYear(x) = Start(x.m) + x.d /\ DayOfYear(z) = Start(z.m) + z.d
    BY <1>4
  <2>3. /\ x.m \in 0 .. 11 /\ x.d \in 1 .. 31 /\ x.d <= MonthDays[x.m]
        /\ z.m \in 0 .. 11 /\ z.d \in 1 .. 31 /\ z.d <= MonthDays[z.m]
    BY <1>4
  <2>4. Start(x.m) \in Int /\ Start(z.m) \in Int /\ MonthDays[x.m] \in Int /\ MonthDays[z.m] \in Int
    BY <1>1, <2>3
  <2>5. /\ x.m < z.m => Start(x.m) + MonthDays[x.m] <= Start(z.m)
        /\ z.m < x.m => Start(z.m) + MonthDays[z.m] <= Start(x.m)
    BY <1>3, <2>3
  <2>6. x.m = z.m => Start(x.m) = Start(z.m)
    OBVIOUS
  <2>7. DayOfYear(x) <= DayOfYear(z) <=> x.m < z.m \/ (x.m = z.m /\ x.d <= z.d)
    <3>1. CASE x.m < z.m
      BY <2>2, <2>3, <2>4, <2>5, <3>1
    <3>2. CASE z.m < x.m
      BY <2>2, <2>3, <2>4, <2>5, <3>2
    <3>3. CASE x.m = z.m
      BY <2>2, <2>3, <2>4, <2>6, <3>3
    <3> QED
      BY <2>3, <3>1, <3>2, <3>3
  <2> QED
    BY <2>3, <2>7, SyndromeOrder
<1> QED
  BY <1>6, <1>7

(* FromDSE gives every date a day and a month.                             *)
LEMMA FromDSEType ==
    ASSUME NEW dse \in Nat
    PROVE  Syndrome(FromDSE(dse).m, FromDSE(dse).d) \in Int
<1>1. \A y, d \in Int, m \in 0 .. 11 : DSE(y, m, d) \in Int
  <2>1. \A m \in 0 .. 11 : MonthIndex[m] \in Int
    BY DEF MonthIndex
  <2> QED
    BY <2>1 DEF DSE, BASE, LeapYearsBefore
<1>2. DSE(BASE, 0, 1) = 0
  BY DEF DSE, BASE, MonthIndex, LeapYearsBefore
<1> DEFINE Years == {y \in BASE .. dse \div 365 + BASE : DSE(y, 0, 1) <= dse}
           year  == DSEYear(dse)
           Months == {k \in 0 .. 11 : DSE(year, k, 1) <= dse}
           month == Max(Months)
<1>3. year \in Years
  <2>1. dse \div 365 + BASE \in Nat /\ BASE \in BASE .. dse \div 365 + BASE
        /\ Years \in SUBSET (0 .. dse \div 365 + BASE)
    BY DEF BASE
  <2>2. BASE \in Years
    BY <1>2, <2>1
  <2>3. year = Max(Years)
    BY DEF DSEYear
  <2> HIDE DEF Years, year
  <2> QED
    BY <2>1, <2>2, <2>3, MaxIsMember
<1>4. year \in Int /\ DSE(year, 0, 1) <= dse
  BY <1>3 DEF BASE
<1> HIDE DEF year
<1>5. month \in 0 .. 11
  <2>1. Months \in SUBSET (0 .. 11) /\ 0 \in Months
    BY <1>4
  <2> HIDE DEF Months
  <2> QED
    BY <2>1, MaxIsMember
<1> HIDE DEF month
<1>6. FromDSE(dse).m = month /\ FromDSE(dse).d = dse - DSE(year, month, 1) + 1
  BY Zenon DEF FromDSE, month, year
<1>7. DSE(year, month, 1) \in Int
  <2>1. 1 \in Int
    OBVIOUS
  <2> QED
    BY <1>1, <1>4, <1>5, <2>1, Zenon
<1> QED
  BY <1>5, <1>6, <1>7 DEF Syndrome

-----------------------------------------------------------------------------
(* The contexts of a run, and what each command adds to one.               *)
FullArrays == {a \in Arrays : Len(a) <= MAX_FULL_OMITS}
Contexts   == [full : FullArrays, partial : Arrays, weekday : SUBSET Weekdays]

(* The context of a new pass has nothing in it.                            *)
LEMMA NoOmitsIsContext ==
    NoOmits \in Contexts /\ Days(NoOmits) = {} /\ Yearly(NoOmits) = {} /\ NoOmits.weekday = {}
<1>1. << >> \in Arrays /\ Len(<< >>) = 0
  BY DEF Arrays, Sorted
<1>2. << >> \in FullArrays
  BY <1>1, OmitsAssumption DEF FullArrays
<1>3. ToSet(<< >>) = {}
  BY DEF ToSet
<1> QED
  BY <1>1, <1>2, <1>3 DEF NoOmits, Contexts, Days, Yearly

(* A day of the year is added once.                                        *)
LEMMA AddPartialAdds ==
    ASSUME NEW o \in Contexts, NEW x, Syndrome(x.m, x.d) \in Int
    PROVE  LET p == AddPartial(o, x)
           IN  /\ p \in Contexts
               /\ p.full = o.full /\ p.weekday = o.weekday
               /\ Yearly(p) = Yearly(o) \cup {Syndrome(x.m, x.d)}
<1> DEFINE key == Syndrome(x.m, x.d)
           p == AddPartial(o, x)
<1> HIDE DEF key
<1>1. o.partial \in Arrays /\ o \in [full : FullArrays, partial : Arrays, weekday : SUBSET Weekdays]
  BY DEF Contexts
<1>2. CASE BexistsIntArray(o.partial, key)
  <2>1. p = o
    BY Zenon, <1>2 DEF AddPartial, key
  <2>2. key \in ToSet(o.partial)
    BY <1>1, <1>2, SearchesTheSet DEF key
  <2> QED
    BY <2>1, <2>2 DEF Yearly, key
<1>3. CASE ~BexistsIntArray(o.partial, key)
  <2> DEFINE q == InsertIntoSortedArray(o.partial, key)
  <2>1. p = [o EXCEPT !.partial = q]
    BY Zenon, <1>3 DEF AddPartial, key
  <2>2. q \in Arrays /\ ToSet(q) = ToSet(o.partial) \cup {key}
    BY <1>1, <1>3, SearchFinds, InsertKeepsOrder DEF key
  <2> HIDE DEF q, p
  <2>3. p \in Contexts /\ p.full = o.full /\ p.weekday = o.weekday /\ p.partial = q
    BY <1>1, <2>1, <2>2 DEF Contexts
  <2> QED
    BY <2>2, <2>3 DEF Yearly, key, p
<1> QED
  BY <1>2, <1>3

(* The context with one more date, put where the array has room for it.    *)
LEMMA InsertFull ==
    ASSUME NEW o \in Contexts, NEW dse \in Int, ~BexistsIntArray(o.full, dse),
           Len(o.full) < MAX_FULL_OMITS
    PROVE  LET p == [o EXCEPT !.full = InsertIntoSortedArray(@, dse)]
           IN  /\ p \in Contexts
               /\ p.partial = o.partial /\ p.weekday = o.weekday
               /\ Days(p) = Days(o) \cup {dse}
<1> DEFINE q == InsertIntoSortedArray(o.full, dse)
           p == [o EXCEPT !.full = q]
<1>1. o.full \in Arrays /\ o \in [full : FullArrays, partial : Arrays, weekday : SUBSET Weekdays]
      /\ Len(o.full) \in Nat
  BY DEF Contexts, FullArrays, Arrays
<1>2. q \in Arrays /\ ToSet(q) = ToSet(o.full) \cup {dse} /\ Len(q) = Len(o.full) + 1
  BY <1>1, SearchFinds, InsertKeepsOrder
<1>3. q \in FullArrays
  BY <1>1, <1>2, OmitsAssumption DEF FullArrays
<1> HIDE DEF q
<1>4. p \in Contexts /\ p.partial = o.partial /\ p.weekday = o.weekday /\ p.full = q
  BY <1>1, <1>3 DEF Contexts
<1> QED
  BY <1>2, <1>4 DEF Days, q

-----------------------------------------------------------------------------
(* The loop of an OMIT of days of the year.                                *)

\* How far a day is after the first one, round the year.
After(x, first) == (DayOfYear(x) - first) % 366

(* The days between two days of the year, round its end.                   *)
LEMMA Distances ==
    \A i, j \in 1 .. 366 : (i - j) % 366 = IF i >= j THEN i - j ELSE i - j + 366
OBVIOUS

\* The codes of the n days from the first one on.
Following(first, n) == {Syndrome(x.m, x.d) : x \in {z \in Sets!RealDays : After(z, first) < n}}

\* After n rounds: n days are in the context, and the next one follows.
PartialLoop(o, first, n, r) ==
    /\ r \in [omits : Contexts, next : Sets!RealDays]
    /\ r.omits.full = o.full /\ r.omits.weekday = o.weekday
    /\ After(r.next, first) = n % 366
    /\ Yearly(r.omits) = Yearly(o) \cup Following(first, n)

(* A day that is n - 1 days after the first one is the n-th.               *)
LEMMA FollowingGrows ==
    ASSUME NEW first \in 1 .. 366, NEW n \in 1 .. 366,
           NEW x \in Sets!RealDays, After(x, first) = n - 1
    PROVE  /\ Following(first, n) = Following(first, n - 1) \cup {Syndrome(x.m, x.d)}
           /\ After(DayAfter(x), first) = n % 366
<1> DEFINE key(z) == Syndrome(z.m, z.d)
           near(k) == {z \in Sets!RealDays : After(z, first) < k}
<1>1. \A z \in Sets!RealDays : /\ DayOfYear(z) \in 1 .. 366
                               /\ After(z, first) = IF DayOfYear(z) >= first THEN DayOfYear(z) - first
                                                    ELSE DayOfYear(z) - first + 366
  BY YearIsARing, Distances DEF After
<1>2. \A z \in Sets!RealDays : key(z) \in Int
  <2> TAKE z \in Sets!RealDays
  <2>1. z \in [m : 0 .. 11, d : 1 .. 31]
    BY Zenon DEF Sets!RealDays
  <2>2. z.m \in 0 .. 11 /\ z.d \in 1 .. 31
    BY <2>1
  <2> QED
    BY <2>2, SyndromeIsInt, Zenon
<1>3. ASSUME NEW z \in Sets!RealDays, After(z, first) = n - 1 PROVE key(z) = key(x)
  <2>1. DayOfYear(z) = DayOfYear(x)
    <3> DEFINE i == DayOfYear(z)
               k == DayOfYear(x)
    <3>1. i \in 1 .. 366 /\ n - 1 = IF i >= first THEN i - first ELSE i - first + 366
      BY <1>1, <1>3
    <3>2. k \in 1 .. 366 /\ n - 1 = IF k >= first THEN k - first ELSE k - first + 366
      BY <1>1
    <3> HIDE DEF i, k
    <3>3. i = k
      BY <3>1, <3>2
    <3> QED
      BY <3>3 DEF i, k
  <2>2. key(z) <= key(x) /\ key(x) <= key(z)
    <3>1. DayOfYear(z) <= DayOfYear(x) /\ DayOfYear(x) <= DayOfYear(z)
      BY <1>1, <2>1
    <3> QED
      BY <3>1, YearIsARing
  <2> HIDE DEF key
  <2> QED
    BY <1>2, <2>2
<1>4. \A z \in Sets!RealDays : After(z, first) < n <=> After(z, first) < n - 1 \/ After(z, first) = n - 1
  <2>1. \A z \in Sets!RealDays : After(z, first) \in Int
    BY <1>1
  <2> QED
    BY <2>1
<1>5. Following(first, n) = {key(z) : z \in near(n)}
      /\ Following(first, n - 1) = {key(z) : z \in near(n - 1)}
  BY Zenon DEF Following
<1>6. x \in near(n)
  BY <1>4
<1>7. \A z \in near(n) : z \in near(n - 1) \/ key(z) = key(x)
  BY <1>3, <1>4
<1>8. \A z \in near(n - 1) : z \in near(n)
  BY <1>4
<1>9. Following(first, n) = Following(first, n - 1) \cup {key(x)}
  <2> HIDE DEF key, near
  <2> QED
    BY <1>5, <1>6, <1>7, <1>8
<1>10. After(DayAfter(x), first) = n % 366
  <2>1. DayOfYear(DayAfter(x)) = (DayOfYear(x) % 366) + 1 /\ DayAfter(x) \in Sets!RealDays
    BY YearIsARing
  <2> DEFINE i == DayOfYear(x)
             k == DayOfYear(DayAfter(x))
  <2>2. i \in 1 .. 366 /\ n - 1 = IF i >= first THEN i - first ELSE i - first + 366
    BY <1>1
  <2>3. k = (i % 366) + 1 /\ After(DayAfter(x), first) = IF k >= first THEN k - first ELSE k - first + 366
    BY <1>1, <2>1
  <2> HIDE DEF i, k
  <2> QED
    BY <2>2, <2>3
<1> QED
  BY <1>9, <1>10

(* A round of the loop adds the next day and goes on to the one after it.  *)
LEMMA PartialRound ==
    ASSUME NEW o, NEW first \in 1 .. 366, NEW n \in 1 .. 366, NEW r, PartialLoop(o, first, n - 1, r)
    PROVE  PartialLoop(o, first, n, OmitAndGoOn(r))
<1> DEFINE x == r.next
           p == AddPartial(r.omits, x)
<1>1. r.omits \in Contexts /\ x \in Sets!RealDays
  BY DEF PartialLoop
<1>2. After(x, first) = n - 1
  BY DEF PartialLoop
<1>3. Syndrome(x.m, x.d) \in Int
  <2>1. x \in [m : 0 .. 11, d : 1 .. 31]
    BY <1>1, Zenon DEF Sets!RealDays
  <2>2. x.m \in 0 .. 11 /\ x.d \in 1 .. 31
    BY <2>1
  <2> QED
    BY <2>2, SyndromeIsInt, Zenon
<1>4. /\ p \in Contexts
      /\ p.full = r.omits.full /\ p.weekday = r.omits.weekday
      /\ Yearly(p) = Yearly(r.omits) \cup {Syndrome(x.m, x.d)}
  BY <1>1, <1>3, AddPartialAdds
<1>5. DayAfter(x) \in Sets!RealDays
  BY <1>1, YearIsARing
<1>6. /\ Following(first, n) = Following(first, n - 1) \cup {Syndrome(x.m, x.d)}
      /\ After(DayAfter(x), first) = n % 366
  BY ZenonT(30), <1>1, <1>2, FollowingGrows
<1>7. OmitAndGoOn(r) = [omits |-> p, next |-> DayAfter(x)]
  BY Zenon DEF OmitAndGoOn
<1> HIDE DEF p, x
<1>8. OmitAndGoOn(r).omits = p /\ OmitAndGoOn(r).next = DayAfter(x)
      /\ OmitAndGoOn(r) \in [omits : Contexts, next : Sets!RealDays]
  BY <1>4, <1>5, <1>7
<1>9. Yearly(r.omits) = Yearly(o) \cup Following(first, n - 1)
      /\ r.omits.full = o.full /\ r.omits.weekday = o.weekday
  BY DEF PartialLoop
<1>10. Yearly(p) = Yearly(o) \cup Following(first, n)
  BY <1>4, <1>6, <1>9
<1> QED
  BY <1>4, <1>6, <1>8, <1>9, <1>10, Zenon DEF PartialLoop

(* OMIT of days of the year adds them all, from the first to the last.     *)
LEMMA OmitPartialAdds ==
    ASSUME NEW o \in Contexts, NEW a, NEW b, a.m \in 0 .. 11, a.d \in 1 .. 31,
           a.d <= MonthDays[a.m], DayOfYear(a) \in 1 .. 366, DayOfYear(b) \in 1 .. 366,
           ~(b.d > MonthDays[b.m])
    PROVE  LET p == OmitPartial(o, a, b).omits
           IN  /\ p \in Contexts
               /\ p.full = o.full /\ p.weekday = o.weekday
               /\ Yearly(p) = Yearly(o) \cup Following(DayOfYear(a), After(b, DayOfYear(a)) + 1)
<1> DEFINE first == DayOfYear(a)
           rounds == ((DayOfYear(b) - DayOfYear(a)) % 366) + 1
           S == [omits : Contexts, next : Sets!RealDays]
           init == [omits |-> o, next |-> [m |-> a.m, d |-> a.d]]
           Is(f) == f = [n \in 0 .. rounds |-> IF n = 0 THEN init ELSE OmitAndGoOn(f[n - 1])]
           round == CHOOSE f : Is(f)
           p == OmitPartial(o, a, b).omits
<1>1. rounds \in 1 .. 366 /\ rounds \in Nat /\ first \in 1 .. 366
  <2> DEFINE i == DayOfYear(a)
             j == DayOfYear(b)
  <2>1. i \in 1 .. 366 /\ j \in 1 .. 366
    OBVIOUS
  <2> HIDE DEF i, j
  <2>2. ((j - i) % 366) + 1 \in 1 .. 366
    BY <2>1
  <2> QED
    BY <2>1, <2>2 DEF i, j
<1>2. p = round[rounds].omits
  <2>1. a.d \in Int /\ MonthDays[a.m] \in Int
    BY DEF MonthDays
  <2>2. ~(a.d > MonthDays[a.m])
    BY <2>1
  <2>3. CASE ~(b.d > MonthDays[b.m])
    <3>1. OmitPartial(o, a, b) = Accepted(round[rounds].omits)
      BY <2>2, <2>3, Zenon DEF OmitPartial
    <3> HIDE DEF round, rounds
    <3> QED
      BY <3>1 DEF Accepted
  <2> QED
    BY <2>3
<1>3. PartialLoop(o, first, 0, init)
  <2>1. [m |-> a.m, d |-> a.d] \in Sets!RealDays
    <3>1. [m |-> a.m, d |-> a.d] \in [m : 0 .. 11, d : 1 .. 31]
      OBVIOUS
    <3>2. [m |-> a.m, d |-> a.d].m = a.m /\ [m |-> a.m, d |-> a.d].d = a.d
      OBVIOUS
    <3> QED
      BY <3>1, <3>2, SameCalendar, Zenon DEF Sets!RealDays
  <2>2. init \in S /\ init.omits = o /\ init.next = [m |-> a.m, d |-> a.d]
    BY <2>1
  <2>3. After(init.next, first) = 0 % 366
    <3>1. DayOfYear(init.next) = first
      BY <2>2, Zenon DEF DayOfYear
    <3> HIDE DEF init, first
    <3> QED
      BY <1>1, <3>1 DEF After
  <2>4. Following(first, 0) = {}
    <3>1. \A z \in Sets!RealDays : ~(After(z, first) < 0)
      <4> SUFFICES ASSUME NEW z \in Sets!RealDays PROVE ~(After(z, first) < 0)
        OBVIOUS
      <4> DEFINE i == DayOfYear(z)
      <4>1. i \in Int /\ After(z, first) = (i - first) % 366
        BY YearIsARing DEF After
      <4> HIDE DEF i, first
      <4> QED
        BY <1>1, <4>1
    <3> QED
      BY <3>1 DEF Following
  <2> HIDE DEF init, first
  <2> QED
    BY <2>2, <2>3, <2>4 DEF PartialLoop
<1>4. \A r \in S : OmitAndGoOn(r) \in S
  <2> TAKE r \in S
  <2>1. r.omits \in Contexts /\ r.next \in Sets!RealDays
    OBVIOUS
  <2>2. Syndrome(r.next.m, r.next.d) \in Int
    <3>1. r.next \in [m : 0 .. 11, d : 1 .. 31]
      BY <2>1, Zenon DEF Sets!RealDays
    <3>2. r.next.m \in 0 .. 11 /\ r.next.d \in 1 .. 31
      BY <3>1
    <3> QED
      BY <3>2, SyndromeIsInt, Zenon
  <2>3. AddPartial(r.omits, r.next) \in Contexts /\ DayAfter(r.next) \in Sets!RealDays
    BY <2>1, <2>2, AddPartialAdds, YearIsARing
  <2> QED
    BY <2>3 DEF OmitAndGoOn
<1>5. Is(round)
  <2> DEFINE step == [q \in (1 .. rounds) \X S |-> OmitAndGoOn(q[2])]
  <2>1. step \in [(1 .. rounds) \X S -> S]
    BY <1>4
  <2>2. init \in S
    BY <1>3 DEF PartialLoop
  <2>3. PICK g : Computes(g, rounds, S, init, step)
    <3> HIDE DEF step, S, init, rounds
    <3> QED
      BY <1>1, <2>1, <2>2, LoopComputes
  <2>4. g \in [0 .. rounds -> S] /\ g[0] = init
        /\ \A i \in 1 .. rounds : g[i] = step[<<i, g[i - 1]>>]
    <3> HIDE DEF step, S, init, rounds
    <3> QED
      BY <2>3, Zenon DEF Computes
  <2>5. \A i \in 1 .. rounds : g[i] = OmitAndGoOn(g[i - 1])
    <3> TAKE i \in 1 .. rounds
    <3>1. i - 1 \in 0 .. rounds
      <4> HIDE DEF rounds
      <4> QED
        BY <1>1
    <3>2. g[i - 1] \in S
      <4> HIDE DEF rounds, S
      <4> QED
        BY <2>4, <3>1
    <3>3. step[<<i, g[i - 1]>>] = OmitAndGoOn(g[i - 1])
      <4> HIDE DEF rounds, S
      <4> QED
        BY <3>2
    <3> HIDE DEF step
    <3> QED
      BY <2>4, <3>3
  <2>6. \A n \in 0 .. rounds : n = 0 \/ n \in 1 .. rounds
    <3> HIDE DEF rounds
    <3> QED
      BY <1>1
  <2>7. Is(g)
    <3> HIDE DEF rounds, S, init, step
    <3>1. \A n \in 0 .. rounds : g[n] = IF n = 0 THEN init ELSE OmitAndGoOn(g[n - 1])
      <4>1. \A n \in 1 .. rounds : n # 0
        BY <1>1
      <4> QED
        BY <2>4, <2>5, <2>6, <4>1, Zenon
    <3> QED
      BY <2>4, <3>1, Zenon
  <2> HIDE DEF Is
  <2> QED
    BY <2>7, Zenon
<1> HIDE DEF round, init, first, p
<1>6. \A n \in 0 .. rounds : round[n] = IF n = 0 THEN init ELSE OmitAndGoOn(round[n - 1])
  <2> HIDE DEF rounds
  <2> QED
    BY <1>5
<1> HIDE DEF rounds, Is
<1> DEFINE Good == {n \in 0 .. rounds : PartialLoop(o, first, n, round[n])}
<1>7. 0 .. rounds \subseteq Good
  <2>1. 0 \in Good
    <3>1. 0 \in 0 .. rounds /\ round[0] = init
      BY <1>1, <1>6
    <3> QED
      BY <1>3, <3>1
  <2>2. ASSUME NEW i \in 1 .. rounds, i - 1 \in Good PROVE i \in Good
    <3>1. i \in 1 .. 366 /\ i \in 0 .. rounds /\ i # 0
      BY <1>1
    <3>2. round[i] = OmitAndGoOn(round[i - 1])
      BY <1>6, <3>1
    <3>3. PartialLoop(o, first, i - 1, round[i - 1])
      BY <2>2
    <3>4. PartialLoop(o, first, i, round[i])
      BY <1>1, <3>1, <3>2, <3>3, PartialRound
    <3> QED
      BY <3>1, <3>4
  <2> HIDE DEF Good
  <2> QED
    BY <1>1, <2>1, <2>2, UpTo
<1>8. PartialLoop(o, first, rounds, round[rounds])
  BY <1>1, <1>7
<1>9. rounds = After(b, first) + 1
  BY DEF rounds, After, first
<1> QED
  BY <1>2, <1>8, <1>9 DEF PartialLoop, p, first

(* The days that follow one day up to another are those between them, round *)
(* the end of the year if need be.                                         *)
LEMMA FollowingIsBetween ==
    ASSUME NEW x \in Sets!RealDays, NEW z \in Sets!RealDays
    PROVE  LET key(v) == Syndrome(v.m, v.d)
           IN  Following(DayOfYear(x), After(z, DayOfYear(x)) + 1)
                 = {key(v) : v \in {u \in Sets!RealDays :
                                      IF key(x) <= key(z) THEN key(x) <= key(u) /\ key(u) <= key(z)
                                      ELSE key(x) <= key(u) \/ key(u) <= key(z)}}
<1> DEFINE key(v) == Syndrome(v.m, v.d)
           first == DayOfYear(x)
           last  == DayOfYear(z)
           between(u) == IF key(x) <= key(z) THEN key(x) <= key(u) /\ key(u) <= key(z)
                         ELSE key(x) <= key(u) \/ key(u) <= key(z)
<1>1. ASSUME NEW u \in Sets!RealDays PROVE After(u, first) < After(z, first) + 1 <=> between(u)
  <2> DEFINE i == DayOfYear(u)
  <2>1. /\ key(x) <= key(z) <=> first <= last
        /\ key(x) <= key(u) <=> first <= i
        /\ key(u) <= key(z) <=> i <= last
    BY YearIsARing
  <2>2. first \in 1 .. 366 /\ last \in 1 .. 366 /\ i \in 1 .. 366
    BY YearIsARing
  <2>3. After(u, first) = (i - first) % 366 /\ After(z, first) = (last - first) % 366
    BY Zenon DEF After
  <2> HIDE DEF key, first, last, i
  <2>4. After(u, first) = IF i >= first THEN i - first ELSE i - first + 366
    BY <2>2, <2>3
  <2>5. After(z, first) = IF last >= first THEN last - first ELSE last - first + 366
    BY <2>2, <2>3
  <2>6. After(u, first) < After(z, first) + 1 <=> IF first <= last THEN first <= i /\ i <= last
                                                  ELSE first <= i \/ i <= last
    BY <2>2, <2>4, <2>5
  <2> QED
    BY <2>1, <2>6, Zenon
<1>2. {u \in Sets!RealDays : After(u, first) < After(z, first) + 1} = {u \in Sets!RealDays : between(u)}
  <2> HIDE DEF between, first
  <2> QED
    BY <1>1
<1> QED
  BY <1>2, Zenon DEF Following

-----------------------------------------------------------------------------
(* The loop of an OMIT of dates, which may find the array full.            *)

\* The set days has grown by D or, without room, by the first days of D.
Grown(days, D, grown) ==
    /\ days \subseteq grown /\ grown \subseteq days \cup D
    /\ IF Cardinality(days \cup D) <= MAX_FULL_OMITS THEN D \subseteq grown
       ELSE /\ Cardinality(grown) = MAX_FULL_OMITS
            /\ \A x \in grown \ days, z \in D \ grown : x < z

\* After the dates from start up to end: all are in the context or, once the
\* array was full, all before the first that was not in it.
FullLoop(o, start, end, r) ==
    /\ r \in [omits : Contexts, err : BOOLEAN]
    /\ r.omits.partial = o.partial /\ r.omits.weekday = o.weekday
    /\ ~r.err => Days(r.omits) = Days(o) \cup (start .. end)
    /\ r.err => /\ Len(r.omits.full) = MAX_FULL_OMITS
                /\ \E w \in start .. end : /\ w \notin Days(r.omits)
                                            /\ Days(r.omits) = Days(o) \cup (start .. w - 1)

(* A round of the loop adds a date, finds it there or finds no room.       *)
LEMMA FullRound ==
    ASSUME NEW o, NEW start \in Int, NEW end \in Int, start <= end,
           NEW r, FullLoop(o, start, end - 1, r)
    PROVE  FullLoop(o, start, end, AddFull(r, end))
<1> DEFINE q == AddFull(r, end)
           c == r.omits
<1>1. r \in [omits : Contexts, err : BOOLEAN] /\ c \in Contexts /\ r.err \in BOOLEAN
      /\ r.omits.partial = o.partial /\ r.omits.weekday = o.weekday
  BY DEF FullLoop
<1>2. c.full \in Arrays /\ Len(c.full) \in Nat /\ Len(c.full) <= MAX_FULL_OMITS
  BY <1>1 DEF Contexts, FullArrays, Arrays
<1>3. BexistsIntArray(c.full, end) <=> end \in Days(c)
  BY <1>2, SearchesTheSet DEF Days
<1>4. start .. end = (start .. end - 1) \cup {end}
  OBVIOUS
<1>5. CASE r.err
  <2>1. q = r
    BY Zenon, <1>5 DEF AddFull
  <2>2. \A w \in start .. end - 1 : w \in start .. end
    BY <1>4
  <2> HIDE DEF q
  <2> QED
    BY <1>1, <1>5, <2>1, <2>2, Zenon DEF FullLoop, q
<1>6. CASE ~r.err /\ end \in Days(c)
  <2>1. q = r
    BY Zenon, <1>3, <1>6 DEF AddFull
  <2>2. Days(c) = Days(o) \cup (start .. end - 1)
    BY <1>6 DEF FullLoop
  <2>3. Days(c) = Days(o) \cup (start .. end)
    BY <1>4, <1>6, <2>2, Zenon
  <2> HIDE DEF q
  <2> QED
    BY <1>1, <1>6, <2>1, <2>3, Zenon DEF FullLoop, q
<1>7. CASE ~r.err /\ end \notin Days(c) /\ Len(c.full) >= MAX_FULL_OMITS
  <2>1. q = Refused(c)
    BY Zenon, <1>3, <1>7 DEF AddFull
  <2>2. q.omits = c /\ q.err = TRUE /\ q \in [omits : Contexts, err : BOOLEAN]
    BY <1>1, <2>1 DEF Refused
  <2>3. Days(c) = Days(o) \cup (start .. end - 1)
    BY <1>7 DEF FullLoop
  <2>4. end \in start .. end
    OBVIOUS
  <2>5. Len(c.full) = MAX_FULL_OMITS
    BY <1>2, <1>7, OmitsAssumption
  <2> HIDE DEF q, c
  <2> QED
    BY <1>1, <1>7, <2>2, <2>3, <2>4, <2>5, Zenon DEF FullLoop, q, c
<1>8. CASE ~r.err /\ end \notin Days(c) /\ ~(Len(c.full) >= MAX_FULL_OMITS)
  <2> DEFINE p == [c EXCEPT !.full = InsertIntoSortedArray(@, end)]
  <2>1. q = Accepted(p)
    BY Zenon, <1>3, <1>8 DEF AddFull
  <2>2. Len(c.full) < MAX_FULL_OMITS
    BY <1>2, <1>8, OmitsAssumption
  <2>3. p \in Contexts /\ p.partial = c.partial /\ p.weekday = c.weekday
        /\ Days(p) = Days(c) \cup {end}
    BY <1>1, <1>3, <1>8, <2>2, InsertFull
  <2> HIDE DEF p
  <2>4. q.omits = p /\ q.err = FALSE /\ q \in [omits : Contexts, err : BOOLEAN]
    BY <2>1, <2>3 DEF Accepted
  <2>5. Days(c) = Days(o) \cup (start .. end - 1)
    BY <1>8 DEF FullLoop
  <2>6. Days(p) = Days(o) \cup (start .. end)
    BY <1>4, <2>3, <2>5, Zenon
  <2> HIDE DEF q, c
  <2> QED
    BY <1>1, <2>3, <2>4, <2>6, Zenon DEF FullLoop, q, c
<1> QED
  BY <1>1, <1>5, <1>6, <1>7, <1>8

(* The dates of a context are as many as its array is long.                *)
LEMMA ContextDays ==
    ASSUME NEW o \in Contexts
    PROVE  /\ IsFiniteSet(Days(o)) /\ Cardinality(Days(o)) = Len(o.full)
           /\ Len(o.full) \in Nat /\ Len(o.full) <= MAX_FULL_OMITS
           /\ Days(o) \in SUBSET Int
<1>1. o.full \in Arrays /\ Len(o.full) \in Nat /\ Len(o.full) <= MAX_FULL_OMITS
  BY DEF Contexts, FullArrays, Arrays
<1>2. DOMAIN o.full = 1 .. Len(o.full) /\ \A i \in 1 .. Len(o.full) : o.full[i] \in Int
  BY <1>1 DEF Arrays
<1>3. Days(o) \in SUBSET Int
  BY <1>2 DEF Days, ToSet
<1> QED
  BY <1>1, <1>3, ArrayHasNoDoubles DEF Days

(* What the loop leaves is what OmitSets says of the dates.                *)
LEMMA LoopHasGrown ==
    ASSUME NEW o \in Contexts, NEW start \in Int, NEW end \in Int, NEW r,
           FullLoop(o, start, end, r)
    PROVE  Grown(Days(o), start .. end, Days(r.omits))
<1> DEFINE D == start .. end
           X == Days(o)
           Y == Days(r.omits)
           c == r.omits
<1>1. c \in Contexts /\ r.err \in BOOLEAN
  BY DEF FullLoop
<1>2. IsFiniteSet(Y) /\ Cardinality(Y) = Len(c.full) /\ Len(c.full) \in Nat
      /\ Len(c.full) <= MAX_FULL_OMITS /\ Y \in SUBSET Int
  BY <1>1, ContextDays
<1>3. CASE ~r.err
  <2>1. Y = X \cup D
    BY <1>3, Zenon DEF FullLoop
  <2>2. Cardinality(X \cup D) <= MAX_FULL_OMITS
    BY <1>2, <2>1
  <2> HIDE DEF X, Y, D
  <2>3. Grown(X, D, Y)
    BY <2>1, <2>2, Zenon DEF Grown
  <2> QED
    BY <2>3 DEF X, Y, D
<1>4. CASE r.err
  <2>1. Len(c.full) = MAX_FULL_OMITS
    BY <1>4, Zenon DEF FullLoop
  <2>2. PICK w \in D : w \notin Y /\ Y = X \cup (start .. w - 1)
    BY <1>4, Zenon DEF FullLoop
  <2>3. w \in Int /\ w <= end /\ start <= w
    OBVIOUS
  <2>4. IsFiniteSet(D)
    BY FS_Interval
  <2>5. IsFiniteSet(X)
    BY ContextDays
  <2> DEFINE B == start .. w - 1
  <2>6. B \subseteq D /\ \A z \in D : z \notin B => z >= w
    BY <2>3
  <2>7. \A x \in B : x < w /\ x \in Int
    BY <2>3
  <2>8. D \subseteq Int
    OBVIOUS
  <2> HIDE DEF D, X, Y, B, c
  <2>9. X \subseteq Y /\ Y \subseteq X \cup D
    BY <2>2, <2>6 DEF B
  <2>10. ~(Cardinality(X \cup D) <= MAX_FULL_OMITS)
    <3>1. IsFiniteSet(X \cup D) /\ Y \cup {w} \subseteq X \cup D
      BY <2>2, <2>4, <2>5, <2>9, FS_Union
    <3>2. Cardinality(Y \cup {w}) = Cardinality(Y) + 1 /\ IsFiniteSet(Y \cup {w})
      BY <1>2, <2>2, FS_AddElement
    <3>3. Cardinality(Y \cup {w}) <= Cardinality(X \cup D) /\ Cardinality(X \cup D) \in Nat
      BY <3>1, FS_Subset, FS_CardinalityType
    <3> QED
      BY <1>2, <2>1, <3>2, <3>3
  <2>11. ASSUME NEW x \in Y \ X, NEW z \in D \ Y PROVE x < z
    <3>1. x \in B /\ z \notin B
      BY <2>2 DEF B
    <3>2. x < w /\ x \in Int /\ z >= w /\ z \in Int
      BY <2>6, <2>7, <2>8, <3>1
    <3> QED
      BY <2>3, <3>2
  <2>12. Cardinality(Y) = MAX_FULL_OMITS
    BY <1>2, <2>1
  <2>13. Grown(X, D, Y)
    BY <2>9, <2>10, <2>11, <2>12, Zenon DEF Grown
  <2> QED
    BY <2>13 DEF X, Y, D
<1> QED
  BY <1>1, <1>3, <1>4

(* OMIT of dates adds them, as far as there is room.                       *)
LEMMA OmitFullAdds ==
    ASSUME NEW o \in Contexts, NEW a, NEW b,
           ~(a.d > DaysInMonth(a.m, a.y)), ~(b.d > DaysInMonth(b.m, b.y)),
           DSE(a.y, a.m, a.d) \in Int, DSE(b.y, b.m, b.d) \in Int,
           ~(DSE(b.y, b.m, b.d) < DSE(a.y, a.m, a.d))
    PROVE  LET p == OmitFull(o, a, b).omits
           IN  /\ p \in Contexts
               /\ p.partial = o.partial /\ p.weekday = o.weekday
               /\ Grown(Days(o), DSE(a.y, a.m, a.d) .. DSE(b.y, b.m, b.d), Days(p))
<1> DEFINE start == DSE(a.y, a.m, a.d)
           end   == DSE(b.y, b.m, b.d)
           last  == end - start + 1
           S == [omits : Contexts, err : BOOLEAN]
           init == Accepted(o)
           Is(f) == f = [n \in 0 .. last |-> IF n = 0 THEN init ELSE AddFull(f[n - 1], start + n - 1)]
           added == CHOOSE f : Is(f)
           p == OmitFull(o, a, b).omits
<1>1. p = added[last].omits
  BY Zenon DEF OmitFull
<1>2. start \in Int /\ end \in Int /\ last \in Nat
  <2> HIDE DEF start, end
  <2> QED
    BY DEF start, end
<1> HIDE DEF start, end
<1>3. FullLoop(o, start, start - 1, init) /\ init \in S
  <2>1. init.omits = o /\ init.err = FALSE /\ init \in S
    BY DEF Accepted
  <2>2. start .. start - 1 = {}
    BY <1>2
  <2> HIDE DEF init
  <2> QED
    BY <2>1, <2>2, Zenon DEF FullLoop
<1>4. \A r \in S, d \in Int : AddFull(r, d) \in S
  <2> TAKE r \in S, d \in Int
  <2>1. r.omits \in Contexts /\ r.err \in BOOLEAN
    OBVIOUS
  <2>2. r.omits.full \in Arrays /\ Len(r.omits.full) \in Nat
    BY <2>1 DEF Contexts, FullArrays, Arrays
  <2>3. CASE r.err \/ BexistsIntArray(r.omits.full, d)
    BY <2>3, Zenon DEF AddFull
  <2>4. CASE ~(r.err \/ BexistsIntArray(r.omits.full, d)) /\ Len(r.omits.full) >= MAX_FULL_OMITS
    <3>1. AddFull(r, d) = Refused(r.omits)
      BY <2>4, Zenon DEF AddFull
    <3> QED
      BY <2>1, <3>1 DEF Refused
  <2>5. CASE ~(r.err \/ BexistsIntArray(r.omits.full, d)) /\ ~(Len(r.omits.full) >= MAX_FULL_OMITS)
    <3> DEFINE q == [r.omits EXCEPT !.full = InsertIntoSortedArray(@, d)]
    <3>1. AddFull(r, d) = Accepted(q)
      BY <2>5, Zenon DEF AddFull
    <3>2. Len(r.omits.full) < MAX_FULL_OMITS
      BY <2>2, <2>5, OmitsAssumption
    <3>3. q \in Contexts
      BY <2>1, <2>5, <3>2, InsertFull
    <3> HIDE DEF q
    <3> QED
      BY <3>1, <3>3 DEF Accepted
  <2> QED
    BY <2>3, <2>4, <2>5
<1>5. Is(added)
  <2> DEFINE step == [q \in (1 .. last) \X S |-> AddFull(q[2], start + q[1] - 1)]
  <2> HIDE DEF last
  <2>0. \A n \in 1 .. last : n \in Int /\ start + n - 1 \in Int
    BY <1>2
  <2>1. step \in [(1 .. last) \X S -> S]
    <3> HIDE DEF S
    <3> QED
      BY <1>4, <2>0
  <2>3. PICK g : Computes(g, last, S, init, step)
    <3> HIDE DEF step, S, init
    <3> QED
      BY <1>2, <1>3, <2>1, LoopComputes
  <2>4. g \in [0 .. last -> S] /\ g[0] = init
        /\ \A i \in 1 .. last : g[i] = step[<<i, g[i - 1]>>]
    <3> HIDE DEF step, S, init
    <3> QED
      BY <2>3, Zenon DEF Computes
  <2>5. \A i \in 1 .. last : g[i] = AddFull(g[i - 1], start + i - 1)
    <3> TAKE i \in 1 .. last
    <3>1. i - 1 \in 0 .. last
      BY <1>2
    <3>2. g[i - 1] \in S
      <4> HIDE DEF S
      <4> QED
        BY <2>4, <3>1
    <3>3. step[<<i, g[i - 1]>>] = AddFull(g[i - 1], start + i - 1)
      <4> HIDE DEF S
      <4> QED
        BY <3>2
    <3> HIDE DEF step
    <3> QED
      BY <2>4, <3>3
  <2>6. \A n \in 0 .. last : n = 0 \/ n \in 1 .. last
    BY <1>2
  <2>7. Is(g)
    <3> HIDE DEF S, init, step
    <3>1. \A n \in 0 .. last : g[n] = IF n = 0 THEN init ELSE AddFull(g[n - 1], start + n - 1)
      <4>1. \A n \in 1 .. last : n # 0
        BY <1>2
      <4> QED
        BY <2>4, <2>5, <2>6, <4>1, Zenon
    <3> QED
      BY <2>4, <3>1, Zenon
  <2> HIDE DEF Is
  <2> QED
    BY <2>7, Zenon
<1> HIDE DEF added, init, p
<1>6. \A n \in 0 .. last : added[n] = IF n = 0 THEN init ELSE AddFull(added[n - 1], start + n - 1)
  <2> HIDE DEF last
  <2> QED
    BY <1>5
<1> HIDE DEF Is
<1> DEFINE Good == {n \in 0 .. last : FullLoop(o, start, start + n - 1, added[n])}
<1>7. 0 .. last \subseteq Good
  <2> HIDE DEF last
  <2>1. 0 \in Good
    <3>1. 0 \in 0 .. last /\ added[0] = init /\ start + 0 - 1 = start - 1
      BY <1>2, <1>6
    <3> QED
      BY <1>3, <3>1
  <2>2. ASSUME NEW i \in 1 .. last, i - 1 \in Good PROVE i \in Good
    <3>1. i \in 0 .. last /\ i # 0 /\ start + i - 1 \in Int /\ start <= start + i - 1
          /\ start + (i - 1) - 1 = (start + i - 1) - 1
      BY <1>2
    <3>2. added[i] = AddFull(added[i - 1], start + i - 1)
      BY <1>6, <3>1
    <3>3. FullLoop(o, start, (start + i - 1) - 1, added[i - 1])
      BY <2>2, <3>1
    <3>4. FullLoop(o, start, start + i - 1, added[i])
      BY <1>2, <3>1, <3>2, <3>3, FullRound
    <3> QED
      BY <3>1, <3>4
  <2> HIDE DEF Good
  <2> QED
    BY <1>2, <2>1, <2>2, UpTo
<1>8. FullLoop(o, start, end, added[last])
  <2>1. start + last - 1 = end /\ last \in 0 .. last
    BY <1>2
  <2> QED
    BY <1>7, <2>1
<1>9. Grown(Days(o), start .. end, Days(added[last].omits))
  BY <1>2, <1>8, LoopHasGrown
<1> QED
  BY <1>1, <1>8, <1>9 DEF FullLoop, p, start, end

-----------------------------------------------------------------------------
(* The commands.                                                           *)

\* OMIT of dates: nothing, more dates or more days of the year.
RangeAdded(o, range, p) ==
    \/ p = o
    \/ /\ Sets!Real(range) /\ Sets!Dated(range)
       /\ p \in Contexts /\ p.partial = o.partial /\ p.weekday = o.weekday
       /\ Grown(Days(o), Sets!DatesOf(range), Days(p))
    \/ /\ Sets!Real(range) /\ Sets!Yearless(range)
       /\ p \in Contexts /\ p.full = o.full /\ p.weekday = o.weekday
       /\ Yearly(p) = Yearly(o) \cup Sets!YearlyDaysOf(range)

(* The lengths of the months.                                              *)
LEMMA MonthLengths ==
    ASSUME NEW m \in 0 .. 11, NEW y
    PROVE  MonthDays[m] \in 1 .. 31 /\ DaysInMonth(m, y) \in 1 .. 31
<1>1. MonthDays[m] \in 1 .. 31
  BY DEF MonthDays
<1> QED
  BY <1>1 DEF DaysInMonth

(* Every date has a number.                                                *)
LEMMA DateIsNumber ==
    ASSUME NEW y \in Int, NEW m \in 0 .. 11, NEW d \in Int
    PROVE  DSE(y, m, d) \in Int
<1>1. MonthIndex[m] \in Int
  BY DEF MonthIndex
<1> QED
  BY <1>1 DEF DSE, BASE, LeapYearsBefore

\* The days that a range begins and ends with, when it gives them or not.
FirstOf(from) == IF from.d = NO_DAY THEN [from EXCEPT !.d = 1] ELSE from
LastOf(to) == IF to.d # NO_DAY THEN to
              ELSE [to EXCEPT !.d = IF to.y = NO_YR THEN MonthDays[to.m] ELSE DaysInMonth(to.m, to.y)]

(* The days that a range begins and ends with are those of OmitSets.       *)
LEMMA FirstAndLast ==
    ASSUME NEW from \in GivenDates, NEW to \in GivenDates, to.m # NO_MON, from.m # NO_MON
    PROVE  /\ FirstOf(from).y = from.y /\ FirstOf(from).m = from.m /\ FirstOf(from).d = Sets!First(from)
           /\ LastOf(to).y = to.y /\ LastOf(to).m = to.m
           /\ LastOf(to).d = Sets!Final(to, IF to.y = NO_YR THEN MonthDays[to.m] ELSE DaysInMonth(to.m, to.y))
           /\ from.m \in 0 .. 11 /\ to.m \in 0 .. 11
           /\ FirstOf(from).d \in 1 .. 31 /\ LastOf(to).d \in 1 .. 31
           /\ from.d <= FirstOf(from).d /\ to.d <= LastOf(to).d
<1> DEFINE length == IF to.y = NO_YR THEN MonthDays[to.m] ELSE DaysInMonth(to.m, to.y)
<1>1. from.m \in 0 .. 11 /\ to.m \in 0 .. 11 /\ from.d \in {-1} \cup 1 .. 31 /\ to.d \in {-1} \cup 1 .. 31
  BY DEF GivenDates, NO_MON, NO_DAY
<1>2. length \in 1 .. 31
  BY <1>1, MonthLengths
<1>3. /\ FirstOf(from).y = from.y /\ FirstOf(from).m = from.m
      /\ FirstOf(from).d = IF from.d = -1 THEN 1 ELSE from.d
  <2>1. from \in [y : {from.y}, m : {from.m}, d : {from.d}]
    BY DEF GivenDates
  <2> QED
    BY <2>1 DEF FirstOf, NO_DAY
<1> HIDE DEF length
<1>4. /\ LastOf(to).y = to.y /\ LastOf(to).m = to.m
      /\ LastOf(to).d = IF to.d = -1 THEN length ELSE to.d
  <2>1. to \in [y : {to.y}, m : {to.m}, d : {to.d}]
    BY DEF GivenDates
  <2>2. LastOf(to) = IF to.d # NO_DAY THEN to ELSE [to EXCEPT !.d = length]
    BY Zenon DEF LastOf, length
  <2> QED
    BY <2>1, <2>2 DEF NO_DAY
<1>5. Sets!First(from) = (IF from.d = -1 THEN 1 ELSE from.d)
      /\ Sets!Final(to, length) = (IF to.d = -1 THEN length ELSE to.d)
  BY Zenon DEF Sets!First, Sets!Final
<1> QED
  BY <1>1, <1>2, <1>3, <1>4, <1>5 DEF length

(* OMIT of dates does what OmitSets says of them, or nothing.              *)
LEMMA OmitDatesAdds ==
    ASSUME NEW o \in Contexts, NEW range \in GivenDates \X GivenDates
    PROVE  RangeAdded(o, range, OmitDates(o, range[1], range[2]).omits)
<1> DEFINE from == range[1]
           to   == range[2]
           a    == FirstOf(from)
           b    == LastOf(to)
           p    == OmitDates(o, from, to).omits
<1>1. from \in GivenDates /\ to \in GivenDates
  OBVIOUS
<1> HIDE DEF from, to
<1>2. OmitDates(o, from, to) =
         IF NO_MON \in {from.m, to.m} \/ (from.y = NO_YR) # (to.y = NO_YR) THEN Refused(o)
         ELSE IF from.y = NO_YR THEN OmitPartial(o, a, b) ELSE OmitFull(o, a, b)
  BY Zenon DEF OmitDates, FirstOf, LastOf
<1>r. Refused(o).omits = o
  BY DEF Refused
<1>3. CASE NO_MON \in {from.m, to.m} \/ (from.y = NO_YR) # (to.y = NO_YR)
  BY <1>2, <1>3, <1>r, Zenon DEF RangeAdded, from, to
<1> DEFINE given == ~(NO_MON \in {from.m, to.m} \/ (from.y = NO_YR) # (to.y = NO_YR))
<1>4. ASSUME given
      PROVE  /\ a.y = from.y /\ a.m = from.m /\ a.d = Sets!First(from)
             /\ b.y = to.y /\ b.m = to.m
             /\ b.d = Sets!Final(to, IF to.y = NO_YR THEN MonthDays[to.m] ELSE DaysInMonth(to.m, to.y))
             /\ from.m \in 0 .. 11 /\ to.m \in 0 .. 11
             /\ a.d \in 1 .. 31 /\ b.d \in 1 .. 31
             /\ from.d <= a.d /\ to.d <= b.d
             /\ from.d \in Int /\ to.d \in Int
  <2>1. from.m # NO_MON /\ to.m # NO_MON
    BY <1>4
  <2>2. from.d \in Int /\ to.d \in Int
    BY <1>1 DEF GivenDates, NO_DAY
  <2> QED
    BY <1>1, <2>1, <2>2, FirstAndLast, Zenon
<1> HIDE DEF a, b
<1>5. CASE given /\ from.y = NO_YR
  <2>1. p = OmitPartial(o, a, b).omits /\ to.y = NO_YR
    BY <1>2, <1>5, Zenon
  <2>2. MonthDays[a.m] \in 1 .. 31 /\ MonthDays[b.m] \in 1 .. 31
    BY <1>4, <1>5, MonthLengths
  <2>3. CASE a.d > MonthDays[a.m] \/ b.d > MonthDays[b.m]
    <3>1. OmitPartial(o, a, b) = Refused(o)
      BY <2>3, Zenon DEF OmitPartial
    <3> QED
      BY <1>r, <2>1, <3>1, Zenon DEF RangeAdded, from, to
  <2>4. CASE ~(a.d > MonthDays[a.m]) /\ ~(b.d > MonthDays[b.m])
    <3> DEFINE x == [m |-> a.m, d |-> a.d]
               z == [m |-> b.m, d |-> b.d]
    <3>1. a.d <= MonthDays[a.m] /\ b.d <= MonthDays[b.m]
      BY <1>4, <1>5, <2>2, <2>4
    <3>2. x \in Sets!RealDays /\ z \in Sets!RealDays
      <4>1. x \in [m : 0 .. 11, d : 1 .. 31] /\ z \in [m : 0 .. 11, d : 1 .. 31]
        BY <1>4, <1>5
      <4>2. x.m = a.m /\ x.d = a.d /\ z.m = b.m /\ z.d = b.d
        OBVIOUS
      <4> HIDE DEF x, z
      <4> QED
        BY <3>1, <4>1, <4>2, SameCalendar, Zenon DEF Sets!RealDays
    <3>3. x.m = a.m /\ x.d = a.d /\ z.m = b.m /\ z.d = b.d
      OBVIOUS
    <3> HIDE DEF x, z
    <3>4. DayOfYear(x) = DayOfYear(a) /\ DayOfYear(z) = DayOfYear(b)
      BY <3>3, Zenon DEF DayOfYear
    <3>5. DayOfYear(a) \in 1 .. 366 /\ DayOfYear(b) \in 1 .. 366
      BY <3>2, <3>4, YearIsARing
    <3>6. /\ p \in Contexts /\ p.full = o.full /\ p.weekday = o.weekday
          /\ Yearly(p) = Yearly(o) \cup Following(DayOfYear(a), After(b, DayOfYear(a)) + 1)
      <4>1. a.m \in 0 .. 11 /\ a.d \in 1 .. 31
        BY <1>4, <1>5
      <4> HIDE DEF p
      <4> QED
        BY <2>1, <2>4, <3>1, <3>5, <4>1, OmitPartialAdds
    <3>7. After(b, DayOfYear(a)) = After(z, DayOfYear(x))
      BY <3>4, Zenon DEF After
    <3>8. Following(DayOfYear(x), After(z, DayOfYear(x)) + 1) = Sets!YearlyDaysOf(range)
      <4> DEFINE key(v) == 32 * v.m + v.d
                 Ends(i, k) == {key(v) : v \in {u \in Sets!RealDays :
                                      IF i <= k THEN i <= key(u) /\ key(u) <= k
                                      ELSE i <= key(u) \/ key(u) <= k}}
      <4>1. Following(DayOfYear(x), After(z, DayOfYear(x)) + 1) = Ends(key(x), key(z))
        BY <3>2, FollowingIsBetween, Zenon DEF Syndrome
      <4>2. key(x) = 32 * from.m + Sets!First(from)
        BY <1>4, <1>5, <3>3, Zenon
      <4>3. key(z) = 32 * to.m + Sets!Final(to, Sets!MonthDays[to.m])
        BY <1>4, <1>5, <2>1, <3>3, SameCalendar, Zenon
      <4>4. Sets!YearlyDaysOf(range) = Ends(32 * from.m + Sets!First(from),
                                            32 * to.m + Sets!Final(to, Sets!MonthDays[to.m]))
        BY Zenon DEF Sets!YearlyDaysOf, from, to
      <4> HIDE DEF Ends
      <4> QED
        BY <4>1, <4>2, <4>3, <4>4, Zenon
    <3>9. Sets!Real(range) /\ Sets!Yearless(range)
      <4>1. from.m # -1 /\ to.m # -1 /\ from.d <= MonthDays[from.m] /\ to.d <= MonthDays[to.m]
        BY <1>4, <1>5, <2>2, <3>1
      <4>2. from.y = -1 /\ to.y = -1
        BY <1>5, <2>1 DEF NO_YR
      <4> QED
        BY <4>1, <4>2, SameCalendar, Zenon DEF Sets!Real, Sets!Yearless, from, to
    <3> HIDE DEF p
    <3> QED
      BY <3>4, <3>6, <3>7, <3>8, <3>9, Zenon DEF RangeAdded, p, from, to
  <2> QED
    BY <2>3, <2>4, Zenon
<1>6. CASE given /\ from.y # NO_YR
  <2>1. p = OmitFull(o, a, b).omits /\ to.y # NO_YR
    BY <1>2, <1>6, Zenon
  <2>2. DaysInMonth(a.m, a.y) \in 1 .. 31 /\ DaysInMonth(b.m, b.y) \in 1 .. 31
    BY <1>4, <1>6, MonthLengths
  <2> DEFINE start == DSE(a.y, a.m, a.d)
             end   == DSE(b.y, b.m, b.d)
  <2>3. start \in Int /\ end \in Int
    <3>1. a.y \in Int /\ b.y \in Int
      <4>1. from.y \in Int /\ to.y \in Int
        BY <1>1 DEF GivenDates, NO_YR
      <4> QED
        BY <1>4, <1>6, <4>1
    <3>2. a.m \in 0 .. 11 /\ b.m \in 0 .. 11 /\ a.d \in Int /\ b.d \in Int
      BY <1>4, <1>6
    <3> QED
      BY <3>1, <3>2, DateIsNumber
  <2>4. CASE a.d > DaysInMonth(a.m, a.y) \/ b.d > DaysInMonth(b.m, b.y)
    <3>1. OmitFull(o, a, b) = Refused(o)
      BY <2>4, Zenon DEF OmitFull
    <3> QED
      BY <1>r, <2>1, <3>1, Zenon DEF RangeAdded, from, to
  <2>5. CASE ~(a.d > DaysInMonth(a.m, a.y)) /\ ~(b.d > DaysInMonth(b.m, b.y)) /\ end < start
    <3>1. OmitFull(o, a, b) = Refused(o)
      BY <2>5, Zenon DEF OmitFull
    <3> QED
      BY <1>r, <2>1, <3>1, Zenon DEF RangeAdded, from, to
  <2>6. CASE ~(a.d > DaysInMonth(a.m, a.y)) /\ ~(b.d > DaysInMonth(b.m, b.y)) /\ ~(end < start)
    <3>1. /\ p \in Contexts /\ p.partial = o.partial /\ p.weekday = o.weekday
          /\ Grown(Days(o), start .. end, Days(p))
      <4> HIDE DEF p
      <4> QED
        BY <2>1, <2>3, <2>6, OmitFullAdds
    <3>2. Sets!DatesOf(range) = start .. end
      <4>1. start = Sets!DSE(from.y, from.m, Sets!First(from))
            /\ end = Sets!DSE(to.y, to.m, Sets!Final(to, Sets!DaysInMonth(to.m, to.y)))
        BY <1>4, <1>6, <2>1, SameCalendar, Zenon
      <4> HIDE DEF start, end
      <4> QED
        BY <4>1, Zenon DEF Sets!DatesOf, from, to
    <3>3. Sets!Real(range) /\ Sets!Dated(range)
      <4>1. from.m # -1 /\ to.m # -1 /\ from.d <= DaysInMonth(from.m, from.y)
            /\ to.d <= DaysInMonth(to.m, to.y)
        BY <1>4, <1>6, <2>2, <2>6
      <4>2. from.y # -1 /\ to.y # -1
        BY <1>6, <2>1 DEF NO_YR
      <4> QED
        BY <4>1, <4>2, SameCalendar, Zenon DEF Sets!Real, Sets!Dated, from, to
    <3> HIDE DEF p, start, end
    <3> QED
      BY <3>1, <3>2, <3>3, Zenon DEF RangeAdded, p, from, to
  <2> QED
    BY <2>4, <2>5, <2>6, Zenon
<1> QED
  BY <1>3, <1>5, <1>6, Zenon DEF from, to

(* ADDOMIT adds its date when there is room.                               *)
LEMMA AddGlobalOmitAdds ==
    ASSUME NEW o \in Contexts, NEW dse \in Nat \cup {-1}
    PROVE  LET p == AddGlobalOmit(o, dse).omits
           IN  \/ p = o
               \/ /\ dse # -1
                  /\ p \in Contexts /\ p.partial = o.partial /\ p.weekday = o.weekday
                  /\ Grown(Days(o), {dse}, Days(p))
<1> DEFINE p == AddGlobalOmit(o, dse).omits
           q == [o EXCEPT !.full = InsertIntoSortedArray(@, dse)]
<1>r. Refused(o).omits = o /\ Accepted(o).omits = o
  BY DEF Refused, Accepted
<1>1. CASE dse < 0 \/ Len(o.full) = MAX_FULL_OMITS \/ BexistsIntArray(o.full, dse)
  <2>1. AddGlobalOmit(o, dse) \in {Refused(o), Accepted(o)}
    BY <1>1, Zenon DEF AddGlobalOmit
  <2> QED
    BY <1>r, <2>1
<1>2. CASE ~(dse < 0) /\ Len(o.full) # MAX_FULL_OMITS /\ ~BexistsIntArray(o.full, dse)
  <2>1. AddGlobalOmit(o, dse) = Accepted(q)
    BY <1>2, Zenon DEF AddGlobalOmit
  <2>2. Len(o.full) < MAX_FULL_OMITS /\ dse \in Int
    BY <1>2, ContextDays, OmitsAssumption
  <2>3. q \in Contexts /\ q.partial = o.partial /\ q.weekday = o.weekday
        /\ Days(q) = Days(o) \cup {dse}
    BY <1>2, <2>2, InsertFull
  <2> HIDE DEF q
  <2>4. p = q
    BY <2>1 DEF Accepted
  <2>5. Cardinality(Days(q)) <= MAX_FULL_OMITS
    BY <2>3, ContextDays
  <2>6. Grown(Days(o), {dse}, Days(q))
    BY <2>3, <2>5, Zenon DEF Grown
  <2>7. dse # -1
    BY <1>2
  <2> QED
    BY <2>3, <2>4, <2>6, <2>7
<1> QED
  BY <1>1, <1>2

(* OMIT of weekdays adds them unless that omits every day.                 *)
LEMMA OmitWeekdaysAdds ==
    ASSUME NEW o \in Contexts, NEW wd \in SUBSET Weekdays
    PROVE  LET p == OmitWeekdays(o, wd).omits
           IN  \/ p = o
               \/ /\ o.weekday \cup wd # Weekdays
                  /\ p \in Contexts /\ p.full = o.full /\ p.partial = o.partial
                  /\ p.weekday = o.weekday \cup wd
<1>1. CASE o.weekday \cup wd = Weekdays
  <2>1. OmitWeekdays(o, wd) = Refused(o)
    BY <1>1, Zenon DEF OmitWeekdays
  <2> QED
    BY <2>1 DEF Refused
<1>2. CASE o.weekday \cup wd # Weekdays
  <2> DEFINE all == o.weekday \cup wd
             q   == [o EXCEPT !.weekday = all]
  <2>1. OmitWeekdays(o, wd) = Accepted(q)
    BY <1>2, Zenon DEF OmitWeekdays
  <2>2. o \in [full : FullArrays, partial : Arrays, weekday : SUBSET Weekdays]
        /\ all \in SUBSET Weekdays
    BY DEF Contexts
  <2> HIDE DEF all
  <2>3. q \in Contexts /\ q.full = o.full /\ q.partial = o.partial /\ q.weekday = all
    BY <2>2 DEF Contexts
  <2> HIDE DEF q
  <2>4. OmitWeekdays(o, wd).omits = q
    BY <2>1 DEF Accepted
  <2> QED
    BY <1>2, <2>3, <2>4 DEF all
<1> QED
  BY <1>1, <1>2

-----------------------------------------------------------------------------
(* The arrays stay sorted and within their length, in the context and in   *)
(* those that were saved.                                                  *)
OmitInv == omits \in Contexts /\ saved \in Seq(Contexts)

(* A run begins with an empty context.                                     *)
LEMMA InitOmitInv == Init => OmitInv
BY NoOmitsIsContext DEF Init, OmitInv

(* What an OMIT changes.                                                   *)
LEMMA OmitStep ==
    ASSUME OmitInv, Omit
    PROVE  /\ omits' \in Contexts /\ saved' = saved
           /\ \/ omits' = omits
              \/ \E range \in DateOmits : RangeAdded(omits, range, omits')
              \/ \E wd \in WeekdayOmits :
                   /\ omits.weekday \cup wd # Weekdays
                   /\ omits'.full = omits.full /\ omits'.partial = omits.partial
                   /\ omits'.weekday = omits.weekday \cup wd
<1>1. omits \in Contexts /\ saved' = saved
  BY DEF OmitInv, Omit
<1>2. CASE \E wd \in WeekdayOmits : omits' = OmitWeekdays(omits, wd).omits
  <2>1. PICK wd \in WeekdayOmits : omits' = OmitWeekdays(omits, wd).omits
    BY <1>2
  <2>2. wd \in SUBSET Weekdays
    BY CommandAssumption
  <2> QED
    BY <1>1, <2>1, <2>2, OmitWeekdaysAdds
<1>3. CASE \E range \in DateOmits : omits' = OmitDates(omits, range[1], range[2]).omits
  <2>1. PICK range \in DateOmits : omits' = OmitDates(omits, range[1], range[2]).omits
    BY <1>3
  <2>2. range \in GivenDates \X GivenDates
    BY CommandAssumption
  <2>3. RangeAdded(omits, range, omits')
    BY <1>1, <2>1, <2>2, OmitDatesAdds
  <2>4. omits' \in Contexts
    BY <1>1, <2>3, Zenon DEF RangeAdded
  <2> QED
    BY <1>1, <2>3, <2>4
<1> QED
  BY <1>2, <1>3 DEF Omit

(* What a REM with ADDOMIT changes.                                        *)
LEMMA RemAddOmitStep ==
    ASSUME OmitInv, RemAddOmit
    PROVE  /\ omits' \in Contexts /\ saved' = saved
           /\ \/ omits' = omits
              \/ \E dse \in AddOmitDates \ {-1} :
                   /\ omits'.partial = omits.partial /\ omits'.weekday = omits.weekday
                   /\ Grown(Days(omits), {dse}, Days(omits'))
<1>1. omits \in Contexts /\ saved' = saved
  BY DEF OmitInv, RemAddOmit
<1>2. PICK dse \in AddOmitDates : omits' = AddGlobalOmit(omits, dse).omits
  BY DEF RemAddOmit
<1>3. dse \in Nat \cup {-1}
  BY CommandAssumption
<1> QED
  BY <1>1, <1>2, <1>3, AddGlobalOmitAdds

(* Every step leaves sorted arrays.                                        *)
LEMMA NextOmitInv == OmitInv /\ [Next]_vars => OmitInv'
<1> SUFFICES ASSUME OmitInv, [Next]_vars PROVE OmitInv'
  OBVIOUS
<1>1. CASE Omit
  BY <1>1, OmitStep DEF OmitInv
<1>2. CASE RemAddOmit
  BY <1>2, RemAddOmitStep DEF OmitInv
<1>3. CASE DoClear
  BY <1>3, NoOmitsIsContext DEF DoClear, OmitInv
<1>4. CASE PushOmitContext
  BY <1>4 DEF PushOmitContext, OmitInv
<1>5. CASE PopOmitContext
  BY <1>5 DEF PopOmitContext, OmitInv
<1>6. CASE NewPass
  BY <1>6, NoOmitsIsContext DEF NewPass, OmitInv
<1>7. CASE UNCHANGED vars
  BY <1>7 DEF vars, OmitInv
<1> QED
  BY <1>1, <1>2, <1>3, <1>4, <1>5, <1>6, <1>7 DEF Next

(* The arrays of every context of a run are sorted, without doubles and    *)
(* within the length of FullOmitArray (omit.c, InsertIntoSortedArray).     *)
THEOREM ArraysStaySorted == Spec => []OmitInv
BY InitOmitInv, NextOmitInv, PTL DEF Spec

(* With sorted arrays, IsOmitted answers what the sets say.                *)
LEMMA SearchIsExact ==
    ASSUME OmitInv, NEW dse \in Nat
    PROVE  IsOmitted(omits, dse, {}) <=> Sets!Omitted(dse)
<1> DEFINE date == FromDSE(dse)
           key  == Syndrome(date.m, date.d)
<1>1. omits.full \in Arrays /\ omits.partial \in Arrays
  BY DEF OmitInv, Contexts, FullArrays
<1>2. BexistsIntArray(omits.full, dse) <=> dse \in Days(omits)
  BY <1>1, SearchesTheSet DEF Days
<1>3. BexistsIntArray(omits.partial, key) <=> key \in Yearly(omits)
  BY <1>1, FromDSEType, SearchesTheSet DEF Yearly
<1>4. Sets!FromDSE(dse) = date
  BY SameCalendar
<1>5. IsOmitted(omits, dse, {}) <=> \/ dse % 7 \in omits.weekday
                                     \/ BexistsIntArray(omits.full, dse)
                                     \/ BexistsIntArray(omits.partial, key)
  BY Zenon DEF IsOmitted
<1>6. Sets!Omitted(dse) <=> dse \in Days(omits) \/ key \in Yearly(omits) \/ dse % 7 \in omits.weekday
  BY <1>4, Zenon DEF Sets!Omitted, Syndrome
<1> QED
  BY <1>2, <1>3, <1>5, <1>6, Zenon

(* IsOmitted answers for every date what the sets of omitted days say.     *)
THEOREM SearchIsExactAlways ==
    Spec => [](\A dse \in Nat : IsOmitted(omits, dse, {}) <=> Sets!Omitted(dse))
<1>1. OmitInv => \A dse \in Nat : IsOmitted(omits, dse, {}) <=> Sets!Omitted(dse)
  BY SearchIsExact
<1> QED
  BY <1>1, ArraysStaySorted, PTL

(* The same for the dates that the runs look at.                           *)
THEOREM SearchesAreMembership == Spec => []SearchIsMembership
<1>1. OmitInv => SearchIsMembership
  <2>1. \A dse \in Window : dse \in Nat
    <3>1. AddOmitDates \ {-1} \subseteq Nat
      BY CommandAssumption
    <3>2. \A dse \in Window : dse >= 0 /\ \E d \in AddOmitDates \ {-1} : dse \in (d - 1) .. (d + 1)
      BY DEF Window
    <3> QED
      BY <3>1, <3>2
  <2> QED
    BY <2>1, SearchIsExact DEF SearchIsMembership
<1> QED
  BY <1>1, ArraysStaySorted, PTL

-----------------------------------------------------------------------------
(* The refinement.                                                         *)
Snapshot(o) == <<Days(o), Yearly(o), o.weekday>>
StackOf(s)  == [i \in DOMAIN s |-> Snapshot(s[i])]

(* The saved contexts as sets, one by one.                                 *)
LEMMA StackProperties ==
    ASSUME NEW S, NEW s \in Seq(S)
    PROVE  /\ StackOf(s) \in Seq({Snapshot(o) : o \in S}) /\ Len(StackOf(s)) = Len(s)
           /\ \A i \in 1 .. Len(s) : StackOf(s)[i] = Snapshot(s[i])
<1> DEFINE T == {Snapshot(o) : o \in S}
<1>1. Len(s) \in Nat /\ DOMAIN s = 1 .. Len(s) /\ \A i \in 1 .. Len(s) : s[i] \in S
  OBVIOUS
<1>2. \A i \in 1 .. Len(s) : Snapshot(s[i]) \in T
  BY <1>1
<1>3. StackOf(s) = [i \in 1 .. Len(s) |-> Snapshot(s[i])]
  BY <1>1, Zenon DEF StackOf
<1> HIDE DEF T
<1>4. StackOf(s) \in [1 .. Len(s) -> T] /\ \A i \in 1 .. Len(s) : StackOf(s)[i] = Snapshot(s[i])
  BY <1>2, <1>3
<1>5. StackOf(s) \in Seq(T)
  BY <1>1, <1>4, SeqDef
<1>6. Len(StackOf(s)) = Len(s)
  BY <1>1, <1>4, <1>5, LenProperties
<1> QED
  BY <1>4, <1>5, <1>6 DEF T

(* The sets after a PUSH.                                                  *)
LEMMA PushedStack ==
    ASSUME NEW S, NEW s \in Seq(S), NEW o \in S
    PROVE  StackOf(<<o>> \o s) = <<Snapshot(o)>> \o StackOf(s)
<1> DEFINE T == {Snapshot(z) : z \in S}
           r == <<o>> \o s
           t == <<Snapshot(o)>> \o StackOf(s)
<1>1. <<o>> \in Seq(S) /\ Len(<<o>>) = 1 /\ <<o>>[1] = o
      /\ <<Snapshot(o)>> \in Seq(T) /\ Len(<<Snapshot(o)>>) = 1 /\ <<Snapshot(o)>>[1] = Snapshot(o)
  OBVIOUS
<1>2. StackOf(s) \in Seq(T) /\ Len(StackOf(s)) = Len(s) /\ Len(s) \in Nat
      /\ \A i \in 1 .. Len(s) : StackOf(s)[i] = Snapshot(s[i])
  BY StackProperties
<1> HIDE DEF T
<1>3. r \in Seq(S) /\ Len(r) = 1 + Len(s)
      /\ \A i \in 1 .. 1 + Len(s) : r[i] = IF i <= 1 THEN <<o>>[i] ELSE s[i - 1]
  <2>1. r \in Seq(S) /\ Len(r) = Len(<<o>>) + Len(s)
        /\ \A i \in 1 .. Len(<<o>>) + Len(s) : r[i] = IF i <= Len(<<o>>) THEN <<o>>[i] ELSE s[i - Len(<<o>>)]
    BY <1>1, ConcatProperties
  <2> QED
    BY <1>1, <2>1
<1>4. t \in Seq(T) /\ Len(t) = 1 + Len(s)
      /\ \A i \in 1 .. 1 + Len(s) : t[i] = IF i <= 1 THEN <<Snapshot(o)>>[i] ELSE StackOf(s)[i - 1]
  <2> DEFINE u == <<Snapshot(o)>>
  <2> HIDE DEF u
  <2>1. t \in Seq(T) /\ Len(t) = Len(u) + Len(StackOf(s))
        /\ \A i \in 1 .. Len(u) + Len(StackOf(s)) :
             t[i] = IF i <= Len(u) THEN u[i] ELSE StackOf(s)[i - Len(u)]
    BY <1>1, <1>2, ConcatProperties DEF u
  <2>2. Len(u) = 1
    BY <1>1 DEF u
  <2> HIDE DEF t
  <2> QED
    BY <1>2, <2>1, <2>2 DEF u
<1> HIDE DEF r, t
<1>5. StackOf(r) \in Seq(T) /\ Len(StackOf(r)) = Len(r)
      /\ \A i \in 1 .. Len(r) : StackOf(r)[i] = Snapshot(r[i])
  BY <1>3, StackProperties DEF T
<1>6. \A i \in 1 .. 1 + Len(s) : StackOf(r)[i] = t[i]
  <2> TAKE i \in 1 .. 1 + Len(s)
  <2>1. CASE i = 1
    BY <1>1, <1>2, <1>3, <1>4, <1>5, <2>1
  <2>2. CASE i # 1
    <3>1. i - 1 \in 1 .. Len(s) /\ ~(i <= 1)
      BY <1>2, <2>2
    <3> QED
      BY <1>2, <1>3, <1>4, <1>5, <3>1
  <2> QED
    BY <2>1, <2>2
<1>7. StackOf(r) = t
  BY <1>3, <1>4, <1>5, <1>6, SeqEqual
<1> QED
  BY <1>7 DEF r, t

(* The sets after a POP.                                                   *)
LEMMA PoppedStack ==
    ASSUME NEW S, NEW s \in Seq(S), s # << >>
    PROVE  /\ StackOf(s) # << >>
           /\ Head(StackOf(s)) = Snapshot(Head(s))
           /\ Tail(StackOf(s)) = StackOf(Tail(s))
<1> DEFINE T == {Snapshot(z) : z \in S}
           q == StackOf(s)
<1>1. q \in Seq(T) /\ Len(q) = Len(s) /\ \A i \in 1 .. Len(s) : q[i] = Snapshot(s[i])
  BY StackProperties
<1>2. Len(s) \in Nat \ {0}
  OBVIOUS
<1> HIDE DEF T, q
<1>3. q # << >> /\ Head(q) = q[1] /\ Head(s) = s[1]
  BY <1>1, <1>2
<1>4. Head(q) = Snapshot(Head(s))
  BY <1>1, <1>2, <1>3
<1>5. Tail(s) \in Seq(S) /\ Len(Tail(s)) = Len(s) - 1
      /\ \A i \in 1 .. Len(Tail(s)) : Tail(s)[i] = s[i + 1]
  BY HeadTailProperties
<1>6. Tail(q) \in Seq(T) /\ Len(Tail(q)) = Len(q) - 1
      /\ \A i \in 1 .. Len(Tail(q)) : Tail(q)[i] = q[i + 1]
  BY <1>1, <1>3, HeadTailProperties
<1> DEFINE tail == Tail(s)
<1> HIDE DEF tail
<1>7. StackOf(tail) \in Seq(T) /\ Len(StackOf(tail)) = Len(tail)
      /\ \A i \in 1 .. Len(tail) : StackOf(tail)[i] = Snapshot(tail[i])
  BY <1>5, StackProperties DEF T, tail
<1>8. \A i \in 1 .. Len(tail) : Tail(q)[i] = StackOf(tail)[i]
  <2> TAKE i \in 1 .. Len(tail)
  <2>1. i + 1 \in 1 .. Len(s) /\ i \in 1 .. Len(Tail(q))
    BY <1>1, <1>2, <1>5, <1>6 DEF tail
  <2> QED
    BY <1>1, <1>5, <1>6, <1>7, <2>1 DEF tail
<1>9. Tail(q) = StackOf(tail)
  BY <1>1, <1>5, <1>6, <1>7, <1>8, SeqEqual DEF tail
<1> QED
  BY <1>3, <1>4, <1>9 DEF q, tail

(* The instance counts its sets in the same way.                           *)
LEMMA SameCardinality == \A S : Sets!Cardinality(S) = Cardinality(S)
BY Zenon DEF Sets!Cardinality, Cardinality

(* The initial states map to initial states.                               *)
LEMMA InitRefines == Init => Sets!Init
<1> SUFFICES ASSUME Init PROVE Sets!Init
  OBVIOUS
<1>1. omits = NoOmits /\ saved = << >>
  BY DEF Init
<1>2. [i \in DOMAIN saved |-> <<Days(saved[i]), Yearly(saved[i]), saved[i].weekday>>] = << >>
  BY <1>1
<1> QED
  BY <1>1, <1>2, NoOmitsIsContext, Zenon DEF Sets!Init

(* Every step maps to a step of OmitSets or a stutter.                     *)
LEMMA NextRefines == OmitInv /\ [Next]_vars => [Sets!Next]_(Sets!vars)
<1> SUFFICES ASSUME OmitInv, [Next]_vars PROVE [Sets!Next]_(Sets!vars)
  OBVIOUS
<1>0. omits \in Contexts /\ saved \in Seq(Contexts)
  BY DEF OmitInv
<1>s. Sets!vars = <<Days(omits), Yearly(omits), omits.weekday, StackOf(saved)>>
  BY Zenon DEF Sets!vars, StackOf, Snapshot
<1>1. CASE omits' = omits /\ saved' = saved
  BY <1>1, Zenon DEF Sets!vars
<1>2. CASE Omit
  <2>1. saved' = saved
    BY <1>2, OmitStep
  <2>2. ASSUME NEW range \in DateOmits, RangeAdded(omits, range, omits')
        PROVE  [Sets!Next]_(Sets!vars)
    <3>1. CASE omits' = omits
      BY <1>1, <2>1, <3>1
    <3>2. CASE /\ Sets!Real(range) /\ Sets!Dated(range)
               /\ omits' \in Contexts /\ omits'.partial = omits.partial /\ omits'.weekday = omits.weekday
               /\ Grown(Days(omits), Sets!DatesOf(range), Days(omits'))
      <4>1. Sets!OmitDays(Sets!DatesOf(range))
        BY <2>1, <3>2, SameCardinality, Zenon DEF Sets!OmitDays, Grown, Yearly
      <4> QED
        BY <3>2, <4>1, Zenon DEF Sets!Next
    <3>3. CASE /\ Sets!Real(range) /\ Sets!Yearless(range)
               /\ omits' \in Contexts /\ omits'.full = omits.full /\ omits'.weekday = omits.weekday
               /\ Yearly(omits') = Yearly(omits) \cup Sets!YearlyDaysOf(range)
      <4>1. Sets!OmitYearly(Sets!YearlyDaysOf(range))
        BY <2>1, <3>3, Zenon DEF Sets!OmitYearly, Days
      <4> QED
        BY <3>3, <4>1, Zenon DEF Sets!Next
    <3> QED
      BY <2>2, <3>1, <3>2, <3>3, Zenon DEF RangeAdded
  <2>3. ASSUME NEW wd \in WeekdayOmits, omits.weekday \cup wd # Weekdays,
               omits'.full = omits.full, omits'.partial = omits.partial,
               omits'.weekday = omits.weekday \cup wd
        PROVE  [Sets!Next]_(Sets!vars)
    <3>1. Sets!OmitWeekdays(wd)
      BY <2>1, <2>3, SameCalendar, Zenon DEF Sets!OmitWeekdays, Days, Yearly
    <3> QED
      BY <3>1, Zenon DEF Sets!Next
  <2> QED
    BY <1>1, <1>2, <2>1, <2>2, <2>3, OmitStep, Zenon
<1>3. CASE RemAddOmit
  <2>1. saved' = saved
    BY <1>3, RemAddOmitStep
  <2>2. ASSUME NEW dse \in AddOmitDates \ {-1},
               omits'.partial = omits.partial, omits'.weekday = omits.weekday,
               Grown(Days(omits), {dse}, Days(omits'))
        PROVE  [Sets!Next]_(Sets!vars)
    <3>1. Sets!OmitDays({dse})
      BY <2>1, <2>2, SameCardinality, Zenon DEF Sets!OmitDays, Grown, Yearly
    <3> QED
      BY <3>1, Zenon DEF Sets!Next
  <2> QED
    BY <1>1, <1>3, <2>1, <2>2, RemAddOmitStep, Zenon
<1>4. CASE DoClear
  <2>1. omits' = NoOmits /\ saved' = saved
    BY <1>4 DEF DoClear
  <2>2. Sets!Clear
    BY <2>1, NoOmitsIsContext, Zenon DEF Sets!Clear
  <2> QED
    BY <2>2, Zenon DEF Sets!Next
<1>5. CASE PushOmitContext
  <2>1. omits' = omits /\ saved' = <<omits>> \o saved
    BY <1>5 DEF PushOmitContext
  <2>2. StackOf(saved') = <<Snapshot(omits)>> \o StackOf(saved)
    BY <1>0, <2>1, PushedStack
  <2>3. Sets!Push
    BY <2>1, <2>2, Zenon DEF Sets!Push, Sets!context, Snapshot, StackOf
  <2> QED
    BY <2>3, Zenon DEF Sets!Next
<1>6. CASE PopOmitContext
  <2>1. saved # << >> /\ omits' = Head(saved) /\ saved' = Tail(saved)
    BY <1>6 DEF PopOmitContext
  <2>2. StackOf(saved) # << >> /\ Head(StackOf(saved)) = Snapshot(omits')
        /\ Tail(StackOf(saved)) = StackOf(saved')
    BY <1>0, <2>1, PoppedStack
  <2>3. Sets!Pop
    BY <2>2, Zenon DEF Sets!Pop, Sets!context, Snapshot, StackOf
  <2> QED
    BY <2>3, Zenon DEF Sets!Next
<1>7. CASE NewPass
  <2>1. omits' = NoOmits /\ saved' = << >>
    BY <1>7 DEF NewPass
  <2>2. StackOf(saved') = << >>
    BY <2>1 DEF StackOf
  <2>3. Days(omits') = {} /\ Yearly(omits') = {} /\ omits'.weekday = {}
    BY <2>1, NoOmitsIsContext
  <2> QED
    BY <2>2, <2>3, Zenon DEF Sets!Next, StackOf, Snapshot
<1>8. CASE UNCHANGED vars
  BY <1>1, <1>8 DEF vars
<1> QED
  BY <1>2, <1>3, <1>4, <1>5, <1>6, <1>7, <1>8 DEF Next

(* The sorted arrays, the binary search and the saved contexts implement   *)
(* the sets of omitted days and the stack of them.                         *)
THEOREM OmitsImplementSets == Spec => ImplementsOmitSets
<1>1. Init => Sets!Init
  BY InitRefines
<1>2. OmitInv /\ [Next]_vars => [Sets!Next]_(Sets!vars)
  BY NextRefines
<1> QED
  BY <1>1, <1>2, ArraysStaySorted, PTL DEF Spec, ImplementsOmitSets, Sets!Spec
=============================================================================
