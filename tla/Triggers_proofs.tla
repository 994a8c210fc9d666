-------------------------- MODULE Triggers_proofs --------------------------
(***************************************************************************)
(* Theorems about the dates of a trigger, for every trigger, OMIT context  *)
(* and day: the calendar, NextSimpleTrig, GetNextTriggerDate, and the      *)
(* search of ComputeTrigger, which returns only days on which the reminder *)
(* occurs and misses none of them.                                         *)
(***************************************************************************)
EXTENDS Occurrences, NatLemmas

-----------------------------------------------------------------------------
(* The calendar. *)

(* A year with 29 February is one more leap year before the next.          *)
LEMMA LeapYearCounts ==
    ASSUME NEW y \in Nat, y >= 1
    PROVE  LeapYearsBefore(y + 1) = LeapYearsBefore(y) + (IF IsLeapYear(y) THEN 1 ELSE 0)
<1>1. y \div 4 = (y - 1) \div 4 + (IF y % 4 = 0 THEN 1 ELSE 0)
  OBVIOUS
<1>2. y \div 100 = (y - 1) \div 100 + (IF y % 100 = 0 THEN 1 ELSE 0)
  OBVIOUS
<1>3. y \div 400 = (y - 1) \div 400 + (IF y % 400 = 0 THEN 1 ELSE 0)
  OBVIOUS
<1>4. (y % 100 = 0 => y % 4 = 0) /\ (y % 400 = 0 => y % 100 = 0)
  OBVIOUS
<1>5. (y + 1) - 1 = y
  OBVIOUS
<1> QED
  BY <1>1, <1>2, <1>3, <1>4, <1>5 DEF LeapYearsBefore, IsLeapYear

(* There are no fewer leap years before a later year.                      *)
LEMMA LeapYearsGrow ==
    ASSUME NEW y \in Nat, NEW z \in Nat, 1 <= y, y <= z
    PROVE  LeapYearsBefore(y) \in Int /\ LeapYearsBefore(y) <= LeapYearsBefore(z)
<1> DEFINE a == y - 1
           b == z - 1
           A == a \div 100
           B == b \div 100
<1>1. a \in Nat /\ b \in Nat /\ a <= b
  OBVIOUS
<1>2. LeapYearsBefore(y) = a \div 4 - a \div 100 + a \div 400
      /\ LeapYearsBefore(z) = b \div 4 - b \div 100 + b \div 400
  BY DEF LeapYearsBefore
<1> HIDE DEF a, b
<1>3. a \div 400 <= b \div 400
  BY <1>1
<1>4. \A i, j \in Nat : i <= j => i \div 4 - i \div 100 <= j \div 4 - j \div 100
  OBVIOUS
<1>5. a \div 4 - a \div 100 <= b \div 4 - b \div 100
  BY <1>1, <1>4
<1> QED
  BY <1>1, <1>2, <1>3, <1>5

Years      == {y \in Nat : y >= BASE}
January(y) == DSE(y, 0, 1)

\* The days of a year before a month.
DaysBefore(y, m) == MonthIndex[m] + (IF m > 1 /\ IsLeapYear(y) THEN 1 ELSE 0)

(* The table of the days before the months, entry by entry.                *)
LEMMA MonthIndexValues ==
    /\ MonthIndex[0] = 0   /\ MonthIndex[1] = 31  /\ MonthIndex[2] = 59   /\ MonthIndex[3] = 90
    /\ MonthIndex[4] = 120 /\ MonthIndex[5] = 151 /\ MonthIndex[6] = 181  /\ MonthIndex[7] = 212
    /\ MonthIndex[8] = 243 /\ MonthIndex[9] = 273 /\ MonthIndex[10] = 304 /\ MonthIndex[11] = 334
<1>1. MonthIndex[0] = 0 /\ MonthIndex[1] = 31 /\ MonthIndex[2] = 59 /\ MonthIndex[3] = 90
  BY DEF MonthIndex
<1>2. MonthIndex[4] = 120 /\ MonthIndex[5] = 151 /\ MonthIndex[6] = 181 /\ MonthIndex[7] = 212
  BY DEF MonthIndex
<1>3. MonthIndex[8] = 243 /\ MonthIndex[9] = 273 /\ MonthIndex[10] = 304 /\ MonthIndex[11] = 334
  BY DEF MonthIndex
<1> QED
  BY <1>1, <1>2, <1>3

(* The number of a day is that of the first of January and what is before  *)
(* the day in its year.                                                    *)
LEMMA DayInYear ==
    ASSUME NEW y \in Years, NEW m \in 0 .. 11, NEW d \in Int
    PROVE  /\ January(y) \in Int /\ DaysBefore(y, m) \in 0 .. 335
           /\ DSE(y, m, d) = January(y) + DaysBefore(y, m) + d - 1
           /\ DSE(y, m, d) \in Int
<1>1. MonthIndex[m] \in 0 .. 334 /\ MonthIndex[0] = 0
  <2> DEFINE i(k) == MonthIndex[k]
  <2>1. /\ i(0) = 0 /\ i(1) = 31 /\ i(2) = 59 /\ i(3) = 90 /\ i(4) = 120 /\ i(5) = 151 /\ i(6) = 181
        /\ i(7) = 212 /\ i(8) = 243 /\ i(9) = 273 /\ i(10) = 304 /\ i(11) = 334
    BY MonthIndexValues, Zenon
  <2> HIDE DEF i
  <2>2. i(m) \in 0 .. 334
    BY <2>1
  <2> QED
    BY <2>1, <2>2 DEF i
<1>2. LeapYearsBefore(y) \in Int /\ LeapYearsBefore(BASE) \in Int /\ y \in Int
  BY DEF LeapYearsBefore, Years, BASE
<1> DEFINE a == LeapYearsBefore(y)
           b == LeapYearsBefore(BASE)
           i == MonthIndex[m]
           l == IF m > 1 /\ IsLeapYear(y) THEN 1 ELSE 0
<1>3. l \in 0 .. 1
  OBVIOUS
<1>4. January(y) = 365 * (y - BASE) + a - b
  BY <1>1, <1>2 DEF January, DSE, BASE
<1>5. DSE(y, m, d) = 365 * (y - BASE) + a - b + i + l + d - 1
  BY Zenon DEF DSE
<1>6. DaysBefore(y, m) = i + l
  BY Zenon DEF DaysBefore
<1> HIDE DEF a, b, i, l
<1>7. a \in Int /\ b \in Int /\ i \in 0 .. 334
  BY <1>1, <1>2 DEF a, b, i
<1> QED
  BY <1>2, <1>3, <1>4, <1>5, <1>6, <1>7 DEF BASE

(* The first day of a month comes after the months before it.              *)
LEMMA MonthBegins ==
    ASSUME NEW y \in Years, NEW m \in 0 .. 11
    PROVE  /\ January(y) \in Int /\ DaysBefore(y, m) \in 0 .. 335
           /\ DSE(y, m, 1) = January(y) + DaysBefore(y, m)
<1> DEFINE d == 1
           a == January(y)
           b == DaysBefore(y, m)
           c == DSE(y, m, d)
<1>1. d \in Int
  OBVIOUS
<1> HIDE DEF a, b, c, d
<1>2. a \in Int /\ b \in 0 .. 335 /\ c = a + b + d - 1
  BY ZenonT(30), <1>1, DayInYear DEF a, b, c
<1>3. d = 1
  BY DEF d
<1>4. c = a + b
  BY <1>2, <1>3
<1> QED
  BY <1>2, <1>4, Zenon DEF a, b, c, d

(* The number of the first of January.                                     *)
LEMMA JanuaryIs ==
    ASSUME NEW u \in Years
    PROVE  /\ u \in Nat /\ 1 <= u /\ BASE \in Nat /\ 1 <= BASE /\ BASE <= u
           /\ LeapYearsBefore(u) \in Int /\ LeapYearsBefore(BASE) \in Int
           /\ January(u) = 365 * (u - BASE) + LeapYearsBefore(u) - LeapYearsBefore(BASE)
<1>1. MonthIndex[0] = 0
  BY DEF MonthIndex
<1>2. u \in Nat /\ LeapYearsBefore(u) \in Int /\ LeapYearsBefore(BASE) \in Int
  BY DEF LeapYearsBefore, Years, BASE
<1>3. January(u) = 365 * (u - BASE) + LeapYearsBefore(u) - LeapYearsBefore(BASE) + 0 + 0 + 1 - 1
  BY <1>1, <1>2 DEF January, DSE
<1> QED
  BY <1>2, <1>3 DEF BASE, Years

(* A year has 365 days, or 366.                                            *)
LEMMA NextJanuary ==
    ASSUME NEW y \in Years
    PROVE  /\ y + 1 \in Years
           /\ January(y + 1) = January(y) + 365 + (IF IsLeapYear(y) THEN 1 ELSE 0)
<1> DEFINE a == LeapYearsBefore(y)
           b == LeapYearsBefore(BASE)
           c == LeapYearsBefore(y + 1)
           l == IF IsLeapYear(y) THEN 1 ELSE 0
           z == y + 1
<1>1. z \in Years
  BY DEF Years, BASE
<1>2. January(y) = 365 * (y - BASE) + a - b
  BY JanuaryIs
<1>3. January(z) = 365 * (z - BASE) + c - b
  <2> HIDE DEF z
  <2>1. January(z) = 365 * (z - BASE) + LeapYearsBefore(z) - LeapYearsBefore(BASE)
    BY <1>1, JanuaryIs
  <2> QED
    BY <2>1, Zenon DEF z
<1>4. c = a + l
  BY LeapYearCounts, JanuaryIs
<1>5. a \in Int /\ b \in Int /\ l \in 0 .. 1 /\ y \in Nat
  BY JanuaryIs
<1>6. January(z) = January(y) + 365 + l
  <2> HIDE DEF a, b, c, l
  <2> QED
    BY <1>2, <1>3, <1>4, <1>5 DEF BASE
<1> QED
  BY <1>1, <1>6

(* Years come one after the other.                                         *)
LEMMA YearsGrow ==
    ASSUME NEW y \in Years, NEW z \in Years, y <= z
    PROVE  January(y) \in Nat /\ January(z) \in Nat /\ January(y) + 365 * (z - y) <= January(z)
<1> DEFINE a == LeapYearsBefore(y)
           b == LeapYearsBefore(BASE)
           c == LeapYearsBefore(z)
<1>1. y \in Nat /\ z \in Nat /\ 1 <= y /\ 1 <= z /\ BASE \in Nat /\ 1 <= BASE /\ BASE <= y /\ BASE <= z
  BY JanuaryIs
<1>2. a \in Int /\ b \in Int /\ c \in Int /\ b <= a /\ a <= c
  BY <1>1, LeapYearsGrow
<1>3. January(y) = 365 * (y - BASE) + a - b /\ January(z) = 365 * (z - BASE) + c - b
  BY JanuaryIs
<1> HIDE DEF a, b, c
<1> QED
  BY <1>1, <1>2, <1>3

(* Months come one after the other, and fill the year.                     *)
LEMMA MonthsFillYear ==
    ASSUME NEW y \in Years
    PROVE  /\ DaysBefore(y, 0) = 0
           /\ \A m \in 0 .. 11 : DaysInMonth(m, y) \in 28 .. 31
           /\ \A m, k \in 0 .. 11 : m < k => DaysBefore(y, m) + DaysInMonth(m, y) <= DaysBefore(y, k)
           /\ \A m \in 0 .. 10 : DaysBefore(y, m + 1) = DaysBefore(y, m) + DaysInMonth(m, y)
           /\ January(y) + DaysBefore(y, 11) + DaysInMonth(11, y) = January(y + 1)
<1> DEFINE l == IF IsLeapYear(y) THEN 1 ELSE 0
<1>1. /\ MonthIndex[0] = 0 /\ MonthIndex[1] = 31 /\ MonthIndex[2] = 59 /\ MonthIndex[3] = 90
      /\ MonthIndex[4] = 120 /\ MonthIndex[5] = 151 /\ MonthIndex[6] = 181 /\ MonthIndex[7] = 212
      /\ MonthIndex[8] = 243 /\ MonthIndex[9] = 273 /\ MonthIndex[10] = 304 /\ MonthIndex[11] = 334
  BY DEF MonthIndex
<1>2. \A m \in 0 .. 11 : DaysInMonth(m, y) = IF m = 1 THEN 28 + l ELSE IF m \in {3, 5, 8, 10} THEN 30 ELSE 31
  BY DEF DaysInMonth, MonthDays
<1>3. \A m \in 0 .. 11 : DaysBefore(y, m) = MonthIndex[m] + (IF m > 1 THEN l ELSE 0)
  BY DEF DaysBefore
<1>4. January(y) \in Int /\ January(y + 1) = January(y) + 365 + l
  BY NextJanuary, DayInYear
<1>5. l \in 0 .. 1
  OBVIOUS
<1> HIDE DEF l
<1>6. DaysBefore(y, 0) = 0 /\ \A m \in 0 .. 11 : DaysInMonth(m, y) \in 28 .. 31
  BY <1>1, <1>2, <1>3, <1>5
<1>7. \A m \in 0 .. 10 : DaysBefore(y, m + 1) = DaysBefore(y, m) + DaysInMonth(m, y)
  <2> TAKE m \in 0 .. 10
  <2>1. m + 1 \in 0 .. 11 /\ m \in 0 .. 11
    OBVIOUS
  <2>2. /\ DaysBefore(y, m + 1) = MonthIndex[m + 1] + (IF m + 1 > 1 THEN l ELSE 0)
        /\ DaysBefore(y, m) = MonthIndex[m] + (IF m > 1 THEN l ELSE 0)
        /\ DaysInMonth(m, y) = IF m = 1 THEN 28 + l ELSE IF m \in {3, 5, 8, 10} THEN 30 ELSE 31
    BY <2>1, <1>2, <1>3
  <2> QED
    BY <1>1, <1>5, <2>2
<1>8. \A m, k \in 0 .. 11 : m < k => DaysBefore(y, m) + DaysInMonth(m, y) <= DaysBefore(y, k)
  <2> TAKE m, k \in 0 .. 11
  <2> SUFFICES ASSUME m < k PROVE DaysBefore(y, m) + DaysInMonth(m, y) <= DaysBefore(y, k)
    OBVIOUS
  <2>1. /\ DaysBefore(y, k) = MonthIndex[k] + (IF k > 1 THEN l ELSE 0)
        /\ DaysBefore(y, m) = MonthIndex[m] + (IF m > 1 THEN l ELSE 0)
        /\ DaysInMonth(m, y) = IF m = 1 THEN 28 + l ELSE IF m \in {3, 5, 8, 10} THEN 30 ELSE 31
    BY <1>2, <1>3
  <2> QED
    BY <1>1, <1>5, <2>1
<1>9. January(y) + DaysBefore(y, 11) + DaysInMonth(11, y) = January(y + 1)
  <2>1. DaysBefore(y, 11) = 334 + l /\ DaysInMonth(11, y) = 31
    BY <1>1, <1>2, <1>3
  <2> QED
    BY <2>1, <1>4, <1>5
<1> QED
  BY <1>6, <1>7, <1>8, <1>9

\* The dates there are.
IsDate(y, m, d) == y \in Years /\ m \in 0 .. 11 /\ d \in 1 .. DaysInMonth(m, y)

(* The year of a day begins before it, and the next one after it.          *)
LEMMA YearOfDay ==
    ASSUME NEW dse \in Nat
    PROVE  /\ DSEYear(dse) \in Years
           /\ January(DSEYear(dse)) <= dse /\ dse < January(DSEYear(dse) + 1)
<1> DEFINE Begun == {y \in BASE .. dse \div 365 + BASE : DSE(y, 0, 1) <= dse}
           year  == DSEYear(dse)
<1>1. BASE \in Years /\ January(BASE) = 0
  <2>1. BASE \in Years
    BY DEF Years, BASE
  <2> DEFINE a == LeapYearsBefore(BASE)
  <2>2. January(BASE) = 365 * (BASE - BASE) + a - a /\ a \in Int
    BY <2>1, JanuaryIs
  <2> HIDE DEF a
  <2>3. January(BASE) = 0
    BY <2>2 DEF BASE
  <2> QED
    BY <2>1, <2>3
<1>2. \A y \in Years : January(y) <= dse => y \in Begun
  <2> TAKE y \in Years
  <2> SUFFICES ASSUME January(y) <= dse PROVE y \in Begun
    OBVIOUS
  <2>1. January(y) \in Nat /\ 365 * (y - BASE) <= January(y) /\ y \in Nat /\ BASE <= y
    <3>1. BASE <= y /\ y \in Nat
      BY DEF Years
    <3>2. January(BASE) + 365 * (y - BASE) <= January(y) /\ January(y) \in Nat
      BY <1>1, <3>1, YearsGrow
    <3> QED
      BY <1>1, <3>1, <3>2 DEF BASE
  <2>2. y - BASE <= dse \div 365
    BY <2>1 DEF BASE
  <2>3. y \in BASE .. dse \div 365 + BASE
    BY <2>1, <2>2 DEF BASE
  <2> QED
    BY <2>3 DEF January
<1>3. year \in Begun /\ \A y \in Begun : year >= y
  <2>1. dse \div 365 + BASE \in Nat /\ Begun \in SUBSET (0 .. dse \div 365 + BASE)
    BY DEF BASE
  <2>2. Begun # {}
    BY <1>1, <1>2
  <2>3. year = Max(Begun)
    BY DEF DSEYear
  <2> DEFINE N == dse \div 365 + BASE
  <2> HIDE DEF Begun, year, N
  <2>4. N \in Nat /\ Begun \in SUBSET (0 .. N)
    BY <2>1, Zenon DEF N
  <2>5. Max(Begun) \in Begun /\ \A y \in Begun : Max(Begun) >= y
    BY <2>2, <2>4, MaxIsMember, Zenon
  <2> QED
    BY <2>3, <2>5, Zenon
<1>4. year \in Years /\ January(year) <= dse
  BY <1>3 DEF BASE, Years, January
<1> HIDE DEF year, Begun
<1>5. year + 1 \in Years /\ January(year + 1) \in Int /\ year \in Nat
  <2>1. year + 1 \in Years
    BY <1>4, NextJanuary
  <2> QED
    BY <2>1, <1>4, DayInYear DEF Years
<1>6. ~(January(year + 1) <= dse)
  <2> SUFFICES ASSUME January(year + 1) <= dse PROVE FALSE
    OBVIOUS
  <2>1. year + 1 \in Begun
    BY <1>2, <1>5
  <2> QED
    BY <2>1, <1>3, <1>5
<1> QED
  BY <1>4, <1>5, <1>6 DEF year

(* The year of a day is the only one that has begun and is not over.       *)
LEMMA YearIsUnique ==
    ASSUME NEW dse \in Nat, NEW y \in Years, January(y) <= dse, dse < January(y + 1)
    PROVE  DSEYear(dse) = y
<1> DEFINE z == DSEYear(dse)
<1>1. z \in Years /\ January(z) <= dse /\ dse < January(z + 1)
  BY YearOfDay
<1> HIDE DEF z
<1>2. y \in Nat /\ z \in Nat /\ y + 1 \in Years /\ z + 1 \in Years
  BY <1>1, NextJanuary, JanuaryIs
<1>3. ~(y < z)
  <2> SUFFICES ASSUME y < z PROVE FALSE
    OBVIOUS
  <2>1. y + 1 <= z
    BY <1>2
  <2>2. January(y + 1) \in Nat /\ January(z) \in Nat /\ January(y + 1) + 365 * (z - (y + 1)) <= January(z)
    BY <1>1, <1>2, <2>1, YearsGrow
  <2>3. January(y + 1) <= January(z)
    BY <1>2, <2>1, <2>2
  <2> QED
    BY <1>1, <2>2, <2>3
<1>4. ~(z < y)
  <2> SUFFICES ASSUME z < y PROVE FALSE
    OBVIOUS
  <2>1. z + 1 <= y
    BY <1>2
  <2>2. January(z + 1) \in Nat /\ January(y) \in Nat /\ January(z + 1) + 365 * (y - (z + 1)) <= January(y)
    BY <1>1, <1>2, <2>1, YearsGrow
  <2>3. January(z + 1) <= January(y)
    BY <1>2, <2>1, <2>2
  <2> QED
    BY <1>1, <2>2, <2>3
<1>5. y = z
  BY <1>2, <1>3, <1>4
<1> QED
  BY <1>5 DEF z

\* The parts of FromDSE.
MonthsBegun(dse) == {k \in 0 .. 11 : DSE(DSEYear(dse), k, 1) <= dse}

(* FromDSE: the parts of a date are the year, the last month that has begun *)
(* and the days since it has.                                              *)
LEMMA FromDSEParts ==
    ASSUME NEW dse
    PROVE  /\ FromDSE(dse) = [y |-> DSEYear(dse), m |-> Max(MonthsBegun(dse)),
                              d |-> dse - DSE(DSEYear(dse), Max(MonthsBegun(dse)), 1) + 1]
           /\ FromDSE(dse).y = DSEYear(dse)
           /\ FromDSE(dse).m = Max(MonthsBegun(dse))
           /\ FromDSE(dse).d = dse - DSE(DSEYear(dse), Max(MonthsBegun(dse)), 1) + 1
BY Zenon DEF FromDSE, MonthsBegun

(* Every day has a date, whose number it is (FromDSE).                     *)
LEMMA DayHasDate ==
    ASSUME NEW dse \in Nat
    PROVE  LET s == FromDSE(dse)
           IN  IsDate(s.y, s.m, s.d) /\ DSE(s.y, s.m, s.d) = dse
<1> DEFINE y == DSEYear(dse)
           Begun == MonthsBegun(dse)
           m == Max(Begun)
           d == dse - DSE(y, m, 1) + 1
<1>1. y \in Years /\ January(y) <= dse /\ dse < January(y + 1)
  BY YearOfDay
<1>2. Begun = {k \in 0 .. 11 : DSE(y, k, 1) <= dse}
  BY DEF MonthsBegun
<1> HIDE DEF y, Begun
<1>3. \A k \in 0 .. 11 : /\ DSE(y, k, 1) = January(y) + DaysBefore(y, k)
                         /\ January(y) \in Int /\ DaysBefore(y, k) \in Int
  <2> TAKE k \in 0 .. 11
  <2>1. DSE(y, k, 1) = January(y) + DaysBefore(y, k) /\ January(y) \in Int /\ DaysBefore(y, k) \in 0 .. 335
    BY ZenonT(30), <1>1, MonthBegins
  <2> DEFINE b == DaysBefore(y, k)
  <2> HIDE DEF b
  <2>2. b \in 0 .. 335 => b \in Int
    OBVIOUS
  <2> QED
    BY <2>1, <2>2, Zenon DEF b
<1>4. m \in Begun /\ \A k \in Begun : m >= k
  <2>1. Begun \in SUBSET (0 .. 11)
    BY <1>2
  <2>2. 0 \in Begun
    <3>1. DaysBefore(y, 0) = 0
      BY <1>1, MonthsFillYear
    <3>2. DSE(y, 0, 1) = January(y) + DaysBefore(y, 0) /\ January(y) \in Int
      BY <1>3
    <3> QED
      BY <1>1, <1>2, <3>1, <3>2
  <2> QED
    BY <2>1, <2>2, MaxIsMember
<1> HIDE DEF m
<1>5. m \in 0 .. 11 /\ DSE(y, m, 1) <= dse
  BY <1>2, <1>4
<1>6. DSE(y, m, 1) \in Int /\ d \in Nat /\ d >= 1 /\ DSE(y, m, d) = dse
  <2>1. DSE(y, m, 1) = January(y) + DaysBefore(y, m) /\ January(y) \in Int /\ DaysBefore(y, m) \in Int
    BY <1>3, <1>5
  <2>2. d \in Nat /\ d >= 1
    BY <2>1, <1>5
  <2>3. DSE(y, m, d) = January(y) + DaysBefore(y, m) + d - 1
    <3> HIDE DEF d
    <3>1. d \in Int
      BY <2>2
    <3> QED
      BY <1>1, <1>5, <3>1, DayInYear, Zenon
  <2> QED
    BY <2>1, <2>2, <2>3
<1>7. dse < DSE(y, m, 1) + DaysInMonth(m, y)
  <2>1. DSE(y, m, 1) = January(y) + DaysBefore(y, m) /\ January(y) \in Int /\ DaysBefore(y, m) \in Int
    BY <1>3, <1>5
  <2>2. DaysInMonth(m, y) \in Int
    <3>1. DaysInMonth(m, y) \in 28 .. 31
      BY <1>1, <1>5, MonthsFillYear
    <3> QED
      BY <3>1
  <2>3. CASE m = 11
    <3>1. January(y) + DaysBefore(y, m) + DaysInMonth(m, y) = January(y + 1)
      BY <1>1, <2>3, MonthsFillYear
    <3> QED
      BY <1>1, <2>1, <2>2, <3>1
  <2>4. CASE m # 11
    <3>1. m \in 0 .. 10 /\ m + 1 \in 0 .. 11 /\ ~(m >= m + 1)
      BY <1>5, <2>4
    <3>2. DaysBefore(y, m + 1) = DaysBefore(y, m) + DaysInMonth(m, y)
      BY <1>1, <3>1, MonthsFillYear
    <3>3. ~(DSE(y, m + 1, 1) <= dse)
      BY <1>2, <1>4, <3>1
    <3>4. DSE(y, m + 1, 1) = January(y) + DaysBefore(y, m + 1)
      BY <1>3, <3>1
    <3> QED
      BY <2>1, <2>2, <3>2, <3>3, <3>4
  <2> QED
    BY <2>3, <2>4
<1>8. d \in 1 .. DaysInMonth(m, y)
  <2>1. DaysInMonth(m, y) \in Int
    <3>1. DaysInMonth(m, y) \in 28 .. 31
      BY <1>1, <1>5, MonthsFillYear
    <3> QED
      BY <3>1
  <2> QED
    BY <1>6, <1>7, <2>1
<1>9. FromDSE(dse).y = y /\ FromDSE(dse).m = m /\ FromDSE(dse).d = d
  BY FromDSEParts, Zenon DEF y, m, Begun, d
<1> QED
  BY <1>1, <1>5, <1>6, <1>8, <1>9, Zenon DEF IsDate

(* Every date is that of its number (DSE).                                 *)
LEMMA DateHasDay ==
    ASSUME NEW y, NEW m, NEW d, IsDate(y, m, d)
    PROVE  /\ DSE(y, m, d) \in Nat
           /\ FromDSE(DSE(y, m, d)).y = y /\ FromDSE(DSE(y, m, d)).m = m /\ FromDSE(DSE(y, m, d)).d = d
<1>1. y \in Years /\ m \in 0 .. 11 /\ DaysInMonth(m, y) \in 28 .. 31
      /\ d \in 1 .. DaysInMonth(m, y) /\ d \in 1 .. 31
  <2>1. y \in Years /\ m \in 0 .. 11 /\ d \in 1 .. DaysInMonth(m, y)
    BY DEF IsDate
  <2>2. DaysInMonth(m, y) \in 28 .. 31
    BY <2>1, MonthsFillYear
  <2> QED
    BY <2>1, <2>2
<1> DEFINE x == DSE(y, m, d)
           n == DaysInMonth(m, y)
<1>2. /\ x = January(y) + DaysBefore(y, m) + d - 1
      /\ January(y) \in Nat /\ DaysBefore(y, m) \in 0 .. 335
  <2>1. January(y) \in Nat
    BY <1>1, YearsGrow, JanuaryIs
  <2>2. d \in Int
    BY <1>1
  <2> QED
    BY <2>1, <2>2, <1>1, DayInYear, Zenon
<1>3. \A k \in 0 .. 11 : /\ DSE(y, k, 1) = January(y) + DaysBefore(y, k)
                         /\ DaysBefore(y, k) \in 0 .. 335
  <2> TAKE k \in 0 .. 11
  <2> QED
    BY <1>1, MonthBegins, Zenon
<1> HIDE DEF x
<1>4. x \in Nat /\ January(y) <= x
  BY <1>1, <1>2
<1>5. \A k \in 0 .. 11 : m < k => x < DSE(y, k, 1)
  <2> TAKE k \in 0 .. 11
  <2> SUFFICES ASSUME m < k PROVE x < DSE(y, k, 1)
    OBVIOUS
  <2>1. DaysBefore(y, m) + n <= DaysBefore(y, k)
    BY <1>1, MonthsFillYear
  <2>2. DSE(y, k, 1) = January(y) + DaysBefore(y, k) /\ DaysBefore(y, k) \in 0 .. 335
    BY <1>3
  <2>3. n \in 28 .. 31 /\ d \in Int /\ d <= n
    BY <1>1
  <2>4. \A i, j, e, l \in Int : i + l <= j /\ e <= l => January(y) + i + e - 1 < January(y) + j
    BY <1>2
  <2>5. DaysBefore(y, m) \in Int /\ DaysBefore(y, k) \in Int /\ n \in Int
    BY <1>2, <2>2, <2>3
  <2>6. January(y) + DaysBefore(y, m) + d - 1 < January(y) + DaysBefore(y, k)
    BY <2>1, <2>3, <2>4, <2>5
  <2> QED
    BY <1>2, <2>2, <2>6
<1>6. x < January(y + 1)
  <2>1. January(y) + DaysBefore(y, 11) + DaysInMonth(11, y) = January(y + 1)
        /\ DaysInMonth(11, y) \in 28 .. 31
    BY <1>1, MonthsFillYear
  <2>2. DSE(y, 11, 1) = January(y) + DaysBefore(y, 11) /\ DaysBefore(y, 11) \in 0 .. 335
    BY <1>3
  <2>3. CASE m = 11
    BY <1>1, <1>2, <2>1, <2>3
  <2>4. CASE m # 11
    <3>1. x < DSE(y, 11, 1)
      BY <1>1, <1>5, <2>4
    <3> QED
      BY <1>2, <1>4, <2>1, <2>2, <3>1
  <2> QED
    BY <2>3, <2>4
<1>7. DSEYear(x) = y
  BY <1>1, <1>4, <1>6, YearIsUnique
<1>8. Max(MonthsBegun(x)) = m
  <2> DEFINE Begun == MonthsBegun(x)
             k == Max(Begun)
  <2>1. Begun = {i \in 0 .. 11 : DSE(y, i, 1) <= x}
    BY <1>7 DEF MonthsBegun
  <2> HIDE DEF Begun
  <2>2. m \in Begun
    <3>1. DSE(y, m, 1) = January(y) + DaysBefore(y, m)
      BY <1>1, <1>3
    <3>2. DSE(y, m, 1) <= x
      BY <1>1, <1>2, <3>1
    <3> QED
      BY <1>1, <2>1, <3>2
  <2>3. k \in Begun /\ \A i \in Begun : k >= i
    BY <2>1, <2>2, MaxIsMember
  <2> HIDE DEF k
  <2>4. k \in 0 .. 11 /\ DSE(y, k, 1) <= x /\ k >= m
    BY <2>1, <2>2, <2>3
  <2>5. ~(m < k)
    <3>1. DSE(y, k, 1) \in Int
      <4>1. DSE(y, k, 1) = January(y) + DaysBefore(y, k) /\ DaysBefore(y, k) \in 0 .. 335
        BY <1>3, <2>4
      <4> QED
        BY <1>2, <4>1
    <3> QED
      BY <1>4, <1>5, <2>4, <3>1
  <2>6. k = m
    BY <1>1, <2>4, <2>5
  <2> QED
    BY <2>6 DEF k, Begun
<1>9. x - DSE(y, m, 1) + 1 = d
  <2>1. DSE(y, m, 1) = January(y) + DaysBefore(y, m)
    BY <1>1, <1>3
  <2> QED
    BY <1>1, <1>2, <2>1
<1>10. FromDSE(x).y = y /\ FromDSE(x).m = m /\ FromDSE(x).d = d
  BY <1>7, <1>8, <1>9, FromDSEParts
<1> QED
  BY <1>4, <1>10 DEF x

-----------------------------------------------------------------------------
(* The searches of NextSimpleTrig find something. *)

(* ADVANCE_TO_WD goes to the first of the weekdays.                        *)
LEMMA AdvancesToFirst ==
    ASSUME NEW j \in Nat, NEW wd \in SUBSET Weekdays, wd # {}
    PROVE  /\ AdvanceToWd(j, wd) \in j .. j + 6
           /\ AdvanceToWd(j, wd) % 7 \in wd
           /\ \A i \in j .. AdvanceToWd(j, wd) - 1 : i % 7 \notin wd
<1> DEFINE S == {x \in j .. j + 6 : x % 7 \in wd}
           x == AdvanceToWd(j, wd)
<1>1. S \in SUBSET Nat
  OBVIOUS
<1>2. S # {}
  <2>1. PICK w \in wd : TRUE
    OBVIOUS
  <2>2. w \in 0 .. 6
    BY DEF Weekdays
  <2> DEFINE i == j + ((w - j) % 7)
  <2>3. i \in j .. j + 6 /\ i % 7 = w
    BY <2>2
  <2> QED
    BY <2>3
<1>3. x = Min(S)
  BY Zenon DEF AdvanceToWd
<1> HIDE DEF S, x
<1>4. x \in S /\ \A i \in S : x <= i
  BY <1>1, <1>2, <1>3, MinIsMember
<1>5. x \in j .. j + 6 /\ x % 7 \in wd
  BY <1>4 DEF S
<1>6. ASSUME NEW i \in j .. x - 1 PROVE i % 7 \notin wd
  <2>1. i \in j .. j + 6 /\ ~(x <= i)
    BY <1>5
  <2> QED
    BY <1>4, <2>1 DEF S
<1> QED
  BY <1>5, <1>6 DEF x

(* Months are numbered by years; those from BASE on have dates.            *)
Months == {k \in Nat : k >= 12 * BASE}

(* A month numbered in sequence is a month of a year of the calendar.      *)
LEMMA MonthOfYear ==
    ASSUME NEW k \in Months
    PROVE  /\ k \div 12 \in Years /\ k % 12 \in 0 .. 11
           /\ k = 12 * (k \div 12) + (k % 12)
<1>1. k \in Nat /\ k >= 23880
  BY DEF Months, BASE
<1>2. k \div 12 \in Nat /\ k \div 12 >= 1990 /\ k % 12 \in 0 .. 11 /\ k = 12 * (k \div 12) + (k % 12)
  <2>1. k \div 12 \in Nat /\ k % 12 \in 0 .. 11
    BY <1>1
  <2>2. k = 12 * (k \div 12) + (k % 12)
    BY <1>1
  <2>3. \A q \in Nat, r \in 0 .. 11 : 12 * q + r >= 23880 => q >= 1990
    OBVIOUS
  <2> QED
    BY <1>1, <2>1, <2>2, <2>3
<1> QED
  BY <1>2 DEF Years, BASE

(* A month of a year of the calendar is a month numbered in sequence.      *)
LEMMA YearHasMonth ==
    ASSUME NEW y \in Years, NEW m \in 0 .. 11
    PROVE  12 * y + m \in Months /\ (12 * y + m) \div 12 = y /\ (12 * y + m) % 12 = m
BY DEF Months, Years, BASE

(* A day that a month has is a date of this month.                         *)
LEMMA DateInMonth ==
    ASSUME NEW k \in Months, NEW d \in 1 .. 31, HasDay(d, k)
    PROVE  /\ IsDate(k \div 12, k % 12, d)
           /\ DateIn(d, k) \in Nat
           /\ FromDSE(DateIn(d, k)).y = k \div 12
           /\ FromDSE(DateIn(d, k)).m = k % 12 /\ FromDSE(DateIn(d, k)).d = d
<1>1. k \div 12 \in Years /\ k % 12 \in 0 .. 11
  BY MonthOfYear
<1>2. d \in 1 .. DaysInMonth(k % 12, k \div 12)
  <2>1. d <= DaysInMonth(k % 12, k \div 12)
    BY DEF HasDay
  <2>2. DaysInMonth(k % 12, k \div 12) \in 28 .. 31
    BY <1>1, MonthsFillYear
  <2> QED
    BY <2>1, <2>2
<1>3. IsDate(k \div 12, k % 12, d)
  BY <1>1, <1>2 DEF IsDate
<1> QED
  BY <1>3, DateHasDay DEF DateIn

(* A month of 31 days has every day, and of two months one has 31.         *)
LEMMA LongMonths ==
    ASSUME NEW k \in Months
    PROVE  \/ \A d \in 1 .. 31 : HasDay(d, k)
           \/ k + 1 \in Months /\ \A d \in 1 .. 31 : HasDay(d, k + 1)
<1>1. k \in Nat /\ k + 1 \in Months
  BY DEF Months, BASE
<1>2. \A i \in Months : i % 12 \notin {1, 3, 5, 8, 10} => \A d \in 1 .. 31 : HasDay(d, i)
  <2> TAKE i \in Months
  <2> SUFFICES ASSUME i % 12 \notin {1, 3, 5, 8, 10}, NEW d \in 1 .. 31 PROVE HasDay(d, i)
    OBVIOUS
  <2>1. i % 12 \in 0 .. 11
    BY MonthOfYear
  <2>2. DaysInMonth(i % 12, i \div 12) = 31
    BY <2>1 DEF DaysInMonth, MonthDays
  <2> QED
    BY <2>2 DEF HasDay
<1>3. k % 12 \in {1, 3, 5, 8, 10} => (k + 1) % 12 \notin {1, 3, 5, 8, 10}
  BY <1>1
<1> QED
  BY <1>1, <1>2, <1>3

(* The first month that has a day.                                         *)
LEMMA MonthIsFound ==
    ASSUME NEW k \in Months, NEW d \in 1 .. 31
    PROVE  /\ MonthWith(d, k) \in Months /\ k <= MonthWith(d, k)
           /\ HasDay(d, MonthWith(d, k))
           /\ \A j \in k .. k + 2 : HasDay(d, j) => MonthWith(d, k) <= j
<1> DEFINE S == {j \in k .. k + 2 : HasDay(d, j)}
           x == MonthWith(d, k)
<1>1. S \in SUBSET Nat /\ k \in Nat
  BY DEF Months
<1>2. S # {}
  <2>1. k \in k .. k + 2 /\ k + 1 \in k .. k + 2
    BY <1>1
  <2> QED
    BY <2>1, LongMonths
<1>3. x = Min(S)
  BY Zenon DEF MonthWith
<1> HIDE DEF S, x
<1>4. x \in S /\ \A i \in S : x <= i
  BY <1>1, <1>2, <1>3, MinIsMember
<1>5. x \in k .. k + 2 /\ HasDay(d, x) /\ \A j \in k .. k + 2 : HasDay(d, j) => x <= j
  BY <1>4 DEF S
<1> QED
  BY <1>1, <1>5 DEF x, Months, BASE

(* The last month that has a day.                                          *)
LEMMA MonthBeforeIsFound ==
    ASSUME NEW k \in Months, NEW d \in 1 .. 31, k % 12 # 0 \/ HasDay(d, k)
    PROVE  LET j == MonthWithBefore(d, k)
           IN  /\ j \in Months /\ j <= k /\ HasDay(d, j) /\ j \div 12 = k \div 12
               /\ \A i \in k - 2 .. k : HasDay(d, i) => i <= j
<1> DEFINE S == {j \in k - 2 .. k : HasDay(d, j)}
           x == MonthWithBefore(d, k)
<1>1. k \in Nat /\ k - 2 \in Nat /\ S \in SUBSET (0 .. k)
  BY DEF Months, BASE
<1>2. \E j \in S : j \in Months /\ j \div 12 = k \div 12
  <2>1. CASE HasDay(d, k)
    BY <1>1, <2>1
  <2>2. CASE k % 12 # 0
    <3>1. k - 1 \in Months /\ k - 1 \in k - 2 .. k /\ k \in k - 2 .. k
          /\ (k - 1) \div 12 = k \div 12 /\ (k - 1) + 1 = k
      BY <2>2 DEF Months, BASE
    <3>2. HasDay(d, k - 1) \/ HasDay(d, k)
      BY <3>1, LongMonths
    <3> QED
      BY <3>1, <3>2
  <2> QED
    BY <2>1, <2>2
<1>3. x = Max(S)
  BY Zenon DEF MonthWithBefore
<1> HIDE DEF S, x
<1>4. x \in S /\ \A i \in S : x >= i
  BY <1>1, <1>2, <1>3, MaxIsMember
<1>5. x \in k - 2 .. k /\ HasDay(d, x) /\ \A j \in k - 2 .. k : HasDay(d, j) => x >= j
  BY <1>4 DEF S
<1>6. PICK j \in S : j \in Months /\ j \div 12 = k \div 12
  BY <1>2
<1>7. x >= j /\ x \in Nat /\ j \in Nat /\ j >= 12 * BASE /\ x <= k
  BY <1>1, <1>4, <1>5, <1>6 DEF Months
<1>8. x \in Months /\ x \div 12 = k \div 12
  BY <1>1, <1>6, <1>7 DEF Months, BASE
<1> QED
  BY <1>1, <1>5, <1>7, <1>8 DEF x

(* The first year in which a month has a day.                              *)
LEMMA YearIsFound ==
    ASSUME NEW y \in Years, NEW m \in 0 .. 11, NEW d \in 1 .. 31, d <= MonthDays[m]
    PROVE  LET z == YearWith(d, m, y)
           IN  /\ z \in Years /\ y <= z /\ IsDate(z, m, d)
               /\ \A u \in Years : y <= u /\ d <= DaysInMonth(m, u) => z <= u
<1> DEFINE S == {z \in y .. y + 8 : d <= DaysInMonth(m, z)}
           x == YearWith(d, m, y)
<1>1. y \in Nat /\ y >= BASE /\ S \in SUBSET Nat
  BY DEF Years
<1>2. S # {}
  <2>1. \E z \in y .. y + 8 : IsLeapYear(z)
    <3> DEFINE z == y + ((-y) % 4)
    <3>1. z \in y .. y + 3 /\ z % 4 = 0
      BY <1>1
    <3>2. CASE z % 100 # 0
      BY <1>1, <3>1, <3>2 DEF IsLeapYear
    <3>3. CASE z % 100 = 0
      <4>1. z + 4 \in y .. y + 8 /\ (z + 4) % 4 = 0 /\ (z + 4) % 100 # 0
        BY <1>1, <3>1, <3>3
      <4> QED
        BY <4>1 DEF IsLeapYear
    <3> QED
      BY <3>2, <3>3
  <2>2. PICK z \in y .. y + 8 : IsLeapYear(z)
    BY <2>1
  <2>3. DaysInMonth(m, z) = MonthDays[m]
    BY <2>2 DEF DaysInMonth
  <2> QED
    BY <2>2, <2>3
<1>3. x = Min(S)
  BY Zenon DEF YearWith
<1> HIDE DEF S, x
<1>4. x \in S /\ \A i \in S : x <= i
  BY <1>1, <1>2, <1>3, MinIsMember
<1>5. x \in y .. y + 8 /\ d <= DaysInMonth(m, x) /\ \A z \in y .. y + 8 : d <= DaysInMonth(m, z) => x <= z
  BY <1>4 DEF S
<1>6. x \in Years /\ y <= x
  BY <1>1, <1>5 DEF Years, BASE
<1>7. IsDate(x, m, d)
  <2>1. DaysInMonth(m, x) \in 28 .. 31
    BY <1>6, MonthsFillYear
  <2> QED
    BY <1>5, <1>6, <2>1 DEF IsDate
<1>8. ASSUME NEW u \in Years, y <= u, d <= DaysInMonth(m, u) PROVE x <= u
  <2>1. u \in Nat /\ x \in Nat
    BY <1>6 DEF Years
  <2>2. CASE u <= y + 8
    BY <1>1, <1>5, <1>8, <2>1, <2>2
  <2>3. CASE ~(u <= y + 8)
    BY <1>1, <1>5, <2>1, <2>3
  <2> QED
    BY <2>2, <2>3
<1> QED
  BY <1>6, <1>7, <1>8 DEF x

-----------------------------------------------------------------------------
(* The order of dates. *)

\* The month of a day, and the day in it.
MonthOf(dse)      == 12 * FromDSE(dse).y + FromDSE(dse).m
DayOfMonth(dse)   == FromDSE(dse).d
FirstOfMonth(dse) == DSE(FromDSE(dse).y, FromDSE(dse).m, 1)

(* FromDSE: every date is the day of the month that it says.               *)
LEMMA DayInMonth ==
    ASSUME NEW dse \in Nat
    PROVE  /\ MonthOf(dse) \in Months /\ DayOfMonth(dse) \in 1 .. 31
           /\ FromDSE(dse).y \in Years /\ FromDSE(dse).m \in 0 .. 11
           /\ MonthOf(dse) \div 12 = FromDSE(dse).y /\ MonthOf(dse) % 12 = FromDSE(dse).m
           /\ HasDay(DayOfMonth(dse), MonthOf(dse)) /\ dse = DateIn(DayOfMonth(dse), MonthOf(dse))
<1> DEFINE s == FromDSE(dse)
<1>1. IsDate(s.y, s.m, s.d) /\ DSE(s.y, s.m, s.d) = dse
  BY DayHasDate
<1> HIDE DEF s
<1>2. s.y \in Years /\ s.m \in 0 .. 11 /\ s.d \in 1 .. DaysInMonth(s.m, s.y)
      /\ DaysInMonth(s.m, s.y) \in 28 .. 31
  <2>1. s.y \in Years /\ s.m \in 0 .. 11 /\ s.d \in 1 .. DaysInMonth(s.m, s.y)
    BY <1>1 DEF IsDate
  <2> QED
    BY <2>1, MonthsFillYear
<1>3. s.d \in 1 .. 31 /\ s.d <= DaysInMonth(s.m, s.y)
  BY <1>2
<1>4. MonthOf(dse) = 12 * s.y + s.m /\ DayOfMonth(dse) = s.d
  BY DEF MonthOf, DayOfMonth, s
<1>5. MonthOf(dse) \in Months /\ MonthOf(dse) \div 12 = s.y /\ MonthOf(dse) % 12 = s.m
  BY <1>2, <1>4, YearHasMonth
<1>6. HasDay(DayOfMonth(dse), MonthOf(dse)) /\ dse = DateIn(DayOfMonth(dse), MonthOf(dse))
  BY <1>1, <1>3, <1>4, <1>5 DEF HasDay, DateIn
<1> QED
  BY <1>2, <1>3, <1>4, <1>5, <1>6 DEF s

\* The first day of a month, and how long it is.
StartOf(k)  == January(k \div 12) + DaysBefore(k \div 12, k % 12)
LengthOf(k) == DaysInMonth(k % 12, k \div 12)

(* The days of a month are numbered from its start.                        *)
LEMMA DateFromStart ==
    ASSUME NEW k \in Months, NEW d \in Int
    PROVE  /\ StartOf(k) \in Nat /\ LengthOf(k) \in 28 .. 31
           /\ DateIn(d, k) = StartOf(k) + d - 1
<1>1. k \div 12 \in Years /\ k % 12 \in 0 .. 11
  BY MonthOfYear
<1>2. January(k \div 12) \in Nat
  BY <1>1, YearsGrow, JanuaryIs
<1>3. /\ DaysBefore(k \div 12, k % 12) \in 0 .. 335
      /\ DSE(k \div 12, k % 12, d) = January(k \div 12) + DaysBefore(k \div 12, k % 12) + d - 1
  BY <1>1, DayInYear, Zenon
<1>4. LengthOf(k) \in 28 .. 31
  BY <1>1, MonthsFillYear DEF LengthOf
<1> QED
  BY <1>2, <1>3, <1>4 DEF StartOf, DateIn

(* A month is over before a later one begins.                              *)
LEMMA MonthsInOrder ==
    ASSUME NEW k \in Months, NEW j \in Months, k < j
    PROVE  StartOf(k) + LengthOf(k) <= StartOf(j)
<1> DEFINE y == k \div 12
           m == k % 12
           z == j \div 12
           n == j % 12
           J == January(y)
           b == DaysBefore(y, m)
           l == DaysInMonth(m, y)
<1>1. /\ y \in Years /\ m \in 0 .. 11 /\ z \in Years /\ n \in 0 .. 11
      /\ k = 12 * y + m /\ j = 12 * z + n
  BY MonthOfYear
<1>2. /\ StartOf(k) = J + b /\ LengthOf(k) = l
      /\ StartOf(j) = January(z) + DaysBefore(z, n)
  BY DEF StartOf, LengthOf
<1> HIDE DEF y, m, z, n, J, b, l
<1>3. y \in Nat /\ z \in Nat /\ J \in Nat /\ January(z) \in Nat /\ y + 1 \in Years
  BY <1>1, YearsGrow, JanuaryIs, NextJanuary DEF J
<1>4. \A u \in Years, i \in 0 .. 11 : DaysBefore(u, i) \in 0 .. 335
  BY MonthBegins, Zenon
<1>5. b \in 0 .. 335 /\ l \in 28 .. 31 /\ DaysBefore(z, n) \in 0 .. 335
  BY <1>1, <1>4, MonthsFillYear DEF b, l
<1>6. CASE y = z
  <2>1. m < n
    BY <1>1, <1>3, <1>6
  <2>2. b + l <= DaysBefore(z, n)
    BY <1>1, <1>6, <2>1, MonthsFillYear DEF b, l
  <2>3. J = January(z)
    BY <1>6 DEF J
  <2> HIDE DEF J
  <2>4. \A c, d \in Int : b + l <= d => c + b + l <= c + d
    BY <1>5
  <2>5. J + b + l <= January(z) + DaysBefore(z, n)
    BY <1>3, <1>5, <2>2, <2>3, <2>4
  <2> QED
    BY <1>2, <2>5
<1>7. CASE y # z
  <2> DEFINE w == y + 1
             e == DaysBefore(y, 11)
             f == DaysInMonth(11, y)
  <2>1. w <= z /\ w \in Years
    BY <1>1, <1>3, <1>7
  <2>2. January(w) <= January(z) /\ January(w) \in Nat
    <3> HIDE DEF w
    <3>1. January(w) \in Nat /\ January(w) + 365 * (z - w) <= January(z) /\ w \in Nat
      BY <1>1, <2>1, YearsGrow, JanuaryIs
    <3> QED
      BY <1>3, <2>1, <3>1
  <2>3. 11 \in 0 .. 11 /\ (m < 11 \/ m = 11)
    BY <1>1
  <2>4. J + e + f = January(w) /\ f \in 28 .. 31 /\ e \in 0 .. 335
    BY <1>1, <1>4, <2>3, MonthsFillYear DEF J
  <2>5. m < 11 => b + l <= e
    BY <1>1, <2>3, MonthsFillYear DEF b, l
  <2>6. m = 11 => b = e /\ l = f
    BY DEF b, l
  <2> HIDE DEF w, e, f
  <2>7. J + b + l <= January(w)
    BY <1>3, <1>5, <2>3, <2>4, <2>5, <2>6
  <2> QED
    BY <1>2, <1>3, <1>5, <2>2, <2>7
<1> QED
  BY <1>6, <1>7

(* Dates are in the order of their months, and of their days in a month.   *)
LEMMA DatesInOrder ==
    ASSUME NEW a \in Nat, NEW b \in Nat
    PROVE  a <= b <=> \/ MonthOf(a) < MonthOf(b)
                      \/ MonthOf(a) = MonthOf(b) /\ DayOfMonth(a) <= DayOfMonth(b)
<1> DEFINE j == MonthOf(a)
           k == MonthOf(b)
           d == DayOfMonth(a)
           e == DayOfMonth(b)
<1>1. /\ j \in Months /\ k \in Months /\ d \in 1 .. 31 /\ e \in 1 .. 31
      /\ HasDay(d, j) /\ HasDay(e, k) /\ a = DateIn(d, j) /\ b = DateIn(e, k)
  BY DayInMonth
<1> HIDE DEF j, k, d, e
<1>2. d <= LengthOf(j) /\ e <= LengthOf(k) /\ d \in Int /\ e \in Int /\ j \in Nat /\ k \in Nat
  BY <1>1 DEF HasDay, LengthOf, Months
<1>3. /\ StartOf(j) \in Nat /\ LengthOf(j) \in 28 .. 31 /\ a = StartOf(j) + d - 1
      /\ StartOf(k) \in Nat /\ LengthOf(k) \in 28 .. 31 /\ b = StartOf(k) + e - 1
  BY <1>1, <1>2, DateFromStart
<1>4. CASE j < k
  <2>1. StartOf(j) + LengthOf(j) <= StartOf(k)
    BY <1>1, <1>4, MonthsInOrder
  <2>2. a <= b
    BY <1>1, <1>2, <1>3, <2>1
  <2> QED
    BY <1>4, <2>2 DEF j, k
<1>5. CASE k < j
  <2>1. StartOf(k) + LengthOf(k) <= StartOf(j)
    BY <1>1, <1>5, MonthsInOrder
  <2>2. ~(a <= b)
    BY <1>1, <1>2, <1>3, <2>1
  <2>3. ~(j < k) /\ j # k
    BY <1>2, <1>5
  <2> QED
    BY <2>2, <2>3 DEF j, k
<1>6. CASE j = k
  <2>1. a <= b <=> d <= e
    BY <1>1, <1>2, <1>3, <1>6
  <2>2. ~(j < k)
    BY <1>2, <1>6
  <2> QED
    BY <1>6, <2>1, <2>2 DEF j, k, d, e
<1> QED
  BY <1>2, <1>4, <1>5, <1>6

(* A date of a month is in this month.                                     *)
LEMMA DateOfMonth ==
    ASSUME NEW k \in Months, NEW d \in 1 .. 31, HasDay(d, k)
    PROVE  DateIn(d, k) \in Nat /\ MonthOf(DateIn(d, k)) = k /\ DayOfMonth(DateIn(d, k)) = d
<1>1. k = 12 * (k \div 12) + (k % 12)
  BY MonthOfYear
<1>2. /\ DateIn(d, k) \in Nat /\ FromDSE(DateIn(d, k)).y = k \div 12
      /\ FromDSE(DateIn(d, k)).m = k % 12 /\ FromDSE(DateIn(d, k)).d = d
  BY DateInMonth
<1> QED
  BY <1>1, <1>2, Zenon DEF MonthOf, DayOfMonth

(* The first month that has a day is in the same year, for December has    *)
(* every day.                                                              *)
LEMMA MonthIsFirst ==
    ASSUME NEW k \in Months, NEW d \in 1 .. 31
    PROVE  /\ MonthWith(d, k) \div 12 = k \div 12
           /\ \A j \in Months : k <= j /\ HasDay(d, j) => MonthWith(d, k) <= j
<1> DEFINE x == MonthWith(d, k)
<1>1. /\ x \in Months /\ k <= x
      /\ \A j \in k .. k + 2 : HasDay(d, j) => x <= j
  BY MonthIsFound
<1> HIDE DEF x
<1>2. k \in Nat /\ x \in Nat /\ k \in k .. k + 2 /\ k + 1 \in k .. k + 2
  BY <1>1 DEF Months
<1>3. x = k \/ (x = k + 1 /\ ~HasDay(d, k))
  <2>1. CASE HasDay(d, k)
    BY <1>1, <1>2, <2>1
  <2>2. CASE ~HasDay(d, k)
    <3>1. HasDay(d, k + 1)
      BY <2>2, LongMonths
    <3>2. x <= k + 1
      BY <1>1, <1>2, <3>1
    <3>3. x = k => HasDay(d, k)
      BY MonthIsFound DEF x
    <3> QED
      BY <1>1, <1>2, <2>2, <3>2, <3>3
  <2> QED
    BY <2>1, <2>2
<1>4. k % 12 = 11 => HasDay(d, k)
  BY DEF HasDay, DaysInMonth, MonthDays
<1>5. x \div 12 = k \div 12
  BY <1>2, <1>3, <1>4
<1>6. ASSUME NEW j \in Months, k <= j, HasDay(d, j) PROVE x <= j
  <2>1. j \in Nat
    BY DEF Months
  <2> QED
    BY <1>1, <1>2, <1>3, <1>6, <2>1
<1> QED
  BY <1>5, <1>6 DEF x

(* Within a week there is at most one new month, and none after its first. *)
LEMMA WeekInMonth ==
    ASSUME NEW a \in Nat, NEW b \in a .. a + 6
    PROVE  /\ MonthOf(a) <= MonthOf(b) /\ MonthOf(b) <= MonthOf(a) + 1
           /\ DayOfMonth(a) = 1 => MonthOf(b) = MonthOf(a)
<1> DEFINE j == MonthOf(a)
           k == MonthOf(b)
           d == DayOfMonth(a)
           e == DayOfMonth(b)
<1>0. b \in Nat
  OBVIOUS
<1>1. /\ j \in Months /\ k \in Months /\ d \in 1 .. 31 /\ e \in 1 .. 31
      /\ HasDay(d, j) /\ HasDay(e, k) /\ a = DateIn(d, j) /\ b = DateIn(e, k)
  BY <1>0, DayInMonth
<1> HIDE DEF j, k, d, e
<1>2. d <= LengthOf(j) /\ e <= LengthOf(k) /\ d \in Int /\ e \in Int /\ j \in Nat /\ k \in Nat
      /\ j + 1 \in Months
  BY <1>1 DEF HasDay, LengthOf, Months, BASE
<1>3. /\ StartOf(j) \in Nat /\ LengthOf(j) \in 28 .. 31 /\ a = StartOf(j) + d - 1
      /\ StartOf(k) \in Nat /\ LengthOf(k) \in 28 .. 31 /\ b = StartOf(k) + e - 1
      /\ StartOf(j + 1) \in Nat /\ LengthOf(j + 1) \in 28 .. 31
  BY <1>1, <1>2, DateFromStart
<1>4. j <= k
  <2>1. a <= b
    OBVIOUS
  <2>2. a <= b => j < k \/ j = k
    BY <1>0, DatesInOrder DEF j, k
  <2> QED
    BY <1>2, <2>1, <2>2
<1>5. j < k => StartOf(j) + LengthOf(j) <= StartOf(k)
  BY <1>1, MonthsInOrder
<1>6. k <= j + 1
  <2> SUFFICES ASSUME j + 1 < k PROVE FALSE
    BY <1>2
  <2>1. StartOf(j + 1) + LengthOf(j + 1) <= StartOf(k)
    BY <1>1, <1>2, MonthsInOrder
  <2>2. StartOf(j) + LengthOf(j) <= StartOf(j + 1)
    BY <1>1, <1>2, MonthsInOrder
  <2> QED
    BY <1>1, <1>2, <1>3, <2>1, <2>2
<1>7. d = 1 => k = j
  BY <1>1, <1>2, <1>3, <1>4, <1>5
<1> QED
  BY <1>4, <1>6, <1>7 DEF j, k, d

(* No later day is one of the weekdays before the one ADVANCE_TO_WD goes   *)
(* to, and it goes no farther from an earlier day.                         *)
LEMMA AdvancesNoFarther ==
    ASSUME NEW wd \in SUBSET Weekdays, wd # {}, NEW j \in Nat
    PROVE  /\ AdvanceToWd(j, wd) \in Nat
           /\ \A z \in Nat : z >= j /\ z % 7 \in wd => AdvanceToWd(j, wd) <= z
           /\ \A i \in 0 .. j : AdvanceToWd(i, wd) \in Nat /\ AdvanceToWd(i, wd) <= AdvanceToWd(j, wd)
<1>1. ASSUME NEW i \in Nat, NEW z \in Nat, z >= i, z % 7 \in wd
      PROVE  AdvanceToWd(i, wd) \in Nat /\ AdvanceToWd(i, wd) <= z
  <2> DEFINE x == AdvanceToWd(i, wd)
  <2>1. x \in i .. i + 6 /\ \A y \in i .. x - 1 : y % 7 \notin wd
    BY AdvancesToFirst
  <2> HIDE DEF x
  <2>2. x \in Nat /\ x <= z
    BY <1>1, <2>1
  <2> QED
    BY <2>2 DEF x
<1> DEFINE x == AdvanceToWd(j, wd)
<1>2. x \in j .. j + 6 /\ x % 7 \in wd
  BY AdvancesToFirst
<1> HIDE DEF x
<1>3. x \in Nat /\ x >= j
  BY <1>2
<1>4. \A i \in 0 .. j : AdvanceToWd(i, wd) \in Nat /\ AdvanceToWd(i, wd) <= x
  <2> TAKE i \in 0 .. j
  <2>1. i \in Nat /\ x >= i
    BY <1>3
  <2> QED
    BY <1>1, <1>2, <1>3, <2>1
<1> QED
  BY <1>1, <1>3, <1>4 DEF x

-----------------------------------------------------------------------------
(* What a trigger specifies. *)

\* The month k is one that the trigger t allows.
MonthGiven(t, k) == Given(k % 12, t.m) /\ Given(k \div 12, t.y)

(* A day matches by its day of the month and its month.                    *)
LEMMA MatchesByMonth ==
    ASSUME NEW t, NEW z \in Nat
    PROVE  Matches(t, z) <=> Given(DayOfMonth(z), t.d) /\ MonthGiven(t, MonthOf(z))
<1>1. MonthOf(z) \div 12 = FromDSE(z).y /\ MonthOf(z) % 12 = FromDSE(z).m
  BY DayInMonth
<1> QED
  BY <1>1, Zenon DEF Matches, MonthGiven, DayOfMonth

(* With a day, the matching days are the dates with that day.              *)
LEMMA MatchesADate ==
    ASSUME NEW t, t.d \in 1 .. 31, NEW z \in Nat
    PROVE  Matches(t, z) <=> \E k \in Months : HasDay(t.d, k) /\ MonthGiven(t, k) /\ z = DateIn(t.d, k)
<1>1. Given(DayOfMonth(z), t.d) <=> DayOfMonth(z) = t.d
  BY DEF Given
<1>2. /\ MonthOf(z) \in Months /\ HasDay(DayOfMonth(z), MonthOf(z))
      /\ z = DateIn(DayOfMonth(z), MonthOf(z))
  BY DayInMonth
<1>3. ASSUME Matches(t, z)
      PROVE  \E k \in Months : HasDay(t.d, k) /\ MonthGiven(t, k) /\ z = DateIn(t.d, k)
  <2>1. DayOfMonth(z) = t.d /\ MonthGiven(t, MonthOf(z))
    BY <1>1, <1>3, MatchesByMonth, Zenon
  <2> QED
    BY <1>2, <2>1
<1>4. ASSUME NEW k \in Months, HasDay(t.d, k), MonthGiven(t, k), z = DateIn(t.d, k)
      PROVE  Matches(t, z)
  <2>1. MonthOf(z) = k /\ DayOfMonth(z) = t.d
    BY <1>4, DateOfMonth
  <2> QED
    BY <1>1, <1>4, <2>1, MatchesByMonth, Zenon
<1> QED
  BY <1>3, <1>4

(* Without a day, a weekday that matches.                                  *)
LEMMA WeekdayInMonth ==
    ASSUME NEW t, t.wd # {}, t.d = NO_DAY, NEW z \in Nat
    PROVE  Specified(t, z) <=> z % 7 \in t.wd /\ MonthGiven(t, MonthOf(z))
<1>1. Given(DayOfMonth(z), t.d)
  BY DEF Given, NO_DAY
<1> QED
  BY <1>1, MatchesByMonth, Zenon DEF Specified

(* With a day, the first of the weekdays from a day that matches.          *)
LEMMA FirstWeekdayFrom ==
    ASSUME NEW t, t.wd # {}, t.wd \in SUBSET Weekdays, t.d # NO_DAY, NEW z \in Nat
    PROVE  Specified(t, z) <=> \E j \in Nat : Matches(t, j) /\ z = AdvanceToWd(j, t.wd)
<1>1. ASSUME NEW j \in Nat, Matches(t, j), z = AdvanceToWd(j, t.wd)
      PROVE  Specified(t, z)
  <2>1. z \in j .. j + 6 /\ z % 7 \in t.wd /\ \A i \in j .. z - 1 : i % 7 \notin t.wd
    BY <1>1, AdvancesToFirst
  <2>2. j \in z - 6 .. z /\ j >= 0
    BY <2>1
  <2> QED
    BY <1>1, <2>1, <2>2, Zenon DEF Specified
<1>2. ASSUME Specified(t, z)
      PROVE  \E j \in Nat : Matches(t, j) /\ z = AdvanceToWd(j, t.wd)
  <2>1. z % 7 \in t.wd
    BY <1>2, Zenon DEF Specified
  <2>2. PICK j \in z - 6 .. z : j >= 0 /\ Matches(t, j) /\ \A i \in j .. z - 1 : i % 7 \notin t.wd
    BY <1>2, Zenon DEF Specified
  <2> DEFINE x == AdvanceToWd(j, t.wd)
  <2>3. j \in Nat /\ z >= j
    BY <2>2
  <2>4. x \in j .. j + 6 /\ x % 7 \in t.wd
    BY <2>3, AdvancesToFirst
  <2>5. x <= z
    BY <2>1, <2>3, AdvancesNoFarther
  <2> HIDE DEF x
  <2>6. x = z
    BY <2>2, <2>3, <2>4, <2>5
  <2> QED
    BY <2>2, <2>3, <2>6 DEF x
<1> QED
  BY <1>1, <1>2

-----------------------------------------------------------------------------
(* NextSimpleTrig, one lemma for each of its cases. *)

\* The date is one the trigger specifies, and no day from start on before it is.
Sound(t, x)             == x = Expired \/ (x \in Nat /\ Specified(t, x))
NoneBefore(t, start, x) == \A z \in Nat : z >= start /\ Specified(t, z) => x # Expired /\ x <= z
Ahead(t, start, x)      == FullDate(t) \/ x = Expired \/ x >= start
Finds(t, start, x)      == Sound(t, x) /\ Ahead(t, start, x) /\ NoneBefore(t, start, x)

(* The parts of the date start, as NextSimpleTrig takes them.              *)
LEMMA StartDate ==
    ASSUME NEW start \in Nat
    PROVE  LET s == FromDSE(start)
           IN  /\ s.y \in Years /\ s.m \in 0 .. 11 /\ s.d \in 1 .. 31
               /\ 12 * s.y + s.m = MonthOf(start) /\ s.d = DayOfMonth(start)
               /\ s.y \in Nat /\ s.y >= BASE /\ MonthOf(start) \in Months
               /\ MonthOf(start) \div 12 = s.y /\ MonthOf(start) % 12 = s.m
               /\ \A z \in Nat : z >= start => \/ MonthOf(z) > MonthOf(start)
                                               \/ MonthOf(z) = MonthOf(start) /\ DayOfMonth(z) >= s.d
               /\ \A z \in Nat : MonthOf(z) \in Nat /\ (z >= start => MonthOf(z) >= MonthOf(start))
<1> DEFINE s == FromDSE(start)
<1>1. /\ s.y \in Years /\ s.m \in 0 .. 11 /\ MonthOf(start) \in Months
      /\ DayOfMonth(start) \in 1 .. 31 /\ s.d = DayOfMonth(start)
      /\ MonthOf(start) \div 12 = s.y /\ MonthOf(start) % 12 = s.m
  BY DayInMonth DEF DayOfMonth
<1>2. 12 * s.y + s.m = MonthOf(start)
  BY Zenon DEF MonthOf
<1>3. ASSUME NEW z \in Nat, z >= start
      PROVE  \/ MonthOf(z) > MonthOf(start)
             \/ MonthOf(z) = MonthOf(start) /\ DayOfMonth(z) >= DayOfMonth(start)
  <2>1. start <= z
    BY <1>3
  <2>2. \/ MonthOf(start) < MonthOf(z)
        \/ MonthOf(start) = MonthOf(z) /\ DayOfMonth(start) <= DayOfMonth(z)
    BY <2>1, DatesInOrder, Zenon
  <2>3. MonthOf(z) \in Nat /\ MonthOf(start) \in Nat /\ DayOfMonth(z) \in Int /\ DayOfMonth(start) \in Int
    <3>1. MonthOf(z) \in Months /\ MonthOf(start) \in Months /\ DayOfMonth(z) \in 1 .. 31
          /\ DayOfMonth(start) \in 1 .. 31
      BY DayInMonth
    <3> QED
      BY <3>1 DEF Months
  <2> QED
    BY <2>2, <2>3
<1>4. s.y \in Nat /\ s.y >= BASE
  BY <1>1 DEF Years
<1>5. \A z \in Nat : MonthOf(z) \in Nat
  BY DayInMonth DEF Months
<1>6. \A z \in Nat : z >= start => MonthOf(z) >= MonthOf(start)
  BY <1>3, <1>5
<1> QED
  BY <1>1, <1>2, <1>3, <1>4, <1>5, <1>6, Zenon

(* A day of a later month, or a later one of the same month.              *)
LEMMA IsLater ==
    ASSUME NEW start \in Nat, NEW x \in Nat,
           \/ MonthOf(x) > MonthOf(start)
           \/ MonthOf(x) = MonthOf(start) /\ DayOfMonth(x) >= DayOfMonth(start)
    PROVE  x >= start
<1>1. /\ MonthOf(start) \in Nat /\ MonthOf(x) \in Nat
      /\ DayOfMonth(start) \in 1 .. 31 /\ DayOfMonth(x) \in 1 .. 31
  BY DayInMonth DEF Months
<1>2. MonthOf(start) < MonthOf(x) \/ (MonthOf(start) = MonthOf(x) /\ DayOfMonth(start) <= DayOfMonth(x))
  BY <1>1
<1>3. start <= x
  BY <1>2, DatesInOrder, Zenon
<1> QED
  BY <1>3

(* The first of a month comes before all the days from this month on.      *)
LEMMA FirstOfTheMonth ==
    ASSUME NEW y \in Years, NEW m \in 0 .. 11
    PROVE  LET k == 12 * y + m
           IN  /\ k \in Months /\ k \div 12 = y /\ k % 12 = m
               /\ DSE(y, m, 1) \in Nat /\ MonthOf(DSE(y, m, 1)) = k /\ DayOfMonth(DSE(y, m, 1)) = 1
               /\ \A z \in Nat : MonthOf(z) >= k => DSE(y, m, 1) <= z
<1> DEFINE k == 12 * y + m
           x == DSE(y, m, 1)
<1>1. k \in Months /\ k \div 12 = y /\ k % 12 = m
  BY YearHasMonth
<1>2. x = DateIn(1, k)
  BY <1>1, Zenon DEF DateIn
<1> HIDE DEF k, x
<1>3. HasDay(1, k)
  <2>1. LengthOf(k) \in 28 .. 31
    BY <1>1, DateFromStart
  <2> QED
    BY <2>1 DEF LengthOf, HasDay
<1>4. x \in Nat /\ MonthOf(x) = k /\ DayOfMonth(x) = 1
  <2>1. 1 \in 1 .. 31
    OBVIOUS
  <2> QED
    BY <1>1, <1>2, <1>3, <2>1, DateOfMonth
<1>5. ASSUME NEW z \in Nat, MonthOf(z) >= k PROVE x <= z
  <2>1. MonthOf(z) \in Months /\ DayOfMonth(z) \in 1 .. 31
    BY DayInMonth
  <2>2. k < MonthOf(z) \/ (k = MonthOf(z) /\ 1 <= DayOfMonth(z))
    BY <1>1, <1>5, <2>1 DEF Months
  <2> QED
    BY <1>4, <2>2, DatesInOrder, Zenon
<1> QED
  BY <1>1, <1>4, <1>5 DEF k, x

(* Without a day and weekdays, all days of the months given.               *)
LEMMA MonthsOnly ==
    ASSUME NEW t, t.wd = {}, t.d = NO_DAY, NEW z \in Nat
    PROVE  Specified(t, z) <=> MonthGiven(t, MonthOf(z))
<1>1. Given(DayOfMonth(z), t.d)
  BY DEF Given, NO_DAY
<1> QED
  BY <1>1, MatchesByMonth, Zenon DEF Specified

(* The first month of a calendar month, from a month on.                   *)
LEMMA FirstMonthFrom ==
    ASSUME NEW y \in Nat, NEW i \in 0 .. 11, NEW m \in 0 .. 11, NEW k \in Nat, k % 12 = m
    PROVE  /\ k >= 12 * y + i /\ i > m => k >= 12 * (y + 1) + m
           /\ k >= 12 * y + i => k >= 12 * y + m
           /\ k > 12 * y + i /\ i >= m => k >= 12 * (y + 1) + m
<1> DEFINE q == k \div 12
<1>1. k = 12 * q + m /\ q \in Nat
  OBVIOUS
<1> HIDE DEF q
<1>2. k >= 12 * y + i => q >= y
  BY <1>1
<1>3. k >= 12 * y + i /\ i > m => q >= y + 1
  BY <1>1
<1>4. k > 12 * y + i /\ i >= m => q >= y + 1
  BY <1>1
<1> QED
  BY <1>1, <1>2, <1>3, <1>4

(* NextSimpleTrig with a month only finds the next day of this month.      *)
LEMMA FindsInMonth ==
    ASSUME NEW start \in Nat, NEW t, t.wd = {}, t.d = NO_DAY, t.m \in 0 .. 11, t.y = NO_YR
    PROVE  Finds(t, start, NextInMonth(start, FromDSE(start), t))
<1> DEFINE p == FromDSE(start).y
           q == FromDSE(start).m
           m == t.m
           y == IF q > m THEN p + 1 ELSE p
           K == MonthOf(start)
           x == NextInMonth(start, FromDSE(start), t)
<1>1. /\ p \in Years /\ q \in 0 .. 11 /\ 12 * p + q = K /\ K % 12 = q /\ p \in Nat /\ p >= BASE
      /\ \A z \in Nat : MonthOf(z) \in Nat /\ (z >= start => MonthOf(z) >= K)
  BY StartDate, Zenon
<1>2. x = IF q = m THEN start ELSE DSE(y, m, 1)
  BY Zenon DEF NextInMonth
<1>3. \A z \in Nat : Specified(t, z) <=> MonthOf(z) % 12 = m
  <2>1. \A k : MonthGiven(t, k) <=> k % 12 = m
    BY DEF MonthGiven, Given, NO_YR
  <2> QED
    BY <2>1, MonthsOnly, Zenon
<1>4. m \in 0 .. 11
  OBVIOUS
<1> HIDE DEF p, q, m, K, x
<1>5. CASE q = m
  <2>1. x = start
    BY <1>2, <1>5
  <2>2. Specified(t, start)
    BY <1>1, <1>3, <1>5 DEF K
  <2> QED
    BY <2>1, <2>2 DEF Finds, Sound, Ahead, NoneBefore, Expired, x
<1>6. CASE q # m
  <2>1. y \in Years /\ y \in Nat
    BY <1>1, <1>4 DEF Years, BASE
  <2>2. ASSUME NEW z \in Nat, z >= start, MonthOf(z) % 12 = m PROVE MonthOf(z) >= 12 * y + m
    <3>1. MonthOf(z) >= 12 * p + q /\ MonthOf(z) \in Nat
      BY <1>1, <2>2
    <3> DEFINE k == MonthOf(z)
    <3>2. k \in Nat /\ k % 12 = m /\ k >= 12 * p + q /\ p \in Nat /\ q \in 0 .. 11 /\ m \in 0 .. 11
      BY <1>1, <1>4, <2>2, <3>1
    <3> HIDE DEF k
    <3>3. /\ k >= 12 * p + q /\ q > m => k >= 12 * (p + 1) + m
          /\ k >= 12 * p + q => k >= 12 * p + m
      BY <3>2, FirstMonthFrom
    <3>4. k >= 12 * y + m
      BY <3>2, <3>3
    <3> QED
      BY <3>4 DEF k
  <2> HIDE DEF y
  <2>3. x = DSE(y, m, 1)
    BY <1>2, <1>6
  <2>4. x \in Nat /\ MonthOf(x) = 12 * y + m /\ MonthOf(x) % 12 = m
        /\ \A z \in Nat : MonthOf(z) >= 12 * y + m => x <= z
    BY <1>4, <2>1, <2>3, FirstOfTheMonth
  <2>5. x >= start
    <3>1. 12 * y + m > 12 * p + q
      BY <1>1, <1>4, <1>6 DEF y
    <3> QED
      BY <1>1, <2>4, <3>1, IsLater DEF K
  <2> QED
    BY <1>3, <2>2, <2>4, <2>5 DEF Finds, Sound, Ahead, NoneBefore, Expired, x
<1> QED
  BY <1>5, <1>6

(* The first day in the year given, from start on.                         *)
LEMMA YearFromStart ==
    ASSUME NEW start \in Nat, NEW t, t.y \in Years
    PROVE  LET x == NextInYear(start, FromDSE(start), t)
           IN  /\ x # Expired => x \in Nat /\ x >= start /\ MonthOf(x) \div 12 = t.y
               /\ \A z \in Nat : z >= start /\ MonthOf(z) \div 12 = t.y => x # Expired /\ x <= z
<1> DEFINE p == FromDSE(start).y
           q == FromDSE(start).m
           y == t.y
           K == MonthOf(start)
           x == NextInYear(start, FromDSE(start), t)
<1>1. /\ p \in Years /\ q \in 0 .. 11 /\ 12 * p + q = K /\ K \div 12 = p /\ p \in Nat
      /\ \A z \in Nat : MonthOf(z) \in Nat /\ (z >= start => MonthOf(z) >= K)
  BY StartDate, Zenon
<1>2. x = IF p = y THEN start ELSE IF p < y THEN DSE(y, 0, 1) ELSE Expired
  BY Zenon DEF NextInYear
<1>3. y \in Years /\ y \in Nat /\ 0 \in 0 .. 11
  BY DEF Years
<1> HIDE DEF p, q, y, K, x
<1>4. CASE p = y
  <2>1. x = start
    BY <1>2, <1>4
  <2> QED
    BY <1>1, <1>4, <2>1 DEF x, y, K, Expired
<1>5. CASE p < y
  <2>1. x = DSE(y, 0, 1)
    BY <1>1, <1>2, <1>3, <1>5
  <2>2. x \in Nat /\ MonthOf(x) \div 12 = y /\ \A z \in Nat : MonthOf(z) >= 12 * y + 0 => x <= z
    BY <1>3, <2>1, FirstOfTheMonth
  <2>3. ASSUME NEW z \in Nat, MonthOf(z) \div 12 = y PROVE x <= z
    <3>1. MonthOf(z) \in Nat
      BY <1>1
    <3>2. MonthOf(z) >= 12 * y + 0
      BY <1>3, <2>3, <3>1
    <3> QED
      BY <2>2, <3>2
  <2>4. x >= start
    <3>1. MonthOf(x) \in Nat /\ K \in Nat
      BY <1>1, <2>2 DEF K
    <3>2. K < MonthOf(x)
      BY <1>1, <1>3, <1>5, <2>2, <3>1
    <3> QED
      BY <2>2, <3>2, DatesInOrder DEF K
  <2> QED
    BY <2>2, <2>3, <2>4 DEF x, y, Expired
<1>6. CASE p > y
  <2>1. \A z \in Nat : z >= start => MonthOf(z) \div 12 # y
    <3> TAKE z \in Nat
    <3> SUFFICES ASSUME z >= start PROVE MonthOf(z) \div 12 # y
      OBVIOUS
    <3>1. MonthOf(z) \in Nat /\ MonthOf(z) >= 12 * p + q
      BY <1>1
    <3> QED
      BY <1>1, <1>3, <1>6, <3>1
  <2>2. p # y /\ ~(p < y)
    BY <1>1, <1>3, <1>6
  <2>3. x = Expired
    BY <1>2, <2>2, Zenon
  <2> QED
    BY <2>1, <2>3 DEF x, y
<1> QED
  BY <1>1, <1>3, <1>4, <1>5, <1>6

\* The months that a trigger with a year, and with a year and a month, allows.
LEMMA YearGiven ==
    ASSUME NEW t, t.y # NO_YR, NEW k
    PROVE  /\ t.m = NO_MON => (MonthGiven(t, k) <=> k \div 12 = t.y)
           /\ t.m # NO_MON => (MonthGiven(t, k) <=> k % 12 = t.m /\ k \div 12 = t.y)
BY DEF MonthGiven, Given, NO_MON, NO_YR

(* Without a year, a month of the sequence is given if the month is.       *)
LEMMA MonthIsGiven ==
    ASSUME NEW t, t.y = NO_YR, NEW k
    PROVE  /\ t.m = NO_MON => MonthGiven(t, k)
           /\ t.m # NO_MON => (MonthGiven(t, k) <=> k % 12 = t.m)
BY DEF MonthGiven, Given, NO_MON, NO_YR

(* NextSimpleTrig with a year only finds the next day of this year.        *)
LEMMA FindsInYear ==
    ASSUME NEW start \in Nat, NEW t, t.wd = {}, t.d = NO_DAY, t.m = NO_MON, t.y \in Years, t.y # NO_YR
    PROVE  Finds(t, start, NextInYear(start, FromDSE(start), t))
<1> DEFINE x == NextInYear(start, FromDSE(start), t)
<1>1. \A z \in Nat : Specified(t, z) <=> MonthOf(z) \div 12 = t.y
  BY MonthsOnly, YearGiven, Zenon
<1>2. /\ x # Expired => x \in Nat /\ x >= start /\ MonthOf(x) \div 12 = t.y
      /\ \A z \in Nat : z >= start /\ MonthOf(z) \div 12 = t.y => x # Expired /\ x <= z
  BY YearFromStart
<1> HIDE DEF x
<1> QED
  BY <1>1, <1>2 DEF Finds, Sound, Ahead, NoneBefore, x

(* NextSimpleTrig with a month and a year finds the next day of both.      *)
LEMMA FindsInMonthOfYear ==
    ASSUME NEW start \in Nat, NEW t, t.wd = {}, t.d = NO_DAY, t.m \in 0 .. 11, t.m # NO_MON,
           t.y \in Years, t.y # NO_YR
    PROVE  Finds(t, start, NextMonthYear(start, FromDSE(start), t))
<1> DEFINE p == FromDSE(start).y
           q == FromDSE(start).m
           y == t.y
           m == t.m
           K == MonthOf(start)
           x == NextMonthYear(start, FromDSE(start), t)
<1>1. /\ p \in Years /\ q \in 0 .. 11 /\ 12 * p + q = K /\ K \div 12 = p /\ K % 12 = q /\ p \in Nat
      /\ \A z \in Nat : MonthOf(z) \in Nat /\ (z >= start => MonthOf(z) >= K)
  BY StartDate, Zenon
<1>2. x = CASE p > y \/ (p = y /\ q > m) -> Expired
            [] p = y /\ q = m -> start
            [] OTHER -> DSE(y, m, 1)
  BY Zenon DEF NextMonthYear
<1>3. y \in Years /\ y \in Nat /\ m \in 0 .. 11
  BY DEF Years
<1>4. \A z \in Nat : Specified(t, z) <=> MonthOf(z) % 12 = m /\ MonthOf(z) \div 12 = y
  BY MonthsOnly, YearGiven, Zenon
<1>5. \A k \in Nat : k % 12 = m /\ k \div 12 = y <=> k = 12 * y + m
  <2> HIDE DEF y, m
  <2> QED
    BY <1>3
<1> HIDE DEF p, q, y, m, K, x
<1>6. \A z \in Nat : Specified(t, z) <=> MonthOf(z) = 12 * y + m
  BY <1>1, <1>4, <1>5
<1>7. CASE p > y \/ (p = y /\ q > m)
  <2>0. ~(p = y /\ q = m)
    BY <1>1, <1>3, <1>7
  <2>1. x = Expired
    BY <1>2, <1>7, <2>0
  <2>2. K > 12 * y + m
    BY <1>1, <1>3, <1>7
  <2>3. \A z \in Nat : z >= start => ~Specified(t, z)
    <3> TAKE z \in Nat
    <3>1. K \in Nat /\ MonthOf(z) \in Nat /\ (z >= start => MonthOf(z) >= K)
      BY <1>1 DEF K
    <3> QED
      BY <1>3, <1>6, <2>2, <3>1
  <2> QED
    BY <2>1, <2>3 DEF Finds, Sound, Ahead, NoneBefore, x
<1>8. CASE p = y /\ q = m
  <2>1. x = start
    BY <1>1, <1>2, <1>3, <1>8
  <2>2. Specified(t, start)
    BY <1>1, <1>6, <1>8 DEF K
  <2> QED
    BY <2>1, <2>2 DEF Finds, Sound, Ahead, NoneBefore, Expired, x
<1>9. CASE ~(p > y \/ (p = y /\ q > m)) /\ ~(p = y /\ q = m)
  <2>1. x = DSE(y, m, 1)
    BY <1>2, <1>9
  <2>2. x \in Nat /\ MonthOf(x) = 12 * y + m /\ \A z \in Nat : MonthOf(z) >= 12 * y + m => x <= z
    BY <1>3, <2>1, FirstOfTheMonth
  <2>3. \A z \in Nat : MonthOf(z) = 12 * y + m => MonthOf(z) >= 12 * y + m
    BY <1>3
  <2>4. x >= start
    <3>1. 12 * y + m > 12 * p + q
      BY <1>1, <1>3, <1>9
    <3> QED
      BY <1>1, <2>2, <3>1, IsLater DEF K
  <2> QED
    BY <1>6, <2>2, <2>3, <2>4 DEF Finds, Sound, Ahead, NoneBefore, Expired, x
<1> QED
  BY <1>7, <1>8, <1>9

(* The weekday on or after a day j, and what ADVANCE_TO_WD keeps of it.    *)
LEMMA WeekdayFrom ==
    ASSUME NEW wd \in SUBSET Weekdays, wd # {}, NEW j \in Nat
    PROVE  LET x == AdvanceToWd(j, wd)
           IN  /\ x \in Nat /\ x >= j /\ x % 7 \in wd
               /\ \A z \in Nat : z >= j /\ z % 7 \in wd => x <= z
               /\ MonthOf(x) \in Nat /\ MonthOf(j) \in Nat
               /\ MonthOf(j) <= MonthOf(x) /\ MonthOf(x) <= MonthOf(j) + 1
               /\ DayOfMonth(j) = 1 => MonthOf(x) = MonthOf(j)
               /\ DSEMonth(x) = MonthOf(x) % 12 /\ DSEYear(x) = MonthOf(x) \div 12
               /\ \A z \in Nat : z >= x => MonthOf(z) >= MonthOf(x) /\ MonthOf(z) \in Nat
<1> DEFINE x == AdvanceToWd(j, wd)
<1>1. x \in j .. j + 6 /\ x % 7 \in wd
  BY AdvancesToFirst
<1>2. \A z \in Nat : z >= j /\ z % 7 \in wd => x <= z
  BY AdvancesNoFarther
<1> HIDE DEF x
<1>3. x \in Nat /\ x >= j
  BY <1>1
<1>4. /\ MonthOf(j) <= MonthOf(x) /\ MonthOf(x) <= MonthOf(j) + 1
      /\ DayOfMonth(j) = 1 => MonthOf(x) = MonthOf(j)
  BY <1>1, WeekInMonth
<1>5. MonthOf(x) \in Nat /\ MonthOf(j) \in Nat
      /\ \A z \in Nat : z >= x => MonthOf(z) >= MonthOf(x) /\ MonthOf(z) \in Nat
  BY <1>3, StartDate
<1>6. DSEMonth(x) = MonthOf(x) % 12 /\ DSEYear(x) = MonthOf(x) \div 12
  BY <1>3, DayInMonth, FromDSEParts DEF DSEMonth
<1> QED
  BY <1>1, <1>2, <1>3, <1>4, <1>5, <1>6 DEF x

(* NextSimpleTrig with weekdays only finds the next such weekday.          *)
LEMMA FindsWeekday ==
    ASSUME NEW start \in Nat, NEW t, t.wd \in SUBSET Weekdays, t.wd # {},
           t.d = NO_DAY, t.m = NO_MON, t.y = NO_YR
    PROVE  Finds(t, start, AdvanceToWd(start, t.wd))
<1>1. \A z \in Nat : Specified(t, z) <=> z % 7 \in t.wd
  BY WeekdayInMonth, MonthIsGiven, Zenon
<1> DEFINE x == AdvanceToWd(start, t.wd)
<1>2. x \in Nat /\ x >= start /\ x % 7 \in t.wd /\ \A z \in Nat : z >= start /\ z % 7 \in t.wd => x <= z
  BY WeekdayFrom
<1> HIDE DEF x
<1> QED
  BY <1>1, <1>2 DEF Finds, Sound, Ahead, NoneBefore, Expired, x

(* NextSimpleTrig with weekdays and a year finds the next one in the year. *)
LEMMA FindsWeekdayInYear ==
    ASSUME NEW start \in Nat, NEW t, t.wd \in SUBSET Weekdays, t.wd # {},
           t.d = NO_DAY, t.m = NO_MON, t.y \in Years, t.y # NO_YR
    PROVE  Finds(t, start, NextWeekdayYear(start, FromDSE(start), t))
<1> DEFINE i == NextInYear(start, FromDSE(start), t)
           j == AdvanceToWd(i, t.wd)
           x == NextWeekdayYear(start, FromDSE(start), t)
           y == t.y
<1>1. \A z \in Nat : Specified(t, z) <=> z % 7 \in t.wd /\ MonthOf(z) \div 12 = y
  BY WeekdayInMonth, YearGiven, Zenon
<1>2. /\ i # Expired => i \in Nat /\ i >= start /\ MonthOf(i) \div 12 = y
      /\ \A z \in Nat : z >= start /\ MonthOf(z) \div 12 = y => i # Expired /\ i <= z
  BY YearFromStart
<1>3. x = IF i = Expired \/ DSEYear(j) > y THEN Expired ELSE j
  BY Zenon DEF NextWeekdayYear
<1>4. y \in Nat
  BY DEF Years
<1> HIDE DEF i, x, y
<1>5. CASE i = Expired
  BY <1>1, <1>2, <1>3, <1>5 DEF Finds, Sound, Ahead, NoneBefore, x
<1>6. CASE i # Expired
  <2>1. /\ j \in Nat /\ j >= i /\ j % 7 \in t.wd
        /\ \A z \in Nat : z >= i /\ z % 7 \in t.wd => j <= z
        /\ MonthOf(j) \in Nat /\ MonthOf(i) \in Nat /\ MonthOf(i) <= MonthOf(j)
        /\ DSEYear(j) = MonthOf(j) \div 12
        /\ \A z \in Nat : z >= j => MonthOf(z) >= MonthOf(j) /\ MonthOf(z) \in Nat
    BY <1>2, <1>6, WeekdayFrom
  <2> HIDE DEF j
  <2>2. MonthOf(j) \div 12 >= y
    BY <1>2, <1>6, <2>1
  <2>3. \A z \in Nat : z >= start /\ Specified(t, z) => j <= z
    BY <1>1, <1>2, <1>6, <2>1
  <2>4. CASE DSEYear(j) > y
    <3>1. \A z \in Nat : z >= j => MonthOf(z) \div 12 # y
      <4> TAKE z \in Nat
      <4> SUFFICES ASSUME z >= j PROVE MonthOf(z) \div 12 # y
        OBVIOUS
      <4>1. MonthOf(z) >= MonthOf(j) /\ MonthOf(z) \in Nat
        BY <2>1
      <4>2. \A a, b \in Nat : a >= b => a \div 12 >= b \div 12
        OBVIOUS
      <4> QED
        BY <1>4, <2>1, <2>4, <4>1, <4>2
    <3>2. x = Expired
      BY <1>3, <2>4
    <3>3. \A z \in Nat : z >= start => ~Specified(t, z)
      BY <1>1, <2>1, <2>3, <3>1
    <3> QED
      BY <3>2, <3>3 DEF Finds, Sound, Ahead, NoneBefore, x
  <2>5. CASE ~(DSEYear(j) > y)
    <3>1. x = j
      BY <1>3, <1>6, <2>5
    <3>2. MonthOf(j) \div 12 = y
      BY <1>4, <2>1, <2>2, <2>5
    <3>3. Specified(t, j) /\ j # Expired
      BY <1>1, <2>1, <3>2 DEF Expired
    <3> QED
      BY <1>2, <1>6, <2>1, <2>3, <3>1, <3>3 DEF Finds, Sound, Ahead, NoneBefore, x
  <2> QED
    BY <2>4, <2>5
<1> QED
  BY <1>5, <1>6

(* NextSimpleTrig with weekdays and a month finds the next one in the month. *)
LEMMA FindsWeekdayInMonth ==
    ASSUME NEW start \in Nat, NEW t, t.wd \in SUBSET Weekdays, t.wd # {},
           t.d = NO_DAY, t.m \in 0 .. 11, t.m # NO_MON, t.y = NO_YR
    PROVE  Finds(t, start, NextWeekdayMonth(start, FromDSE(start), t))
<1> DEFINE p == FromDSE(start).y
           q == FromDSE(start).m
           m == t.m
           K == MonthOf(start)
           j == AdvanceToWd(start, t.wd)
           y == IF q >= m THEN p + 1 ELSE p
           f == DSE(y, m, 1)
           x == NextWeekdayMonth(start, FromDSE(start), t)
<1>1. /\ p \in Years /\ q \in 0 .. 11 /\ 12 * p + q = K /\ K % 12 = q /\ p \in Nat /\ p >= BASE
      /\ K \in Nat
      /\ \A z \in Nat : MonthOf(z) \in Nat /\ (z >= start => MonthOf(z) >= K)
  BY StartDate, Zenon
<1>2. x = IF q = m /\ DSEMonth(j) = m THEN j ELSE AdvanceToWd(f, t.wd)
  BY Zenon DEF NextWeekdayMonth
<1>3. \A z \in Nat : Specified(t, z) <=> z % 7 \in t.wd /\ MonthOf(z) % 12 = m
  BY WeekdayInMonth, MonthIsGiven, Zenon
<1>4. m \in 0 .. 11
  OBVIOUS
<1>5. /\ j \in Nat /\ j >= start /\ j % 7 \in t.wd /\ \A z \in Nat : z >= start /\ z % 7 \in t.wd => j <= z
      /\ MonthOf(j) \in Nat /\ MonthOf(j) >= K /\ DSEMonth(j) = MonthOf(j) % 12
      /\ \A z \in Nat : z >= j => MonthOf(z) >= MonthOf(j)
  BY WeekdayFrom DEF K
<1> HIDE DEF p, q, m, K, x, j
<1>6. CASE q = m /\ DSEMonth(j) = m
  <2>1. x = j
    BY <1>2, <1>6
  <2>2. Specified(t, j)
    BY <1>3, <1>5, <1>6
  <2>3. \A z \in Nat : z >= start /\ Specified(t, z) => j <= z
    BY <1>3, <1>5
  <2> QED
    BY <1>5, <2>1, <2>2, <2>3 DEF Finds, Sound, Ahead, NoneBefore, Expired, x
<1>7. CASE ~(q = m /\ DSEMonth(j) = m)
  <2>1. y \in Years /\ y \in Nat
    BY <1>1, <1>4 DEF Years, BASE
  <2>2. ASSUME NEW z \in Nat, z >= start, Specified(t, z) PROVE MonthOf(z) >= 12 * y + m
    <3>1. MonthOf(z) >= 12 * p + q /\ MonthOf(z) \in Nat /\ MonthOf(z) % 12 = m /\ z >= j
      BY <1>1, <1>3, <1>5, <2>2
    <3>2. CASE q = m
      <4>1. MonthOf(j) % 12 # m /\ K % 12 = m /\ MonthOf(z) >= MonthOf(j)
        BY <1>1, <1>5, <1>7, <3>1, <3>2
      <4>2. MonthOf(z) > 12 * p + q
        BY <1>1, <1>5, <3>1, <4>1
      <4>3. q >= m /\ y = p + 1
        BY <1>4, <3>2
      <4> HIDE DEF y
      <4> QED
        BY <1>1, <1>4, <3>1, <4>2, <4>3, FirstMonthFrom
    <3>3. CASE q > m
      <4>1. y = p + 1
        BY <1>1, <1>4, <3>3
      <4> HIDE DEF y
      <4> QED
        BY <1>1, <1>4, <3>1, <3>3, <4>1, FirstMonthFrom
    <3>4. CASE q < m
      <4>1. y = p
        BY <1>1, <1>4, <3>4
      <4> HIDE DEF y
      <4> QED
        BY <1>1, <1>4, <3>1, <4>1, FirstMonthFrom
    <3> QED
      BY <1>1, <1>4, <3>2, <3>3, <3>4
  <2>3. f \in Nat /\ MonthOf(f) = 12 * y + m /\ MonthOf(f) % 12 = m /\ DayOfMonth(f) = 1
        /\ \A z \in Nat : MonthOf(z) >= 12 * y + m => f <= z
    <3> HIDE DEF y
    <3> QED
      BY <1>4, <2>1, FirstOfTheMonth
  <2> HIDE DEF y, f
  <2>4. x = AdvanceToWd(f, t.wd)
    BY <1>2, <1>7
  <2>5. x \in Nat /\ x % 7 \in t.wd /\ (\A z \in Nat : z >= f /\ z % 7 \in t.wd => x <= z)
        /\ MonthOf(x) = MonthOf(f)
    BY <2>3, <2>4, WeekdayFrom
  <2>6. Specified(t, x)
    BY <1>3, <2>3, <2>5
  <2>7. \A z \in Nat : z >= start /\ Specified(t, z) => x <= z
    <3> TAKE z \in Nat
    <3> SUFFICES ASSUME z >= start, Specified(t, z) PROVE x <= z
      OBVIOUS
    <3>1. f <= z
      BY <2>2, <2>3
    <3>2. z >= f /\ z % 7 \in t.wd
      BY <1>3, <2>3, <3>1
    <3> QED
      BY <2>5, <3>2
  <2>8. x >= start
    <3>1. 12 * y + m > 12 * p + q
      BY <1>1, <1>4 DEF y
    <3> QED
      BY <1>1, <2>3, <2>5, <3>1, IsLater DEF K
  <2> QED
    BY <2>5, <2>6, <2>7, <2>8 DEF Finds, Sound, Ahead, NoneBefore, Expired, x
<1> QED
  BY <1>6, <1>7

(* NextSimpleTrig with weekdays, a month and a year finds the next one.    *)
LEMMA FindsWeekdayInMonthOfYear ==
    ASSUME NEW start \in Nat, NEW t, t.wd \in SUBSET Weekdays, t.wd # {},
           t.d = NO_DAY, t.m \in 0 .. 11, t.m # NO_MON, t.y \in Years, t.y # NO_YR
    PROVE  Finds(t, start, NextWeekdayMonthYear(start, FromDSE(start), t))
<1> DEFINE p == FromDSE(start).y
           q == FromDSE(start).m
           m == t.m
           y == t.y
           K == MonthOf(start)
           j == AdvanceToWd(start, t.wd)
           f == DSE(y, m, 1)
           x == NextWeekdayMonthYear(start, FromDSE(start), t)
<1>1. /\ p \in Years /\ q \in 0 .. 11 /\ 12 * p + q = K /\ p \in Nat /\ K \in Nat
      /\ \A z \in Nat : MonthOf(z) \in Nat /\ (z >= start => MonthOf(z) >= K)
  BY StartDate, Zenon
<1>2. x = CASE p > y \/ (p = y /\ q > m) -> Expired
            [] p < y \/ (p = y /\ q < m) -> AdvanceToWd(f, t.wd)
            [] OTHER -> IF DSEMonth(j) = m THEN j ELSE Expired
  BY Zenon DEF NextWeekdayMonthYear
<1>3. y \in Years /\ y \in Nat /\ m \in 0 .. 11
  BY DEF Years
<1>4. \A z \in Nat : Specified(t, z) <=> z % 7 \in t.wd /\ MonthOf(z) % 12 = m /\ MonthOf(z) \div 12 = y
  BY WeekdayInMonth, YearGiven, Zenon
<1>5. \A k \in Nat : k % 12 = m /\ k \div 12 = y <=> k = 12 * y + m
  <2> HIDE DEF y, m
  <2> QED
    BY <1>3
<1>6. /\ j \in Nat /\ j >= start /\ j % 7 \in t.wd /\ \A z \in Nat : z >= start /\ z % 7 \in t.wd => j <= z
      /\ MonthOf(j) \in Nat /\ MonthOf(j) >= K /\ MonthOf(j) <= K + 1 /\ DSEMonth(j) = MonthOf(j) % 12
      /\ \A z \in Nat : z >= j => MonthOf(z) >= MonthOf(j)
  BY WeekdayFrom DEF K
<1>7. f \in Nat /\ MonthOf(f) = 12 * y + m /\ DayOfMonth(f) = 1
      /\ \A z \in Nat : MonthOf(z) >= 12 * y + m => f <= z
  BY <1>3, FirstOfTheMonth
<1> HIDE DEF p, q, y, m, K, x, j, f
<1>8. \A z \in Nat : Specified(t, z) <=> z % 7 \in t.wd /\ MonthOf(z) = 12 * y + m
  BY <1>1, <1>4, <1>5
<1>9. CASE p > y \/ (p = y /\ q > m)
  <2>1. ~(p < y \/ (p = y /\ q < m))
    BY <1>1, <1>3, <1>9
  <2>2. x = Expired
    BY <1>2, <1>9, <2>1
  <2>3. K > 12 * y + m
    BY <1>1, <1>3, <1>9
  <2>4. \A z \in Nat : z >= start => ~Specified(t, z)
    <3> TAKE z \in Nat
    <3>1. MonthOf(z) \in Nat /\ (z >= start => MonthOf(z) >= K)
      BY <1>1
    <3> QED
      BY <1>1, <1>3, <1>8, <2>3, <3>1
  <2> QED
    BY <2>2, <2>4 DEF Finds, Sound, Ahead, NoneBefore, x
<1>10. CASE p < y \/ (p = y /\ q < m)
  <2>1. ~(p > y \/ (p = y /\ q > m))
    BY <1>1, <1>3, <1>10
  <2>2. x = AdvanceToWd(f, t.wd)
    BY <1>2, <1>10, <2>1
  <2>3. x \in Nat /\ x % 7 \in t.wd /\ (\A z \in Nat : z >= f /\ z % 7 \in t.wd => x <= z)
        /\ MonthOf(x) = MonthOf(f)
    BY <1>7, <2>2, WeekdayFrom
  <2>4. Specified(t, x)
    BY <1>7, <1>8, <2>3
  <2>5. \A z \in Nat : Specified(t, z) => x <= z
    <3> TAKE z \in Nat
    <3> SUFFICES ASSUME Specified(t, z) PROVE x <= z
      OBVIOUS
    <3>1. z % 7 \in t.wd /\ MonthOf(z) >= 12 * y + m
      BY <1>3, <1>8
    <3>2. z >= f
      BY <1>7, <3>1
    <3> QED
      BY <2>3, <3>1, <3>2
  <2>6. x >= start
    <3>1. 12 * y + m > 12 * p + q
      BY <1>1, <1>3, <1>10
    <3> QED
      BY <1>1, <1>7, <2>3, <3>1, IsLater DEF K
  <2> QED
    BY <2>3, <2>4, <2>5, <2>6 DEF Finds, Sound, Ahead, NoneBefore, Expired, x
<1>11. CASE ~(p > y \/ (p = y /\ q > m)) /\ ~(p < y \/ (p = y /\ q < m))
  <2>1. p = y /\ q = m /\ K = 12 * y + m
    BY <1>1, <1>3, <1>11
  <2>2. x = IF DSEMonth(j) = m THEN j ELSE Expired
    BY <1>2, <1>11
  <2>3. \A z \in Nat : z >= start /\ Specified(t, z) => j <= z
    BY <1>6, <1>8
  <2>4. CASE DSEMonth(j) = m
    <3>1. MonthOf(j) = 12 * y + m
      BY <1>3, <1>6, <2>1, <2>4
    <3>2. Specified(t, j)
      BY <1>6, <1>8, <3>1
    <3>3. x = j
      BY <2>2, <2>4
    <3> QED
      BY <1>6, <2>3, <3>2, <3>3 DEF Finds, Sound, Ahead, NoneBefore, Expired, x
  <2>5. CASE DSEMonth(j) # m
    <3>1. MonthOf(j) > 12 * y + m
      BY <1>3, <1>6, <2>1, <2>5
    <3>2. \A z \in Nat : z >= start => ~Specified(t, z)
      <4> TAKE z \in Nat
      <4> SUFFICES ASSUME z >= start, Specified(t, z) PROVE FALSE
        OBVIOUS
      <4>1. j <= z
        BY <2>3
      <4>2. MonthOf(z) \in Nat /\ MonthOf(z) >= MonthOf(j) /\ MonthOf(z) = 12 * y + m
        BY <1>1, <1>6, <1>8, <4>1
      <4> QED
        BY <1>3, <1>6, <3>1, <4>2
    <3>3. x = Expired
      BY <2>2, <2>5
    <3> QED
      BY <3>2, <3>3 DEF Finds, Sound, Ahead, NoneBefore, x
  <2> QED
    BY <2>4, <2>5
<1> QED
  BY <1>9, <1>10, <1>11

(* With a day, and without weekdays: one date in each month that has the day. *)
LEMMA DatesGrow ==
    ASSUME NEW d \in 1 .. 31, NEW j \in Months, NEW k \in Months, HasDay(d, j), HasDay(d, k), j <= k
    PROVE  DateIn(d, j) \in Nat /\ DateIn(d, k) \in Nat /\ DateIn(d, j) <= DateIn(d, k)
<1>1. /\ DateIn(d, j) \in Nat /\ MonthOf(DateIn(d, j)) = j /\ DayOfMonth(DateIn(d, j)) = d
      /\ DateIn(d, k) \in Nat /\ MonthOf(DateIn(d, k)) = k /\ DayOfMonth(DateIn(d, k)) = d
  BY DateOfMonth
<1>2. j < k \/ (j = k /\ d <= d)
  BY DEF Months
<1> QED
  BY <1>1, <1>2, DatesInOrder

(* Without weekdays, the dates of a trigger with a day are those of the    *)
(* months that have this day.                                              *)
LEMMA DaySpecified ==
    ASSUME NEW t, t.wd = {}, t.d \in 1 .. 31, NEW z \in Nat
    PROVE  Specified(t, z) <=> \E k \in Months : HasDay(t.d, k) /\ MonthGiven(t, k) /\ z = DateIn(t.d, k)
BY MatchesADate, Zenon DEF Specified

(* NextSimpleTrig with a day only finds it in the next month that has it.  *)
LEMMA FindsDay ==
    ASSUME NEW start \in Nat, NEW t, t.wd = {}, t.d \in 1 .. 31, t.m = NO_MON, t.y = NO_YR
    PROVE  Finds(t, start, NextDay(start, FromDSE(start), t))
<1> DEFINE e == FromDSE(start).d
           d == t.d
           K == MonthOf(start)
           k == IF e > d THEN K + 1 ELSE K
           n == MonthWith(d, k)
           x == NextDay(start, FromDSE(start), t)
<1>1. /\ 12 * FromDSE(start).y + FromDSE(start).m = K /\ K \in Months /\ e \in 1 .. 31 /\ e = DayOfMonth(start)
      /\ \A z \in Nat : z >= start => MonthOf(z) > K \/ (MonthOf(z) = K /\ DayOfMonth(z) >= e)
  BY StartDate, Zenon
<1>2. x = DateIn(d, n)
  BY <1>1, Zenon DEF NextDay
<1>3. d \in 1 .. 31 /\ \A z \in Nat : Specified(t, z) <=> \E i \in Months : HasDay(d, i) /\ z = DateIn(d, i)
  BY DaySpecified, MonthIsGiven, Zenon
<1> HIDE DEF e, d, K, x
<1>4. k \in Months
  BY <1>1 DEF Months, BASE
<1>5. n \in Months /\ k <= n /\ HasDay(d, n) /\ \A j \in Months : k <= j /\ HasDay(d, j) => n <= j
  <2> HIDE DEF k
  <2> QED
    BY <1>3, <1>4, MonthIsFound, MonthIsFirst
<1>6. x \in Nat /\ Specified(t, x) /\ MonthOf(x) = n /\ DayOfMonth(x) = d
  <2> HIDE DEF n
  <2> QED
    BY <1>2, <1>3, <1>5, DateOfMonth
<1>7. ASSUME NEW z \in Nat, z >= start, Specified(t, z) PROVE x <= z
  <2>1. PICK i \in Months : HasDay(d, i) /\ z = DateIn(d, i)
    BY <1>3, <1>7
  <2>2. MonthOf(z) = i /\ DayOfMonth(z) = d
    BY <1>3, <2>1, DateOfMonth
  <2>3. i > K \/ (i = K /\ d >= e)
    BY <1>1, <1>7, <2>2
  <2>4. k <= i
    BY <1>1, <1>3, <2>3 DEF Months
  <2> HIDE DEF k, n
  <2>5. n <= i
    BY <1>5, <2>1, <2>4
  <2> QED
    BY <1>2, <1>3, <1>5, <2>1, <2>5, DatesGrow
<1>8. x >= start
  <2>1. n > K \/ (n = K /\ d >= e)
    <3> HIDE DEF n
    <3> QED
      BY <1>1, <1>3, <1>5 DEF Months
  <2> QED
    BY <1>1, <1>6, <2>1, IsLater DEF K
<1> QED
  BY <1>6, <1>7, <1>8 DEF Finds, Sound, Ahead, NoneBefore, Expired, x

(* The first year in which a date exists, and the dates of the other years. *)
LEMMA FindsDayInMonth ==
    ASSUME NEW start \in Nat, NEW t, t.wd = {}, t.d \in 1 .. 31, t.m \in 0 .. 11, t.m # NO_MON,
           t.y = NO_YR, t.d <= MonthDays[t.m]
    PROVE  Finds(t, start, NextDayMonth(start, FromDSE(start), t))
<1> DEFINE p == FromDSE(start).y
           q == FromDSE(start).m
           e == FromDSE(start).d
           d == t.d
           m == t.m
           K == MonthOf(start)
           y == IF q > m \/ (q = m /\ e > d) THEN p + 1 ELSE p
           n == YearWith(d, m, y)
           x == NextDayMonth(start, FromDSE(start), t)
<1>1. /\ 12 * p + q = K /\ p \in Years /\ p \in Nat /\ p >= BASE /\ q \in 0 .. 11 /\ e \in 1 .. 31
      /\ e = DayOfMonth(start)
      /\ \A z \in Nat : z >= start => MonthOf(z) > K \/ (MonthOf(z) = K /\ DayOfMonth(z) >= e)
  BY StartDate, Zenon
<1>2. x = DSE(n, m, d)
  BY Zenon DEF NextDayMonth
<1>3. d \in 1 .. 31 /\ m \in 0 .. 11 /\ d <= MonthDays[m]
      /\ \A z \in Nat : Specified(t, z) <=> \E i \in Months : HasDay(d, i) /\ i % 12 = m /\ z = DateIn(d, i)
  <2>1. \A i : MonthGiven(t, i) <=> i % 12 = m
    BY MonthIsGiven
  <2>2. \A z \in Nat : Specified(t, z) <=> \E i \in Months : HasDay(d, i) /\ MonthGiven(t, i) /\ z = DateIn(d, i)
    BY DaySpecified
  <2> HIDE DEF d, m
  <2>3. \A z \in Nat : Specified(t, z) <=> \E i \in Months : HasDay(d, i) /\ i % 12 = m /\ z = DateIn(d, i)
    BY <2>1, <2>2, Zenon
  <2> QED
    BY <2>3 DEF d, m
<1> HIDE DEF p, q, e, d, m, K, x
<1>4. y \in Years
  BY <1>1, <1>3 DEF Years, BASE
<1>5. n \in Years /\ y <= n /\ IsDate(n, m, d) /\ \A u \in Years : y <= u /\ d <= DaysInMonth(m, u) => n <= u
  <2> HIDE DEF y
  <2> QED
    BY <1>3, <1>4, YearIsFound
<1> DEFINE k == 12 * n + m
<1>6. k \in Months /\ k % 12 = m /\ k \div 12 = n /\ HasDay(d, k) /\ x = DateIn(d, k)
  <2> HIDE DEF n
  <2>1. k \in Months /\ k % 12 = m /\ k \div 12 = n
    BY <1>3, <1>5, YearHasMonth
  <2> HIDE DEF k
  <2>2. d <= DaysInMonth(m, n)
    <3>1. DaysInMonth(m, n) \in 28 .. 31
      BY <1>3, <1>5, MonthsFillYear
    <3> QED
      BY <1>3, <1>5, <3>1 DEF IsDate
  <2> QED
    BY <1>2, <2>1, <2>2, Zenon DEF HasDay, DateIn
<1>7. x \in Nat /\ Specified(t, x) /\ MonthOf(x) = k /\ DayOfMonth(x) = d
  <2> HIDE DEF k
  <2> QED
    BY <1>3, <1>6, DateOfMonth
<1>8. ASSUME NEW z \in Nat, z >= start, Specified(t, z) PROVE x <= z
  <2>1. PICK i \in Months : HasDay(d, i) /\ i % 12 = m /\ z = DateIn(d, i)
    BY <1>3, <1>8
  <2> DEFINE u == i \div 12
  <2>2. MonthOf(z) = i /\ DayOfMonth(z) = d
    BY <1>3, <2>1, DateOfMonth
  <2>3. u \in Years /\ i = 12 * u + m /\ u \in Nat
    BY <2>1, MonthOfYear DEF Years
  <2>4. d <= DaysInMonth(m, u)
    BY <2>1 DEF HasDay
  <2>5. i > K \/ (i = K /\ d >= e)
    BY <1>1, <1>8, <2>2
  <2> HIDE DEF u
  <2>6. y <= u
    BY <1>1, <1>3, <2>3, <2>5
  <2> HIDE DEF y, n
  <2>7. n <= u
    BY <1>5, <2>3, <2>4, <2>6
  <2>8. k <= i
    BY <1>3, <1>5, <2>3, <2>7 DEF Years
  <2> HIDE DEF k
  <2> QED
    BY <1>3, <1>6, <2>1, <2>8, DatesGrow
<1>9. x >= start
  <2>1. k > K \/ (k = K /\ d >= e)
    <3>1. n \in Nat /\ y \in Nat
      BY <1>4, <1>5 DEF Years
    <3> HIDE DEF n
    <3> QED
      BY <1>1, <1>3, <1>5, <3>1
  <2> QED
    BY <1>1, <1>7, <2>1, IsLater DEF K
<1> QED
  BY <1>7, <1>8, <1>9 DEF Finds, Sound, Ahead, NoneBefore, Expired, x

(* NextSimpleTrig with a day and a year finds it in the months of the year. *)
LEMMA FindsDayInYear ==
    ASSUME NEW start \in Nat, NEW t, t.wd = {}, t.d \in 1 .. 31, t.m = NO_MON, t.y \in Years, t.y # NO_YR
    PROVE  Finds(t, start, NextDayYear(start, FromDSE(start), t))
<1> DEFINE p == FromDSE(start).y
           q == FromDSE(start).m
           e == FromDSE(start).d
           d == t.d
           y == t.y
           K == MonthOf(start)
           k == IF e > d THEN q + 1 ELSE q
           x == NextDayYear(start, FromDSE(start), t)
<1>1. /\ 12 * p + q = K /\ p \in Nat /\ q \in 0 .. 11 /\ e \in 1 .. 31 /\ e = DayOfMonth(start)
      /\ \A z \in Nat : z >= start => MonthOf(z) > K \/ (MonthOf(z) = K /\ DayOfMonth(z) >= e)
  BY StartDate, Zenon
<1>2. x = IF p < y THEN DSE(y, 0, d)
          ELSE IF p > y \/ k = 12 THEN Expired
          ELSE DateIn(d, MonthWith(d, 12 * y + k))
  BY Zenon DEF NextDayYear
<1>3. d \in 1 .. 31 /\ y \in Years /\ y \in Nat /\ y >= BASE
      /\ \A z \in Nat : Specified(t, z) <=> \E i \in Months : HasDay(d, i) /\ i \div 12 = y /\ z = DateIn(d, i)
  <2>1. \A i : MonthGiven(t, i) <=> i \div 12 = y
    BY YearGiven
  <2>2. \A z \in Nat : Specified(t, z) <=> \E i \in Months : HasDay(d, i) /\ MonthGiven(t, i) /\ z = DateIn(d, i)
    BY DaySpecified
  <2> HIDE DEF d, y
  <2>3. \A z \in Nat : Specified(t, z) <=> \E i \in Months : HasDay(d, i) /\ i \div 12 = y /\ z = DateIn(d, i)
    BY <2>1, <2>2, Zenon
  <2> QED
    BY <2>3 DEF d, y, Years
<1> HIDE DEF p, q, e, d, y, K, x
<1>4. k \in 0 .. 12 /\ (e > d => k = q + 1) /\ (~(e > d) => k = q)
  BY <1>1
<1> HIDE DEF k
<1>5. \A z \in Nat : z >= start /\ Specified(t, z) =>
         \E i \in Months : HasDay(d, i) /\ i \div 12 = y /\ z = DateIn(d, i) /\ i >= 12 * p + k
  <2> TAKE z \in Nat
  <2> SUFFICES ASSUME z >= start, Specified(t, z)
               PROVE  \E i \in Months : HasDay(d, i) /\ i \div 12 = y /\ z = DateIn(d, i) /\ i >= 12 * p + k
    OBVIOUS
  <2>1. PICK i \in Months : HasDay(d, i) /\ i \div 12 = y /\ z = DateIn(d, i)
    BY <1>3
  <2>2. MonthOf(z) = i /\ DayOfMonth(z) = d /\ i \in Nat
    BY <1>3, <2>1, DateOfMonth DEF Months
  <2>3. i > K \/ (i = K /\ d >= e)
    BY <1>1, <2>2
  <2>4. i >= 12 * p + k
    BY <1>1, <1>3, <1>4, <2>2, <2>3
  <2> QED
    BY <2>1, <2>4
<1>6. \A n \in Months : HasDay(d, n) /\ n \div 12 = y =>
         DateIn(d, n) \in Nat /\ Specified(t, DateIn(d, n)) /\ MonthOf(DateIn(d, n)) = n /\ DayOfMonth(DateIn(d, n)) = d
  BY <1>3, DateOfMonth
<1>7. CASE p < y
  <2> DEFINE n == 12 * y + 0
  <2>1. x = DSE(y, 0, d)
    BY <1>2, <1>7
  <2>2. n \in Months /\ n % 12 = 0 /\ n \div 12 = y
    <3>1. 0 \in 0 .. 11
      OBVIOUS
    <3> QED
      BY <1>3, <3>1, YearHasMonth
  <2> HIDE DEF n
  <2>3. x = DateIn(d, n) /\ HasDay(d, n)
    <3>1. x = DateIn(d, n)
      BY <2>1, <2>2, Zenon DEF DateIn
    <3>2. DaysInMonth(0, y) = 31
      BY DEF DaysInMonth, MonthDays
    <3> QED
      BY <1>3, <2>2, <3>1, <3>2 DEF HasDay
  <2>4. ASSUME NEW z \in Nat, z >= start, Specified(t, z) PROVE x <= z
    <3>1. PICK i \in Months : HasDay(d, i) /\ i \div 12 = y /\ z = DateIn(d, i)
      BY <1>5, <2>4
    <3>2. n <= i
      BY <1>3, <3>1 DEF n, Months
    <3> QED
      BY <1>3, <2>2, <2>3, <3>1, <3>2, DatesGrow
  <2>5. x >= start
    <3>1. MonthOf(x) > K
      BY <1>1, <1>3, <1>6, <1>7, <2>2, <2>3 DEF n
    <3> QED
      BY <1>6, <2>2, <2>3, <3>1, IsLater DEF K
  <2> QED
    BY <1>6, <2>2, <2>3, <2>4, <2>5 DEF Finds, Sound, Ahead, NoneBefore, Expired, x
<1>8. CASE ~(p < y) /\ (p > y \/ k = 12)
  <2>1. x = Expired
    BY <1>2, <1>8
  <2>2. 12 * p + k >= 12 * (y + 1)
    BY <1>1, <1>3, <1>4, <1>8
  <2>3. ASSUME NEW z \in Nat, z >= start, Specified(t, z) PROVE FALSE
    <3>1. PICK i \in Months : i \div 12 = y /\ i >= 12 * p + k
      BY <1>5, <2>3
    <3>2. i \in Nat /\ i >= 12 * (y + 1)
      BY <1>1, <1>3, <1>4, <2>2, <3>1 DEF Months
    <3> QED
      BY <1>3, <3>1, <3>2
  <2> QED
    BY <2>1, <2>3 DEF Finds, Sound, Ahead, NoneBefore, x
<1>9. CASE ~(p < y) /\ ~(p > y \/ k = 12)
  <2> DEFINE h == 12 * y + k
             n == MonthWith(d, h)
  <2>1. p = y /\ k \in 0 .. 11
    BY <1>1, <1>3, <1>4, <1>9
  <2>2. x = DateIn(d, n)
    BY <1>2, <1>9
  <2>3. h \in Months /\ h \div 12 = y
    BY <1>3, <2>1, YearHasMonth
  <2>4. n \in Months /\ h <= n /\ HasDay(d, n) /\ n \div 12 = y /\ \A j \in Months : h <= j /\ HasDay(d, j) => n <= j
    <3> HIDE DEF h
    <3> QED
      BY <1>3, <2>3, MonthIsFound, MonthIsFirst
  <2> HIDE DEF n
  <2>5. ASSUME NEW z \in Nat, z >= start, Specified(t, z) PROVE x <= z
    <3>1. PICK i \in Months : HasDay(d, i) /\ i \div 12 = y /\ z = DateIn(d, i) /\ i >= 12 * p + k
      BY <1>5, <2>5
    <3>2. h <= i
      BY <2>1, <3>1
    <3>3. n <= i
      BY <2>4, <3>1, <3>2
    <3> QED
      BY <1>3, <2>2, <2>4, <3>1, <3>3, DatesGrow
  <2>6. x >= start
    <3>1. n > K \/ (n = K /\ d >= e)
      BY <1>1, <1>3, <1>4, <2>1, <2>4 DEF Months
    <3> QED
      BY <1>1, <1>6, <2>2, <2>4, <3>1, IsLater DEF K
  <2> QED
    BY <1>6, <2>2, <2>4, <2>5, <2>6 DEF Finds, Sound, Ahead, NoneBefore, Expired, x
<1> QED
  BY <1>7, <1>8, <1>9

(* A whole date.                                                           *)
LEMMA DateSpecified ==
    ASSUME NEW t, t.d \in 1 .. 31, t.m \in 0 .. 11, t.m # NO_MON, t.y \in Years, t.y # NO_YR,
           t.d <= DaysInMonth(t.m, t.y), NEW z \in Nat
    PROVE  DSE(t.y, t.m, t.d) \in Nat /\ (Matches(t, z) <=> z = DSE(t.y, t.m, t.d))
<1> DEFINE k == 12 * t.y + t.m
<1>1. k \in Months /\ k \div 12 = t.y /\ k % 12 = t.m
  BY YearHasMonth
<1>2. \A i \in Months : MonthGiven(t, i) <=> i = k
  <2>1. \A i \in Months : MonthGiven(t, i) <=> i % 12 = t.m /\ i \div 12 = t.y
    BY YearGiven
  <2>2. \A i \in Months : i = 12 * (i \div 12) + (i % 12)
    BY MonthOfYear
  <2> QED
    BY <1>1, <2>1, <2>2
<1> HIDE DEF k
<1>3. HasDay(t.d, k) /\ DateIn(t.d, k) = DSE(t.y, t.m, t.d)
  BY <1>1, Zenon DEF HasDay, DateIn
<1>4. DSE(t.y, t.m, t.d) \in Nat
  BY <1>1, <1>3, DateOfMonth
<1>5. Matches(t, z) <=> \E i \in Months : HasDay(t.d, i) /\ MonthGiven(t, i) /\ z = DateIn(t.d, i)
  BY MatchesADate
<1> QED
  BY <1>1, <1>2, <1>3, <1>4, <1>5

-----------------------------------------------------------------------------
(* NextSimpleTrig with weekdays and a day. *)

\* The date for a month.
WeekdayIn(t, k) == AdvanceToWd(DateIn(t.d, k), t.wd)

(* The date for a month is in this month or the next one.                  *)
LEMMA WeekdayOfMonth ==
    ASSUME NEW t, t.wd \in SUBSET Weekdays, t.wd # {}, t.d \in 1 .. 31, NEW k \in Months, HasDay(t.d, k)
    PROVE  /\ WeekdayIn(t, k) \in Nat /\ DateIn(t.d, k) <= WeekdayIn(t, k) /\ DateIn(t.d, k) \in Nat
           /\ MonthOf(WeekdayIn(t, k)) \in k .. k + 1
           /\ \A z \in Nat : z < WeekdayIn(t, k) => MonthOf(z) <= MonthOf(WeekdayIn(t, k))
           /\ DSEYear(WeekdayIn(t, k)) = MonthOf(WeekdayIn(t, k)) \div 12
           /\ \A j \in Months : j <= k /\ HasDay(t.d, j) => WeekdayIn(t, j) <= WeekdayIn(t, k)
<1> DEFINE i == DateIn(t.d, k)
           x == AdvanceToWd(i, t.wd)
<1>1. i \in Nat /\ MonthOf(i) = k
  BY DateOfMonth
<1>2. x = WeekdayIn(t, k)
  BY Zenon DEF WeekdayIn
<1>3. /\ x \in Nat /\ x >= i /\ MonthOf(x) \in Nat /\ k <= MonthOf(x) /\ MonthOf(x) <= k + 1
      /\ DSEYear(x) = MonthOf(x) \div 12
  <2> HIDE DEF i
  <2> QED
    BY <1>1, WeekdayFrom
<1>4. ASSUME NEW j \in Months, j <= k, HasDay(t.d, j) PROVE WeekdayIn(t, j) <= x
  <2> DEFINE h == DateIn(t.d, j)
  <2>1. h \in Nat /\ h <= i
    BY <1>4, DatesGrow
  <2>2. WeekdayIn(t, j) = AdvanceToWd(h, t.wd)
    BY Zenon DEF WeekdayIn
  <2> HIDE DEF h, i
  <2>3. h \in 0 .. i
    BY <1>1, <2>1
  <2> QED
    BY <1>1, <2>2, <2>3, AdvancesNoFarther
<1>5. ASSUME NEW z \in Nat, z < x PROVE MonthOf(z) <= MonthOf(x)
  <2> HIDE DEF x
  <2>1. z <= x /\ MonthOf(z) \in Nat
    BY <1>3, <1>5, StartDate
  <2>2. MonthOf(z) < MonthOf(x) \/ MonthOf(z) = MonthOf(x)
    BY <1>3, <2>1, DatesInOrder, Zenon
  <2> QED
    BY <1>3, <2>1, <2>2
<1> HIDE DEF i, x
<1> QED
  BY <1>1, <1>2, <1>3, <1>4, <1>5 DEF i

(* With weekdays, the dates are the first such weekdays from these days on. *)
LEMMA WeekdaySpecified ==
    ASSUME NEW t, t.wd \in SUBSET Weekdays, t.wd # {}, t.d \in 1 .. 31, NEW z \in Nat
    PROVE  Specified(t, z) <=> \E k \in Months : HasDay(t.d, k) /\ MonthGiven(t, k) /\ z = WeekdayIn(t, k)
<1>1. t.d # NO_DAY
  BY DEF NO_DAY
<1>2. Specified(t, z) <=> \E j \in Nat : Matches(t, j) /\ z = AdvanceToWd(j, t.wd)
  BY <1>1, FirstWeekdayFrom
<1>3. \A j \in Nat : Matches(t, j) <=> \E k \in Months : HasDay(t.d, k) /\ MonthGiven(t, k) /\ j = DateIn(t.d, k)
  BY MatchesADate
<1>4. \A k \in Months : HasDay(t.d, k) => DateIn(t.d, k) \in Nat
  BY DateOfMonth
<1> QED
  BY <1>2, <1>3, <1>4, Zenon DEF WeekdayIn

(* NextSimpleTrig with weekdays and a day finds the next weekday after one, *)
(* looking at the month before, at this one and at the one after.          *)
LEMMA FindsWeekdayFromDay ==
    ASSUME NEW start \in Nat, NEW t, t.wd \in SUBSET Weekdays, t.wd # {}, t.d \in 1 .. 31,
           t.m = NO_MON, t.y = NO_YR
    PROVE  Finds(t, start, NextWeekdayDay(start, FromDSE(start), t))
<1> DEFINE d == t.d
           K == MonthOf(start)
           On(k) == WeekdayIn(t, k)
           from == IF start >= DSE(BASE, 1, 1) THEN {K - 1, K} ELSE {K}
           near == {j \in {AdvanceToWd(DateIn(d, i), t.wd) : i \in {i \in from : HasDay(d, i)}} : j >= start}
           n    == MonthWith(d, K + 1)
           x    == NextWeekdayDay(start, FromDSE(start), t)
<1>1. /\ 12 * FromDSE(start).y + FromDSE(start).m = K /\ K \in Months /\ K \in Nat /\ K >= 12 * BASE
  BY StartDate DEF Months
<1>2. x = IF near # {} THEN Min(near) ELSE AdvanceToWd(DateIn(d, n), t.wd)
  BY <1>1, Zenon DEF NextWeekdayDay
<1>3. d \in 1 .. 31 /\ \A z \in Nat : Specified(t, z) <=> \E k \in Months : HasDay(d, k) /\ z = On(k)
  <2>1. \A k : MonthGiven(t, k)
    BY MonthIsGiven
  <2>2. \A z \in Nat : Specified(t, z) <=> \E k \in Months : HasDay(d, k) /\ MonthGiven(t, k) /\ z = On(k)
    BY WeekdaySpecified
  <2> QED
    BY <2>1, <2>2, Zenon
<1>4. /\ \A k \in Months : HasDay(d, k) => On(k) \in Nat /\ MonthOf(On(k)) \in k .. k + 1
      /\ \A j, k \in Months : j <= k /\ HasDay(d, j) /\ HasDay(d, k) => On(j) <= On(k)
  BY WeekdayOfMonth
\* In January of BASE there is no month before this one.
<1>5. /\ K \in from /\ from \subseteq Months
      /\ \A k \in Months : k < K /\ k \notin from => k + 1 < K
  <2> DEFINE f == DSE(BASE, 1, 1)
             a == 12 * BASE + 1
  <2>1. f \in Nat /\ MonthOf(f) = a /\ \A z \in Nat : MonthOf(z) >= a => f <= z
    <3>1. BASE \in Years /\ 1 \in 0 .. 11
      BY DEF Years, BASE
    <3> QED
      BY <3>1, FirstOfTheMonth
  <2>2. a = 12 * BASE + 1 /\ BASE = 1990
    BY DEF BASE
  <2>3. \A k \in Months : k \in Nat /\ k >= 12 * BASE
    BY DEF Months
  <2>4. \A k \in Nat : k >= 12 * BASE => k \in Months
    BY DEF Months
  <2> HIDE DEF f, a
  <2>5. from = IF start >= f THEN {K - 1, K} ELSE {K}
    BY DEF f
  <2>6. CASE start >= f
    <3>1. K >= a
      BY <2>1, <2>6, StartDate
    <3>2. K - 1 \in Months /\ from = {K - 1, K}
      BY <1>1, <2>2, <2>4, <2>5, <2>6, <3>1
    <3> HIDE DEF from, K
    <3> QED
      BY <1>1, <2>2, <2>3, <3>2
  <2>7. CASE ~(start >= f)
    <3>1. ~(K >= a)
      BY <2>1, <2>7
    <3>2. from = {K}
      BY <2>5, <2>7
    <3> HIDE DEF from, K
    <3> QED
      BY <1>1, <2>2, <2>3, <3>1, <3>2
  <2> QED
    BY <2>6, <2>7
<1> HIDE DEF from
<1>6. near = {j \in {On(i) : i \in {i \in from : HasDay(d, i)}} : j >= start}
  BY Zenon DEF WeekdayIn
<1> HIDE DEF near, n, x, d, K
<1>7. \A j : j \in near <=> \E i \in from : HasDay(d, i) /\ j = On(i) /\ j >= start
  BY <1>6
<1>8. ASSUME NEW z \in Nat, z >= start, NEW k \in Months, HasDay(d, k), z = On(k)
      PROVE  k \in from \/ k > K
  <2> SUFFICES ASSUME k \notin from, ~(k > K) PROVE FALSE
    OBVIOUS
  <2>1. k < K
    BY <1>1, <1>5 DEF Months
  <2>2. k + 1 < K
    BY <1>5, <2>1
  <2>3. MonthOf(z) <= k + 1 /\ MonthOf(z) \in Nat /\ MonthOf(z) >= K
    BY <1>4, <1>8, StartDate DEF K
  <2> QED
    BY <1>1, <2>2, <2>3 DEF Months
<1> HIDE DEF On
<1>9. CASE near # {}
  <2>1. near \in SUBSET Nat
    BY <1>4, <1>5, <1>7
  <2>2. x = Min(near)
    BY <1>2, <1>9
  <2>3. x \in near /\ \A j \in near : x <= j
    BY <1>9, <2>1, <2>2, MinIsMember
  <2>4. PICK i \in from : HasDay(d, i) /\ x = On(i) /\ x >= start
    BY <1>7, <2>3
  <2>5. x \in Nat /\ Specified(t, x)
    BY <1>3, <1>5, <2>1, <2>3, <2>4
  <2>6. ASSUME NEW z \in Nat, z >= start, Specified(t, z) PROVE x <= z
    <3>1. PICK k \in Months : HasDay(d, k) /\ z = On(k)
      BY <1>3, <2>6
    <3>2. CASE k \in from
      BY <1>7, <2>3, <2>6, <3>1, <3>2
    <3>3. CASE k > K
      <4>1. i <= k /\ i \in Months
        <5>1. i \in Months /\ i <= K
          BY <1>1, <1>5 DEF Months, from
        <5> QED
          BY <1>1, <3>3, <5>1 DEF Months
      <4> QED
        BY <1>4, <2>4, <3>1, <4>1
    <3> QED
      BY <1>8, <2>6, <3>1, <3>2, <3>3
  <2> QED
    BY <2>4, <2>5, <2>6 DEF Finds, Sound, Ahead, NoneBefore, Expired, x
<1>10. CASE near = {}
  <2>1. n \in Months /\ K + 1 <= n /\ HasDay(d, n) /\ \A k \in Months : K + 1 <= k /\ HasDay(d, k) => n <= k
    <3>1. K + 1 \in Months
      BY <1>1 DEF Months, BASE
    <3> QED
      BY <1>3, <3>1, MonthIsFound, MonthIsFirst DEF n
  <2>2. x = On(n)
    BY <1>2, <1>10 DEF On, WeekdayIn, d
  <2>3. x \in Nat /\ Specified(t, x)
    BY <1>3, <1>4, <2>1, <2>2
  <2>4. ASSUME NEW z \in Nat, z >= start, Specified(t, z) PROVE x <= z
    <3>1. PICK k \in Months : HasDay(d, k) /\ z = On(k)
      BY <1>3, <2>4
    <3>2. k \notin from
      BY <1>7, <1>10, <2>4, <3>1
    <3>3. K + 1 <= k
      BY <1>1, <1>8, <2>4, <3>1, <3>2 DEF Months
    <3> QED
      BY <1>4, <2>1, <2>2, <3>1, <3>3
  <2>5. x >= start
    <3>1. MonthOf(x) \in n .. n + 1 /\ n \in Nat
      BY <1>4, <2>1, <2>2 DEF Months
    <3>2. MonthOf(x) > K
      BY <1>1, <2>1, <3>1
    <3> QED
      BY <2>3, <3>2, IsLater DEF K
  <2> QED
    BY <2>3, <2>4, <2>5 DEF Finds, Sound, Ahead, NoneBefore, Expired, x
<1> QED
  BY <1>9, <1>10

(* The years that have a date, and the weekdays from it in these years.    *)
HasDate(t, y)  == y \in Years /\ t.d <= DaysInMonth(t.m, y)
WeekdayOn(t, y) == AdvanceToWd(DSE(y, t.m, t.d), t.wd)

(* The weekday on or after the date of a year: a later year has a later one. *)
LEMMA WeekdayOfYear ==
    ASSUME NEW t, t.wd \in SUBSET Weekdays, t.wd # {}, t.d \in 1 .. 31, t.m \in 0 .. 11,
           NEW y, HasDate(t, y)
    PROVE  /\ WeekdayOn(t, y) \in Nat /\ MonthOf(WeekdayOn(t, y)) \in Nat
           /\ 12 * y + t.m <= MonthOf(WeekdayOn(t, y)) /\ MonthOf(WeekdayOn(t, y)) <= 12 * y + t.m + 1
           /\ \A u : HasDate(t, u) /\ u <= y => WeekdayOn(t, u) <= WeekdayOn(t, y)
<1> DEFINE Mon(u) == 12 * u + t.m
<1>1. ASSUME NEW u, HasDate(t, u)
      PROVE  Mon(u) \in Months /\ HasDay(t.d, Mon(u)) /\ WeekdayOn(t, u) = WeekdayIn(t, Mon(u)) /\ u \in Nat
  <2>1. u \in Years /\ t.d <= DaysInMonth(t.m, u)
    BY <1>1 DEF HasDate
  <2>2. Mon(u) \in Months /\ Mon(u) \div 12 = u /\ Mon(u) % 12 = t.m
    BY <2>1, YearHasMonth
  <2> HIDE DEF Mon
  <2>3. HasDay(t.d, Mon(u)) /\ WeekdayOn(t, u) = WeekdayIn(t, Mon(u))
    BY <2>1, <2>2, Zenon DEF HasDay, WeekdayOn, WeekdayIn, DateIn
  <2> QED
    BY <2>1, <2>2, <2>3 DEF Years
<1> HIDE DEF Mon
<1>2. WeekdayOn(t, y) \in Nat /\ MonthOf(WeekdayOn(t, y)) \in Mon(y) .. Mon(y) + 1 /\ Mon(y) \in Nat
  BY <1>1, WeekdayOfMonth DEF Months
<1>3. ASSUME NEW u, HasDate(t, u), u <= y PROVE WeekdayOn(t, u) <= WeekdayOn(t, y)
  <2>1. Mon(u) <= Mon(y)
    <3>1. u \in Nat /\ y \in Nat
      BY <1>1, <1>3
    <3> QED
      BY <1>3, <3>1 DEF Mon
  <2> QED
    BY <1>1, <1>3, <2>1, WeekdayOfMonth
<1>4. MonthOf(WeekdayOn(t, y)) \in Nat /\ Mon(y) <= MonthOf(WeekdayOn(t, y))
      /\ MonthOf(WeekdayOn(t, y)) <= Mon(y) + 1
  BY <1>2
<1> QED
  BY <1>2, <1>3, <1>4 DEF Mon

(* With weekdays, a day and a month, the dates are those of the years that *)
(* have the day.                                                           *)
LEMMA WeekdaysSpecified ==
    ASSUME NEW t, t.wd \in SUBSET Weekdays, t.wd # {}, t.d \in 1 .. 31, t.m \in 0 .. 11, t.m # NO_MON,
           t.y = NO_YR, NEW z \in Nat
    PROVE  Specified(t, z) <=> \E y : HasDate(t, y) /\ z = WeekdayOn(t, y)
<1>1. \A k : MonthGiven(t, k) <=> k % 12 = t.m
  BY MonthIsGiven
<1>2. Specified(t, z) <=> \E k \in Months : HasDay(t.d, k) /\ MonthGiven(t, k) /\ z = WeekdayIn(t, k)
  BY WeekdaySpecified
<1>3. ASSUME NEW k \in Months, HasDay(t.d, k), k % 12 = t.m, z = WeekdayIn(t, k)
      PROVE  HasDate(t, k \div 12) /\ z = WeekdayOn(t, k \div 12)
  <2>1. k \div 12 \in Years
    BY MonthOfYear
  <2> QED
    BY <1>3, <2>1, Zenon DEF HasDate, HasDay, WeekdayOn, WeekdayIn, DateIn
<1>4. ASSUME NEW y, HasDate(t, y), z = WeekdayOn(t, y)
      PROVE  \E k \in Months : HasDay(t.d, k) /\ k % 12 = t.m /\ z = WeekdayIn(t, k)
  <2> DEFINE k == 12 * y + t.m
  <2>1. y \in Years
    BY <1>4 DEF HasDate
  <2>2. k \in Months /\ k \div 12 = y /\ k % 12 = t.m
    BY <2>1, YearHasMonth
  <2> HIDE DEF k
  <2>3. HasDay(t.d, k) /\ z = WeekdayIn(t, k)
    BY <1>4, <2>2, Zenon DEF HasDate, HasDay, WeekdayOn, WeekdayIn, DateIn
  <2> QED
    BY <2>2, <2>3
<1> QED
  BY <1>1, <1>2, <1>3, <1>4

(* NextSimpleTrig with weekdays, a day and a month finds the next weekday  *)
(* after the date in the year before, this one or a later one.             *)
LEMMA FindsWeekdayFromDate ==
    ASSUME NEW start \in Nat, NEW t, t.wd \in SUBSET Weekdays, t.wd # {}, t.d \in 1 .. 31,
           t.m \in 0 .. 11, t.m # NO_MON, t.y = NO_YR, t.d <= MonthDays[t.m]
    PROVE  Finds(t, start, NextWeekdayDayMonth(start, FromDSE(start), t))
<1> DEFINE p  == FromDSE(start).y
           K  == MonthOf(start)
           On(y) == WeekdayOn(t, y)
           y0 == IF p > BASE THEN p - 1 ELSE p
           y1 == YearWith(t.d, t.m, y0)
           y2 == YearWith(t.d, t.m, y1 + 1)
           y3 == YearWith(t.d, t.m, y2 + 1)
           x  == NextWeekdayDayMonth(start, FromDSE(start), t)
<1>1. /\ p \in Years /\ p \in Nat /\ p >= BASE /\ FromDSE(start).m \in 0 .. 11
      /\ 12 * p + FromDSE(start).m = K
      /\ \A z \in Nat : MonthOf(z) \in Nat /\ (z >= start => MonthOf(z) >= K)
  BY StartDate, Zenon
<1>2. x = IF On(y1) >= start THEN On(y1) ELSE IF On(y2) >= start THEN On(y2) ELSE On(y3)
  BY Zenon DEF NextWeekdayDayMonth, WeekdayOn
<1>3. /\ \A z \in Nat : Specified(t, z) <=> \E y : HasDate(t, y) /\ z = On(y)
      /\ \A y : HasDate(t, y) => On(y) \in Nat /\ MonthOf(On(y)) <= 12 * y + t.m + 1 /\ 12 * y + t.m <= MonthOf(On(y))
      /\ \A y, u : HasDate(t, u) /\ HasDate(t, y) /\ u <= y => On(u) <= On(y)
  BY WeekdaysSpecified, WeekdayOfYear
<1>4. K >= 12 * p
  <2> HIDE DEF p, K
  <2>1. \A a \in Nat, b \in 0 .. 11 : 12 * a + b >= 12 * a
    OBVIOUS
  <2> QED
    BY <1>1, <2>1
<1> HIDE DEF p, K, On, x
<1>5. y0 \in Years /\ (p > BASE => y0 = p - 1) /\ (~(p > BASE) => y0 = BASE)
  BY <1>1 DEF Years, BASE
<1> HIDE DEF y0
<1>6. \A y \in Years : LET z == YearWith(t.d, t.m, y)
                       IN HasDate(t, z) /\ z \in Years /\ z + 1 \in Years /\ y <= z
                          /\ \A u : HasDate(t, u) /\ y <= u => z <= u
  <2> TAKE y \in Years
  <2> DEFINE z == YearWith(t.d, t.m, y)
  <2>1. z \in Years /\ y <= z /\ IsDate(z, t.m, t.d) /\ \A u \in Years : y <= u /\ t.d <= DaysInMonth(t.m, u) => z <= u
    BY YearIsFound
  <2> HIDE DEF z
  <2>2. t.d <= DaysInMonth(t.m, z)
    <3>1. DaysInMonth(t.m, z) \in 28 .. 31
      BY <2>1, MonthsFillYear
    <3> QED
      BY <2>1, <3>1 DEF IsDate
  <2>3. z + 1 \in Years
    BY <2>1, NextJanuary
  <2>4. HasDate(t, z) /\ \A u : HasDate(t, u) /\ y <= u => z <= u
    BY <2>1, <2>2 DEF HasDate
  <2> QED
    BY <2>1, <2>3, <2>4 DEF z
<1>7. HasDate(t, y1) /\ y0 <= y1 /\ y1 \in Years /\ y1 + 1 \in Years /\ \A u : HasDate(t, u) /\ y0 <= u => y1 <= u
  BY <1>5, <1>6, Zenon
<1>8. HasDate(t, y2) /\ y1 + 1 <= y2 /\ y2 \in Years /\ y2 + 1 \in Years /\ \A u : HasDate(t, u) /\ y1 + 1 <= u => y2 <= u
  <2> HIDE DEF y1
  <2> QED
    BY <1>6, <1>7, Zenon
<1>9. HasDate(t, y3) /\ y2 + 1 <= y3 /\ \A u : HasDate(t, u) /\ y2 + 1 <= u => y3 <= u
  <2> HIDE DEF y2
  <2> QED
    BY <1>6, <1>8, Zenon
<1> HIDE DEF y1, y2, y3
<1>10. x \in Nat /\ Specified(t, x)
  BY <1>2, <1>3, <1>7, <1>8, <1>9
<1>11. \A u : HasDate(t, u) => u \in Nat /\ u >= BASE
  BY DEF HasDate, Years
<1>12. ASSUME NEW z \in Nat, z >= start, Specified(t, z) PROVE x <= z
  <2>1. PICK u : HasDate(t, u) /\ z = On(u)
    BY <1>3, <1>12
  <2>2. y0 <= u
    <3> SUFFICES ASSUME ~(y0 <= u) PROVE FALSE
      OBVIOUS
    <3>1. u \in Nat /\ u >= BASE /\ y0 \in Nat
      BY <1>5, <1>11, <2>1 DEF Years
    <3>2. u <= p - 2
      BY <1>1, <1>5, <3>1 DEF BASE
    <3>3. MonthOf(z) <= 12 * u + t.m + 1 /\ MonthOf(z) \in Nat /\ MonthOf(z) >= K /\ K \in Nat
      BY <1>1, <1>3, <1>12, <2>1 DEF K
    <3> DEFINE m == t.m
    <3>4. m \in 0 .. 11
      OBVIOUS
    <3>5. 12 * u + m + 1 < 12 * p
      <4> HIDE DEF m
      <4> QED
        BY <1>1, <3>1, <3>2, <3>4
    <3>6. 12 * u + m + 1 \in Int
      <4> HIDE DEF m
      <4> QED
        BY <3>1, <3>4
    <3> QED
      BY <1>1, <1>4, <3>3, <3>5, <3>6
  <2>3. y1 <= u
    BY <1>7, <2>1, <2>2
  <2>4. y1 \in Nat /\ y2 \in Nat /\ u \in Nat
    BY <1>7, <1>8, <1>11, <2>1
  <2>5. CASE On(y1) >= start
    BY <1>2, <1>3, <1>7, <2>1, <2>3, <2>5
  <2>6. CASE ~(On(y1) >= start)
    <3>1. y2 <= u
      <4>1. u # y1
        BY <1>12, <2>1, <2>6
      <4>2. y1 + 1 <= u
        BY <2>3, <2>4, <4>1
      <4> QED
        BY <1>8, <2>1, <4>2
    <3>2. CASE On(y2) >= start
      BY <1>2, <1>3, <1>8, <2>1, <2>6, <3>1, <3>2
    <3>3. CASE ~(On(y2) >= start)
      <4>1. u # y2
        BY <1>12, <2>1, <3>3
      <4>2. y2 + 1 <= u
        BY <2>4, <3>1, <4>1
      <4>3. y3 <= u
        BY <1>9, <2>1, <4>2
      <4> QED
        BY <1>2, <1>3, <1>9, <2>1, <2>6, <3>3, <4>3
    <3> QED
      BY <3>2, <3>3
  <2> QED
    BY <2>5, <2>6
<1>13. x >= start
  <2>1. CASE On(y1) >= start \/ On(y2) >= start
    BY <1>2, <2>1
  <2>2. CASE ~(On(y1) >= start) /\ ~(On(y2) >= start)
    <3> DEFINE m == t.m
    <3>1. m \in 0 .. 11 /\ y3 \in Nat /\ y0 \in Nat
      BY <1>5, <1>9, <1>11 DEF Years
    <3>2. y3 >= p + 1
      BY <1>1, <1>5, <1>7, <1>8, <1>9, <1>11, <3>1 DEF BASE
    <3>3. 12 * y3 + m <= MonthOf(x) /\ MonthOf(x) \in Nat /\ x = On(y3)
      BY <1>1, <1>2, <1>3, <1>9, <1>10, <2>2
    <3>4. FromDSE(start).m \in 0 .. 11
      BY <1>1
    <3> HIDE DEF m
    <3>5. MonthOf(x) > K
      <4> DEFINE q == FromDSE(start).m
      <4>1. q \in 0 .. 11 /\ 12 * p + q = K
        BY <1>1
      <4> HIDE DEF q
      <4> QED
        BY <1>1, <3>1, <3>2, <3>3, <4>1
    <3> QED
      BY <1>10, <3>5, IsLater DEF K
  <2> QED
    BY <2>1, <2>2
<1> QED
  BY <1>10, <1>12, <1>13 DEF Finds, Sound, Ahead, NoneBefore, Expired, x

\* The one combination of which only the dates found are right: the weekdays,
\* the day and the year, whose next month is measured in the wrong year.
Mismeasured(t) == t.wd # {} /\ t.d # NO_DAY /\ t.m = NO_MON /\ t.y # NO_YR

(* NextSimpleTrig with weekdays, a day and a year returns only dates that  *)
(* are specified; it misses some, see Mismeasured.                         *)
LEMMA FindsADateInYear ==
    ASSUME NEW start \in Nat, NEW t, t.wd \in SUBSET Weekdays, t.wd # {}, t.d \in 1 .. 31,
           t.m = NO_MON, t.y \in Years, t.y # NO_YR
    PROVE  Sound(t, NextWeekdayDayYear(start, FromDSE(start), t))
<1> DEFINE p == FromDSE(start).y
           q == FromDSE(start).m
           d == t.d
           y == t.y
           On(k) == AdvanceToWd(DateIn(d, 12 * y + k), t.wd)
           last  == MonthWithBefore(d, 12 * y + q - 1) % 12
           months == {k \in q + 1 .. 11 : d <= DaysInMonth(k, d)}
           next  == Min(months)
           InYear(j) == IF DSEYear(j) > y THEN Expired ELSE j
           x == NextWeekdayDayYear(start, FromDSE(start), t)
<1>1. q \in 0 .. 11 /\ p \in Nat
  BY StartDate, Zenon
<1>2. x = IF p > y + 1 \/ (p > y /\ q > 0) THEN Expired
          ELSE IF p < y THEN On(0)
          ELSE IF p > y /\ On(11) >= start THEN On(11)
          ELSE IF p = y /\ q > 0 /\ On(last) >= start THEN InYear(On(last))
          ELSE IF d <= DaysInMonth(q, y) /\ On(q) >= start THEN InYear(On(q))
          ELSE IF q = 11 THEN Expired ELSE InYear(On(next))
  BY Zenon DEF NextWeekdayDayYear
<1>3. d \in 1 .. 31 /\ y \in Years /\ y \in Nat
  BY DEF Years
<1>4. ASSUME NEW k \in 0 .. 11, d <= DaysInMonth(k, y) PROVE Sound(t, On(k)) /\ Sound(t, InYear(On(k)))
  <2> DEFINE i == 12 * y + k
             j == WeekdayIn(t, i)
  <2>1. i \in Months /\ i % 12 = k /\ i \div 12 = y
    BY <1>3, YearHasMonth
  <2>2. On(k) = j
    BY Zenon DEF WeekdayIn
  <2> HIDE DEF i
  <2>3. HasDay(d, i) /\ MonthGiven(t, i)
    BY <1>4, <2>1, YearGiven DEF HasDay
  <2>4. j \in Nat /\ Specified(t, j)
    <3>1. j \in Nat
      BY <2>1, <2>3, WeekdayOfMonth
    <3>2. Specified(t, j) <=> \E h \in Months : HasDay(d, h) /\ MonthGiven(t, h) /\ j = WeekdayIn(t, h)
      BY <3>1, WeekdaySpecified
    <3> QED
      BY <2>1, <2>3, <3>1, <3>2
  <2> HIDE DEF j, On
  <2> QED
    BY <2>2, <2>4 DEF Sound
<1>5. \A k \in {0, 11} : k \in 0 .. 11 /\ d <= DaysInMonth(k, y)
  <2>1. DaysInMonth(0, y) = 31 /\ DaysInMonth(11, y) = 31
    BY DEF DaysInMonth, MonthDays
  <2> QED
    BY <1>3, <2>1
<1>6. q > 0 => last \in 0 .. 11 /\ d <= DaysInMonth(last, y)
  <2> SUFFICES ASSUME q > 0 PROVE last \in 0 .. 11 /\ d <= DaysInMonth(last, y)
    OBVIOUS
  <2> DEFINE k == 12 * y + (q - 1)
             n == MonthWithBefore(d, k)
  <2>1. q - 1 \in 0 .. 11
    BY <1>1
  <2>2. k \in Months /\ k % 12 = q - 1 /\ k \div 12 = y /\ k = 12 * y + q - 1
    <3>1. k \in Months /\ k % 12 = q - 1 /\ k \div 12 = y
      BY <1>3, <2>1, YearHasMonth
    <3> HIDE DEF y, q
    <3>2. k = 12 * y + q - 1
      BY <1>1, <1>3
    <3> QED
      BY <3>1, <3>2
  <2>3. k % 12 # 0 \/ HasDay(d, k)
    <3> HIDE DEF k, y
    <3>1. k % 12 = 0 => DaysInMonth(k % 12, k \div 12) = 31
      BY DEF DaysInMonth, MonthDays
    <3> QED
      BY <1>3, <3>1 DEF HasDay
  <2>4. n \in Months /\ HasDay(d, n) /\ n \div 12 = y
    <3> HIDE DEF k
    <3> QED
      BY <1>3, <2>2, <2>3, MonthBeforeIsFound
  <2>5. last = n % 12
    BY <2>2
  <2> HIDE DEF n, last
  <2>6. n % 12 \in 0 .. 11
    BY <2>4, MonthOfYear
  <2> QED
    BY <2>4, <2>5, <2>6 DEF HasDay
<1>7. q # 11 => next \in 0 .. 11 /\ d <= DaysInMonth(next, y)
  <2> SUFFICES ASSUME q # 11 PROVE next \in 0 .. 11 /\ d <= DaysInMonth(next, y)
    OBVIOUS
  <2>1. months \in SUBSET Nat
    BY <1>1
  <2>2. 11 \in months
    <3>1. DaysInMonth(11, d) = 31
      BY DEF DaysInMonth, MonthDays
    <3> QED
      BY <1>1, <1>3, <3>1
  <2>3. next \in months
    <3> HIDE DEF months
    <3> QED
      BY <2>1, <2>2, MinIsMember
  <2> HIDE DEF next
  <2>4. next \in q + 1 .. 11 /\ d <= DaysInMonth(next, d)
    BY <2>3
  <2>5. next \in 0 .. 11
    BY <1>1, <2>4
  \* The 29th of February of the year 29 does not exist.
  <2>6. d <= DaysInMonth(next, y)
    <3>1. CASE next # 1
      BY <2>4, <3>1 DEF DaysInMonth
    <3>2. CASE next = 1
      <4>1. DaysInMonth(1, d) \in 28 .. 29 /\ DaysInMonth(1, y) \in 28 .. 29 /\ (~IsLeapYear(d) => DaysInMonth(1, d) = 28)
        BY DEF DaysInMonth, MonthDays
      <4>2. d = 29 => ~IsLeapYear(d)
        BY DEF IsLeapYear
      <4>3. d <= DaysInMonth(1, d)
        BY <2>4, <3>2
      <4>4. d \in 1 .. 28
        BY <1>3, <4>1, <4>2, <4>3
      <4> QED
        BY <3>2, <4>1, <4>4
    <3> QED
      BY <3>1, <3>2
  <2> QED
    BY <2>5, <2>6
<1>8. Sound(t, Expired)
  BY DEF Sound
<1>9. Sound(t, On(0)) /\ Sound(t, On(11)) /\ 0 \in {0, 11} /\ 11 \in {0, 11}
  BY <1>4, <1>5
<1>10. q > 0 => Sound(t, InYear(On(last)))
  BY <1>4, <1>6
<1>11. d <= DaysInMonth(q, y) => Sound(t, InYear(On(q)))
  BY <1>1, <1>4
<1>12. q # 11 => Sound(t, InYear(On(next)))
  BY <1>4, <1>7
<1> HIDE DEF p, q, d, y, On, last, next, InYear, x
<1>13. Sound(t, x)
  BY <1>2, <1>8, <1>9, <1>10, <1>11, <1>12, Zenon
<1> QED
  BY <1>13 DEF x

(* NextSimpleTrig with a whole date returns it, or the weekday after it.   *)
LEMMA FindsDate ==
    ASSUME NEW start \in Nat, NEW t, t.wd \in SUBSET Weekdays, t.d \in 1 .. 31,
           t.m \in 0 .. 11, t.m # NO_MON, t.y \in Years, t.y # NO_YR, t.d <= DaysInMonth(t.m, t.y)
    PROVE  /\ t.wd = {} => Finds(t, start, DSE(t.y, t.m, t.d))
           /\ t.wd # {} => Finds(t, start, AdvanceToWd(DSE(t.y, t.m, t.d), t.wd))
<1> DEFINE j == DSE(t.y, t.m, t.d)
           x == AdvanceToWd(j, t.wd)
<1>1. 0 \in Nat
  OBVIOUS
<1>2. j \in Nat /\ \A z \in Nat : Matches(t, z) <=> z = j
  BY <1>1, DateSpecified
<1>5. FullDate(t)
  BY DEF FullDate, NO_DAY
<1> HIDE DEF j
<1>3. CASE t.wd = {}
  <2>1. \A z \in Nat : Specified(t, z) <=> z = j
    BY <1>2, <1>3, Zenon DEF Specified
  <2> QED
    BY <1>2, <1>3, <1>5, <2>1 DEF Finds, Sound, Ahead, NoneBefore, Expired, j
<1>4. CASE t.wd # {}
  <2>1. t.d # NO_DAY
    BY DEF NO_DAY
  <2>2. x \in Nat
    BY <1>2, <1>4, AdvancesNoFarther
  <2> HIDE DEF x
  <2>3. \A z \in Nat : Specified(t, z) <=> \E i \in Nat : Matches(t, i) /\ z = AdvanceToWd(i, t.wd)
    BY <1>4, <2>1, FirstWeekdayFrom
  <2>4. \A z \in Nat : Specified(t, z) <=> z = x
    BY <1>2, <2>3 DEF x
  <2> QED
    BY <1>4, <1>5, <2>2, <2>4 DEF Finds, Sound, Ahead, NoneBefore, Expired, x, j
<1> QED
  BY <1>3, <1>4

(* NextSimpleTrig: the date it returns is specified by the day, month,     *)
(* year and weekdays of the trigger.  It is not before the start, unless   *)
(* it is a whole date, and no earlier one is specified from the start on.  *)
THEOREM NextSimpleTrigFinds ==
    ASSUME NEW start \in Nat, NEW t, IsTrigger(t), ~BadDate(t)
    PROVE  LET x == NextSimpleTrig(start, t)
           IN  Sound(t, x) /\ (~Mismeasured(t) => Ahead(t, start, x) /\ NoneBefore(t, start, x))
<1> DEFINE s   == FromDSE(start)
           x   == NextSimpleTrig(start, t)
           day == t.d # NO_DAY
           mon == t.m # NO_MON
           yr  == t.y # NO_YR
           wd  == t.wd # {}
           Right == Sound(t, x) /\ (~Mismeasured(t) => Ahead(t, start, x) /\ NoneBefore(t, start, x))
<1>1. /\ t.wd \in SUBSET Weekdays /\ (day => t.d \in 1 .. 31) /\ (mon => t.m \in 0 .. 11)
      /\ (yr => t.y \in Years)
  BY DEF IsTrigger, Years
<1>2. /\ day /\ mon /\ ~yr => t.d <= MonthDays[t.m]
      /\ day /\ mon /\ yr => t.d <= DaysInMonth(t.m, t.y)
  <2>1. day /\ mon => ~(t.d > (IF t.y = NO_YR THEN MonthDays[t.m] ELSE DaysInMonth(t.m, t.y)))
    BY Zenon DEF BadDate
  <2>2. day /\ mon => t.d \in Int /\ MonthDays[t.m] \in Int
    BY <1>1 DEF MonthDays
  <2>3. day /\ mon /\ yr => DaysInMonth(t.m, t.y) \in Int
    <3>1. mon /\ yr => DaysInMonth(t.m, t.y) \in 28 .. 31
      BY <1>1, MonthsFillYear
    <3> QED
      BY <3>1
  <2> QED
    BY <2>1, <2>2, <2>3
<1>3. Finds(t, start, x) => Right
  BY DEF Finds
<1> SUFFICES Right
  BY Zenon DEF Right
<1> HIDE DEF Right
<1>4. x = CASE ~day /\ ~mon /\ ~yr /\ ~wd -> start
            [] ~day /\ ~mon /\ ~yr /\ wd -> AdvanceToWd(start, t.wd)
            [] ~day /\ mon /\ ~yr /\ ~wd -> NextInMonth(start, s, t)
            [] ~day /\ ~mon /\ yr /\ ~wd -> NextInYear(start, s, t)
            [] ~day /\ ~mon /\ yr /\ wd -> NextWeekdayYear(start, s, t)
            [] ~day /\ mon /\ yr /\ ~wd -> NextMonthYear(start, s, t)
            [] ~day /\ mon /\ ~yr /\ wd -> NextWeekdayMonth(start, s, t)
            [] ~day /\ mon /\ yr /\ wd -> NextWeekdayMonthYear(start, s, t)
            [] day /\ ~mon /\ ~yr /\ ~wd -> NextDay(start, s, t)
            [] day /\ mon /\ ~yr /\ ~wd -> NextDayMonth(start, s, t)
            [] day /\ ~mon /\ yr /\ ~wd -> NextDayYear(start, s, t)
            [] day /\ mon /\ yr /\ ~wd -> DSE(t.y, t.m, t.d)
            [] day /\ ~mon /\ ~yr /\ wd -> NextWeekdayDay(start, s, t)
            [] day /\ mon /\ ~yr /\ wd -> NextWeekdayDayMonth(start, s, t)
            [] day /\ ~mon /\ yr /\ wd -> NextWeekdayDayYear(start, s, t)
            [] day /\ mon /\ yr /\ wd -> AdvanceToWd(DSE(t.y, t.m, t.d), t.wd)
  BY Zenon DEF NextSimpleTrig, NextSimpleTrigFrom
<1> HIDE DEF s, x, day, mon, yr, wd
<1>5. CASE ~day /\ ~mon /\ ~yr /\ ~wd
  <2>1. x = start
    BY <1>4, <1>5
  <2>2. Specified(t, start)
    BY <1>5, MonthsOnly, MonthIsGiven DEF day, mon, yr, wd
  <2>3. Finds(t, start, start)
    BY <2>2 DEF Finds, Sound, Ahead, NoneBefore, Expired
  <2> QED
    BY <1>3, <2>1, <2>3
<1>6. CASE ~day /\ ~mon /\ ~yr /\ wd
  <2>1. x = AdvanceToWd(start, t.wd)
    BY <1>4, <1>6
  <2>2. Finds(t, start, AdvanceToWd(start, t.wd))
    BY <1>1, <1>2, <1>6, FindsWeekday DEF day, mon, yr, wd, s
  <2> QED
    BY <1>3, <2>1, <2>2
<1>7. CASE ~day /\ mon /\ ~yr /\ ~wd
  <2>1. x = NextInMonth(start, s, t)
    BY <1>4, <1>7
  <2>2. Finds(t, start, NextInMonth(start, s, t))
    BY <1>1, <1>2, <1>7, FindsInMonth DEF day, mon, yr, wd, s
  <2> QED
    BY <1>3, <2>1, <2>2
<1>8. CASE ~day /\ ~mon /\ yr /\ ~wd
  <2>1. x = NextInYear(start, s, t)
    BY <1>4, <1>8
  <2>2. Finds(t, start, NextInYear(start, s, t))
    BY <1>1, <1>2, <1>8, FindsInYear DEF day, mon, yr, wd, s
  <2> QED
    BY <1>3, <2>1, <2>2
<1>9. CASE ~day /\ ~mon /\ yr /\ wd
  <2>1. x = NextWeekdayYear(start, s, t)
    BY <1>4, <1>9
  <2>2. Finds(t, start, NextWeekdayYear(start, s, t))
    BY <1>1, <1>2, <1>9, FindsWeekdayInYear DEF day, mon, yr, wd, s
  <2> QED
    BY <1>3, <2>1, <2>2
<1>10. CASE ~day /\ mon /\ yr /\ ~wd
  <2>1. x = NextMonthYear(start, s, t)
    BY <1>4, <1>10
  <2>2. Finds(t, start, NextMonthYear(start, s, t))
    BY <1>1, <1>2, <1>10, FindsInMonthOfYear DEF day, mon, yr, wd, s
  <2> QED
    BY <1>3, <2>1, <2>2
<1>11. CASE ~day /\ mon /\ ~yr /\ wd
  <2>1. x = NextWeekdayMonth(start, s, t)
    BY <1>4, <1>11
  <2>2. Finds(t, start, NextWeekdayMonth(start, s, t))
    BY <1>1, <1>2, <1>11, FindsWeekdayInMonth DEF day, mon, yr, wd, s
  <2> QED
    BY <1>3, <2>1, <2>2
<1>12. CASE ~day /\ mon /\ yr /\ wd
  <2>1. x = NextWeekdayMonthYear(start, s, t)
    BY <1>4, <1>12
  <2>2. Finds(t, start, NextWeekdayMonthYear(start, s, t))
    BY <1>1, <1>2, <1>12, FindsWeekdayInMonthOfYear DEF day, mon, yr, wd, s
  <2> QED
    BY <1>3, <2>1, <2>2
<1>13. CASE day /\ ~mon /\ ~yr /\ ~wd
  <2>1. x = NextDay(start, s, t)
    BY <1>4, <1>13
  <2>2. Finds(t, start, NextDay(start, s, t))
    BY <1>1, <1>2, <1>13, FindsDay DEF day, mon, yr, wd, s
  <2> QED
    BY <1>3, <2>1, <2>2
<1>14. CASE day /\ mon /\ ~yr /\ ~wd
  <2>1. x = NextDayMonth(start, s, t)
    BY <1>4, <1>14
  <2>2. Finds(t, start, NextDayMonth(start, s, t))
    BY <1>1, <1>2, <1>14, FindsDayInMonth DEF day, mon, yr, wd, s
  <2> QED
    BY <1>3, <2>1, <2>2
<1>15. CASE day /\ ~mon /\ yr /\ ~wd
  <2>1. x = NextDayYear(start, s, t)
    BY <1>4, <1>15
  <2>2. Finds(t, start, NextDayYear(start, s, t))
    BY <1>1, <1>2, <1>15, FindsDayInYear DEF day, mon, yr, wd, s
  <2> QED
    BY <1>3, <2>1, <2>2
<1>16. CASE day /\ mon /\ yr /\ ~wd
  <2>1. x = DSE(t.y, t.m, t.d)
    BY <1>4, <1>16
  <2>2. Finds(t, start, DSE(t.y, t.m, t.d))
    BY <1>1, <1>2, <1>16, FindsDate DEF day, mon, yr, wd, s
  <2> QED
    BY <1>3, <2>1, <2>2
<1>17. CASE day /\ ~mon /\ ~yr /\ wd
  <2>1. x = NextWeekdayDay(start, s, t)
    BY <1>4, <1>17
  <2>2. Finds(t, start, NextWeekdayDay(start, s, t))
    BY <1>1, <1>2, <1>17, FindsWeekdayFromDay DEF day, mon, yr, wd, s
  <2> QED
    BY <1>3, <2>1, <2>2
<1>18. CASE day /\ mon /\ ~yr /\ wd
  <2>1. x = NextWeekdayDayMonth(start, s, t)
    BY <1>4, <1>18
  <2>2. Finds(t, start, NextWeekdayDayMonth(start, s, t))
    BY <1>1, <1>2, <1>18, FindsWeekdayFromDate DEF day, mon, yr, wd, s
  <2> QED
    BY <1>3, <2>1, <2>2
<1>19. CASE day /\ ~mon /\ yr /\ wd
  <2>1. x = NextWeekdayDayYear(start, s, t)
    BY <1>4, <1>19
  <2>2. Sound(t, NextWeekdayDayYear(start, s, t)) /\ Mismeasured(t)
    BY <1>1, <1>19, FindsADateInYear DEF Mismeasured, day, mon, yr, wd, s
  <2> QED
    BY <2>1, <2>2 DEF Right
<1>20. CASE day /\ mon /\ yr /\ wd
  <2>1. x = AdvanceToWd(DSE(t.y, t.m, t.d), t.wd)
    BY <1>4, <1>20
  <2>2. Finds(t, start, AdvanceToWd(DSE(t.y, t.m, t.d), t.wd))
    BY <1>1, <1>2, <1>20, FindsDate DEF day, mon, yr, wd, s
  <2> QED
    BY <1>3, <2>1, <2>2
<1> QED
  BY <1>5, <1>6, <1>7, <1>8, <1>9, <1>10, <1>11, <1>12, <1>13, <1>14, <1>15, <1>16, <1>17, <1>18, <1>19, <1>20

-----------------------------------------------------------------------------
(* GetNextTriggerDate. *)

(* An invalid date never comes.                                            *)
LEMMA BadDateNever ==
    ASSUME NEW t, IsTrigger(t), BadDate(t), NEW z \in Nat
    PROVE  ~Specified(t, z)
<1>1. /\ t.d \in 1 .. 31 /\ t.m \in 0 .. 11 /\ t.m # NO_MON /\ t.d # NO_DAY
      /\ t.wd \in SUBSET Weekdays /\ (t.y # NO_YR => t.y \in Years)
      /\ t.d > (IF t.y = NO_YR THEN MonthDays[t.m] ELSE DaysInMonth(t.m, t.y))
  BY DEF IsTrigger, BadDate, Years
<1>2. ASSUME NEW j \in Nat, Matches(t, j) PROVE FALSE
  <2>1. PICK k \in Months : HasDay(t.d, k) /\ MonthGiven(t, k)
    BY <1>1, <1>2, MatchesADate
  <2>2. k % 12 = t.m /\ (t.y # NO_YR => k \div 12 = t.y) /\ k \div 12 \in Years
    BY <1>1, <2>1, MonthOfYear DEF MonthGiven, Given, NO_MON, NO_YR
  <2>3. t.d <= DaysInMonth(t.m, k \div 12) /\ DaysInMonth(t.m, k \div 12) \in 28 .. 31
    BY <1>1, <2>1, <2>2, MonthsFillYear DEF HasDay
  <2>4. DaysInMonth(t.m, k \div 12) <= MonthDays[t.m] /\ MonthDays[t.m] \in 29 .. 31
    BY <1>1 DEF DaysInMonth, MonthDays
  <2>5. CASE t.y = NO_YR
    BY <1>1, <2>3, <2>4, <2>5
  <2>6. CASE t.y # NO_YR
    BY <1>1, <2>2, <2>3, <2>6
  <2> QED
    BY <2>5, <2>6
<1> SUFFICES ASSUME Specified(t, z) PROVE FALSE
  OBVIOUS
<1>3. CASE t.wd = {}
  BY <1>2, <1>3 DEF Specified
<1>4. CASE t.wd # {}
  <2>1. \E j \in Nat : Matches(t, j) /\ z = AdvanceToWd(j, t.wd)
    BY <1>1, <1>4, FirstWeekdayFrom
  <2> QED
    BY <1>2, <2>1
<1> QED
  BY <1>3, <1>4

(* The limit of the loops that count days.                                 *)
LEMMA StepsAreEnough ==
    ASSUME NEW n \in Nat
    PROVE  MaxSteps(n) \in Nat /\ MaxSteps(n) >= 1 /\ MaxSatIter \in Nat /\ MaxSatIter >= 1
BY TriggersAssumption DEF MaxSteps

(* Going back with BACK: a day the meaning of BACK leads to, within reach. *)
LEMMA BacksUp ==
    ASSUME NEW o, NEW t, IsTrigger(t), NEW simple \in Nat
    PROVE  LET x == BackUp(o, t, simple)
           IN  x \in Int /\ (x # Failed => IsBack(o, t, simple, x) /\ x \in simple - Reach(t) .. simple
                                           /\ Reach(t) \in Nat)
<1> DEFINE x == BackUp(o, t, simple)
           b == t.back
           N == MaxSteps(b)
           S == {j \in simple - N + 1 .. simple : Kept(o, t, j .. simple - 1) = b}
<1>1. b \in Int
  BY DEF IsTrigger
<1> HIDE DEF x
<1>2. CASE b <= 0
  <2>1. x = simple + b
    BY <1>2, Zenon DEF x, BackUp
  <2>2. IsBack(o, t, simple, x)
    BY <1>2, <2>1, Zenon DEF IsBack
  <2>3. Reach(t) = -b
    <3>1. b < 0 => Reach(t) = -b
      BY Zenon DEF Reach
    <3>2. b = 0 => Reach(t) = 0
      BY DEF Reach
    <3> HIDE DEF b
    <3> QED
      BY <1>1, <1>2, <3>1, <3>2
  <2> HIDE DEF b
  <2>4. x \in simple - Reach(t) .. simple /\ Reach(t) \in Nat /\ x \in Int
    BY <1>1, <1>2, <2>1, <2>3
  <2> QED
    BY <2>2, <2>4 DEF x
<1>3. CASE ~(b <= 0)
  <2>1. x = IF S = {} THEN Failed ELSE Max(S)
    BY <1>3, Zenon DEF x, BackUp, LastOf
  <2>2. Reach(t) = N /\ N \in Nat /\ N >= 1
    <3>1. ~(b < 0) /\ b # 0 /\ b \in Nat
      BY <1>1, <1>3
    <3>2. Reach(t) = N
      BY <3>1, Zenon DEF Reach
    <3> HIDE DEF b
    <3> QED
      BY <3>1, <3>2, StepsAreEnough
  <2> HIDE DEF N
  <2>3. CASE S = {}
    BY <2>1, <2>3 DEF Failed, x
  <2>4. CASE S # {}
    <3>1. x \in S /\ \A j \in S : x >= j
      <4> DEFINE M == simple - N + 1
      <4>1. S \in SUBSET (M .. simple) /\ M \in Int /\ simple \in Int
        BY <2>2
      <4> HIDE DEF S, M
      <4>2. Max(S) \in S /\ \A j \in S : Max(S) >= j
        BY <2>4, <4>1, MaxOfInterval
      <4> QED
        BY <2>1, <2>4, <4>2
    <3>2. x \in simple - N + 1 .. simple /\ Kept(o, t, x .. simple - 1) = b
      BY <3>1
    <3>3. x \in Int /\ x <= simple /\ x \in simple - N .. simple
      BY <2>2, <3>2
    <3>4. x < simple
      <4> SUFFICES ASSUME x = simple PROVE FALSE
        BY <3>3
      <4>1. {dse \in x .. simple - 1 : ~Omitted(o, t, dse)} = {}
        BY <3>3
      <4>2. Kept(o, t, x .. simple - 1) = 0
        BY <4>1, FS_EmptySet, Zenon DEF Kept
      <4> QED
        BY <1>1, <1>3, <3>2, <4>2
    <3>5. ~Omitted(o, t, x)
      <4> SUFFICES ASSUME Omitted(o, t, x) PROVE FALSE
        OBVIOUS
      <4>1. {dse \in x .. simple - 1 : ~Omitted(o, t, dse)} = {dse \in x + 1 .. simple - 1 : ~Omitted(o, t, dse)}
        <5>1. \A dse \in x .. simple - 1 : ~Omitted(o, t, dse) => dse \in x + 1 .. simple - 1
          <6> TAKE dse \in x .. simple - 1
          <6>1. dse = x => Omitted(o, t, dse)
            OBVIOUS
          <6>2. dse # x => dse \in x + 1 .. simple - 1
            BY <3>3
          <6> QED
            BY <6>1, <6>2, Zenon
        <5>2. x + 1 .. simple - 1 \subseteq x .. simple - 1
          BY <3>3
        <5> QED
          BY <5>1, <5>2, Zenon
      <4>2. Kept(o, t, x + 1 .. simple - 1) = b
        BY <3>2, <4>1, Zenon DEF Kept
      <4>3. x + 1 \in simple - N + 1 .. simple /\ ~(x >= x + 1)
        BY <2>2, <3>2, <3>3, <3>4
      <4> QED
        BY <3>1, <4>2, <4>3
    <3>6. b > 0
      BY <1>1, <1>3
    <3>7. IsBack(o, t, simple, x)
      BY <3>2, <3>4, <3>5, <3>6, Zenon DEF IsBack
    <3> QED
      BY <2>2, <3>3, <3>7 DEF x
  <2> QED
    BY <2>3, <2>4
<1> QED
  BY <1>2, <1>3

(* The least multiple of r from d on.                                      *)
LEMMA NextMultiple ==
    ASSUME NEW r \in Nat \ {0}, NEW d \in Nat
    PROVE  LET q == (d + r - 1) \div r
           IN  /\ q \in Nat /\ r * q \in Nat /\ r * q >= d /\ (r * q) % r = 0
               /\ \A e \in Nat : e >= d /\ e % r = 0 => e >= r * q
<1> DEFINE n == d + r - 1
           q == n \div r
<1>1. n \in Nat /\ q \in Nat /\ n % r \in 0 .. r - 1 /\ n = r * q + (n % r)
  <2>1. n \in Nat
    OBVIOUS
  <2> HIDE DEF n
  <2> QED
    BY <2>1
<1>2. n = d + r - 1
  OBVIOUS
<1> HIDE DEF n, q
<1>3. r * q \in Nat /\ (r * q) % r = 0
  BY <1>1
<1>4. r * q >= d
  <2> DEFINE p == r * q
             m == n % r
  <2>1. p \in Nat /\ m \in 0 .. r - 1 /\ n = p + m
    BY <1>1, <1>3
  <2> HIDE DEF p, m
  <2>2. p >= d
    BY <1>2, <2>1
  <2> QED
    BY <2>2 DEF p
<1>5. ASSUME NEW e \in Nat, e >= d, e % r = 0 PROVE e >= r * q
  <2> DEFINE p == e \div r
  <2>1. p \in Nat /\ e = r * p
    BY <1>5
  <2> HIDE DEF p
  <2> SUFFICES ASSUME p < q PROVE FALSE
    BY <1>1, <2>1
  <2>2. r * p + r <= r * q
    BY <1>1, <2>1
  <2> QED
    BY <1>1, <1>2, <1>3, <1>5, <2>1, <2>2
<1> QED
  BY <1>1, <1>3, <1>4, <1>5 DEF q, n

(* A whole date has one day, which Origin is.                              *)
LEMMA OriginIsTheDay ==
    ASSUME NEW t, IsTrigger(t), FullDate(t), ~BadDate(t), NEW z \in Nat, Specified(t, z)
    PROVE  /\ Origin(t) = z
           /\ \A y \in Nat : Specified(t, y) => y = z
<1> DEFINE j == DSE(t.y, t.m, t.d)
<1>1. /\ t.wd \in SUBSET Weekdays /\ t.d \in 1 .. 31 /\ t.m \in 0 .. 11 /\ t.m # NO_MON /\ t.d # NO_DAY
      /\ t.y # NO_YR /\ t.y \in Years
  BY DEF IsTrigger, FullDate, Years
<1>2. t.d <= DaysInMonth(t.m, t.y)
  <2>1. DaysInMonth(t.m, t.y) \in 28 .. 31
    BY <1>1, MonthsFillYear
  <2>2. ~(t.d > DaysInMonth(t.m, t.y))
    BY <1>1, Zenon DEF BadDate
  <2> QED
    BY <1>1, <2>1, <2>2
<1>3. j \in Nat /\ \A y \in Nat : Matches(t, y) <=> y = j
  BY <1>1, <1>2, DateSpecified
<1>4. \A y \in Nat : Specified(t, y) <=> y = IF t.wd = {} THEN j ELSE AdvanceToWd(j, t.wd)
  <2> TAKE y \in Nat
  <2>1. CASE t.wd = {}
    BY <1>3, <2>1, Zenon DEF Specified
  <2>2. CASE t.wd # {}
    <3>1. Specified(t, y) <=> \E i \in Nat : Matches(t, i) /\ y = AdvanceToWd(i, t.wd)
      BY <1>1, <2>2, FirstWeekdayFrom
    <3> HIDE DEF j
    <3> QED
      BY <1>3, <2>2, <3>1
  <2> QED
    BY <2>1, <2>2
<1>5. z \in j .. j + 6
  <2> HIDE DEF j
  <2>1. CASE t.wd = {}
    BY <1>3, <1>4, <2>1
  <2>2. CASE t.wd # {}
    <3>1. z = AdvanceToWd(j, t.wd)
      BY <1>4, <2>2
    <3> QED
      BY <1>1, <1>3, <2>2, <3>1, AdvancesToFirst
  <2> QED
    BY <2>1, <2>2
<1>6. \A y \in Nat : Specified(t, y) => y = z
  BY <1>4, Zenon
<1>7. Origin(t) = CHOOSE dse \in j .. j + 6 : Specified(t, dse)
  BY Zenon DEF Origin
<1> HIDE DEF j
<1>8. Origin(t) \in j .. j + 6 /\ Specified(t, Origin(t))
  BY <1>5, <1>7, Zenon
<1>9. Origin(t) \in Nat
  BY <1>3, <1>8
<1> QED
  BY <1>6, <1>8, <1>9

(* A day that BACK leads to and the days repeated from it are those of the *)
(* meaning of REP.                                                         *)
LEMMA Repeats ==
    ASSUME NEW o, NEW t, IsTrigger(t), t.rep # 0 => FullDate(t), ~BadDate(t),
           NEW simple \in Nat, Specified(t, simple), NEW first \in Int,
           IsBack(o, t, simple, first), Reach(t) \in Nat, first \in simple - Reach(t) .. simple,
           NEW start \in Nat
    PROVE  LET x == Repeat(t, first, start)
           IN  x \in Int /\ Repetition(o, t, x)
<1> DEFINE x == Repeat(t, first, start)
           r == t.rep
           q == (start - first + r - 1) \div r
<1>1. r \in Nat
  BY DEF IsTrigger
<1>2. x = IF r = 0 \/ first >= start THEN first ELSE first + r * q
  BY Zenon DEF Repeat
<1> HIDE DEF x
<1>3. CASE r = 0
  <2>1. simple \in first .. first + Reach(t) /\ x = first
    BY <1>2, <1>3
  <2>2. Base(o, t, first)
    BY <2>1, Zenon DEF Base
  <2> QED
    BY <1>3, <2>1, <2>2, Zenon DEF Repetition, x
<1>4. CASE r # 0
  <2>1. Origin(t) = simple
    BY <1>4, OriginIsTheDay
  <2>2. x \in Int /\ x >= first /\ (x - first) % r = 0
    <3>1. CASE first >= start
      <4>1. x = first /\ first - first = 0 /\ 0 % r = 0
        BY <1>1, <1>2, <1>4, <3>1
      <4> QED
        BY <4>1
    <3>2. CASE ~(first >= start)
      <4> DEFINE d == start - first
      <4>1. d \in Nat /\ r \in Nat \ {0}
        BY <1>1, <1>4, <3>2
      <4>2. x = first + r * ((d + r - 1) \div r)
        BY <1>2, <1>4, <3>2
      <4> HIDE DEF d, r
      <4> DEFINE e == r * ((d + r - 1) \div r)
      <4>3. e \in Nat /\ e % r = 0
        BY <4>1, NextMultiple
      <4>4. x = first + e
        BY <4>2
      <4> HIDE DEF e
      <4>5. x - first = e /\ x \in Int /\ x >= first
        BY <4>3, <4>4
      <4> QED
        BY <4>3, <4>5
    <3> QED
      BY <3>1, <3>2
  <2>3. first \in Origin(t) - Reach(t) .. Origin(t) /\ IsBack(o, t, Origin(t), first)
    BY <2>1
  <2>4. Repetition(o, t, x)
    BY <1>4, <2>2, <2>3, Zenon DEF Repetition
  <2> QED
    BY <2>2, <2>4 DEF x
<1> QED
  BY <1>3, <1>4

(* Moving from omitted days, as the trigger asks: the reminder occurs on   *)
(* the day found.                                                          *)
LEMMA SkipsOmitted ==
    ASSUME NEW o, NEW t, IsTrigger(t), NEW dse \in Int, Repetition(o, t, dse)
    PROVE  LET x == SkipOmitted(o, t, dse)
           IN  /\ x \in Int
               /\ x # Failed /\ (t.skip = "SKIP" => ~Omitted(o, t, x)) /\ (t.until # NO_UNTIL => x <= t.until)
                  => Occurs(o, t, x)
<1> DEFINE x == SkipOmitted(o, t, dse)
           N == MaxSatIter
           B == {j \in dse - N + 1 .. dse : j >= 0 /\ ~Omitted(o, t, j)}
           A == {j \in dse .. dse + N - 1 : ~Omitted(o, t, j)}
<1>1. N \in Nat /\ N >= 1
  BY TriggersAssumption
<1>2. t.skip \in {"", "SKIP", "BEFORE", "AFTER"}
  BY DEF IsTrigger
<1>3. /\ t.skip = "BEFORE" => x = IF B = {} THEN Failed ELSE Max(B)
      /\ t.skip = "AFTER" => x = IF A = {} THEN Failed ELSE Min(A)
      /\ t.skip \notin {"BEFORE", "AFTER"} => x = dse
  BY DEF SkipOmitted, LastOf, FirstOf
<1> HIDE DEF x
<1>4. CASE t.skip = "BEFORE"
  <2>1. CASE B = {}
    BY <1>3, <1>4, <2>1 DEF Failed, x
  <2>2. CASE B # {}
    <3>1. x \in B /\ \A j \in B : x >= j
      <4> DEFINE M == dse - N + 1
      <4>1. M \in Int /\ B \in SUBSET (M .. dse)
        BY <1>1
      <4> HIDE DEF M, B
      <4>2. Max(B) \in B /\ \A j \in B : Max(B) >= j
        BY <2>2, <4>1, MaxOfInterval
      <4> QED
        BY <1>3, <1>4, <2>2, <4>2
    <3>2. x \in dse - N + 1 .. dse /\ x >= 0 /\ ~Omitted(o, t, x)
      BY <3>1
    <3>3. x \in Int
      BY <1>1, <3>2
    <3>4. \A j \in x + 1 .. dse : Omitted(o, t, j)
      <4> TAKE j \in x + 1 .. dse
      <4>1. j \in dse - N + 1 .. dse /\ j >= 0 /\ ~(x >= j)
        BY <1>1, <3>2, <3>3
      <4> QED
        BY <3>1, <4>1
    <3>5. CASE x = dse
      BY <3>2, <3>3, <3>5, Zenon DEF Occurs, x
    <3>6. CASE x # dse
      <4> DEFINE n == dse - x
      <4>1. n \in 1 .. N - 1 /\ x + n = dse
        BY <1>1, <3>2, <3>3, <3>6
      <4> HIDE DEF n
      <4>2. \E k \in 1 .. MaxSatIter - 1 : /\ \A j \in x + 1 .. x + k : Omitted(o, t, j)
                                           /\ Repetition(o, t, x + k)
        BY <3>4, <4>1, Zenon
      <4> QED
        BY <1>4, <3>2, <3>3, <4>2, Zenon DEF Occurs, x
    <3> QED
      BY <3>5, <3>6
  <2> QED
    BY <2>1, <2>2
<1>5. CASE t.skip = "AFTER"
  <2>1. CASE A = {}
    BY <1>3, <1>5, <2>1 DEF Failed, x
  <2>2. CASE A # {}
    <3>1. x \in A /\ \A j \in A : x <= j
      <4> DEFINE M == dse + N - 1
      <4>1. M \in Int /\ A \in SUBSET (dse .. M)
        BY <1>1
      <4> HIDE DEF M, A
      <4>2. Min(A) \in A /\ \A j \in A : Min(A) <= j
        BY <2>2, <4>1, MinOfInterval
      <4> QED
        BY <1>3, <1>5, <2>2, <4>2
    <3>2. x \in dse .. dse + N - 1 /\ ~Omitted(o, t, x)
      BY <3>1
    <3>3. x \in Int
      BY <1>1, <3>2
    <3>4. \A j \in dse .. x - 1 : Omitted(o, t, j)
      <4> TAKE j \in dse .. x - 1
      <4>1. j \in dse .. dse + N - 1 /\ ~(x <= j)
        BY <1>1, <3>2, <3>3
      <4> QED
        BY <3>1, <4>1
    <3>5. CASE x = dse
      BY <3>2, <3>3, <3>5, Zenon DEF Occurs, x
    <3>6. CASE x # dse
      <4> DEFINE n == x - dse
      <4>1. n \in 1 .. N - 1 /\ x - n = dse
        BY <1>1, <3>2, <3>3, <3>6
      <4> HIDE DEF n
      <4>2. \E k \in 1 .. MaxSatIter - 1 : /\ \A j \in x - k .. x - 1 : Omitted(o, t, j)
                                           /\ Repetition(o, t, x - k)
        BY <3>4, <4>1, Zenon
      <4> QED
        BY <1>5, <3>2, <3>3, <4>2, Zenon DEF Occurs, x
    <3> QED
      BY <3>5, <3>6
  <2> QED
    BY <2>1, <2>2
<1>6. CASE t.skip \notin {"BEFORE", "AFTER"}
  <2>1. x = dse /\ x \in Int /\ Repetition(o, t, x)
    BY <1>3, <1>6
  <2>2. t.skip = "" \/ t.skip = "SKIP"
    BY <1>2, <1>6
  <2> QED
    BY <2>1, <2>2, Zenon DEF Occurs, x
<1> QED
  BY <1>4, <1>5, <1>6

(* The scan starts on a day, unless no day that is not omitted was found.  *)
LEMMA ScanStartsOnADay ==
    ASSUME NEW o, NEW t, NEW start \in Nat
    PROVE  ScanStart(o, t, start) \in Nat \cup {Failed}
<1> DEFINE M == start - MaxSatIter + 1
           S == {j \in M .. start : j >= 0 /\ ~Omitted(o, t, j - 1)}
<1>1. M \in Int /\ start \in Int /\ S \in SUBSET (M .. start) /\ \A j \in S : j \in Nat
  BY TriggersAssumption
<1>2. BlockStart(o, t, start) = IF S = {} THEN Failed ELSE Max(S)
  BY Zenon DEF BlockStart, LastOf
<1> HIDE DEF S, M
<1>3. S # {} => Max(S) \in S
  BY <1>1, MaxOfInterval
<1> QED
  BY <1>1, <1>2, <1>3 DEF ScanStart

(* From wherever the scan starts GetNextTriggerDate returns no day but one *)
(* on which the reminder occurs; a day that SKIP omits the caller rejects. *)
LEMMA FromStartIsRight ==
    ASSUME NEW o, NEW t, IsTrigger(t), t.rep # 0 => FullDate(t), NEW start \in Nat \cup {Failed}
    PROVE  LET r == FromStart(o, t, start)
           IN  /\ r.date \in Int /\ r.next \in Nat
               /\ r.date \notin {Expired, Failed} /\ ~SkippedDate(o, t, r.date) => Occurs(o, t, r.date)
<1> DEFINE Right(r) == /\ r.date \in Int /\ r.next \in Nat
                       /\ r.date \notin {Expired, Failed} /\ ~SkippedDate(o, t, r.date) => Occurs(o, t, r.date)
<1>1. Right(No(Expired)) /\ Right(No(Failed))
  <2>1. \A why : No(why).date = why /\ No(why).next = 0
    BY DEF No
  <2> QED
    BY <2>1 DEF Expired, Failed
<1>2. ASSUME NEW from \in Nat, NEW simple \in Nat, Specified(t, simple), ~BadDate(t),
             NEW first \in Int, first # Failed, first = BackUp(o, t, simple)
      PROVE  Right(FromBacked(o, t, from, first, simple + 1))
  <2> DEFINE y == Repeat(t, first, from)
             x == SkipOmitted(o, t, y)
             r == FromBacked(o, t, from, first, simple + 1)
  <2>1. IsBack(o, t, simple, first) /\ first \in simple - Reach(t) .. simple /\ Reach(t) \in Nat
    BY <1>2, BacksUp
  <2>2. y \in Int /\ Repetition(o, t, y)
    BY <1>2, <2>1, Repeats
  <2>3. r = NotAfterUntil(t, x, simple + 1)
    BY <1>2, Zenon DEF FromBacked
  <2> HIDE DEF y, r
  <2>4. /\ x \in Int
        /\ x # Failed /\ (t.skip = "SKIP" => ~Omitted(o, t, x)) /\ (t.until # NO_UNTIL => x <= t.until)
           => Occurs(o, t, x)
    BY <2>2, SkipsOmitted
  <2> HIDE DEF x
  <2>5. r = No(Expired) \/ r = No(Failed)
        \/ (x # Failed /\ (t.until # NO_UNTIL => ~(x > t.until)) /\ r = [date |-> x, next |-> simple + 1])
    BY <2>3, Zenon DEF NotAfterUntil
  <2>6. ASSUME x # Failed, t.until # NO_UNTIL => ~(x > t.until), r = [date |-> x, next |-> simple + 1]
        PROVE  Right(r)
    <3>1. r.date = x /\ r.next = simple + 1
      BY <2>6
    <3>2. t.until \in Int
      BY DEF IsTrigger
    <3>3. t.until # NO_UNTIL => x <= t.until
      BY <2>4, <2>6, <3>2
    <3>4. ~SkippedDate(o, t, x) => (t.skip = "SKIP" => ~Omitted(o, t, x))
      BY Zenon DEF SkippedDate
    <3>5. x \notin {Expired, Failed} /\ ~SkippedDate(o, t, x) => Occurs(o, t, x)
      BY <2>4, <2>6, <3>3, <3>4
    <3>6. r.date \in Int /\ r.next \in Nat
      BY <2>4, <3>1
    <3> QED
      BY <3>1, <3>5, <3>6
  <2> HIDE DEF Right
  <2>7. Right(r)
    BY <1>1, <2>5, <2>6
  <2> QED
    BY <2>7 DEF r
<1>3. ASSUME NEW from \in Nat, ~BadDate(t) PROVE Right(FromSimple(o, t, from, NextSimpleTrig(from, t)))
  <2> DEFINE simple == NextSimpleTrig(from, t)
             first  == BackUp(o, t, simple)
  <2>1. simple = Expired \/ (simple \in Nat /\ Specified(t, simple))
    BY <1>3, NextSimpleTrigFinds DEF Sound
  <2> HIDE DEF simple, Right
  <2>2. CASE simple = Expired
    BY <1>1, <2>2, Zenon DEF FromSimple, simple
  <2>3. CASE simple # Expired
    <3>1. FromSimple(o, t, from, simple) = FromBacked(o, t, from, first, simple + 1)
      BY <2>3, Zenon DEF FromSimple
    <3>2. first \in Int
      BY <2>1, <2>3, BacksUp
    <3> HIDE DEF first
    <3>3. CASE first = Failed
      BY <1>1, <3>1, <3>3, Zenon DEF FromBacked, simple
    <3>4. CASE first # Failed
      BY <1>2, <1>3, <2>1, <2>3, <3>1, <3>2, <3>4, Zenon DEF first, simple
    <3> QED
      BY <3>3, <3>4
  <2> QED
    BY <2>2, <2>3
<1> HIDE DEF Right
<1>4. CASE start = Failed \/ BadDate(t)
  <2>1. FromStart(o, t, start) = No(Failed)
    BY <1>4, Zenon DEF FromStart
  <2> QED
    BY <1>1, <2>1 DEF Right
<1>5. CASE ~(start = Failed \/ BadDate(t))
  <2>1. FromStart(o, t, start) = FromSimple(o, t, start, NextSimpleTrig(start, t))
    BY <1>5, Zenon DEF FromStart
  <2>2. Right(FromStart(o, t, start))
    BY <1>3, <1>5, <2>1
  <2> QED
    BY <2>2 DEF Right
<1> QED
  BY <1>4, <1>5

(* The same of GetNextTriggerDate.                                         *)
LEMMA NextDateIsRight ==
    ASSUME NEW o, NEW t, IsTrigger(t), t.rep # 0 => FullDate(t), NEW start \in Nat
    PROVE  LET r == GetNextTriggerDate(o, t, start)
           IN  /\ r.date \in Int /\ r.next \in Nat
               /\ r.date \notin {Expired, Failed} /\ ~SkippedDate(o, t, r.date) => Occurs(o, t, r.date)
<1> DEFINE from == ScanStart(o, t, start)
           Right(r) == /\ r.date \in Int /\ r.next \in Nat
                       /\ r.date \notin {Expired, Failed} /\ ~SkippedDate(o, t, r.date) => Occurs(o, t, r.date)
<1>1. from \in Nat \cup {Failed}
  BY ScanStartsOnADay
<1> HIDE DEF from
<1>2. Right(FromStart(o, t, from))
  BY <1>1, FromStartIsRight
<1>3. Right(No(Expired))
  <2>1. No(Expired).date = Expired /\ No(Expired).next = 0
    BY DEF No
  <2> QED
    BY <2>1 DEF Expired
<1>4. GetNextTriggerDate(o, t, start) = No(Expired) \/ GetNextTriggerDate(o, t, start) = FromStart(o, t, from)
  BY Zenon DEF GetNextTriggerDate, from
<1> HIDE DEF Right
<1>5. Right(GetNextTriggerDate(o, t, start))
  BY <1>2, <1>3, <1>4
<1> QED
  BY <1>5 DEF Right

-----------------------------------------------------------------------------
(* ComputeTriggerNoAdjustDuration. *)

\* What one attempt makes of the date found, and where the next one starts.
Attempt(o, t, today, at, f) ==
    LET r == GetNextTriggerDate(o, t, at[2])
    IN  IF r.date \in {Expired, Failed} \/ Acceptable(o, t, r.date, today) THEN r.date
        ELSE IF IsSimple(t) \/ NextStart(o, t, r, at[2]) <= at[2] THEN Expired
        ELSE f[<<at[1] - 1, NextStart(o, t, r, at[2])>>]

Scans(o, t, today, f) ==
    f = [at \in (0 .. TRIG_ATTEMPTS) \X Nat |-> IF at[1] = 0 THEN Failed ELSE Attempt(o, t, today, at, f)]

(* The attempts compute something: a function that the scan satisfies.     *)
LEMMA ScanComputes ==
    ASSUME NEW o, NEW t, IsTrigger(t), Computable(o, t), NEW today \in Nat
    PROVE  \E f : Scans(o, t, today, f) /\ ComputeTrigger(o, t, today) = f[<<TRIG_ATTEMPTS, today>>]
<1> DEFINE N == TRIG_ATTEMPTS
           S == [Nat -> Int]
           none == [n \in Nat |-> Failed]
           Next(n) == NextStart(o, t, GetNextTriggerDate(o, t, n), n)
           At(n, F) == LET r == GetNextTriggerDate(o, t, n)
                       IN  IF r.date \in {Expired, Failed} \/ Acceptable(o, t, r.date, today) THEN r.date
                           ELSE IF IsSimple(t) \/ Next(n) <= n THEN Expired
                           ELSE F[Next(n)]
           step == [p \in (1 .. N) \X S |-> [n \in Nat |-> At(n, p[2])]]
           scan == CHOOSE f : Scans(o, t, today, f)
<1>1. N \in Nat
  BY TriggersAssumption
<1>2. t.rep # 0 => FullDate(t)
  BY DEF Computable
<1>3. \A n \in Nat : GetNextTriggerDate(o, t, n).date \in Int /\ Next(n) \in Nat
  <2> TAKE n \in Nat
  <2> DEFINE r == GetNextTriggerDate(o, t, n)
  <2>1. r.date \in Int /\ r.next \in Nat
    BY <1>2, NextDateIsRight
  <2> HIDE DEF r
  <2>2. NextStart(o, t, r, n) \in Nat
    BY <2>1 DEF NextStart
  <2> QED
    BY <2>1, <2>2 DEF r
<1> HIDE DEF Next
<1>4. none \in S /\ step \in [(1 .. N) \X S -> S]
  <2>1. \A n \in Nat, F \in S : At(n, F) \in Int
    BY <1>3 DEF Expired
  <2> HIDE DEF At
  <2>2. \A F \in S : [n \in Nat |-> At(n, F)] \in S
    BY <2>1
  <2> HIDE DEF S
  <2>3. step \in [(1 .. N) \X S -> S]
    BY <2>2
  <2> QED
    BY <2>3 DEF S, Failed
<1> HIDE DEF At
<1>5. PICK f : Computes(f, N, S, none, step)
  <2> HIDE DEF N, S, none, step
  <2> QED
    BY <1>1, <1>4, LoopComputes, Zenon
<1>6. f \in [0 .. N -> S] /\ f[0] = none /\ \A i \in 1 .. N : f[i] = [n \in Nat |-> At(n, f[i - 1])]
  <2>1. f \in [0 .. N -> S] /\ f[0] = none /\ \A i \in 1 .. N : f[i] = step[<<i, f[i - 1]>>]
    BY <1>5, Zenon DEF Computes
  <2>2. \A i \in 1 .. N : f[i - 1] \in S
    <3> HIDE DEF S, N
    <3>1. \A i \in 1 .. N : i - 1 \in 0 .. N
      BY <1>1
    <3> QED
      BY <2>1, <3>1
  <2> HIDE DEF S
  <2>3. \A i \in 1 .. N : step[<<i, f[i - 1]>>] = [n \in Nat |-> At(n, f[i - 1])]
    BY <2>2
  <2> QED
    BY <2>1, <2>3
<1> DEFINE g == [at \in (0 .. N) \X Nat |-> f[at[1]][at[2]]]
<1>7. Scans(o, t, today, g)
  <2>1. ASSUME NEW at \in (0 .. N) \X Nat
        PROVE  f[at[1]][at[2]] = IF at[1] = 0 THEN Failed ELSE Attempt(o, t, today, at, g)
    <3> DEFINE i == at[1]
               n == at[2]
    <3>1. i \in 0 .. N /\ n \in Nat
      OBVIOUS
    <3>2. CASE i = 0
      BY <1>6, <3>1, <3>2
    <3>3. CASE i # 0
      <4>1. i \in 1 .. N /\ i - 1 \in 0 .. N
        BY <1>1, <3>1, <3>3
      <4>2. f[i][n] = At(n, f[i - 1])
        <5> HIDE DEF i, n, S
        <5>1. f[i] = [k \in Nat |-> At(k, f[i - 1])] /\ n \in Nat
          BY <1>6, <3>1, <4>1, Zenon
        <5> QED
          BY <5>1
      <4>3. <<i - 1, Next(n)>> \in (0 .. N) \X Nat
        BY <1>3, <3>1, <4>1
      <4>4. g[<<i - 1, Next(n)>>] = f[i - 1][Next(n)]
        <5> DEFINE a == i - 1
                   b == Next(n)
                   D == (0 .. N) \X Nat
        <5>1. <<a, b>> \in D
          BY <4>3
        <5> HIDE DEF a, b, D
        <5>2. g = [v \in D |-> f[v[1]][v[2]]]
          BY DEF D
        <5> HIDE DEF g
        <5>3. g[<<a, b>>] = f[a][b]
          BY <5>1, <5>2
        <5> QED
          BY <5>3 DEF a, b
      <4> HIDE DEF g, i, n
      <4>5. Attempt(o, t, today, at, g) = At(n, f[i - 1])
        BY <4>4, Zenon DEF Attempt, At, Next, i, n
      <4> QED
        BY <3>3, <4>2, <4>5 DEF i, n
    <3> QED
      BY <3>2, <3>3
  <2> DEFINE h == [at \in (0 .. N) \X Nat |-> IF at[1] = 0 THEN Failed ELSE Attempt(o, t, today, at, g)]
  <2>2. g = h
    BY <2>1
  <2> QED
    BY <2>2, Zenon DEF Scans
<1> HIDE DEF g
<1>8. Scans(o, t, today, scan)
  BY <1>7, Zenon
<1>9. ComputeTrigger(o, t, today) = scan[<<TRIG_ATTEMPTS, today>>]
  <2>1. scan = CHOOSE f_1 : f_1 = [at \in (0 .. TRIG_ATTEMPTS) \X Nat |->
                                  IF at[1] = 0 THEN Failed ELSE Attempt(o, t, today, at, f_1)]
    BY Zenon DEF Scans
  <2> QED
    BY <2>1, Zenon DEF ComputeTrigger, Attempt
<1> QED
  BY <1>8, <1>9, Zenon

(* Where the scan goes on is a day. *)
LEMMA GoesOnFromADay ==
    ASSUME NEW o, NEW t, IsTrigger(t), t.rep # 0 => FullDate(t), NEW start \in Nat
    PROVE  LET r == GetNextTriggerDate(o, t, start)
           IN  r.date \in Int /\ NextStart(o, t, r, start) \in Nat
<1> DEFINE r == GetNextTriggerDate(o, t, start)
<1>1. r.date \in Int /\ r.next \in Nat
  BY NextDateIsRight
<1> HIDE DEF r
<1>2. NextStart(o, t, r, start) \in Nat
  BY <1>1 DEF NextStart
<1> QED
  BY <1>1, <1>2 DEF r

(* ComputeTrigger: the date it returns is today or later, and the reminder *)
(* occurs on it, for every trigger, OMIT context and limit of the search.  *)
THEOREM ComputesOnlyOccurrences ==
    ASSUME NEW o, NEW t, IsTrigger(t), NEW today \in Nat
    PROVE  LET dse == ComputeTrigger(o, t, today)
           IN  dse \in {Expired, Failed} \/ (dse \in Nat /\ dse >= today /\ Occurs(o, t, dse))
<1> DEFINE dse == ComputeTrigger(o, t, today)
           Right(x) == x \in {Expired, Failed} \/ (x \in Nat /\ x >= today /\ Occurs(o, t, x))
<1>1. CASE ~Computable(o, t)
  <2>1. dse = Failed
    BY <1>1, Zenon DEF ComputeTrigger
  <2> QED
    BY <2>1
<1>2. CASE Computable(o, t)
  <2>1. PICK f : Scans(o, t, today, f) /\ dse = f[<<TRIG_ATTEMPTS, today>>]
    BY <1>2, ScanComputes, Zenon
  <2> DEFINE S == {i \in Nat : \A n \in Nat : Right(f[<<i, n>>])}
             N == TRIG_ATTEMPTS
  <2>2. N \in Nat
    BY TriggersAssumption
  <2>3. \A i \in 0 .. N, n \in Nat :
           f[<<i, n>>] = IF i = 0 THEN Failed ELSE Attempt(o, t, today, <<i, n>>, f)
    <3>1. \A i \in 0 .. N, n \in Nat : <<i, n>>[1] = i
      OBVIOUS
    <3>2. \A at \in (0 .. N) \X Nat : f[at] = IF at[1] = 0 THEN Failed ELSE Attempt(o, t, today, at, f)
      BY <2>1, Zenon DEF Scans
    <3> QED
      BY <3>1, <3>2
  <2>4. 0 \in S
    BY <2>2, <2>3
  <2>5. ASSUME NEW i \in 1 .. N, i - 1 \in S PROVE i \in S
    <3> SUFFICES ASSUME NEW n \in Nat PROVE Right(f[<<i, n>>])
      BY <2>2
    <3> DEFINE r == GetNextTriggerDate(o, t, n)
               k == NextStart(o, t, r, n)
    <3>1. k \in Nat /\ r.date \in Int
      BY <1>2, GoesOnFromADay DEF Computable
    <3>2. r.date \notin {Expired, Failed} /\ ~SkippedDate(o, t, r.date) => Occurs(o, t, r.date)
      BY <1>2, NextDateIsRight DEF Computable
    <3> HIDE DEF r, k
    <3>3. f[<<i, n>>] = Attempt(o, t, today, <<i, n>>, f)
      <4>1. i \in 0 .. N /\ i # 0
        BY <2>2
      <4> QED
        BY <2>3, <4>1
    <3>4. Attempt(o, t, today, <<i, n>>, f) \in {r.date, Expired, f[<<i - 1, k>>]}
          /\ (Attempt(o, t, today, <<i, n>>, f) \in {Expired, f[<<i - 1, k>>]}
              \/ r.date \in {Expired, Failed} \/ Acceptable(o, t, r.date, today))
      <4>1. <<i, n>>[1] = i /\ <<i, n>>[2] = n
        OBVIOUS
      <4> QED
        BY <4>1, Zenon DEF Attempt, r, k
    <3>5. Right(f[<<i - 1, k>>])
      BY <2>5, <3>1
    <3>6. Acceptable(o, t, r.date, today) => r.date \in {Expired, Failed} \/ Right(r.date)
      <4>1. Acceptable(o, t, r.date, today) => r.date >= today /\ ~SkippedDate(o, t, r.date)
        BY Zenon DEF Acceptable
      <4>2. r.date >= today => r.date \in Nat
        BY <3>1
      <4> QED
        BY <3>2, <4>1, <4>2
    <3>7. Right(Expired) /\ Right(Failed)
      OBVIOUS
    <3> HIDE DEF Right
    <3> QED
      BY <3>3, <3>4, <3>5, <3>6, <3>7
  <2>6. N \in S
    <3> HIDE DEF S, N
    <3>1. 0 .. N \subseteq S
      BY <2>2, <2>4, <2>5, UpTo
    <3> QED
      BY <2>2, <3>1
  <2>7. Right(f[<<N, today>>])
    BY <2>6
  <2> QED
    BY <2>1, <2>7
<1> QED
  BY <1>1, <1>2

-----------------------------------------------------------------------------
(* ComputeTrigger misses no day. *)

\* A date of the repetition, and the day that SKIP, BEFORE or AFTER makes of it.
Moves(o, t, w, z) ==
    \/ w = z /\ (t.skip = "" \/ ~Omitted(o, t, z))
    \/ /\ t.skip = "BEFORE" /\ z < w /\ w < z + MaxSatIter /\ ~Omitted(o, t, z)
       /\ \A j \in z + 1 .. w : Omitted(o, t, j)
    \/ /\ t.skip = "AFTER" /\ w < z /\ z < w + MaxSatIter /\ ~Omitted(o, t, z)
       /\ \A j \in w .. z - 1 : Omitted(o, t, j)

(* A day on which a reminder occurs is a date of the repetition or one that *)
(* BEFORE or AFTER made of it.                                             *)
LEMMA OccursMoved ==
    ASSUME NEW o, NEW t, NEW z \in Int, Occurs(o, t, z)
    PROVE  /\ t.until # NO_UNTIL => z <= t.until
           /\ \E w \in Int : Repetition(o, t, w) /\ Moves(o, t, w, z)
<1>1. MaxSatIter \in Nat
  BY TriggersAssumption
<1>2. t.until # NO_UNTIL => z <= t.until
  BY Zenon DEF Occurs
<1>3. CASE Repetition(o, t, z) /\ (t.skip = "" \/ ~Omitted(o, t, z))
  BY <1>2, <1>3, Zenon DEF Moves
<1>4. ASSUME t.skip = "BEFORE", ~Omitted(o, t, z), NEW n \in 1 .. MaxSatIter - 1,
             \A j \in z + 1 .. z + n : Omitted(o, t, j), Repetition(o, t, z + n)
      PROVE  \E w \in Int : Repetition(o, t, w) /\ Moves(o, t, w, z)
  <2> DEFINE w == z + n
  <2>1. w \in Int /\ z < w /\ w < z + MaxSatIter
    BY <1>1
  <2>2. Moves(o, t, w, z)
    BY <1>4, <2>1, Zenon DEF Moves
  <2> QED
    BY <1>4, <2>1, <2>2
<1>5. ASSUME t.skip = "AFTER", ~Omitted(o, t, z), NEW n \in 1 .. MaxSatIter - 1,
             \A j \in z - n .. z - 1 : Omitted(o, t, j), Repetition(o, t, z - n)
      PROVE  \E w \in Int : Repetition(o, t, w) /\ Moves(o, t, w, z)
  <2> DEFINE w == z - n
  <2>1. w \in Int /\ w < z /\ z < w + MaxSatIter
    BY <1>1
  <2>2. Moves(o, t, w, z)
    BY <1>5, <2>1, Zenon DEF Moves
  <2> QED
    BY <1>5, <2>1, <2>2
<1> QED
  BY <1>2, <1>3, <1>4, <1>5, Zenon DEF Occurs

(* Going back from a later day leads to no earlier one.                    *)
LEMMA BackKeepsOrder ==
    ASSUME NEW o, NEW t, IsTrigger(t), NEW simple \in Int, NEW from \in Int, simple <= from,
           NEW x \in Int, NEW w \in Int, IsBack(o, t, simple, x), IsBack(o, t, from, w)
    PROVE  x <= w
<1> DEFINE b == t.back
           Days(S) == {dse \in S : ~Omitted(o, t, dse)}
<1>1. b \in Int
  BY DEF IsTrigger
<1>2. CASE b <= 0
  <2>1. x = simple + b /\ w = from + b
    <3>1. ~(b > 0)
      BY <1>1, <1>2
    <3> QED
      BY <3>1, Zenon DEF IsBack
  <2> HIDE DEF b
  <2> QED
    BY <1>1, <2>1
<1>3. CASE ~(b <= 0)
  <2>1. /\ x < simple /\ Cardinality(Days(x .. simple - 1)) = b
        /\ w < from /\ ~Omitted(o, t, w) /\ Cardinality(Days(w .. from - 1)) = b
    BY <1>3, Zenon DEF IsBack, Kept
  <2> SUFFICES ASSUME w < x PROVE FALSE
    OBVIOUS
  <2> DEFINE A == Days(x .. simple - 1)
             B == Days(w .. from - 1)
  <2>2. IsFiniteSet(w .. from - 1)
    <3>1. w \in Int /\ from - 1 \in Int
      OBVIOUS
    <3> QED
      BY <3>1, FS_Interval
  <2>3. IsFiniteSet(B) /\ A \in SUBSET B
    <3>1. B \in SUBSET (w .. from - 1)
      OBVIOUS
    <3>2. x .. simple - 1 \subseteq w .. from - 1
      BY <2>1
    <3> HIDE DEF B
    <3>3. IsFiniteSet(B)
      BY <2>2, <3>1, FS_Subset
    <3> QED
      BY <3>2, <3>3 DEF B
  <2>4. w \in B /\ w \notin A
    BY <2>1
  <2> HIDE DEF A, B
  <2>5. Cardinality(A) = Cardinality(B)
    BY <2>1 DEF A, B
  <2>6. A = B
    BY <2>3, <2>5, FS_Subset
  <2> QED
    BY <2>4, <2>6
<1> QED
  BY <1>2, <1>3

(* A whole date is found.                                                  *)
LEMMA WholeDateComes ==
    ASSUME NEW start \in Nat, NEW t, IsTrigger(t), ~BadDate(t), FullDate(t)
    PROVE  NextSimpleTrig(start, t) \in Nat
<1> DEFINE j == DSE(t.y, t.m, t.d)
           x == NextSimpleTrig(start, t)
<1>1. /\ t.wd \in SUBSET Weekdays /\ t.d \in 1 .. 31 /\ t.m \in 0 .. 11 /\ t.m # NO_MON /\ t.d # NO_DAY
      /\ t.y # NO_YR /\ t.y \in Years
  BY DEF IsTrigger, FullDate, Years
<1>2. t.d <= DaysInMonth(t.m, t.y)
  <2>1. DaysInMonth(t.m, t.y) \in 28 .. 31
    BY <1>1, MonthsFillYear
  <2>2. ~(t.d > DaysInMonth(t.m, t.y))
    BY <1>1, Zenon DEF BadDate
  <2> QED
    BY <1>1, <2>1, <2>2
<1>3. j \in Nat
  BY <1>1, <1>2, DateSpecified
<1>4. x = IF t.wd = {} THEN j ELSE AdvanceToWd(j, t.wd)
  <2> DEFINE day == t.d # NO_DAY
             mon == t.m # NO_MON
             yr  == t.y # NO_YR
             wd  == t.wd # {}
             s   == FromDSE(start)
  <2>1. x = CASE ~day /\ ~mon /\ ~yr /\ ~wd -> start
            [] ~day /\ ~mon /\ ~yr /\ wd -> AdvanceToWd(start, t.wd)
            [] ~day /\ mon /\ ~yr /\ ~wd -> NextInMonth(start, s, t)
            [] ~day /\ ~mon /\ yr /\ ~wd -> NextInYear(start, s, t)
            [] ~day /\ ~mon /\ yr /\ wd -> NextWeekdayYear(start, s, t)
            [] ~day /\ mon /\ yr /\ ~wd -> NextMonthYear(start, s, t)
            [] ~day /\ mon /\ ~yr /\ wd -> NextWeekdayMonth(start, s, t)
            [] ~day /\ mon /\ yr /\ wd -> NextWeekdayMonthYear(start, s, t)
            [] day /\ ~mon /\ ~yr /\ ~wd -> NextDay(start, s, t)
            [] day /\ mon /\ ~yr /\ ~wd -> NextDayMonth(start, s, t)
            [] day /\ ~mon /\ yr /\ ~wd -> NextDayYear(start, s, t)
            [] day /\ mon /\ yr /\ ~wd -> j
            [] day /\ ~mon /\ ~yr /\ wd -> NextWeekdayDay(start, s, t)
            [] day /\ mon /\ ~yr /\ wd -> NextWeekdayDayMonth(start, s, t)
            [] day /\ ~mon /\ yr /\ wd -> NextWeekdayDayYear(start, s, t)
            [] day /\ mon /\ yr /\ wd -> AdvanceToWd(j, t.wd)
    BY Zenon DEF NextSimpleTrig, NextSimpleTrigFrom
  <2>2. day /\ mon /\ yr
    BY <1>1
  <2>3. wd <=> ~(t.wd = {})
    OBVIOUS
  <2> HIDE DEF day, mon, yr, wd, j, s, x
  <2>4. CASE wd
    <3>1. x = AdvanceToWd(j, t.wd)
      BY <2>1, <2>2, <2>4
    <3> QED
      BY <2>3, <2>4, <3>1
  <2>5. CASE ~wd
    <3>1. x = j
      BY <2>1, <2>2, <2>5
    <3> QED
      BY <2>3, <2>5, <3>1
  <2> QED
    BY <2>4, <2>5
<1> HIDE DEF j, x
<1>5. x \in Nat
  BY <1>1, <1>3, <1>4, AdvancesNoFarther
<1> QED
  BY <1>5 DEF x

(* The first repetition from the start on.                                 *)
LEMMA RepeatsFirst ==
    ASSUME NEW o, NEW t, IsTrigger(t), t.rep # 0, FullDate(t), ~BadDate(t),
           NEW simple \in Nat, Specified(t, simple), NEW first \in Int, IsBack(o, t, simple, first),
           Reach(t) \in Nat, NEW start \in Nat
    PROVE  LET x == Repeat(t, first, start)
           IN  /\ x \in Int /\ x >= start
               /\ \A w \in Int : w >= start /\ Repetition(o, t, w) => x <= w
<1> DEFINE x == Repeat(t, first, start)
           r == t.rep
<1>1. r \in Nat \ {0}
  BY DEF IsTrigger
<1>2. Origin(t) = simple
  BY OriginIsTheDay
<1>3. ASSUME NEW w \in Int, Repetition(o, t, w)
      PROVE  w >= first /\ (w - first) % r = 0
  <2>1. PICK f \in simple - Reach(t) .. simple :
            IsBack(o, t, simple, f) /\ w >= f /\ (w - f) % r = 0
    BY <1>2, <1>3, Zenon DEF Repetition
  <2>2. f \in Int /\ simple \in Int /\ simple <= simple
    BY <2>1
  <2>3. f <= first /\ first <= f
    BY <2>1, <2>2, BackKeepsOrder
  <2>4. f = first
    BY <2>2, <2>3
  <2> QED
    BY <2>1, <2>4
<1>4. CASE first >= start
  <2>1. x = first
    BY <1>4, Zenon DEF Repeat
  <2> QED
    BY <1>3, <1>4, <2>1
<1>5. CASE ~(first >= start)
  <2> DEFINE d == start - first
             e == r * ((d + r - 1) \div r)
  <2>1. x = first + e
    BY <1>1, <1>5, Zenon DEF Repeat
  <2>2. d \in Nat
    BY <1>5
  <2> HIDE DEF x, d, r
  <2>3. e \in Nat /\ e >= d /\ \A i \in Nat : i >= d /\ i % r = 0 => i >= e
    BY <1>1, <2>2, NextMultiple
  <2> HIDE DEF e
  <2>4. ASSUME NEW w \in Int, w >= start, Repetition(o, t, w) PROVE x <= w
    <3> DEFINE i == w - first
    <3>1. i \in Nat /\ i >= d /\ i % r = 0
      BY <1>3, <2>4 DEF d
    <3>2. i >= e
      BY <2>3, <3>1
    <3> QED
      BY <2>1, <2>3, <3>2
  <2>5. x \in Int /\ x >= start
    BY <2>1, <2>2, <2>3 DEF d
  <2> QED
    BY <2>4, <2>5 DEF x
<1> QED
  BY <1>4, <1>5

(* Moving from omitted days keeps the order of the days.                   *)
LEMMA MovesInOrder ==
    ASSUME NEW o, NEW t, IsTrigger(t), NEW y \in Int, NEW x \in Int,
           x = SkipOmitted(o, t, y), x # Failed
    PROVE  /\ t.skip # "BEFORE" => x >= y
           /\ t.skip \notin {"BEFORE", "AFTER"} => x = y
           /\ t.skip \in {"BEFORE", "AFTER"} => ~Omitted(o, t, x)
           /\ t.skip = "BEFORE" => x <= y /\ \A j \in x + 1 .. y : Omitted(o, t, j)
           /\ \A w \in Int, z \in Nat : w >= y /\ Moves(o, t, w, z) => x <= z
           /\ t.skip # "AFTER" => \A z \in Nat : Moves(o, t, y, z) => z = x
<1> DEFINE N == MaxSatIter
           B == {j \in y - N + 1 .. y : j >= 0 /\ ~Omitted(o, t, j)}
           A == {j \in y .. y + N - 1 : ~Omitted(o, t, j)}
<1>1. N \in Nat /\ N >= 1
  BY TriggersAssumption
<1>2. t.skip \in {"", "SKIP", "BEFORE", "AFTER"}
  BY DEF IsTrigger
<1>3. /\ t.skip = "BEFORE" => x = IF B = {} THEN Failed ELSE Max(B)
      /\ t.skip = "AFTER" => x = IF A = {} THEN Failed ELSE Min(A)
      /\ t.skip \notin {"BEFORE", "AFTER"} => x = y
  BY DEF SkipOmitted, LastOf, FirstOf
<1>4. CASE t.skip = "BEFORE"
  <2>1. x \in B /\ \A j \in B : x >= j
    <3> DEFINE M == y - N + 1
    <3>1. M \in Int /\ B \in SUBSET (M .. y)
      BY <1>1
    <3>2. B # {}
      BY <1>3, <1>4
    <3> HIDE DEF M, B
    <3>3. Max(B) \in B /\ \A j \in B : Max(B) >= j
      BY <3>1, <3>2, MaxOfInterval
    <3> QED
      BY <1>3, <1>4, <3>2, <3>3
  <2>2. x \in y - N + 1 .. y /\ x >= 0 /\ ~Omitted(o, t, x)
    BY <2>1
  <2>3. \A j \in x + 1 .. y : Omitted(o, t, j)
    <3> TAKE j \in x + 1 .. y
    <3>1. j \in y - N + 1 .. y /\ j >= 0 /\ ~(x >= j)
      BY <1>1, <2>2
    <3> QED
      BY <2>1, <3>1
  <2>4. ASSUME NEW w \in Int, NEW z \in Nat, Moves(o, t, w, z)
        PROVE  /\ w >= z /\ ~Omitted(o, t, z) /\ w < z + N
               /\ \A j \in z + 1 .. w : Omitted(o, t, j)
    <3>1. CASE w = z /\ (t.skip = "" \/ ~Omitted(o, t, z))
      <4>1. ~Omitted(o, t, z)
        BY <1>4, <3>1
      <4>2. w = z
        BY <3>1
      <4>3. w >= z /\ w < z + N
        BY <1>1, <4>2
      <4>4. \A j \in Int : ~(j >= z + 1 /\ j <= w)
        BY <4>2
      <4>5. \A j \in z + 1 .. w : Omitted(o, t, j)
        BY <4>4
      <4> QED
        BY <4>1, <4>3, <4>5
    <3>2. CASE z < w /\ w < z + N /\ ~Omitted(o, t, z) /\ \A j \in z + 1 .. w : Omitted(o, t, j)
      <4>1. w >= z
        BY <3>2
      <4> QED
        BY <3>2, <4>1
    <3> QED
      BY <1>4, <2>4, <3>1, <3>2, Zenon DEF Moves
  <2>5. ASSUME NEW w \in Int, NEW z \in Nat, w >= y, Moves(o, t, w, z) PROVE x <= z
    <3> SUFFICES ASSUME z < x PROVE FALSE
      BY <2>2
    <3>1. x \in z + 1 .. w
      BY <2>2, <2>5
    <3> QED
      BY <2>2, <2>4, <2>5, <3>1
  <2>6. ASSUME NEW z \in Nat, Moves(o, t, y, z) PROVE z = x
    <3>1. z \in y - N + 1 .. y /\ z >= 0 /\ ~Omitted(o, t, z)
      BY <1>1, <2>4, <2>6
    <3>2. x >= z
      BY <2>1, <3>1
    <3>3. x <= z
      BY <2>5, <2>6
    <3> QED
      BY <3>2, <3>3
  <2>7. x <= y
    BY <2>2
  <2> QED
    BY <1>4, <2>2, <2>3, <2>5, <2>6, <2>7
<1>5. CASE t.skip = "AFTER"
  <2>1. x \in A /\ \A j \in A : x <= j
    <3> DEFINE M == y + N - 1
    <3>1. M \in Int /\ A \in SUBSET (y .. M)
      BY <1>1
    <3>2. A # {}
      BY <1>3, <1>5
    <3> HIDE DEF M, A
    <3>3. Min(A) \in A /\ \A j \in A : Min(A) <= j
      BY <3>1, <3>2, MinOfInterval
    <3> QED
      BY <1>3, <1>5, <3>2, <3>3
  <2>2. x \in y .. y + N - 1 /\ ~Omitted(o, t, x) /\ x >= y
    BY <2>1
  <2>3. ASSUME NEW w \in Int, NEW z \in Nat, w >= y, Moves(o, t, w, z) PROVE x <= z
    <3>1. z >= w /\ ~Omitted(o, t, z)
      <4>1. CASE w = z /\ (t.skip = "" \/ ~Omitted(o, t, z))
        BY <1>5, <4>1
      <4>2. CASE w < z /\ ~Omitted(o, t, z)
        BY <4>2
      <4> QED
        BY <1>5, <2>3, <4>1, <4>2, Zenon DEF Moves
    <3>2. CASE z \in y .. y + N - 1
      BY <2>1, <3>1, <3>2
    <3>3. CASE z \notin y .. y + N - 1
      BY <1>1, <2>2, <2>3, <3>1, <3>3
    <3> QED
      BY <3>2, <3>3
  <2> QED
    BY <1>5, <2>2, <2>3
<1>6. CASE t.skip \notin {"BEFORE", "AFTER"}
  <2>1. x = y
    BY <1>3, <1>6
  <2>2. \A w, z : Moves(o, t, w, z) => w = z
    BY <1>6, Zenon DEF Moves
  <2> QED
    BY <1>6, <2>1, <2>2
<1> QED
  BY <1>2, <1>4, <1>5, <1>6

(* The ways GetNextTriggerDate ends.                                       *)
LEMMA NextDateUnfolds ==
    ASSUME NEW o, NEW t, ~BadDate(t), NEW start
    PROVE  LET r      == GetNextTriggerDate(o, t, start)
               from   == ScanStart(o, t, start)
               simple == NextSimpleTrig(from, t)
               backed == BackUp(o, t, simple)
               date   == SkipOmitted(o, t, Repeat(t, backed, from))
           IN  \/ r = No(Failed)
               \/ r = No(Expired) /\ t.until # NO_UNTIL /\ t.until < start
               \/ r = No(Expired) /\ from # Failed /\ simple = Expired
               \/ /\ from # Failed /\ simple # Expired /\ backed # Failed /\ date # Failed
                  /\ \/ r = No(Expired) /\ t.until # NO_UNTIL /\ date > t.until
                     \/ r = [date |-> date, next |-> simple + 1]
<1> DEFINE r      == GetNextTriggerDate(o, t, start)
           from   == ScanStart(o, t, start)
           simple == NextSimpleTrig(from, t)
           backed == BackUp(o, t, simple)
           date   == SkipOmitted(o, t, Repeat(t, backed, from))
<1>1. (r = No(Expired) /\ t.until # NO_UNTIL /\ t.until < start) \/ r = FromStart(o, t, from)
  BY Zenon DEF GetNextTriggerDate
<1>2. \/ FromStart(o, t, from) = No(Failed)
      \/ from # Failed /\ FromStart(o, t, from) = FromSimple(o, t, from, simple)
  BY Zenon DEF FromStart
<1>3. \/ FromSimple(o, t, from, simple) = No(Expired) /\ simple = Expired
      \/ simple # Expired /\ FromSimple(o, t, from, simple) = FromBacked(o, t, from, backed, simple + 1)
  BY Zenon DEF FromSimple
<1>4. \/ FromBacked(o, t, from, backed, simple + 1) = No(Failed)
      \/ backed # Failed /\ FromBacked(o, t, from, backed, simple + 1) = NotAfterUntil(t, date, simple + 1)
  BY Zenon DEF FromBacked
<1>5. \/ NotAfterUntil(t, date, simple + 1) = No(Failed)
      \/ date # Failed /\ NotAfterUntil(t, date, simple + 1) = No(Expired) /\ t.until # NO_UNTIL /\ date > t.until
      \/ date # Failed /\ NotAfterUntil(t, date, simple + 1) = [date |-> date, next |-> simple + 1]
  BY Zenon DEF NotAfterUntil
<1> HIDE DEF r, from, simple, backed, date
<1> QED
  BY <1>1, <1>2, <1>3, <1>4, <1>5, Zenon DEF r, from, simple, backed, date

\* Nothing that is due is lost when the scan goes on from n.
DueFrom(o, t, today, z) == z >= today /\ Occurs(o, t, z)

Left(o, t, today, n) ==
    /\ n >= today
    /\ t.skip = "AFTER" \/ BadDate(t) => n = today
    /\ t.skip # "AFTER" /\ t.rep # 0 => \A z \in Nat : DueFrom(o, t, today, z) => z >= n
    /\ t.skip # "AFTER" /\ t.rep = 0 =>
          /\ \A z \in Nat : DueFrom(o, t, today, z) =>
                \E from \in Nat, w \in Int : /\ from >= n /\ Specified(t, from)
                                             /\ IsBack(o, t, from, w) /\ Moves(o, t, w, z)
          /\ t.skip = "BEFORE" /\ t.back = 0 => \A j \in today .. n - 1 : Omitted(o, t, j)

\* An attempt at n fails, finds the first day that is due, or loses none of them.
Decided(o, t, today, n) ==
    LET r == GetNextTriggerDate(o, t, n)
    IN  r.date # Failed =>
        \A z \in Nat : DueFrom(o, t, today, z) =>
           /\ r.date # Expired
           /\ Acceptable(o, t, r.date, today) => r.date <= z
           /\ ~Acceptable(o, t, r.date, today) =>
                 ~IsSimple(t) /\ NextStart(o, t, r, n) > n /\ Left(o, t, today, NextStart(o, t, r, n))

(* The days that are due from today on are left when the scan starts.      *)
LEMMA NothingLostAtFirst ==
    ASSUME NEW o, NEW t, IsTrigger(t), NEW today \in Nat
    PROVE  Left(o, t, today, today)
<1>1. ASSUME t.skip # "AFTER", t.rep = 0, NEW z \in Nat, DueFrom(o, t, today, z)
      PROVE  \E from \in Nat, w \in Int : /\ from >= today /\ Specified(t, from)
                                          /\ IsBack(o, t, from, w) /\ Moves(o, t, w, z)
  <2>1. z >= today /\ Occurs(o, t, z) /\ z \in Int
    BY <1>1 DEF DueFrom
  <2>2. PICK w \in Int : Repetition(o, t, w) /\ Moves(o, t, w, z)
    BY <2>1, OccursMoved
  <2>3. Base(o, t, w)
    BY <1>1, <2>2, Zenon DEF Repetition
  <2>4. PICK from \in w .. w + Reach(t) : Specified(t, from) /\ IsBack(o, t, from, w)
    BY <2>3, Zenon DEF Base
  <2>5. w >= z
    <3>1. w = z \/ z < w
      BY <1>1, <2>2, Zenon DEF Moves
    <3> QED
      BY <3>1
  <2>6. from \in Nat /\ from >= today
    <3>1. from \in Int /\ from >= w
      BY <2>4
    <3> QED
      BY <2>1, <2>5, <3>1
  <2> QED
    BY <2>2, <2>4, <2>6
<1>2. \A j \in today .. today - 1 : Omitted(o, t, j)
  <2>1. \A j \in Int : ~(j >= today /\ j <= today - 1)
    OBVIOUS
  <2> QED
    BY <2>1
<1>3. today >= today /\ \A z \in Nat : DueFrom(o, t, today, z) => z >= today
  BY DEF DueFrom
<1> QED
  BY <1>1, <1>2, <1>3, Zenon DEF Left

(* An attempt, for a reminder that does not repeat.                        *)
LEMMA DecidedOnce ==
    ASSUME NEW o, NEW t, IsTrigger(t), ~BadDate(t), ~Diverges(t), t.rep = 0, t.skip # "AFTER",
           NEW today \in Nat, today >= Reach(t), NEW n \in Nat, Left(o, t, today, n)
    PROVE  Decided(o, t, today, n)
<1> DEFINE r  == GetNextTriggerDate(o, t, n)
           x0 == NextSimpleTrig(n, t)
           x1 == BackUp(o, t, x0)
           x  == SkipOmitted(o, t, x1)
           k  == NextStart(o, t, r, n)
           Due(z) == DueFrom(o, t, today, z)
           Comes(z, f, w) == Specified(t, f) /\ IsBack(o, t, f, w) /\ Moves(o, t, w, z)
<1>1. /\ n >= today
      /\ \A z \in Nat : Due(z) => \E f \in Nat, w \in Int : f >= n /\ Comes(z, f, w)
      /\ t.skip = "BEFORE" /\ t.back = 0 => \A j \in today .. n - 1 : Omitted(o, t, j)
  BY Zenon DEF Left
<1>2. t.back \in Int /\ t.until \in Int /\ t.skip \in {"", "SKIP", "BEFORE", "AFTER"}
  BY DEF IsTrigger
<1>3. ~Mismeasured(t) /\ (t.until # NO_UNTIL => t.back = 0)
  BY Zenon DEF Diverges, Mismeasured
<1>4. \A z : Due(z) => z >= today /\ Occurs(o, t, z)
  BY Zenon DEF DueFrom
<1>5. ScanStart(o, t, n) = n
  BY Zenon DEF ScanStart
<1>6. \A y : Repeat(t, y, n) = y
  BY Zenon DEF Repeat
<1>7. Sound(t, x0) /\ Ahead(t, n, x0) /\ NoneBefore(t, n, x0)
  BY <1>3, NextSimpleTrigFinds
<1>8. \/ r = No(Failed)
      \/ r = No(Expired) /\ t.until # NO_UNTIL /\ t.until < n
      \/ r = No(Expired) /\ x0 = Expired
      \/ /\ x0 # Expired /\ x1 # Failed /\ x # Failed
         /\ \/ r = No(Expired) /\ t.until # NO_UNTIL /\ x > t.until
            \/ r = [date |-> x, next |-> x0 + 1]
  <2> DEFINE from   == ScanStart(o, t, n)
             simple == NextSimpleTrig(from, t)
             backed == BackUp(o, t, simple)
             date   == SkipOmitted(o, t, Repeat(t, backed, from))
  <2>1. \/ r = No(Failed)
        \/ r = No(Expired) /\ t.until # NO_UNTIL /\ t.until < n
        \/ r = No(Expired) /\ from # Failed /\ simple = Expired
        \/ /\ from # Failed /\ simple # Expired /\ backed # Failed /\ date # Failed
           /\ \/ r = No(Expired) /\ t.until # NO_UNTIL /\ date > t.until
              \/ r = [date |-> date, next |-> simple + 1]
    BY NextDateUnfolds
  <2>2. simple = x0 /\ backed = x1 /\ date = x
    BY <1>5, <1>6, Zenon
  <2> HIDE DEF from, simple, backed, date, x0, x1, x, r
  <2> QED
    BY <2>1, <2>2
<1>9. No(Failed).date = Failed
  BY DEF No
<1> SUFFICES ASSUME r.date # Failed, NEW z \in Nat, Due(z)
             PROVE  /\ r.date # Expired
                    /\ Acceptable(o, t, r.date, today) => r.date <= z
                    /\ ~Acceptable(o, t, r.date, today) => ~IsSimple(t) /\ k > n /\ Left(o, t, today, k)
  BY Zenon DEF Decided
<1> HIDE DEF r, x0, x1, x, k, Due
<1>10. PICK f \in Nat, w \in Int : f >= n /\ Comes(z, f, w)
  BY <1>1
<1>11. x0 \in Nat /\ Specified(t, x0) /\ x0 # Expired
       /\ \A g \in Nat : g >= n /\ Specified(t, g) => x0 <= g
  BY <1>7, <1>10 DEF Sound, NoneBefore
<1>12. x0 >= n
  <2>1. CASE FullDate(t)
    <3>1. f = x0
      BY <1>10, <1>11, <2>1, OriginIsTheDay
    <3> QED
      BY <1>10, <3>1
  <2>2. CASE ~FullDate(t)
    BY <1>7, <1>11, <2>2 DEF Ahead
  <2> QED
    BY <2>1, <2>2
<1>13. ~(t.until # NO_UNTIL /\ t.until < n)
  <2> SUFFICES ASSUME t.until # NO_UNTIL, t.until < n PROVE FALSE
    OBVIOUS
  <2>1. t.back = 0 /\ z <= t.until /\ z >= today
    <3>1. z \in Int
      OBVIOUS
    <3> QED
      BY <1>3, <1>4, <3>1, OccursMoved
  <2>2. w = f
    <3>1. w = f + 0
      BY <1>10, <2>1 DEF IsBack
    <3> QED
      BY <3>1
  <2>3. w # z /\ z \in today .. n - 1
    <3> DEFINE u == t.until
    <3>1. u \in Int /\ u < n /\ z <= u
      BY <1>2, <2>1
    <3>2. f >= n
      BY <1>10
    <3> HIDE DEF u
    <3> QED
      BY <2>1, <2>2, <3>1, <3>2
  <2>4. t.skip = "BEFORE" /\ ~Omitted(o, t, z)
    BY <1>10, <2>3, Zenon DEF Moves
  <2> QED
    BY <1>1, <2>1, <2>3, <2>4
<1>14. /\ x0 # Expired /\ x1 # Failed /\ x # Failed
       /\ \/ r = No(Expired) /\ t.until # NO_UNTIL /\ x > t.until
          \/ r = [date |-> x, next |-> x0 + 1]
  BY <1>8, <1>9, <1>11, <1>13
<1>15. x1 \in Int /\ IsBack(o, t, x0, x1) /\ Reach(t) \in Nat /\ x1 \in x0 - Reach(t) .. x0
  BY <1>11, <1>14, BacksUp DEF x1
<1>16. (t.back = 0 => x1 = x0) /\ x1 >= 0
  <2>1. t.back = 0 => x1 = x0 + 0
    BY <1>15 DEF IsBack
  <2> QED
    BY <1>1, <1>11, <1>12, <1>15, <2>1
<1>17. x \in Int
  <2>1. Repetition(o, t, x1)
    <3>1. x0 \in x1 .. x1 + Reach(t)
      BY <1>11, <1>15
    <3> QED
      BY <1>11, <1>15, <3>1, Zenon DEF Repetition, Base
  <2> QED
    BY <1>15, <2>1, SkipsOmitted DEF x
<1>18. /\ t.skip \notin {"BEFORE", "AFTER"} => x = x1
       /\ t.skip = "BEFORE" => x <= x1 /\ \A j \in x + 1 .. x1 : Omitted(o, t, j)
       /\ \A v \in Int, i \in Nat : v >= x1 /\ Moves(o, t, v, i) => x <= i
       /\ \A i \in Nat : Moves(o, t, x1, i) => i = x
  BY <1>14, <1>15, <1>17, MovesInOrder DEF x
<1>19. x <= z
  <2>1. x1 <= w
    <3>1. x0 <= f
      BY <1>10, <1>11
    <3> QED
      BY <1>10, <1>11, <1>15, <3>1, BackKeepsOrder
  <2>2. w >= x1
    BY <1>15, <2>1
  <2> QED
    BY <1>10, <1>18, <2>2
<1>20. r.date = x /\ r.next = x0 + 1
  <2>1. z \in Int
    OBVIOUS
  <2>2. t.until # NO_UNTIL => z <= t.until
    BY <1>4, <2>1, OccursMoved
  <2>3. ~(t.until # NO_UNTIL /\ x > t.until)
    <3> DEFINE u == t.until
    <3>1. u \in Int /\ (u # NO_UNTIL => z <= u)
      BY <1>2, <2>2
    <3> HIDE DEF u
    <3>2. ~(u # NO_UNTIL /\ x > u)
      BY <1>17, <1>19, <3>1
    <3> QED
      BY <3>2 DEF u
  <2>4. r = [date |-> x, next |-> x0 + 1]
    BY <1>14, <2>3
  <2> QED
    BY <2>4
<1>21. x # Expired
  <2>1. t.skip = "BEFORE" => x >= 0
    <3>1. t.skip = "BEFORE" => x = LastOf({j \in x1 - MaxSatIter + 1 .. x1 : j >= 0 /\ ~Omitted(o, t, j)})
      BY DEF SkipOmitted, x
    <3> DEFINE M == x1 - MaxSatIter + 1
               B == {j \in M .. x1 : j >= 0 /\ ~Omitted(o, t, j)}
    <3>2. M \in Int /\ B \in SUBSET (M .. x1) /\ \A j \in B : j >= 0
      BY <1>15, TriggersAssumption
    <3>3. t.skip = "BEFORE" => B # {} /\ x = Max(B)
      BY <1>14, <3>1, Zenon DEF LastOf
    <3> HIDE DEF M, B
    <3>4. B # {} => Max(B) \in B
      BY <1>15, <3>2, MaxOfInterval
    <3> QED
      BY <3>2, <3>3, <3>4
  <2>2. t.skip # "BEFORE" => x >= 0
    BY <1>2, <1>16, <1>18
  <2> QED
    BY <2>1, <2>2 DEF Expired
<1>22. ASSUME ~Acceptable(o, t, x, today)
       PROVE  ~IsSimple(t) /\ k > n /\ Left(o, t, today, k)
  <2>1. x < today \/ (t.skip = "SKIP" /\ Omitted(o, t, x))
    <3>1. ~(x >= today) \/ (t.skip = "SKIP" /\ Omitted(o, t, x))
      BY <1>22, Zenon DEF Acceptable, SkippedDate
    <3> QED
      BY <1>17, <3>1
  <2>2. ~IsSimple(t)
    <3>1. t.back = 0 /\ t.skip = "" => x = x0
      BY <1>16, <1>18
    <3>2. ~(x0 < today)
      BY <1>1, <1>11, <1>12
    <3>3. t.skip = "" => t.skip # "SKIP"
      OBVIOUS
    <3> QED
      BY <2>1, <3>1, <3>2, <3>3, Zenon DEF IsSimple
  <2>3. k = x0 + 1
    <3>1. ~(r.next <= n)
      BY <1>11, <1>12, <1>20
    <3> QED
      BY <1>20, <3>1, Zenon DEF k, NextStart
  <2>4. ASSUME NEW i \in Nat, Due(i)
        PROVE  \E g \in Nat, v \in Int : g >= k /\ Comes(i, g, v)
    <3>1. PICK g \in Nat, v \in Int : g >= n /\ Comes(i, g, v)
      BY <1>1, <2>4
    <3>2. g # x0
      <4> SUFFICES ASSUME g = x0 PROVE FALSE
        OBVIOUS
      <4>1. x0 <= x0 /\ x0 \in Int
        BY <1>11
      <4>2. v <= x1 /\ x1 <= v
        BY <1>15, <3>1, <4>1, BackKeepsOrder
      <4>3. v = x1
        BY <1>15, <4>2
      <4>4. i = x
        BY <1>18, <3>1, <4>3
      <4>5. i >= today
        BY <1>4, <2>4
      <4>6. t.skip = "SKIP" /\ Omitted(o, t, i)
        BY <1>17, <2>1, <4>4, <4>5
      <4> QED
        BY <3>1, <4>6, Zenon DEF Moves
    <3>3. g >= k
      BY <1>11, <2>3, <3>1, <3>2
    <3> QED
      BY <3>1, <3>3
  <2>5. ASSUME t.skip = "BEFORE", t.back = 0, NEW j \in today .. k - 1 PROVE Omitted(o, t, j)
    <3>1. j \in x + 1 .. x1
      BY <1>11, <1>16, <1>17, <2>1, <2>3, <2>5
    <3> QED
      BY <1>18, <2>5, <3>1
  <2>6. k > n /\ k >= today
    BY <1>1, <1>11, <1>12, <2>3
  <2> HIDE DEF Comes
  <2>7. Left(o, t, today, k)
    BY <2>4, <2>5, <2>6, Zenon DEF Left, Comes, Due
  <2> QED
    BY <2>2, <2>6, <2>7
<1> QED
  BY <1>19, <1>20, <1>21, <1>22

(* An attempt, for a reminder that repeats.                                *)
LEMMA DecidedRepeated ==
    ASSUME NEW o, NEW t, IsTrigger(t), ~BadDate(t), ~Diverges(t), t.rep # 0, FullDate(t), t.skip # "AFTER",
           NEW today \in Nat, NEW n \in Nat, Left(o, t, today, n)
    PROVE  Decided(o, t, today, n)
<1> DEFINE r  == GetNextTriggerDate(o, t, n)
           x0 == NextSimpleTrig(n, t)
           x1 == BackUp(o, t, x0)
           y  == Repeat(t, x1, n)
           x  == SkipOmitted(o, t, y)
           k  == NextStart(o, t, r, n)
           Due(z) == DueFrom(o, t, today, z)
<1>1. n >= today /\ \A z \in Nat : Due(z) => z >= n
  BY Zenon DEF Left
<1>2. t.until \in Int /\ t.skip \in {"", "SKIP", "BEFORE", "AFTER"}
  BY DEF IsTrigger
<1>3. t.skip # "BEFORE" /\ (t.skip = "SKIP" => t.back = 0)
  BY Zenon DEF Diverges
<1>4. \A z : Due(z) => z >= today /\ Occurs(o, t, z)
  BY Zenon DEF DueFrom
<1>5. ScanStart(o, t, n) = n
  BY Zenon DEF ScanStart
<1>6. x0 \in Nat /\ x0 # Expired /\ Specified(t, x0)
  <2>1. Sound(t, x0)
    BY NextSimpleTrigFinds
  <2>2. x0 \in Nat
    BY WholeDateComes
  <2> HIDE DEF x0
  <2> QED
    BY <2>1, <2>2 DEF Sound, Expired
<1>7. \/ r = No(Failed)
      \/ r = No(Expired) /\ t.until # NO_UNTIL /\ t.until < n
      \/ r = No(Expired) /\ x0 = Expired
      \/ /\ x0 # Expired /\ x1 # Failed /\ x # Failed
         /\ \/ r = No(Expired) /\ t.until # NO_UNTIL /\ x > t.until
            \/ r = [date |-> x, next |-> x0 + 1]
  BY <1>5, NextDateUnfolds, Zenon
<1>8. No(Failed).date = Failed
  BY DEF No
<1> SUFFICES ASSUME r.date # Failed, NEW z \in Nat, Due(z)
             PROVE  /\ r.date # Expired
                    /\ Acceptable(o, t, r.date, today) => r.date <= z
                    /\ ~Acceptable(o, t, r.date, today) => ~IsSimple(t) /\ k > n /\ Left(o, t, today, k)
  BY Zenon DEF Decided
<1> HIDE DEF r, x0, x1, y, x, k, Due
<1>9. t.until # NO_UNTIL => z <= t.until
  <2>1. z \in Int
    OBVIOUS
  <2> QED
    BY <1>4, <2>1, OccursMoved
<1>10. ~(t.until # NO_UNTIL /\ t.until < n)
  <2> DEFINE u == t.until
  <2>1. u \in Int /\ (u # NO_UNTIL => z <= u) /\ z >= n
    BY <1>1, <1>2, <1>9
  <2> HIDE DEF u
  <2>2. ~(u # NO_UNTIL /\ u < n)
    BY <2>1
  <2> QED
    BY <2>2 DEF u
<1>11. /\ x1 # Failed /\ x # Failed
       /\ \/ r = No(Expired) /\ t.until # NO_UNTIL /\ x > t.until
          \/ r = [date |-> x, next |-> x0 + 1]
  BY <1>6, <1>7, <1>8, <1>10
<1>12. x1 \in Int /\ IsBack(o, t, x0, x1) /\ Reach(t) \in Nat
  BY <1>6, <1>11, BacksUp DEF x1
<1>13. /\ y \in Int /\ y >= n
       /\ \A w \in Int : w >= n /\ Repetition(o, t, w) => y <= w
  BY <1>6, <1>12, RepeatsFirst DEF y
<1>14. x = y
  BY <1>3, <1>2, Zenon DEF x, SkipOmitted
<1>15. ASSUME NEW i \in Nat, Due(i)
       PROVE  x <= i /\ (t.skip = "" \/ ~Omitted(o, t, i))
  <2>1. i \in Int /\ i >= n /\ Occurs(o, t, i)
    BY <1>1, <1>4, <1>15
  <2>2. PICK w \in Int : Repetition(o, t, w) /\ Moves(o, t, w, i)
    BY <2>1, OccursMoved
  <2>3. w = i /\ (t.skip = "" \/ ~Omitted(o, t, i))
    BY <1>3, <2>2, Zenon DEF Moves
  <2> QED
    BY <1>13, <1>14, <2>1, <2>2, <2>3
<1>16. r.date = x /\ r.next = x0 + 1
  <2>1. ~(t.until # NO_UNTIL /\ x > t.until)
    <3> DEFINE u == t.until
    <3>1. u \in Int /\ (u # NO_UNTIL => z <= u) /\ x <= z /\ x \in Int
      BY <1>2, <1>9, <1>13, <1>14, <1>15
    <3> HIDE DEF u
    <3>2. ~(u # NO_UNTIL /\ x > u)
      BY <3>1
    <3> QED
      BY <3>2 DEF u
  <2>2. r = [date |-> x, next |-> x0 + 1]
    BY <1>11, <2>1
  <2> QED
    BY <2>2
<1>17. x \in Nat /\ x >= n /\ x >= today
  BY <1>1, <1>13, <1>14
<1>18. ASSUME ~Acceptable(o, t, x, today)
       PROVE  ~IsSimple(t) /\ k > n /\ Left(o, t, today, k)
  <2>1. t.skip = "SKIP" /\ Omitted(o, t, x) /\ SkippedDate(o, t, x)
    BY <1>17, <1>18, Zenon DEF Acceptable, SkippedDate
  <2>2. ~IsSimple(t)
    BY <2>1 DEF IsSimple
  <2>3. k = x + 1
    <3>1. k = IF x0 + 1 <= n THEN x + 1 ELSE x0 + 1
      BY <1>16, <1>17, <2>1, Zenon DEF k, NextStart
    <3>2. x1 = x0
      <4>1. x1 = x0 + t.back /\ t.back = 0
        BY <1>3, <1>12, <2>1 DEF IsBack
      <4> QED
        BY <1>6, <4>1
    <3>3. x0 >= n => y = x0
      BY <3>2, Zenon DEF y, Repeat
    <3> QED
      BY <1>6, <1>14, <3>1, <3>3
  <2>4. \A i \in Nat : Due(i) => i >= k
    <3> TAKE i \in Nat
    <3>1. Due(i) => x <= i /\ i # x
      BY <1>15, <2>1
    <3> QED
      BY <1>17, <2>3, <3>1
  <2>5. k > n /\ k >= today
    BY <1>17, <2>3
  <2>6. Left(o, t, today, k)
    BY <2>4, <2>5, Zenon DEF Left, Due
  <2> QED
    BY <2>2, <2>5, <2>6
<1>19. x # Expired
  BY <1>17 DEF Expired
<1>20. x <= z
  BY <1>15, Zenon
<1> QED
  BY <1>16, <1>18, <1>19, <1>20, Zenon

(* The only attempt, for a reminder that moves behind a block of omitted days. *)
LEMMA DecidedAfter ==
    ASSUME NEW o, NEW t, IsTrigger(t), ~BadDate(t), ~Diverges(t), t.rep # 0 => FullDate(t), t.skip = "AFTER",
           NEW today \in Nat
    PROVE  Decided(o, t, today, today)
<1> DEFINE r  == GetNextTriggerDate(o, t, today)
           s  == ScanStart(o, t, today)
           x0 == NextSimpleTrig(s, t)
           x1 == BackUp(o, t, x0)
           y  == Repeat(t, x1, s)
           x  == SkipOmitted(o, t, y)
           Due(z) == DueFrom(o, t, today, z)
<1>1. t.until \in Int /\ t.rep \in Nat
  BY DEF IsTrigger
<1>2. t.back = 0 /\ ~Mismeasured(t)
  BY Zenon DEF Diverges, Mismeasured
<1>3. \A z : Due(z) => z >= today /\ Occurs(o, t, z)
  BY Zenon DEF DueFrom
<1>4. \/ r = No(Failed)
      \/ r = No(Expired) /\ t.until # NO_UNTIL /\ t.until < today
      \/ r = No(Expired) /\ s # Failed /\ x0 = Expired
      \/ /\ s # Failed /\ x0 # Expired /\ x1 # Failed /\ x # Failed
         /\ \/ r = No(Expired) /\ t.until # NO_UNTIL /\ x > t.until
            \/ r = [date |-> x, next |-> x0 + 1]
  BY NextDateUnfolds, Zenon
<1>5. No(Failed).date = Failed
  BY DEF No
\* The days from s to today are omitted, and the one before is not.
<1>6. s # Failed => /\ s \in Nat /\ s <= today /\ ~Omitted(o, t, s - 1)
                    /\ \A j \in s .. today - 1 : Omitted(o, t, j)
  <2> DEFINE M == today - MaxSatIter + 1
             S == {j \in M .. today : j >= 0 /\ ~Omitted(o, t, j - 1)}
  <2>1. M \in Int /\ S \in SUBSET (M .. today)
    BY TriggersAssumption
  <2>2. s = IF S = {} THEN Failed ELSE Max(S)
    BY Zenon DEF ScanStart, BlockStart, LastOf
  <2> SUFFICES ASSUME s # Failed
               PROVE  /\ s \in Nat /\ s <= today /\ ~Omitted(o, t, s - 1)
                      /\ \A j \in s .. today - 1 : Omitted(o, t, j)
    OBVIOUS
  <2>3. s \in S /\ \A j \in S : s >= j
    <3> HIDE DEF s, S, M
    <3>1. S # {} => Max(S) \in S /\ \A j \in S : Max(S) >= j
      BY <2>1, MaxOfInterval
    <3> QED
      BY <2>2, <3>1
  <2> HIDE DEF s
  <2>4. s \in Nat /\ s <= today /\ s >= M /\ ~Omitted(o, t, s - 1)
    BY <2>1, <2>3
  <2>5. ASSUME NEW j \in s .. today - 1 PROVE Omitted(o, t, j)
    <3>1. j + 1 \in M .. today /\ j + 1 >= 0 /\ ~(s >= j + 1) /\ (j + 1) - 1 = j
      BY <2>1, <2>4
    <3>2. ~Omitted(o, t, j) => j + 1 \in S
      BY <3>1
    <3> QED
      BY <2>3, <3>1, <3>2
  <2> QED
    BY <2>4, <2>5
<1> SUFFICES ASSUME r.date # Failed, NEW z \in Nat, Due(z)
             PROVE  r.date # Expired /\ Acceptable(o, t, r.date, today) /\ r.date <= z
  BY Zenon DEF Decided
<1> HIDE DEF r, s, x0, x1, y, x, Due
<1>7. z >= today /\ z \in Int /\ (t.until # NO_UNTIL => z <= t.until)
  <2>1. z \in Int
    OBVIOUS
  <2> QED
    BY <1>3, <2>1, OccursMoved
<1>8. ~(t.until # NO_UNTIL /\ t.until < today)
  <2> DEFINE u == t.until
  <2>1. u \in Int /\ (u # NO_UNTIL => z <= u)
    BY <1>1, <1>7
  <2> HIDE DEF u
  <2>2. ~(u # NO_UNTIL /\ u < today)
    BY <1>7, <2>1
  <2> QED
    BY <2>2 DEF u
<1>9. s # Failed
  BY <1>4, <1>5, <1>8
<1>10. PICK w \in Int : Repetition(o, t, w) /\ Moves(o, t, w, z)
  BY <1>3, <1>7, OccursMoved
<1>11. w >= s
  <2>1. CASE w = z
    BY <1>6, <1>7, <1>9, <2>1
  <2>2. CASE w # z
    <3>1. w < z /\ \A j \in w .. z - 1 : Omitted(o, t, j)
      BY <1>10, <2>2, Zenon DEF Moves
    <3> SUFFICES ASSUME w < s PROVE FALSE
      BY <1>6, <1>9
    <3>2. s - 1 \in w .. z - 1
      BY <1>6, <1>7, <1>9, <3>1
    <3> QED
      BY <1>6, <1>9, <3>1, <3>2
  <2> QED
    BY <2>1, <2>2
<1>12. Sound(t, x0) /\ Ahead(t, s, x0) /\ NoneBefore(t, s, x0)
  BY <1>2, <1>6, <1>9, NextSimpleTrigFinds DEF x0
<1>13. t.rep = 0 => w \in Nat /\ Specified(t, w)
  <2> SUFFICES ASSUME t.rep = 0 PROVE w \in Nat /\ Specified(t, w)
    OBVIOUS
  <2>1. Base(o, t, w)
    BY <1>10, Zenon DEF Repetition
  <2>2. PICK f \in w .. w + Reach(t) : Specified(t, f) /\ IsBack(o, t, f, w)
    BY <2>1, Zenon DEF Base
  <2>3. w = f + 0
    BY <1>2, <2>2 DEF IsBack
  <2>4. f \in Int
    BY <2>2
  <2> QED
    BY <1>6, <1>9, <1>11, <2>2, <2>3, <2>4
<1>14. x0 \in Nat /\ Specified(t, x0) /\ x0 # Expired
  <2>1. CASE t.rep = 0
    BY <1>11, <1>12, <1>13, <2>1 DEF Sound, NoneBefore
  <2>2. CASE t.rep # 0
    <3>1. x0 \in Nat
      BY <1>6, <1>9, <2>2, WholeDateComes DEF x0
    <3> QED
      BY <1>12, <3>1 DEF Sound, Expired
  <2> QED
    BY <2>1, <2>2
<1>15. /\ s # Failed /\ x1 # Failed /\ x # Failed
       /\ \/ r = No(Expired) /\ t.until # NO_UNTIL /\ x > t.until
          \/ r = [date |-> x, next |-> x0 + 1]
  BY <1>4, <1>5, <1>8, <1>14
<1>16. x1 \in Int /\ IsBack(o, t, x0, x1) /\ Reach(t) \in Nat
  BY <1>14, <1>15, BacksUp DEF x1
<1>17. x1 = x0
  <2>1. x1 = x0 + 0
    BY <1>2, <1>16 DEF IsBack
  <2> QED
    BY <1>14, <2>1
<1>18. y \in Int /\ y >= s /\ y <= w
  <2>1. CASE t.rep = 0
    <3>1. y = x0
      BY <1>17, <2>1, Zenon DEF y, Repeat
    <3>2. x0 <= w
      BY <1>11, <1>12, <1>13, <2>1 DEF NoneBefore
    <3>3. x0 >= s
      <4>1. CASE FullDate(t)
        <5>1. x0 = w
          BY <1>13, <1>14, <2>1, <4>1, OriginIsTheDay
        <5> QED
          BY <1>11, <5>1
      <4>2. CASE ~FullDate(t)
        BY <1>12, <1>14, <4>2 DEF Ahead
      <4> QED
        BY <4>1, <4>2
    <3> QED
      BY <1>14, <3>1, <3>2, <3>3
  <2>2. CASE t.rep # 0
    BY <1>6, <1>9, <1>10, <1>11, <1>14, <1>16, <2>2, RepeatsFirst DEF y
  <2> QED
    BY <2>1, <2>2
<1>19. x \in Int
  <2>1. CASE t.rep = 0
    <3>1. y = x0
      BY <1>17, <2>1, Zenon DEF y, Repeat
    <3>2. x0 \in x0 .. x0 + Reach(t)
      BY <1>14, <1>16
    <3>3. Repetition(o, t, y)
      BY <1>14, <1>16, <1>17, <2>1, <3>1, <3>2, Zenon DEF Repetition, Base
    <3> QED
      BY <1>18, <3>3, SkipsOmitted DEF x
  <2>2. CASE t.rep # 0
    <3>1. x1 \in x0 - Reach(t) .. x0
      BY <1>14, <1>16, <1>17
    <3>2. Repetition(o, t, y)
      BY <1>6, <1>9, <1>14, <1>16, <2>2, <3>1, Repeats DEF y
    <3> QED
      BY <1>18, <3>2, SkipsOmitted DEF x
  <2> QED
    BY <2>1, <2>2
<1>20. x >= y /\ ~Omitted(o, t, x) /\ x <= z
  <2>1. t.skip # "BEFORE" /\ t.skip \in {"BEFORE", "AFTER"} /\ w >= y
    BY <1>18
  <2> QED
    BY <1>10, <1>15, <1>18, <1>19, <2>1, MovesInOrder DEF x
<1>21. x >= today
  <2> SUFFICES ASSUME ~(x >= today) PROVE FALSE
    OBVIOUS
  <2>1. x \in s .. today - 1
    BY <1>6, <1>9, <1>18, <1>19, <1>20
  <2> QED
    BY <1>6, <1>9, <1>20, <2>1
<1>22. r.date = x
  <2>1. ~(t.until # NO_UNTIL /\ x > t.until)
    <3> DEFINE u == t.until
    <3>1. u \in Int /\ (u # NO_UNTIL => z <= u)
      BY <1>1, <1>7
    <3> HIDE DEF u
    <3>2. ~(u # NO_UNTIL /\ x > u)
      BY <1>19, <1>20, <3>1
    <3> QED
      BY <3>2 DEF u
  <2>2. r = [date |-> x, next |-> x0 + 1]
    BY <1>15, <2>1
  <2> QED
    BY <2>2
<1>23. Acceptable(o, t, x, today)
  <2>1. ~SkippedDate(o, t, x)
    BY DEF SkippedDate
  <2> QED
    BY <1>21, <2>1, Zenon DEF Acceptable
<1>24. x # Expired
  BY <1>19, <1>21 DEF Expired
<1> QED
  BY <1>20, <1>22, <1>23, <1>24

(* The only attempt at a date that does not exist.                         *)
LEMMA DecidedBad ==
    ASSUME NEW o, NEW t, IsTrigger(t), BadDate(t), NEW today \in Nat
    PROVE  Decided(o, t, today, today)
<1> DEFINE r == GetNextTriggerDate(o, t, today)
<1>1. \/ r = No(Failed)
      \/ r = No(Expired) /\ t.until # NO_UNTIL /\ t.until < today
  <2>1. \A n : FromStart(o, t, n) = No(Failed)
    BY Zenon DEF FromStart
  <2> QED
    BY <2>1, Zenon DEF GetNextTriggerDate
<1>2. No(Failed).date = Failed
  BY DEF No
<1> SUFFICES ASSUME r.date # Failed, NEW z \in Nat, DueFrom(o, t, today, z) PROVE FALSE
  BY Zenon DEF Decided
<1> HIDE DEF r
<1>3. z >= today /\ Occurs(o, t, z) /\ z \in Int
  BY DEF DueFrom
<1> DEFINE u == t.until
<1>4. u \in Int /\ (u # NO_UNTIL => z <= u)
  BY <1>3, OccursMoved DEF IsTrigger
<1>5. u # NO_UNTIL /\ u < today
  BY <1>1, <1>2
<1> HIDE DEF u
<1> QED
  BY <1>3, <1>4, <1>5

(* Every attempt of ComputeTrigger finds the first day that is due, fails, *)
(* or goes on without losing one.                                          *)
LEMMA AttemptsDecide ==
    ASSUME NEW o, NEW t, IsTrigger(t), Computable(o, t), ~Diverges(t),
           NEW today \in Nat, today >= Reach(t), NEW n \in Nat, Left(o, t, today, n)
    PROVE  Decided(o, t, today, n)
<1>1. t.rep # 0 => FullDate(t)
  BY DEF Computable
<1>2. CASE BadDate(t)
  <2>1. n = today
    BY <1>2, Zenon DEF Left
  <2> QED
    BY <1>2, <2>1, DecidedBad
<1>3. CASE ~BadDate(t) /\ t.skip = "AFTER"
  <2>1. n = today
    BY <1>3, Zenon DEF Left
  <2> QED
    BY <1>1, <1>3, <2>1, DecidedAfter
<1>4. CASE ~BadDate(t) /\ t.skip # "AFTER" /\ t.rep = 0
  BY <1>4, DecidedOnce
<1>5. CASE ~BadDate(t) /\ t.skip # "AFTER" /\ t.rep # 0
  BY <1>1, <1>5, DecidedRepeated
<1> QED
  BY <1>2, <1>3, <1>4, <1>5

(* ComputeTrigger: unless its search fails, no day from today on before    *)
(* the date it returns is one on which the reminder occurs, and there is   *)
(* none at all if it says that the reminder has expired.                   *)
THEOREM ComputesTheFirst ==
    ASSUME NEW o, NEW t, IsTrigger(t), ~Diverges(t), NEW today \in Nat, today >= Reach(t)
    PROVE  LET dse == ComputeTrigger(o, t, today)
           IN  dse # Failed => \A z \in Nat : z >= today /\ Occurs(o, t, z) => dse # Expired /\ dse <= z
<1> DEFINE dse == ComputeTrigger(o, t, today)
           First(x) == x # Failed => \A z \in Nat : DueFrom(o, t, today, z) => x # Expired /\ x <= z
<1>1. CASE ~Computable(o, t)
  BY <1>1, Zenon DEF ComputeTrigger
<1>2. CASE Computable(o, t)
  <2>1. PICK f : Scans(o, t, today, f) /\ dse = f[<<TRIG_ATTEMPTS, today>>]
    BY <1>2, ScanComputes, Zenon
  <2> DEFINE S == {i \in Nat : \A n \in Nat : Left(o, t, today, n) => First(f[<<i, n>>])}
             N == TRIG_ATTEMPTS
  <2>2. N \in Nat
    BY TriggersAssumption
  <2>3. \A i \in 0 .. N, n \in Nat :
           f[<<i, n>>] = IF i = 0 THEN Failed ELSE Attempt(o, t, today, <<i, n>>, f)
    <3>1. \A i \in 0 .. N, n \in Nat : <<i, n>>[1] = i
      OBVIOUS
    <3>2. \A at \in (0 .. N) \X Nat : f[at] = IF at[1] = 0 THEN Failed ELSE Attempt(o, t, today, at, f)
      BY <2>1, Zenon DEF Scans
    <3> QED
      BY <3>1, <3>2
  <2>4. 0 \in S
    BY <2>2, <2>3
  <2>5. ASSUME NEW i \in 1 .. N, i - 1 \in S PROVE i \in S
    <3> SUFFICES ASSUME NEW n \in Nat, Left(o, t, today, n), f[<<i, n>>] # Failed,
                        NEW z \in Nat, DueFrom(o, t, today, z)
                 PROVE  f[<<i, n>>] # Expired /\ f[<<i, n>>] <= z
      BY <2>2
    <3> DEFINE r == GetNextTriggerDate(o, t, n)
               k == NextStart(o, t, r, n)
               a == Attempt(o, t, today, <<i, n>>, f)
    <3>1. k \in Nat
      BY <1>2, GoesOnFromADay DEF Computable
    <3>2. Decided(o, t, today, n)
      BY <1>2, AttemptsDecide
    <3>3. r.date # Failed =>
             /\ r.date # Expired
             /\ Acceptable(o, t, r.date, today) => r.date <= z
             /\ ~Acceptable(o, t, r.date, today) => ~IsSimple(t) /\ k > n /\ Left(o, t, today, k)
      BY <3>2, Zenon DEF Decided
    <3>4. a = IF r.date \in {Expired, Failed} \/ Acceptable(o, t, r.date, today) THEN r.date
              ELSE IF IsSimple(t) \/ k <= n THEN Expired ELSE f[<<i - 1, k>>]
      <4>1. <<i, n>>[1] = i /\ <<i, n>>[2] = n
        OBVIOUS
      <4> QED
        BY <4>1, Zenon DEF Attempt
    <3>5. f[<<i, n>>] = a
      <4>1. i \in 0 .. N /\ i # 0
        BY <2>2
      <4> QED
        BY <2>3, <4>1
    <3>6. Left(o, t, today, k) => First(f[<<i - 1, k>>])
      BY <2>5, <3>1
    <3> HIDE DEF r, k, a
    <3>7. k > n => ~(k <= n)
      BY <3>1
    <3>8. CASE r.date = Failed
      <4>1. a = Failed
        BY <3>4, <3>8
      <4> QED
        BY <3>5, <4>1
    <3>9. CASE r.date # Failed /\ Acceptable(o, t, r.date, today)
      <4>1. a = r.date
        BY <3>4, <3>9
      <4> QED
        BY <3>3, <3>5, <3>9, <4>1
    <3>10. CASE r.date # Failed /\ ~Acceptable(o, t, r.date, today)
      <4>1. a = f[<<i - 1, k>>] /\ Left(o, t, today, k)
        BY <3>3, <3>4, <3>7, <3>10
      <4> QED
        BY <3>5, <3>6, <4>1
    <3> QED
      BY <3>8, <3>9, <3>10
  <2>6. N \in S
    <3> HIDE DEF S, N
    <3>1. 0 .. N \subseteq S
      BY <2>2, <2>4, <2>5, UpTo
    <3> QED
      BY <2>2, <3>1
  <2>7. First(f[<<N, today>>])
    <3>1. Left(o, t, today, today)
      BY NothingLostAtFirst
    <3> QED
      BY <2>6, <3>1
  <2> QED
    BY <2>1, <2>7 DEF DueFrom
<1> QED
  BY <1>1, <1>2

\* A trigger without BACK and without SKIP, BEFORE and AFTER.
IsPlain(t) == t.back = 0 /\ t.skip = ""

(* The search of a reminder that neither goes back nor moves from omitted  *)
(* days does not fail.                                                     *)
THEOREM PlainSearchSucceeds ==
    ASSUME NEW o, NEW t, IsTrigger(t), Computable(o, t), ~BadDate(t), ~Diverges(t), IsPlain(t),
           NEW today \in Nat
    PROVE  ComputeTrigger(o, t, today) # Failed
<1> DEFINE r  == GetNextTriggerDate(o, t, today)
           x0 == NextSimpleTrig(today, t)
           x  == Repeat(t, x0, today)
<1>0. /\ t.back = 0 /\ t.skip # "AFTER" /\ t.skip # "BEFORE" /\ t.skip # "SKIP"
      /\ t.rep = 0 => IsSimple(t)
  BY Zenon DEF IsPlain, IsSimple
<1>1. t.rep \in Nat /\ (t.rep # 0 => FullDate(t)) /\ ~Mismeasured(t)
  BY Zenon DEF IsTrigger, Computable, Diverges, Mismeasured
<1>2. today # Failed /\ ScanStart(o, t, today) = today
  <2>1. ScanStart(o, t, today) = today
    BY <1>0, Zenon DEF ScanStart
  <2> QED
    BY <2>1 DEF Failed
<1>3. Sound(t, x0) /\ Ahead(t, today, x0) /\ NoneBefore(t, today, x0)
  BY <1>1, NextSimpleTrigFinds
<1>4. x0 # Expired => x0 \in Nat /\ Specified(t, x0)
  BY <1>3 DEF Sound
<1>5. x0 # Expired => x \in Nat /\ (t.rep # 0 => x >= today) /\ (t.rep = 0 => x = x0)
  <2> SUFFICES ASSUME x0 # Expired
               PROVE  x \in Nat /\ (t.rep # 0 => x >= today) /\ (t.rep = 0 => x = x0)
    OBVIOUS
  <2>1. CASE t.rep = 0
    <3>1. x = x0
      BY <2>1, Zenon DEF Repeat
    <3> HIDE DEF x, x0
    <3> QED
      BY <1>4, <2>1, <3>1
  <2>2. CASE t.rep # 0
    <3>1. t.back = 0 /\ ~(t.back > 0) /\ ~(t.back < 0)
      BY <1>0
    <3>2. Reach(t) = 0
      BY <3>1, Zenon DEF Reach
    <3> HIDE DEF x0, x
    <3>3. x0 = x0 + t.back /\ t.back <= 0
      BY <1>0, <1>4
    <3>4. IsBack(o, t, x0, x0)
      BY <3>3, Zenon DEF IsBack
    <3>5. x0 \in Int /\ Reach(t) \in Nat
      BY <1>4, <3>2
    <3>6. x \in Int /\ x >= today
      BY <1>1, <1>4, <2>2, <3>4, <3>5, RepeatsFirst DEF x
    <3> QED
      BY <2>2, <3>6
  <2> QED
    BY <2>1, <2>2
<1> HIDE DEF x0, x
<1>6. r = No(Expired) \/ (x0 # Expired /\ r = [date |-> x, next |-> x0 + 1])
  <2>1. r = No(Expired) \/ r = FromSimple(o, t, today, x0)
    BY <1>2, Zenon DEF GetNextTriggerDate, FromStart, x0
  <2>2. x0 # Expired => BackUp(o, t, x0) = x0
    <3>0. t.back <= 0
      BY <1>0
    <3>1. BackUp(o, t, x0) = x0 + 0
      BY <1>0, <3>0, Zenon DEF BackUp
    <3> QED
      BY <1>4, <3>1
  <2>3. \A y : SkipOmitted(o, t, y) = y
    BY <1>0, Zenon DEF SkipOmitted
  <2>4. x0 # Expired => x0 # Failed /\ x # Failed
    BY <1>4, <1>5 DEF Failed
  <2>5. x0 # Expired => FromSimple(o, t, today, x0) = NotAfterUntil(t, x, x0 + 1)
    BY <2>2, <2>3, <2>4, Zenon DEF FromSimple, FromBacked, x
  <2>6. x0 = Expired => FromSimple(o, t, today, x0) = No(Expired)
    BY Zenon DEF FromSimple
  <2>7. x0 # Expired => \/ NotAfterUntil(t, x, x0 + 1) = No(Expired)
                        \/ NotAfterUntil(t, x, x0 + 1) = [date |-> x, next |-> x0 + 1]
    BY <2>4, Zenon DEF NotAfterUntil
  <2> QED
    BY <2>1, <2>5, <2>6, <2>7
<1> HIDE DEF r
<1>7. r.date = Expired \/ (x0 # Expired /\ r.date = x)
  BY <1>6 DEF No
<1>8. PICK f : Scans(o, t, today, f) /\ ComputeTrigger(o, t, today) = f[<<TRIG_ATTEMPTS, today>>]
  BY ScanComputes, Zenon
<1>9. f[<<TRIG_ATTEMPTS, today>>] = Attempt(o, t, today, <<TRIG_ATTEMPTS, today>>, f)
  <2> DEFINE N == TRIG_ATTEMPTS
  <2>1. N \in 0 .. N /\ N # 0
    BY TriggersAssumption
  <2>2. <<N, today>> \in (0 .. N) \X Nat /\ <<N, today>>[1] = N
    BY <2>1
  <2>3. \A at \in (0 .. N) \X Nat : f[at] = IF at[1] = 0 THEN Failed ELSE Attempt(o, t, today, at, f)
    BY <1>8, Zenon DEF Scans
  <2> QED
    BY <2>1, <2>2, <2>3, Zenon
<1>10. \/ r.date \in {Expired, Failed} \/ Acceptable(o, t, r.date, today)
       \/ t.rep = 0
  <2>1. x0 # Expired /\ t.rep # 0 => Acceptable(o, t, x, today)
    <3>1. ~SkippedDate(o, t, x)
      BY <1>0, Zenon DEF SkippedDate
    <3> QED
      BY <1>5, <3>1, Zenon DEF Acceptable
  <2> QED
    BY <1>7, <2>1
<1>11. t.rep = 0 => IsSimple(t)
  BY <1>0
<1>12. Attempt(o, t, today, <<TRIG_ATTEMPTS, today>>, f) \in {r.date, Expired}
  <2>1. <<TRIG_ATTEMPTS, today>>[2] = today
    OBVIOUS
  <2> QED
    BY <1>10, <1>11, <2>1, Zenon DEF Attempt, r
<1>13. r.date # Failed
  BY <1>5, <1>7 DEF Expired, Failed
<1> QED
  BY <1>8, <1>9, <1>12, <1>13 DEF Expired, Failed
=============================================================================
