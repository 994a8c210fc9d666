------------------------------- MODULE Omits -------------------------------
(***************************************************************************)
(* The OMIT context: omit.c.                                               *)
(*                                                                         *)
(* A script omits weekdays, days of every year and days of one year.  The  *)
(* days are kept in two sorted arrays that a binary search looks through.  *)
(* PUSH-OMIT-CONTEXT saves the context on a stack; a new pass over the     *)
(* script starts without contexts.                                         *)
(***************************************************************************)
EXTENDS Dates, SequencesExt

CONSTANT MAX_FULL_OMITS     \* length of FullOmitArray (1000)

ASSUME OmitsAssumption == MAX_FULL_OMITS \in Nat

NO_YR  == -1
NO_MON == -1
NO_DAY == -1

(* A context: FullOmitArray, PartialOmitArray and WeekdayOmits. *)
NoOmits == [full |-> << >>, partial |-> << >>, weekday |-> {}]

Syndrome(m, d) == 32 * m + d

-----------------------------------------------------------------------------
(* The arrays. *)

(* BexistsIntArray, a binary search; its indices are those of the code     *)
(* plus one.                                                               *)
BexistsIntArray(array, key) ==
    LET found[range \in (1 .. Len(array) + 1) \X (0 .. Len(array))] ==
            LET bot == range[1]
                top == range[2]
                mid == (top - 1 + bot - 1) \div 2 + 1
            IN  /\ top >= bot
                /\ \/ array[mid] = key
                   \/ array[mid] > key /\ found[<<bot, mid - 1>>]
                   \/ array[mid] < key /\ found[<<mid + 1, top>>]
    IN  found[<<1, Len(array)>>]

\* Faulty: the key is put at the end.
AppendToArray(array, key) == Append(array, key)

InsertIntoSortedArray(array, key) ==
    LET k == Max({0} \cup {i \in DOMAIN array : array[i] <= key})
    IN  SubSeq(array, 1, k) \o <<key>> \o SubSeq(array, k + 1, Len(array))

IsOmitted(o, dse, localomit) ==
    \/ dse % 7 \in localomit
    \/ dse % 7 \in o.weekday
    \/ BexistsIntArray(o.full, dse)
    \/ LET date == FromDSE(dse) IN BexistsIntArray(o.partial, Syndrome(date.m, date.d))

-----------------------------------------------------------------------------
(* The commands.  Each gives the new context and whether it was refused.   *)
Accepted(o) == [omits |-> o, err |-> FALSE]
Refused(o)  == [omits |-> o, err |-> TRUE]

OmitWeekdays(o, wd) ==
    IF o.weekday \cup wd = Weekdays THEN Refused(o)
    ELSE Accepted([o EXCEPT !.weekday = @ \cup wd])

AddPartial(o, x) ==
    IF BexistsIntArray(o.partial, Syndrome(x.m, x.d)) THEN o
    ELSE [o EXCEPT !.partial = InsertIntoSortedArray(@, Syndrome(x.m, x.d))]

\* The number of a day in a leap year.
DayOfYear(x) == MonthIndex[x.m] + (IF x.m > 1 THEN 1 ELSE 0) + x.d

(* The day after this one, round the end of the year. *)
DayAfter(x) == IF x.d < MonthDays[x.m] THEN [m |-> x.m, d |-> x.d + 1]
               ELSE [m |-> (x.m + 1) % 12, d |-> 1]

OmitAndGoOn(r) == [omits |-> AddPartial(r.omits, r.next), next |-> DayAfter(r.next)]

(* The loop from one day of the year to another, over its end if need be. *)
OmitPartial(o, a, b) ==
    LET rounds == ((DayOfYear(b) - DayOfYear(a)) % 366) + 1
        round[n \in 0 .. rounds] ==
            IF n = 0 THEN [omits |-> o, next |-> [m |-> a.m, d |-> a.d]] ELSE OmitAndGoOn(round[n - 1])
    IN  IF a.d > MonthDays[a.m] \/ b.d > MonthDays[b.m] THEN Refused(o)
        ELSE Accepted(round[rounds].omits)

(* One date of a range: the days before the one that finds the array full  *)
(* stay.                                                                   *)
AddFull(r, dse) ==
    IF r.err \/ BexistsIntArray(r.omits.full, dse) THEN r
    ELSE IF Len(r.omits.full) >= MAX_FULL_OMITS THEN Refused(r.omits)
    ELSE Accepted([r.omits EXCEPT !.full = InsertIntoSortedArray(@, dse)])

OmitFull(o, a, b) ==
    IF a.d > DaysInMonth(a.m, a.y) \/ b.d > DaysInMonth(b.m, b.y) THEN Refused(o)
    ELSE LET start == DSE(a.y, a.m, a.d)
             end   == DSE(b.y, b.m, b.d)
             added[n \in 0 .. end - start + 1] ==
                 IF n = 0 THEN Accepted(o) ELSE AddFull(added[n - 1], start + n - 1)
         IN  IF end < start THEN Refused(o) ELSE added[end - start + 1]

(* DoOmit, for the dates before and after THROUGH; without a THROUGH both  *)
(* are the same.  A month without a day stands for all of its days.        *)
OmitDates(o, from, to) ==
    LET a == IF from.d = NO_DAY THEN [from EXCEPT !.d = 1] ELSE from
        b == IF to.d # NO_DAY THEN to
             ELSE [to EXCEPT !.d = IF to.y = NO_YR THEN MonthDays[to.m]
                                   ELSE DaysInMonth(to.m, to.y)]
    IN  IF NO_MON \in {from.m, to.m} \/ (from.y = NO_YR) # (to.y = NO_YR) THEN Refused(o)
        ELSE IF from.y = NO_YR THEN OmitPartial(o, a, b) ELSE OmitFull(o, a, b)

AddGlobalOmit(o, dse) ==
    IF dse < 0 THEN Accepted(o)
    ELSE IF Len(o.full) = MAX_FULL_OMITS THEN Refused(o)
    ELSE IF BexistsIntArray(o.full, dse) THEN Accepted(o)
    ELSE Accepted([o EXCEPT !.full = InsertIntoSortedArray(@, dse)])
=============================================================================
