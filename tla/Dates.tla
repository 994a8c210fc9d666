------------------------------- MODULE Dates -------------------------------
(***************************************************************************)
(* The calendar of Remind.  A date is the number of days since 1 January   *)
(* 1990, a Monday; months are numbered from 0 and days from 1.             *)
(***************************************************************************)
EXTENDS Integers, FiniteSetsExt

BASE == 1990

Weekdays == 0 .. 6      \* Monday to Sunday: a date modulo 7

MonthDays == [m \in 0 .. 11 |-> IF m = 1 THEN 29 ELSE IF m \in {3, 5, 8, 10} THEN 30 ELSE 31]

IsLeapYear(y) == y % 4 = 0 /\ (y % 100 # 0 \/ y % 400 = 0)

DaysInMonth(m, y) == IF m = 1 /\ ~IsLeapYear(y) THEN 28 ELSE MonthDays[m]

\* Days of a year before its months, without 29 February.
MonthIndex == [m \in 0 .. 11 |->
    CASE m = 0 -> 0 [] m = 1 -> 31 [] m = 2 -> 59 [] m = 3 -> 90 [] m = 4 -> 120
      [] m = 5 -> 151 [] m = 6 -> 181 [] m = 7 -> 212 [] m = 8 -> 243 [] m = 9 -> 273
      [] m = 10 -> 304 [] m = 11 -> 334]

LeapYearsBefore(y) == (y - 1) \div 4 - (y - 1) \div 100 + (y - 1) \div 400

DSE(y, m, d) ==
    365 * (y - BASE) + LeapYearsBefore(y) - LeapYearsBefore(BASE)
      + MonthIndex[m] + (IF m > 1 /\ IsLeapYear(y) THEN 1 ELSE 0) + d - 1

(* FromDSE: the year, then the month in it.                                *)
DSEYear(dse) == Max({y \in BASE .. dse \div 365 + BASE : DSE(y, 0, 1) <= dse})

FromDSE(dse) ==
    LET y == DSEYear(dse)
        m == Max({k \in 0 .. 11 : DSE(y, k, 1) <= dse})
    IN  [y |-> y, m |-> m, d |-> dse - DSE(y, m, 1) + 1]

DSEMonth(dse) == FromDSE(dse).m

(* ADVANCE_TO_WD: the first date not before j that is one of the weekdays. *)
AdvanceToWd(j, wd) == Min({x \in j .. j + 6 : x % 7 \in wd})
=============================================================================
