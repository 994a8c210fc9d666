------------------------------ MODULE OmitSets ------------------------------
(***************************************************************************)
(* What an OMIT context promises: sets of omitted days that grow by the    *)
(* days of each command, as far as there is room, and a stack of them.     *)
(***************************************************************************)
EXTENDS Dates, FiniteSets, Sequences

CONSTANTS MAX_FULL_OMITS, WeekdayOmits, DateOmits, AddOmitDates, MaxSaved

VARIABLES days, yearly, weekdays, stack

context == <<days, yearly, weekdays>>
vars == <<days, yearly, weekdays, stack>>

Yearless(range) == range[1].y = -1 /\ range[2].y = -1
Dated(range)    == range[1].y # -1 /\ range[2].y # -1

\* A range without days begins at the first and ends at the last of its months.
First(date) == IF date.d = -1 THEN 1 ELSE date.d
Final(date, length) == IF date.d = -1 THEN length ELSE date.d

\* The dates of a range with years.
DatesOf(range) ==
    LET a == range[1]  b == range[2]
    IN  DSE(a.y, a.m, First(a)) .. DSE(b.y, b.m, Final(b, DaysInMonth(b.m, b.y)))

\* The days that some year has.
RealDays == {x \in [m : 0 .. 11, d : 1 .. 31] : x.d <= MonthDays[x.m]}

\* The days of the year of a range without years, which may cross its end.
YearlyDaysOf(range) ==
    LET key(x) == 32 * x.m + x.d
        from == 32 * range[1].m + First(range[1])
        to   == 32 * range[2].m + Final(range[2], MonthDays[range[2].m])
    IN  {key(x) : x \in {z \in RealDays : IF from <= to THEN from <= key(z) /\ key(z) <= to
                                          ELSE from <= key(z) \/ key(z) <= to}}

Real(range) ==
    \A i \in {1, 2} : LET x == range[i]
                      IN  x.m # -1 /\ x.d <= (IF x.y = -1 THEN MonthDays[x.m] ELSE DaysInMonth(x.m, x.y))

Init == days = {} /\ yearly = {} /\ weekdays = {} /\ stack = << >>

(* All of D is omitted or, when there is no room for it, its first days.   *)
OmitDays(D) ==
    /\ days \subseteq days' /\ days' \subseteq days \cup D
    /\ IF Cardinality(days \cup D) <= MAX_FULL_OMITS THEN D \subseteq days'
       ELSE /\ Cardinality(days') = MAX_FULL_OMITS
            /\ \A x \in days' \ days, z \in D \ days' : x < z
    /\ UNCHANGED <<yearly, weekdays, stack>>

OmitYearly(D) == yearly' = yearly \cup D /\ UNCHANGED <<days, weekdays, stack>>

OmitWeekdays(wd) == /\ weekdays \cup wd # Weekdays
                    /\ weekdays' = weekdays \cup wd
                    /\ UNCHANGED <<days, yearly, stack>>

Clear == days' = {} /\ yearly' = {} /\ weekdays' = {} /\ UNCHANGED stack

Push == stack' = <<context>> \o stack /\ UNCHANGED context
Pop  == stack # << >> /\ context' = Head(stack) /\ stack' = Tail(stack)

Next == \/ \E range \in DateOmits :
             \/ Real(range) /\ Dated(range) /\ OmitDays(DatesOf(range))
             \/ Real(range) /\ Yearless(range) /\ OmitYearly(YearlyDaysOf(range))
        \/ \E dse \in AddOmitDates \ {-1} : OmitDays({dse})
        \/ \E wd \in WeekdayOmits : OmitWeekdays(wd)
        \/ Clear \/ Push \/ Pop
        \/ (days' = {} /\ yearly' = {} /\ weekdays' = {} /\ stack' = << >>)

Spec == Init /\ [][Next]_vars

Omitted(dse) ==
    LET date == FromDSE(dse)
    IN  dse \in days \/ 32 * date.m + date.d \in yearly \/ dse % 7 \in weekdays
=============================================================================
