----------------------------- MODULE MCDailyRun -----------------------------
(***************************************************************************)
(* Instances of DailyRun for TLC.                                          *)
(***************************************************************************)
EXTENDS DailyRun

AnyDay == [d |-> NO_DAY, m |-> NO_MON, y |-> NO_YR, wd |-> {}, back |-> 0, rep |-> 0,
           skip |-> "", until |-> NO_UNTIL, localomit |-> {}, delta |-> 0]

On(wd, d, m, y) == [AnyDay EXCEPT !.wd = wd, !.d = d, !.m = m, !.y = y]

\* Dates of all kinds, about the ends of months and years and 29 February.
AllKinds ==
    {On(wd, d, m, y) : wd \in {{}, {0, 2}}, d \in {NO_DAY, 1, 29, 31},
                       m \in {NO_MON, 0, 1, 11}, y \in {NO_YR, 1996}}

Script(o, t, first, days) == [omits |-> o, trig |-> t, first |-> first, last |-> first + days]

\* From November 1995 over a leap year.
KindScripts == {Script(NoOmits, t, DSE(1995, 10, 25), 480) : t \in {u \in AllKinds : ~Diverges(u)}}

\* Weekends and a block of holidays next to one, or holidays of every year.
HolidayContexts ==
    {OmitDates(OmitWeekdays(NoOmits, {5, 6}).omits, [y |-> 1996, m |-> 1, d |-> 28],
               [y |-> 1996, m |-> 2, d |-> 1]).omits,
     OmitDates(NoOmits, [y |-> NO_YR, m |-> 1, d |-> 29], [y |-> NO_YR, m |-> 2, d |-> 3]).omits}

Bases == {On({}, 1, NO_MON, NO_YR), On({0, 4}, NO_DAY, NO_MON, NO_YR), On({0}, 1, NO_MON, NO_YR),
          On({}, NO_DAY, 1, NO_YR)}
FullBases == {On({}, 28, 1, 1996), On({4}, 28, 1, 1996)}

HolidayTriggers ==
    {[t EXCEPT !.back = back, !.skip = skip, !.until = until, !.delta = delta, !.localomit = localomit] :
        t \in Bases \cup {[u EXCEPT !.rep = rep] : u \in FullBases, rep \in {0, 3, 7}},
        back \in {0, -2, 2, -9}, skip \in {"", "SKIP", "BEFORE", "AFTER"},
        until \in {NO_UNTIL, DSE(1996, 2, 10)}, delta \in {-2, 2}, localomit \in {{}, {0}}}

HolidayScripts ==
    {Script(o, t, DSE(1996, 1, 20), 40) :
        o \in HolidayContexts, t \in {u \in HolidayTriggers : ~Diverges(u)}}

MCScripts == KindScripts \cup HolidayScripts
=============================================================================
