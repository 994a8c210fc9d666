------------------------------ MODULE Triggers ------------------------------
(***************************************************************************)
(* When a reminder triggers: trigger.c and ShouldTriggerReminder of        *)
(* dorem.c.                                                                *)
(*                                                                         *)
(* A trigger is a record of the fields of Trigger these functions read:    *)
(*   d, m, y    day, month and year, -1 if not given                       *)
(*   wd         the set of weekdays, {} if not given                       *)
(*   back       days to go back; negative means to count omitted days too  *)
(*   rep        days between repetitions, 0 if it does not repeat          *)
(*   skip       what to do with an omitted date                            *)
(*   until      the expiry date, -1 if not given                           *)
(*   localomit  the weekdays this reminder omits                           *)
(*   delta      days of advance warning, negative to count omitted days    *)
(* Not modelled: OMITFUNC, WARN, SATISFY, SCANFROM, TODO, TZ and reminders *)
(* that last several days.                                                 *)
(***************************************************************************)
EXTENDS Omits

CONSTANTS MaxSatIter,       \* steps over omitted days before giving up (10000)
          TRIG_ATTEMPTS     \* attempts at a date before giving up (500)

ASSUME TriggersAssumption == MaxSatIter \in Nat \ {0} /\ TRIG_ATTEMPTS \in Nat \ {0}

NO_UNTIL == -1

\* What a parsed trigger may be.
IsTrigger(t) ==
    /\ t.d \in 1 .. 31 \cup {NO_DAY} /\ t.m \in 0 .. 11 \cup {NO_MON}
    /\ t.y # NO_YR => t.y \in Nat /\ t.y >= BASE
    /\ t.wd \subseteq Weekdays /\ t.localomit \subseteq Weekdays
    /\ t.back \in Int /\ t.rep \in Nat /\ t.skip \in {"", "SKIP", "BEFORE", "AFTER"}
    /\ t.until \in Int /\ t.delta \in Int

Expired == -1       \* instead of a date: there is none left
Failed  == -2       \* instead of a date: it could not be computed

-----------------------------------------------------------------------------
(* NextSimpleTrig: the next date, given the day, month, year and weekdays. *)
(* The months of all years are numbered in sequence: 12 * year + month; s  *)
(* is the year, month and day of the date start.                           *)

HasDay(d, k) == d <= DaysInMonth(k % 12, k \div 12)
DateIn(d, k) == DSE(k \div 12, k % 12, d)

\* The first month from k on that has a day d, and the last one up to k.
MonthWith(d, k)       == Min({j \in k .. k + 2 : HasDay(d, j)})
MonthWithBefore(d, k) == Max({j \in k - 2 .. k : HasDay(d, j)})

\* The first year from y on in which the month m has a day d.
YearWith(d, m, y) == Min({z \in y .. y + 8 : d <= DaysInMonth(m, z)})

NextInMonth(start, s, t) ==
    IF s.m = t.m THEN start ELSE DSE(IF s.m > t.m THEN s.y + 1 ELSE s.y, t.m, 1)

NextInYear(start, s, t) ==
    IF s.y = t.y THEN start ELSE IF s.y < t.y THEN DSE(t.y, 0, 1) ELSE Expired

\* Faulty: this month is not left when the day is over.
NextDayStays(start, s, t) ==
    DateIn(t.d, MonthWith(t.d, 12 * s.y + s.m))

NextDay(start, s, t) ==
    LET k == 12 * s.y + s.m
    IN  DateIn(t.d, MonthWith(t.d, IF s.d > t.d THEN k + 1 ELSE k))

NextDayMonth(start, s, t) ==
    LET over == s.m > t.m \/ (s.m = t.m /\ s.d > t.d)
    IN  DSE(YearWith(t.d, t.m, IF over THEN s.y + 1 ELSE s.y), t.m, t.d)

NextDayYear(start, s, t) ==
    LET k == IF s.d > t.d THEN s.m + 1 ELSE s.m
    IN  IF s.y < t.y THEN DSE(t.y, 0, t.d)
        ELSE IF s.y > t.y \/ k = 12 THEN Expired
        ELSE DateIn(t.d, MonthWith(t.d, 12 * t.y + k))

NextMonthYear(start, s, t) ==
    CASE s.y > t.y \/ (s.y = t.y /\ s.m > t.m) -> Expired
      [] s.y = t.y /\ s.m = t.m -> start
      [] OTHER -> DSE(t.y, t.m, 1)

NextWeekdayYear(start, s, t) ==
    LET j == AdvanceToWd(NextInYear(start, s, t), t.wd)
    IN  IF NextInYear(start, s, t) = Expired \/ DSEYear(j) > t.y THEN Expired ELSE j

NextWeekdayMonth(start, s, t) ==
    LET j == AdvanceToWd(start, t.wd)
    IN  IF s.m = t.m /\ DSEMonth(j) = t.m THEN j
        ELSE AdvanceToWd(DSE(IF s.m >= t.m THEN s.y + 1 ELSE s.y, t.m, 1), t.wd)

NextWeekdayMonthYear(start, s, t) ==
    LET j == AdvanceToWd(start, t.wd)
    IN  CASE s.y > t.y \/ (s.y = t.y /\ s.m > t.m) -> Expired
          [] s.y < t.y \/ (s.y = t.y /\ s.m < t.m) -> AdvanceToWd(DSE(t.y, t.m, 1), t.wd)
          [] OTHER -> IF DSEMonth(j) = t.m THEN j ELSE Expired

(* A weekday on or after a day of some month: of last month, of this one   *)
(* or of the next one that has this day.                                   *)
NextWeekdayDay(start, s, t) ==
    LET k    == 12 * s.y + s.m
        from == IF start >= DSE(BASE, 1, 1) THEN {k - 1, k} ELSE {k}
        near == {j \in {AdvanceToWd(DateIn(t.d, i), t.wd) : i \in {i \in from : HasDay(t.d, i)}} :
                   j >= start}
    IN  IF near # {} THEN Min(near)
        ELSE AdvanceToWd(DateIn(t.d, MonthWith(t.d, k + 1)), t.wd)

NextWeekdayDayMonth(start, s, t) ==
    LET y1 == YearWith(t.d, t.m, IF s.y > BASE THEN s.y - 1 ELSE s.y)
        y2 == YearWith(t.d, t.m, y1 + 1)
        y3 == YearWith(t.d, t.m, y2 + 1)
        On(y) == AdvanceToWd(DSE(y, t.m, t.d), t.wd)
    IN  IF On(y1) >= start THEN On(y1) ELSE IF On(y2) >= start THEN On(y2) ELSE On(y3)

(* The same in one year.  After December it looks at January again, and it *)
(* takes the day for the year when it asks how long the next month is.     *)
NextWeekdayDayYear(start, s, t) ==
    LET On(k) == AdvanceToWd(DateIn(t.d, 12 * t.y + k), t.wd)
        last  == MonthWithBefore(t.d, 12 * t.y + s.m - 1) % 12
        next  == Min({k \in s.m + 1 .. 11 : t.d <= DaysInMonth(k, t.d)})
        InYear(j) == IF DSEYear(j) > t.y THEN Expired ELSE j
    IN  IF s.y > t.y + 1 \/ (s.y > t.y /\ s.m > 0) THEN Expired
        ELSE IF s.y < t.y THEN On(0)
        ELSE IF s.y > t.y /\ On(11) >= start THEN On(11)
        ELSE IF s.y = t.y /\ s.m > 0 /\ On(last) >= start THEN InYear(On(last))
        ELSE IF t.d <= DaysInMonth(s.m, t.y) /\ On(s.m) >= start THEN InYear(On(s.m))
        ELSE IF s.m = 11 THEN Expired ELSE InYear(On(next))

FullDate(t) == t.d # NO_DAY /\ t.m # NO_MON /\ t.y # NO_YR

BadDate(t) ==
    /\ t.d # NO_DAY /\ t.m # NO_MON
    /\ t.d > (IF t.y = NO_YR THEN MonthDays[t.m] ELSE DaysInMonth(t.m, t.y))

NextSimpleTrigFrom(start, s, t) ==
    LET day == t.d # NO_DAY  mon == t.m # NO_MON  yr == t.y # NO_YR  wd == t.wd # {}
    IN  CASE ~day /\ ~mon /\ ~yr /\ ~wd -> start
          [] ~day /\ ~mon /\ ~yr /\  wd -> AdvanceToWd(start, t.wd)
          [] ~day /\  mon /\ ~yr /\ ~wd -> NextInMonth(start, s, t)
          [] ~day /\ ~mon /\  yr /\ ~wd -> NextInYear(start, s, t)
          [] ~day /\ ~mon /\  yr /\  wd -> NextWeekdayYear(start, s, t)
          [] ~day /\  mon /\  yr /\ ~wd -> NextMonthYear(start, s, t)
          [] ~day /\  mon /\ ~yr /\  wd -> NextWeekdayMonth(start, s, t)
          [] ~day /\  mon /\  yr /\  wd -> NextWeekdayMonthYear(start, s, t)
          [] day /\ ~mon /\ ~yr /\ ~wd -> NextDay(start, s, t)
          [] day /\  mon /\ ~yr /\ ~wd -> NextDayMonth(start, s, t)
          [] day /\ ~mon /\  yr /\ ~wd -> NextDayYear(start, s, t)
          [] day /\  mon /\  yr /\ ~wd -> DSE(t.y, t.m, t.d)
          [] day /\ ~mon /\ ~yr /\  wd -> NextWeekdayDay(start, s, t)
          [] day /\  mon /\ ~yr /\  wd -> NextWeekdayDayMonth(start, s, t)
          [] day /\ ~mon /\  yr /\  wd -> NextWeekdayDayYear(start, s, t)
          [] day /\  mon /\  yr /\  wd -> AdvanceToWd(DSE(t.y, t.m, t.d), t.wd)

NextSimpleTrig(start, t) == NextSimpleTrigFrom(start, FromDSE(start), t)

-----------------------------------------------------------------------------
(* GetNextTriggerDate: the next date with BACK, REP, SKIP and UNTIL.       *)
(* Days before 1 January 1990, to which BACK may lead in the first days of *)
(* the calendar, are abstracted: a search that ends there has failed.      *)

Omitted(o, t, dse) == IsOmitted(o, dse, t.localomit)

\* The days of S that are not omitted.
Kept(o, t, S) == Cardinality({dse \in S : ~Omitted(o, t, dse)})

\* How far the loops that count n days go before they give up.
MaxSteps(n) == IF MaxSatIter < 2 * n THEN 2 * n ELSE MaxSatIter

\* The elements of a set of dates, or failure if the loops found none.
FirstOf(S) == IF S = {} THEN Failed ELSE Min(S)
LastOf(S)  == IF S = {} THEN Failed ELSE Max(S)

\* Faulty: a block of omitted days is not looked into.
BlockStartStays(o, t, start) == start

\* The first day of the block of omitted days that ends before a date.
BlockStart(o, t, start) ==
    LastOf({j \in start - MaxSatIter + 1 .. start : j >= 0 /\ ~Omitted(o, t, j - 1)})

ScanStart(o, t, start) == IF t.skip = "AFTER" THEN BlockStart(o, t, start) ELSE start

BackUp(o, t, simple) ==
    IF t.back <= 0 THEN simple + t.back
    ELSE LastOf({j \in simple - MaxSteps(t.back) + 1 .. simple :
                   Kept(o, t, j .. simple - 1) = t.back})

Repeat(t, simple, start) ==
    IF t.rep = 0 \/ simple >= start THEN simple
    ELSE simple + t.rep * ((start - simple + t.rep - 1) \div t.rep)

SkipOmitted(o, t, dse) ==
    CASE t.skip = "BEFORE" ->
             LastOf({j \in dse - MaxSatIter + 1 .. dse : j >= 0 /\ ~Omitted(o, t, j)})
      [] t.skip = "AFTER"  -> FirstOf({j \in dse .. dse + MaxSatIter - 1 : ~Omitted(o, t, j)})
      [] OTHER -> dse

(* The date, and where to look for the one after it, in the order of the   *)
(* function: up to UNTIL, from the start of the scan, from the simple date *)
(* and from the one that BACK leads to.                                    *)
No(why) == [date |-> why, next |-> 0]

NotAfterUntil(t, date, next) ==
    IF date = Failed THEN No(Failed)
    ELSE IF t.until # NO_UNTIL /\ date > t.until THEN No(Expired)
    ELSE [date |-> date, next |-> next]

FromBacked(o, t, start, backed, next) ==
    IF backed = Failed THEN No(Failed)
    ELSE NotAfterUntil(t, SkipOmitted(o, t, Repeat(t, backed, start)), next)

FromSimple(o, t, start, simple) ==
    IF simple = Expired THEN No(Expired)
    ELSE FromBacked(o, t, start, BackUp(o, t, simple), simple + 1)

FromStart(o, t, start) ==
    IF start = Failed \/ BadDate(t) THEN No(Failed)
    ELSE FromSimple(o, t, start, NextSimpleTrig(start, t))

GetNextTriggerDate(o, t, start) ==
    IF t.until # NO_UNTIL /\ t.until < start THEN No(Expired)
    ELSE FromStart(o, t, ScanStart(o, t, start))

-----------------------------------------------------------------------------
(* ComputeTriggerNoAdjustDuration: the date a reminder has today. *)

Computable(o, t) == /\ o.weekday \cup t.localomit # Weekdays
                    /\ t.rep # 0 => FullDate(t)

IsSimple(t) == t.back = 0 /\ t.skip = "" /\ t.rep = 0

SkippedDate(o, t, date) == t.skip = "SKIP" /\ Omitted(o, t, date)

\* Faulty: a date that has passed is as good as a later one.
AcceptableAnyDate(o, t, date, today) == ~SkippedDate(o, t, date)

Acceptable(o, t, date, today) == date >= today /\ ~SkippedDate(o, t, date)

(* Where to go on after a date that is not acceptable. *)
NextStart(o, t, r, start) ==
    IF SkippedDate(o, t, r.date) /\ r.next <= start /\ r.date >= start THEN r.date + 1
    ELSE r.next

ComputeTrigger(o, t, today) ==
    LET scan[at \in (0 .. TRIG_ATTEMPTS) \X Nat] ==
            LET start == at[2]
                After(r) ==
                    IF r.date \in {Expired, Failed} \/ Acceptable(o, t, r.date, today) THEN r.date
                    ELSE IF IsSimple(t) \/ NextStart(o, t, r, start) <= start THEN Expired
                    ELSE scan[<<at[1] - 1, NextStart(o, t, r, start)>>]
            IN  IF at[1] = 0 THEN Failed ELSE After(GetNextTriggerDate(o, t, start))
    IN  IF Computable(o, t) THEN scan[<<TRIG_ATTEMPTS, today>>] ELSE Failed

-----------------------------------------------------------------------------
(* ShouldTriggerReminder: whether the reminder for a date is issued today. *)

\* Faulty: it is issued on the first day of the warning and on the date.
ShouldTriggerReminderOnce(o, t, dse, today) ==
    \/ dse = today
    \/ dse > today /\ Kept(o, t, today + 1 .. dse - 1) = t.delta - 1

ShouldTriggerReminder(o, t, dse, today) ==
    /\ dse >= today
    /\ IF t.delta <= 0 THEN dse + t.delta <= today
       ELSE \/ dse = today
            \/ /\ dse - today < MaxSteps(t.delta)
               /\ Kept(o, t, today + 1 .. dse - 1) < t.delta
=============================================================================
