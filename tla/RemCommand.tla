----------------------------- MODULE RemCommand -----------------------------
(***************************************************************************)
(* What becomes of one REM command on a day (DoRem and the functions it    *)
(* calls, dorem.c and trigger.c): the date it has, whether it is queued,   *)
(* issued or expired.                                                      *)
(*                                                                         *)
(* To the fields of a trigger in Triggers a reminder adds                  *)
(*   is_todo, max_overdue   a task, and for how long to go on about it     *)
(*   from, scanfrom         where to look for a date from; relative if < 0 *)
(*   once, noqueue, addomit                                                *)
(*   ttime, tdelta          the time of day, and how early to queue it     *)
(*   duration_days          the days after its first one that it lasts     *)
(*   offset                 the minutes its time zone is ahead of ours, 0  *)
(*                          for ours                                       *)
(*   warn                   the values of its WARN function for 1, 2, ...  *)
(*   sched                  the first value of its SCHED function          *)
(*   sat                    the weekdays that satisfy its SATISFY, {} for  *)
(*                          none                                           *)
(*   expr, nonconst         it has an expression, and one not constant     *)
(*   typ, priority, body                                                   *)
(* c is its COMPLETE-THROUGH date; the user moves it on, so it is apart.   *)
(* today is DSEToday in our time zone.  OMITFUNC is left out.              *)
(***************************************************************************)
EXTENDS Occurrences, SortBuffer

NO_DATE     == -1
NO_SCANFROM == -1000000     \* INT_MIN
NO_SCHED    == -1000000     \* there is no SCHED function
MINUTES_PER_DAY == 1440

\* What a parsed reminder may be.
IsRem(t) == /\ IsTrigger(t) /\ t.duration_days \in Nat
            /\ {t.from, t.scanfrom, t.ttime, t.offset, t.priority} \subseteq Int

-----------------------------------------------------------------------------
(* Time zones.  The day that DSEToday is in a zone is the day it is there  *)
(* at our midnight, whatever the time of day.                              *)

EnterTimezone(t, today) == IF t.offset < 0 THEN today - 1 ELSE today

\* A date and time of this reminder in our time zone.
AdjustTriggerForTimeZone(t, at) ==
    IF t.offset = 0 \/ at.date < 0 THEN at
    ELSE LET moment == MINUTES_PER_DAY * at.date + t.ttime - t.offset
         IN  [date |-> moment \div MINUTES_PER_DAY, time |-> moment % MINUTES_PER_DAY]

-----------------------------------------------------------------------------
(* The day from which to look for a date. *)

get_raw_scanfrom(t, day) ==
    CASE t.from # NO_DATE -> IF t.from > day THEN t.from ELSE day
      [] t.from = NO_DATE /\ t.scanfrom > NO_SCANFROM /\ t.scanfrom <= 0 -> day + t.scanfrom
      [] OTHER -> t.scanfrom

\* Not before the day after the one the task is complete through.
NotComplete(c, day) == IF c # NO_DATE /\ c + 1 > day THEN c + 1 ELSE day

get_scanfrom(t, c, day) ==
    CASE t.is_todo /\ t.from # NO_DATE -> NotComplete(c, t.from)
      [] ~(t.is_todo /\ t.from # NO_DATE) /\ get_raw_scanfrom(t, day) # NO_SCANFROM ->
            NotComplete(c, get_raw_scanfrom(t, day))
      [] OTHER -> IF c # NO_DATE THEN c + 1 ELSE IF t.is_todo THEN 0 ELSE day

-----------------------------------------------------------------------------
(* GetNextTriggerDate for tasks too: UNTIL limits the date and not the     *)
(* scan, and what is complete counts as expired.                           *)

NextTriggerDate(o, t, c, start) ==
    CASE ~t.is_todo -> GetNextTriggerDate(o, t, start)
      [] t.is_todo /\ c # NO_DATE /\ c >= start -> No(Expired)
      [] OTHER -> FromStart(o, t, ScanStart(o, t, start))

(* ComputeTriggerNoAdjustDuration, with time zones and for reminders that  *)
(* began up to some days before start.                                     *)

\* In our time zone the date is over, though it is not in the one of the reminder.
MovedBack(t, date, start, days, today) ==
    LET ours == AdjustTriggerForTimeZone(t, [date |-> date, time |-> t.ttime]).date
    IN  /\ t.offset # 0
        /\ \/ t.scanfrom = NO_SCANFROM /\ ours < today
           \/ date + days >= start /\ ours + days < start

ComputeTriggerNoAdjustDuration(o, t, c, start, days, today) ==
    LET scan[at \in (0 .. TRIG_ATTEMPTS) \X Nat \X Nat] ==
            LET from == at[2]
                seen == at[3]
                Try(r) ==
                    CASE r.date \in {Expired, Failed} -> r.date
                      [] r.date >= 0 /\ MovedBack(t, r.date, start, days, today) ->
                            IF r.next <= seen THEN Expired ELSE scan[<<at[1] - 1, from + 1, r.next>>]
                      [] OTHER ->
                            IF r.date + days >= start /\ ~SkippedDate(o, t, r.date) THEN r.date
                            ELSE IF IsSimple(t) \/ NextStart(o, t, r, from) <= from THEN Expired
                            ELSE scan[<<at[1] - 1, NextStart(o, t, r, from), seen>>]
            IN  IF at[1] = 0 THEN Failed ELSE Try(NextTriggerDate(o, t, c, from))
    IN  IF Computable(o, t) /\ start - days >= 0 THEN scan[<<TRIG_ATTEMPTS, start - days, 0>>] ELSE Failed

\* On the later days of an event it begins today, at midnight.
AdjustTriggerForDuration(start, date, t) ==
    IF 0 <= date /\ date < start /\ date + t.duration_days >= start THEN [date |-> start, time |-> 0]
    ELSE [date |-> date, time |-> t.ttime]

\* A date from the day from on, or else of an event that began before it and has not ended.
FromOrBegun(dates, t, from) == dates[IF dates[0] \in {Failed, from} THEN 0 ELSE t.duration_days]

\* Faulty: an event that has begun is over.
ComputeFirstDay(o, t, c, start, today) == ComputeTriggerNoAdjustDuration(o, t, c, start, 0, today)

\* ComputeTrigger of trigger.c but for the adjustment.
ComputeDate(o, t, c, start, today) ==
    FromOrBegun([days \in {0, t.duration_days} |-> ComputeTriggerNoAdjustDuration(o, t, c, start, days, today)],
                t, start)

GivenUp == -4

(* DoSatRemind: the first date that satisfies the expression.  That no     *)
(* date can be computed is no error here if it is for want of attempts.    *)
DoSatRemind(o, t, c, start, today) ==
    LET search[at \in (0 .. MaxSatIter) \X Int] ==
            LET from == at[2]
                Try(date) ==
                    IF date = Failed /\ Computable(o, t) /\ from >= t.duration_days THEN GivenUp
                    ELSE IF date \in {Expired, Failed} \/ date % 7 \in t.sat THEN date
                    ELSE search[<<at[1] - 1, IF date + t.duration_days < from THEN from + 1
                                             ELSE date + t.duration_days + 1>>]
            IN  IF at[1] = 0 THEN Failed ELSE Try(ComputeDate(o, t, c, from, today))
    IN  search[<<MaxSatIter, start>>]

\* The date and time, and whether it has expired.
Outcome(t, at) ==
    LET ours == AdjustTriggerForTimeZone(t, at)
    IN  [date |-> ours.date, time |-> ours.time,
         expired |-> at.date = Expired, failed |-> at.date \in {Failed, GivenUp}]

TriggerFrom(o, t, c, start, today) ==
    Outcome(t, AdjustTriggerForDuration(start, IF t.sat = {} THEN ComputeDate(o, t, c, start, today)
                                               ELSE DoSatRemind(o, t, c, start, today), t))

Trigger(o, t, c, today) == TriggerFrom(o, t, c, get_scanfrom(t, c, EnterTimezone(t, today)), today)

-----------------------------------------------------------------------------
(* Whether to issue it.  The options of the run are the record opt: its    *)
(* fields are those globals of the code that options set.                  *)

\* Faulty: a task that is late is late for one day only.
VerdictNotLate(t, c, date, today) ==
    IF c # NO_DATE /\ c >= date THEN "no" ELSE IF date < today - 1 THEN "no" ELSE "ask"

\* A task is late until it is complete; an event that is over is not issued.
Verdict(t, c, date, today) ==
    CASE ~t.is_todo -> IF date < today THEN "no" ELSE "ask"
      [] t.is_todo /\ c # NO_DATE /\ c >= date -> "no"
      [] t.is_todo /\ (c = NO_DATE \/ c < date) ->
            CASE date >= today -> "ask"
              [] t.max_overdue >= 0 /\ date + t.max_overdue < today -> "no"
              [] OTHER -> "yes"

\* The day on which a value of WARN says to issue it; omitted days count if it is positive.
WarnDays(o, t, date, value) ==
    IF value >= 0 THEN {date - value}
    ELSE {j \in date - MaxSatIter .. date - 1 : ~Omitted(o, t, j) /\ Kept(o, t, j .. date - 1) = -value}

Abs(n) == IF n < 0 THEN -n ELSE n

\* WARN is asked until a value is not below the one before.
ShouldTriggerBasedOnWarn(o, t, c, date, today) ==
    LET asked == {k \in DOMAIN t.warn : /\ \A i \in 2 .. k : Abs(t.warn[i]) < Abs(t.warn[i - 1])
                                        /\ \A i \in 1 .. k : WarnDays(o, t, date, t.warn[i]) # {}}
    IN  /\ ~(t.is_todo /\ c # NO_DATE /\ c >= today)
        /\ date = today \/ \E k \in asked : today \in WarnDays(o, t, date, t.warn[k])

\* Options -a and -a -a leave out reminders of today with a time.
LeftOut(at, today, opt) ==
    at.date = today /\ at.time # NO_TIME
      /\ (opt.DontIssueAts = 1 \/ (opt.DontIssueAts = 2 /\ at.time < opt.now))

InAdvance(o, t, c, date, today, opt) ==
    \/ opt.InfiniteDelta \/ opt.NextMode
    \/ opt.DeltaOverride > 0 /\ date <= today + opt.DeltaOverride
    \/ t.warn # <<>> /\ ShouldTriggerBasedOnWarn(o, t, c, date, today)
    \/ t.warn = <<>> /\ opt.DeltaOverride < 0 /\ date = today
    \/ t.warn = <<>> /\ opt.DeltaOverride = 0 /\ ShouldTriggerReminder(o, t, date, today)

IgnoreOnce(opt) == opt.NextMode \/ opt.IgnoreOnce

\* once is the result of GetOnceDate.
AlreadyIssued(t, once, today, opt) == t.once /\ ~IgnoreOnce(opt) /\ once = today

\* ShouldTriggerReminder of dorem.c with all of its clauses.
ShouldIssue(o, t, c, at, once, today, opt) ==
    /\ ~AlreadyIssued(t, once, today, opt)
    /\ \/ Verdict(t, c, at.date, today) = "yes"
       \/ /\ Verdict(t, c, at.date, today) = "ask"
          /\ ~LeftOut(at, today, opt) /\ InAdvance(o, t, c, at.date, today, opt)

todo_filtered(t, opt) == opt.TodoFilter # "" /\ t.is_todo = (opt.TodoFilter = "events")

-----------------------------------------------------------------------------
(* Whether to queue it: it has a time today, or its advance begins today.  *)

Moment(date, time) == MINUTES_PER_DAY * date + time
EndOfDay(today)    == Moment(today, MINUTES_PER_DAY - 1)

ShouldQueueReminder(t, at, once, today, opt) ==
    /\ ~opt.DontQueue /\ ~t.noqueue /\ at.time # NO_TIME /\ t.typ # "CAL"
    /\ ~(t.typ = "RUN" /\ opt.RunDisabled)
    /\ Moment(at.date, at.time) >= Moment(today, opt.now)
    /\ \/ t.sched # NO_SCHED /\ Moment(at.date, t.sched) <= EndOfDay(today)
       \/ Moment(at.date, at.time) - t.tdelta <= EndOfDay(today)
    /\ ~todo_filtered(t, opt)
    /\ ~AlreadyIssued(t, once, today, opt)
=============================================================================
