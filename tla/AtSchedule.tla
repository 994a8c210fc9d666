----------------------------- MODULE AtSchedule -----------------------------
(***************************************************************************)
(* When a queued reminder is issued: the arithmetic of queue.c.            *)
(*                                                                         *)
(* A datetime is a number of minutes since the epoch, dse*MINUTES_PER_DAY  *)
(* plus the minute of the day, exactly as in the code; the clock counts    *)
(* seconds.  The lengths of a minute and of a day are parameters, so that  *)
(* a model can use short ones.  A reminder is a record of the fields of    *)
(* QueuedRem and TimeTrig the queue reads:                                 *)
(*   dse    the day of the event         ttime  its minute in that day     *)
(*   delta  advance notice in minutes, 0 is NO_DELTA                       *)
(*   rep    minutes between notices,   0 is NO_REP                         *)
(***************************************************************************)
EXTENDS Integers

CONSTANTS SecsPerMin,   \* seconds in a minute (60)
          MinsPerDay    \* MINUTES_PER_DAY (1440)

ASSUME ClockAssumption == /\ SecsPerMin \in Nat \ {0}
                          /\ MinsPerDay \in Nat \ {0}

NO_DATETIME == -1

SecsPerDay == SecsPerMin * MinsPerDay

SystemDate(now)     == now \div SecsPerDay
SystemTime(now)     == now % SecsPerDay
SystemDateTime(now) == SystemDate(now) * MinsPerDay + SystemTime(now) \div SecsPerMin

NextDate(next) == next \div MinsPerDay
NextTime(next) == next % MinsPerDay

QDateTime(r) == r.dse * MinsPerDay + r.ttime

-----------------------------------------------------------------------------
(* The least member of d, d+rep, d+2*rep ... that is not before t.         *)
StepTo(d, rep, t) ==
    IF d < t THEN d + ((t - d + rep - 1) \div rep) * rep ELSE d

(* Faulty: the next issue may repeat the time of the previous one. *)
EarliestAgain(r, prev) ==
    IF prev = NO_DATETIME THEN QDateTime(r) - r.delta ELSE prev

(* The earliest time the next issue may have: the first notice, or a       *)
(* minute after the previous issue.                                        *)
Earliest(r, prev) ==
    IF prev = NO_DATETIME THEN QDateTime(r) - r.delta ELSE prev + 1

(* CalculateNextDtime without a scheduling function: step from the first   *)
(* notice past the previous one and past the clock, never past the event.  *)
DefaultNext(r, prev, t) ==
    LET at     == QDateTime(r)
        rep    == IF r.rep = 0 THEN r.delta ELSE r.rep
        notice == StepTo(StepTo(at - r.delta, rep, Earliest(r, prev)), rep, t)
        dtim   == IF r.delta = 0 \/ at < notice THEN at ELSE notice
    IN  IF dtim < Earliest(r, prev) THEN NO_DATETIME ELSE dtim

(* The outcomes of CalculateNextDtime, each a pair of the next time and    *)
(* whether the scheduling function stays in use.  A scheduling function is *)
(* the user's code: the loop of CalculateNextDtimeUsingSched returns some  *)
(* time after the previous issue, not before the clock and on or before    *)
(* the event's day, or gives up.  It gives up for good on an error, a      *)
(* value of another type or a sequence that does not increase, and for     *)
(* this time only when the value lies past the event's day.                *)
NextOutcomes(r, prev, usesSched, t) ==
    IF usesSched
    THEN LET from == IF prev < t THEN t ELSE prev + 1
         IN  ((from .. (r.dse * MinsPerDay + MinsPerDay - 1)) \X {TRUE})
               \cup ({DefaultNext(r, prev, t)} \X BOOLEAN)
    ELSE {<<DefaultNext(r, prev, t), FALSE>>}

-----------------------------------------------------------------------------
(* Faulty: an actual trigger time is never too late. *)
StillTimelyForever(r, next, now, realToday, maxLate) ==
    \/ SystemTime(now) - NextTime(next) * SecsPerMin <= SecsPerMin
    \/ NextTime(next) = r.ttime /\ NextDate(next) = realToday

(* The test of HandleQueuedReminders that a due reminder is not too late   *)
(* to be issued.  It compares times of day.                                *)
StillTimely(r, next, now, realToday, maxLate) ==
    LET late == SystemTime(now) - NextTime(next) * SecsPerMin
    IN  \/ late <= SecsPerMin
        \/ /\ NextTime(next) = r.ttime
           /\ NextDate(next) = realToday
           /\ maxLate = 0 \/ late <= SecsPerMin * maxLate

(* Faulty: a reminder is given up when its first notice is in the past. *)
LeftBehindByNotice(r, next, now, maxLate) ==
    QDateTime(r) - r.delta < SystemDateTime(now) - maxLate

(* The test that gives up a reminder the clock has left behind.            *)
LeftBehind(r, next, now, maxLate) ==
    LET limit == SystemDateTime(now) - maxLate
    IN  QDateTime(r) < limit /\ next < limit

(* Seconds until a reminder of today is due, or until midnight.            *)
SleepFor(next, now, realToday) ==
    IF NextDate(next) = realToday
    THEN NextTime(next) * SecsPerMin - SystemTime(now)
    ELSE SecsPerDay - SystemTime(now)

(* Faulty: an event of earlier today is not over. *)
NotOverToday(r, today, now) == QDateTime(r) >= today * MinsPerDay

(* ShouldQueueReminder: the event is not over, and its first notice falls  *)
(* on today.                                                               *)
NotOver(r, today, now) ==
    QDateTime(r) >= today * MinsPerDay + SystemTime(now) \div SecsPerMin
NoticeToday(r, today) == QDateTime(r) - r.delta <= today * MinsPerDay + MinsPerDay - 1
=============================================================================
