------------------------- MODULE RemindQueue_proofs -------------------------
(***************************************************************************)
(* Proofs about the queue of timed reminders, for every script, clock and  *)
(* bound: the types, that the reminder being issued is still on the list,  *)
(* that no time of a reminder is issued twice, that none is issued before  *)
(* its time or out of order, and how late it may be; for a process that    *)
(* nothing suspends, that it does not sleep past a time, and that every AT *)
(* time is issued that does not pass while the process is busy.            *)
(***************************************************************************)
EXTENDS RemindQueueProps, TLAPS, FiniteSetTheorems

Reminder == [dse : Nat, ttime : 0 .. MinsPerDay - 1, delta : Nat, rep : Nat, sched : BOOLEAN]
Datetime == Nat \cup {NO_DATETIME}

-----------------------------------------------------------------------------
(* The first line of the pipe is read. *)
LEMMA TailTypes ==
    ASSUME NEW S, NEW s \in Seq(S), s # << >>
    PROVE  /\ Tail(s) \in Seq(S) /\ Len(s) \in Nat \ {0} /\ Len(Tail(s)) = Len(s) - 1
           /\ \A i \in 1 .. Len(s) - 1 : Tail(s)[i] = s[i + 1]
  OBVIOUS

-----------------------------------------------------------------------------
(* Arithmetic of the clock. *)

(* Division by a positive number. *)
LEMMA DivMod ==
    ASSUME NEW a \in Nat, NEW b \in Nat \ {0}
    PROVE  /\ a \div b \in Nat /\ a % b \in Nat
           /\ a % b < b
           /\ a = b * (a \div b) + (a % b)
  OBVIOUS

(* Only the quotient has a remainder less than the divisor. *)
LEMMA DivUnique ==
    ASSUME NEW a \in Nat, NEW b \in Nat \ {0}, NEW k \in Nat, NEW e \in 0 .. b - 1,
           a = b * k + e
    PROVE  a \div b = k /\ a % b = e
  OBVIOUS

(* The product of two positive numbers. *)
LEMMA ProductPositive ==
    ASSUME NEW a \in Nat \ {0}, NEW b \in Nat \ {0}
    PROVE  a * b \in Nat \ {0}
  OBVIOUS

LEMMA DayPositive == SecsPerDay \in Nat \ {0}
  BY ClockAssumption, ProductPositive DEF SecsPerDay

(* A later time is not on an earlier day. *)
LEMMA DivMonotone ==
    ASSUME NEW a \in Nat, NEW b \in Nat, NEW c \in Nat \ {0}, a <= b
    PROVE  a \div c <= b \div c
  OBVIOUS

LEMMA ProductMonotone ==
    ASSUME NEW a \in Nat, NEW b \in Nat, NEW c \in Nat, a <= b
    PROVE  c * a <= c * b
  OBVIOUS

(* The clock as a day and a time of day. *)
LEMMA ClockTypes ==
    ASSUME NEW t \in Nat
    PROVE  /\ SystemDate(t) \in Nat
           /\ SystemTime(t) \in Nat /\ SystemTime(t) < SecsPerDay
           /\ t = SecsPerDay * SystemDate(t) + SystemTime(t)
           /\ SystemDateTime(t) \in Nat
  <1>1. SystemDate(t) \in Nat /\ SystemTime(t) \in Nat /\ SystemTime(t) < SecsPerDay
        /\ t = SecsPerDay * SystemDate(t) + SystemTime(t)
    BY DayPositive, DivMod DEF SystemDate, SystemTime
  <1>2. SystemTime(t) \div SecsPerMin \in Nat
    BY <1>1, ClockAssumption, DivMod
  <1>3. SystemDate(t) * MinsPerDay \in Nat
    BY <1>1, ClockAssumption
  <1> QED BY <1>1, <1>2, <1>3 DEF SystemDateTime

(* A day that has begun lies before the minute of the clock. *)
LEMMA TodayHasBegun ==
    ASSUME NEW t \in Nat, NEW today \in Nat, today <= SystemDate(t)
    PROVE  today * MinsPerDay \in Nat /\ today * MinsPerDay <= SystemDateTime(t)
  <1>1. SystemDate(t) \in Nat /\ SystemTime(t) \in Nat
    BY ClockTypes
  <1>2. SystemTime(t) \div SecsPerMin \in Nat
    BY <1>1, ClockAssumption, DivMod
  <1>3. MinsPerDay * today <= MinsPerDay * SystemDate(t)
    BY <1>1, ClockAssumption, ProductMonotone
  <1>4. today * MinsPerDay = MinsPerDay * today /\ today * MinsPerDay \in Nat
        /\ SystemDate(t) * MinsPerDay = MinsPerDay * SystemDate(t)
        /\ SystemDate(t) * MinsPerDay \in Nat
    BY <1>1, ClockAssumption
  <1> QED BY <1>2, <1>3, <1>4 DEF SystemDateTime

(* A datetime as a day and a minute of that day. *)
LEMMA NextTypes ==
    ASSUME NEW n \in Nat
    PROVE  /\ NextDate(n) \in Nat /\ NextTime(n) \in Nat
           /\ n = MinsPerDay * NextDate(n) + NextTime(n)
  BY ClockAssumption, DivMod DEF NextDate, NextTime

(* HandleQueuedReminders issues without sleeping only what is due: the     *)
(* difference of two times of day is a lateness because RealToday is not   *)
(* later than the day of the clock.                                        *)
LEMMA AwakeWhenDue ==
    ASSUME NEW n \in Nat, NEW t \in Nat, NEW today \in Nat,
           today <= SystemDate(t), ~(SleepFor(n, t, today) > 0)
    PROVE  AtSec(n) <= t /\ NextDate(n) = today
  <1>1. SystemDate(t) \in Nat /\ SystemTime(t) \in Nat /\ SystemTime(t) < SecsPerDay
        /\ t = SecsPerDay * SystemDate(t) + SystemTime(t)
    BY ClockTypes
  <1>2. SecsPerDay \in Nat \ {0} /\ SecsPerMin \in Nat \ {0} /\ MinsPerDay \in Nat \ {0}
    BY DayPositive, ClockAssumption
  <1>3. NextDate(n) \in Nat /\ NextTime(n) \in Nat /\ n = MinsPerDay * NextDate(n) + NextTime(n)
    BY NextTypes
  <1>4. NextTime(n) * SecsPerMin \in Nat
    BY <1>2, <1>3
  <1>5. NextDate(n) = today /\ NextTime(n) * SecsPerMin <= SystemTime(t)
    BY <1>1, <1>2, <1>4 DEF SleepFor
  <1>6. SecsPerDay * today <= SecsPerDay * SystemDate(t)
    BY <1>1, <1>2, ProductMonotone
  <1>7. n * SecsPerMin = SecsPerDay * today + NextTime(n) * SecsPerMin
    <2>1. n * SecsPerMin = (MinsPerDay * today + NextTime(n)) * SecsPerMin
      BY <1>3, <1>5
    <2>2. (MinsPerDay * today + NextTime(n)) * SecsPerMin
            = (SecsPerMin * MinsPerDay) * today + NextTime(n) * SecsPerMin
      BY <1>2, <1>3
    <2> QED BY <2>1, <2>2 DEF SecsPerDay
  <1>8. SecsPerDay * today \in Nat /\ SecsPerDay * SystemDate(t) \in Nat
    BY <1>1, <1>2
  <1> QED BY <1>1, <1>4, <1>5, <1>6, <1>7, <1>8 DEF AtSec

(* No reminder and a server: the sleep until midnight is never over.       *)
LEMMA NothingIsNeverDue ==
    ASSUME now \in Nat
    PROVE  TimeToSleep(NoReminder) \in Nat \ {0}
  <1>1. SystemTime(now) \in Nat /\ SystemTime(now) < SecsPerDay
    BY ClockTypes
  <1>2. SecsPerMin * PollMinutes \in Nat \ {0}
    BY ClockAssumption, QueueAssumption, ProductPositive
  <1> QED BY <1>1, <1>2, DayPositive DEF TimeToSleep

-----------------------------------------------------------------------------
(* What CalculateNextDtime answers: a datetime later than the previous     *)
(* one, or none.                                                           *)
(* StepTo goes forward, to t at least. *)
LEMMA StepToReaches ==
    ASSUME NEW d \in Nat, NEW rep \in Nat \ {0}, NEW t \in Nat
    PROVE  StepTo(d, rep, t) \in Nat /\ StepTo(d, rep, t) >= d /\ StepTo(d, rep, t) >= t
  <1>1. CASE d < t
    <2> DEFINE x == t - d + rep - 1
               k == x \div rep
    <2>1. x \in Nat /\ x + 1 = t - d + rep
      BY <1>1
    <2>2. k \in Nat /\ x % rep \in Nat /\ x % rep < rep /\ x = rep * k + (x % rep)
      BY <2>1, DivMod
    <2>3. rep * k \in Nat /\ k * rep = rep * k
      BY <2>2
    <2>4. StepTo(d, rep, t) = d + k * rep
      BY <1>1 DEF StepTo
    <2> HIDE DEF x, k
    <2>5. rep * k >= t - d
      BY <1>1, <2>1, <2>2, <2>3
    <2> QED BY <1>1, <2>3, <2>4, <2>5
  <1>2. CASE ~(d < t)
    BY <1>2 DEF StepTo
  <1> QED BY <1>1, <1>2

LEMMA EventTypes ==
    ASSUME NEW r \in Ids
    PROVE  /\ QDateTime(Rem[r]) \in Nat /\ QDateTime(Rem[r]) - Rem[r].delta \in Nat
           /\ Rem[r].delta \in Nat /\ Rem[r].rep \in Nat /\ Rem[r].dse \in Nat
           /\ Rem[r].ttime \in 0 .. MinsPerDay - 1
  <1>1. Rem[r].delta \in Nat /\ Rem[r].rep \in Nat /\ Rem[r].dse \in Nat
        /\ Rem[r].ttime \in 0 .. MinsPerDay - 1 /\ QDateTime(Rem[r]) >= Rem[r].delta
    BY QueueAssumption
  <1>2. Rem[r].dse * MinsPerDay \in Nat
    BY <1>1, ClockAssumption
  <1> QED BY <1>1, <1>2, ClockAssumption DEF QDateTime

(* Without a scheduling function: later than the previous time, never      *)
(* after the event, and before the clock only for the event itself.        *)
LEMMA DefaultNextBounds ==
    ASSUME NEW r \in Ids, NEW prev \in Datetime, NEW t \in Nat
    PROVE  /\ DefaultNext(Rem[r], prev, t) \in Datetime
           /\ DefaultNext(Rem[r], prev, t) # NO_DATETIME
                 => /\ DefaultNext(Rem[r], prev, t) > prev
                    /\ DefaultNext(Rem[r], prev, t) <= QDateTime(Rem[r])
                    /\ \/ t <= DefaultNext(Rem[r], prev, t)
                       \/ DefaultNext(Rem[r], prev, t) = QDateTime(Rem[r])
                    /\ prev = NO_DATETIME => QDateTime(Rem[r]) - Rem[r].delta
                                               <= DefaultNext(Rem[r], prev, t)
           /\ DefaultNext(Rem[r], prev, t) = NO_DATETIME => QDateTime(Rem[r]) <= prev
  <1> DEFINE at == QDateTime(Rem[r])
             delta == Rem[r].delta
             rep == IF Rem[r].rep = 0 THEN delta ELSE Rem[r].rep
             first == Earliest(Rem[r], prev)
             notice == StepTo(StepTo(at - delta, rep, first), rep, t)
             dtim == IF delta = 0 \/ at < notice THEN at ELSE notice
  <1>1. at \in Nat /\ at - delta \in Nat /\ delta \in Nat /\ Rem[r].rep \in Nat
    BY EventTypes
  <1>2. first \in Nat /\ first > prev
    BY <1>1 DEF Earliest, Datetime, NO_DATETIME
  <1>3. /\ at < first => at <= prev
        /\ prev = NO_DATETIME => first = at - delta
    BY <1>1 DEF Earliest, Datetime, NO_DATETIME
  <1>4. delta # 0 => notice \in Nat /\ notice >= first /\ notice >= t
    <2> SUFFICES ASSUME delta # 0 PROVE notice \in Nat /\ notice >= first /\ notice >= t
      OBVIOUS
    <2> DEFINE step == StepTo(at - delta, rep, first)
    <2>1. rep \in Nat \ {0}
      BY <1>1
    <2>2. step \in Nat /\ step >= first
      BY <1>1, <1>2, <2>1, StepToReaches
    <2>3. notice = StepTo(step, rep, t)
      OBVIOUS
    <2> HIDE DEF step, notice, rep, first
    <2>4. notice \in Nat /\ notice >= step /\ notice >= t
      BY <2>1, <2>2, <2>3, StepToReaches
    <2> QED BY <1>2, <2>2, <2>4
  <1>5. DefaultNext(Rem[r], prev, t) = IF dtim < first THEN NO_DATETIME ELSE dtim
    BY DEF DefaultNext
  <1>6. dtim \in Nat /\ dtim <= at /\ (dtim = at \/ (dtim >= t /\ dtim >= first))
    <2> HIDE DEF at, delta, first, notice
    <2> QED BY <1>1, <1>2, <1>4
  <1> HIDE DEF dtim, first, at
  <1>7. DefaultNext(Rem[r], prev, t) \in {NO_DATETIME, dtim}
    BY <1>5
  <1>8. DefaultNext(Rem[r], prev, t) = NO_DATETIME => dtim < first
    BY <1>5, <1>6 DEF NO_DATETIME
  <1>9. DefaultNext(Rem[r], prev, t) # NO_DATETIME => dtim >= first
    BY <1>2, <1>5, <1>6
  <1> QED BY <1>1, <1>2, <1>3, <1>6, <1>7, <1>8, <1>9 DEF Datetime, NO_DATETIME, at

(* With one or without: later than the previous time and not before both   *)
(* the clock and the event.                                                *)
LEMMA NextOutcomesBounds ==
    ASSUME NEW r \in Ids, NEW prev \in Datetime, NEW u \in BOOLEAN, NEW t \in Nat,
           NEW o \in NextOutcomes(Rem[r], prev, u, t)
    PROVE  /\ o[1] \in Datetime /\ o[2] \in BOOLEAN
           /\ o[1] # NO_DATETIME => o[1] > prev /\ (t <= o[1] \/ QDateTime(Rem[r]) <= o[1])
  <1> DEFINE from == IF prev < t THEN t ELSE prev + 1
             last == Rem[r].dse * MinsPerDay + MinsPerDay - 1
  <1>1. from \in Nat /\ from > prev /\ from >= t
    BY DEF Datetime, NO_DATETIME
  <1>2. last \in Int
    <2>1. Rem[r].dse \in Nat /\ MinsPerDay \in Nat
      BY QueueAssumption, ClockAssumption
    <2>2. Rem[r].dse * MinsPerDay \in Nat
      BY <2>1
    <2> QED BY <2>1, <2>2
  <1>3. \/ o \in (from .. last) \X {TRUE}
        \/ o \in {DefaultNext(Rem[r], prev, t)} \X BOOLEAN
        \/ o = <<DefaultNext(Rem[r], prev, t), FALSE>>
    <2>1. CASE u
      BY <2>1, Zenon DEF NextOutcomes
    <2>2. CASE ~u
      BY <2>2 DEF NextOutcomes
    <2> QED BY <2>1, <2>2
  <1>4. CASE o \in ((from .. last) \X {TRUE})
    <2>1. o[1] \in from .. last /\ o[2] \in BOOLEAN
      BY <1>4
    <2> HIDE DEF from, last
    <2> QED BY <1>1, <1>2, <2>1 DEF Datetime, NO_DATETIME
  <1> DEFINE default == DefaultNext(Rem[r], prev, t)
  <1>5. /\ default \in Datetime
        /\ default # NO_DATETIME => default > prev /\ (t <= default \/ QDateTime(Rem[r]) <= default)
    <2>1. QDateTime(Rem[r]) \in Nat
      BY EventTypes
    <2> QED BY <2>1, DefaultNextBounds
  <1> HIDE DEF default
  <1>6. CASE o \in {default} \X BOOLEAN
    <2>1. o[1] = default /\ o[2] \in BOOLEAN
      BY <1>6
    <2> QED BY <1>5, <2>1
  <1>7. CASE o = <<default, FALSE>>
    BY <1>5, <1>7
  <1> QED BY <1>3, <1>4, <1>6, <1>7 DEF default

-----------------------------------------------------------------------------
(* TimeToSleep is a number of seconds, perhaps negative. *)
LEMMA TimeToSleepTypes ==
    ASSUME now \in Nat, realToday \in Nat, NEW q,
           q = NoReminder \/ (q \in Ids /\ next[q] \in Nat)
    PROVE  TimeToSleep(q) \in Int
  <1>1. CASE q = NoReminder
    BY <1>1, NothingIsNeverDue
  <1>2. CASE q # NoReminder
    <2>1. NextTime(next[q]) \in Nat
      BY <1>2, NextTypes
    <2>2. NextTime(next[q]) * SecsPerMin \in Nat
      BY <2>1, ClockAssumption
    <2>3. SystemTime(now) \in Nat
      BY ClockTypes
    <2> QED BY <1>2, <2>2, <2>3, DayPositive DEF TimeToSleep, SleepFor
  <1> QED BY <1>1, <1>2

LEMMA NapTypes ==
    ASSUME now \in Nat, realToday \in Nat, NEW q,
           q = NoReminder \/ (q \in Ids /\ next[q] \in Nat),
           TimeToSleep(q) > 0
    PROVE  Nap(q) \in Nat
  <1>1. TimeToSleep(q) \in Nat
    BY TimeToSleepTypes
  <1>2. now % SecsPerMin \in Nat /\ now % SecsPerMin < SecsPerMin /\ SecsPerMin \in Nat
    BY ClockAssumption, DivMod
  <1>3. SecsPerMin * PollMinutes \in Nat
    BY ClockAssumption, QueueAssumption
  <1>4. CASE IsServerMode
    <2>1. Nap(q) = SecsPerMin - (now % SecsPerMin)
      BY <1>4 DEF Nap, IsServerMode
    <2>2. \A m, n \in Nat : m < n => n - m \in Nat
      OBVIOUS
    <2> QED BY <1>2, <2>1, <2>2
  <1>5. CASE Mode = "daemon"
    <2>1. Nap(q) \in {TimeToSleep(q), SecsPerMin * PollMinutes}
      BY <1>5 DEF Nap, IsServerMode
    <2> QED BY <1>1, <1>3, <2>1
  <1>6. CASE Mode = "background"
    <2>1. Nap(q) = TimeToSleep(q)
      BY <1>6 DEF Nap, IsServerMode
    <2> QED BY <1>1, <2>1
  <1> QED BY <1>4, <1>5, <1>6, QueueAssumption DEF IsServerMode

(* What follows the choice of the next reminder q: a sleep of some length, *)
(* or the issue of a reminder that is due.                                 *)
LEMMA SleepOrIssueEffect ==
    ASSUME now \in Nat, realToday \in Nat, realToday <= SystemDate(now), NEW q,
           q = NoReminder \/ (q \in Ids /\ next[q] \in Nat),
           SleepOrIssue(q)
    PROVE  /\ cur' = q /\ remain' \in Nat
           /\ idle' = idle \/ (idle' = now /\ pc' = "wait" /\ ~RolledOver)
           /\ \/ pc' = "wait"
              \/ /\ pc' = "issue" /\ q # NoReminder
                 /\ AtSec(next[q]) <= now /\ NextDate(next[q]) = realToday
  <1>1. CASE TimeToSleep(q) > 0
    BY <1>1, NapTypes DEF SleepOrIssue, Idling, RolledOver
  <1>2. CASE ~(TimeToSleep(q) > 0)
    <2>1. q # NoReminder
      BY <1>2, NothingIsNeverDue
    <2>2. ~(SleepFor(next[q], now, realToday) > 0)
      BY <1>2, <2>1 DEF TimeToSleep
    <2>3. AtSec(next[q]) <= now /\ NextDate(next[q]) = realToday
      BY <2>1, <2>2, AwakeWhenDue
    <2> QED BY <1>2, <2>1, <2>3 DEF SleepOrIssue
  <1> QED BY <1>1, <1>2

(* FindNextReminder finds an entry that none precedes, or nothing in an    *)
(* empty list.                                                             *)
EarliestOf(q, Q) == IF q = NoReminder THEN Q = {} ELSE q \in Q /\ \A s \in Q : next[q] <= next[s]

LEMMA FindNextReminderFinds ==
    ASSUME NEW Q \in SUBSET Ids, \A s \in Q : next[s] \in Nat, NEW q \in FindNextReminder(Q)
    PROVE  EarliestOf(q, Q)
  <1>1. NoReminder \notin Q
    BY QueueAssumption DEF NoReminder
  <1> QED BY <1>1 DEF FindNextReminder, Precedes, EarliestOf

(* A day that is not over stays not later than today. *)
LEMMA ClockAdvances ==
    ASSUME NEW t \in Nat, NEW u \in Nat, t <= u, NEW d \in Nat, d <= SystemDate(t)
    PROVE  d <= SystemDate(u)
  <1>1. SystemDate(t) <= SystemDate(u)
    BY DayPositive, DivMonotone DEF SystemDate
  <1>2. SystemDate(t) \in Nat /\ SystemDate(u) \in Nat
    BY ClockTypes
  <1> QED BY <1>1, <1>2

LEMMA InitInvariant == Init => IInv
  <1> SUFFICES ASSUME Init PROVE IInv
    OBVIOUS
  <1> USE DEF Init
  <1>1. SystemDate(Start) \in Nat /\ Start \in Nat
    BY ClockTypes, QueueAssumption
  <1>2. TypeOK
    <2>1. pipe \in Seq(CommandLine)
      OBVIOUS
    <2> QED BY <1>1, <2>1, QueueAssumption DEF TypeOK, Blocked, Starting, NO_DATETIME, NoReminder
  <1>3. StagesInOrder
    BY <1>1 DEF StagesInOrder, Starting
  <1> QED
    BY <1>2, <1>3 DEF IInv, CurrentIsQueued, WaitsForQueued, DueWhenIssued, FiredBeforeNext,
                      NeverEarly, EarliestInHand, DueToday, NotBeforeToday

-----------------------------------------------------------------------------
(* Going on with the reminder q, after deleting others from the list. *)
LEMMA ResumeKeeps ==
    ASSUME IInv, pc \in {"find", "wait", "reading"},
           NEW Q \in SUBSET queued, NEW q, EarliestOf(q, Q),
           SleepOrIssue(q), queued' = Q, sighup' \in BOOLEAN, changed' \in BOOLEAN,
           pipe' \in Seq(CommandLine),
           UNCHANGED <<loaded, realToday, fresh, next, usesSched, qid>>,
           UNCHANGED ghostVars, UNCHANGED envVars
    PROVE  IInv'
  <1>1. /\ now \in Nat /\ realToday \in Nat /\ realToday <= SystemDate(now)
        /\ fresh = {} /\ queued \in SUBSET Ids /\ \A r \in queued : next[r] \in Nat
        /\ q = NoReminder \/ q \in Q
    BY DEF IInv, TypeOK, StagesInOrder, Starting, EarliestOf
  <1>2. /\ cur' = q /\ remain' \in Nat /\ idle' \in {idle, now}
        /\ \/ pc' = "wait"
           \/ /\ pc' = "issue" /\ q # NoReminder
              /\ AtSec(next[q]) <= now /\ NextDate(next[q]) = realToday
    BY <1>1, SleepOrIssueEffect
  <1>3. TypeOK'
    BY <1>1, <1>2 DEF IInv, TypeOK, Blocked, Starting, envVars, ghostVars
  <1>4. StagesInOrder'
    BY <1>1, <1>2 DEF IInv, StagesInOrder, Starting, envVars, ghostVars
  <1>5. CurrentIsQueued' /\ WaitsForQueued' /\ DueWhenIssued' /\ DueToday'
    BY <1>1, <1>2 DEF CurrentIsQueued, WaitsForQueued, DueWhenIssued, DueToday, AtSec, NextDate,
                      envVars
  <1>6. FiredBeforeNext'
    BY <1>2 DEF IInv, FiredBeforeNext, ghostVars
  <1>7. NeverEarly'
    BY DEF IInv, NeverEarly, AtSec, ghostVars
  <1>8. EarliestInHand'
    BY <1>2 DEF EarliestInHand, EarliestOf
  <1>9. NotBeforeToday'
    BY DEF IInv, NotBeforeToday
  <1> QED BY <1>3, <1>4, <1>5, <1>6, <1>7, <1>8, <1>9 DEF IInv

(* Executing the program again. *)
LEMMA ExecKeeps ==
    ASSUME IInv, Exec, UNCHANGED envVars, pipe' \in Seq(CommandLine)
    PROVE  IInv'
  <1> USE DEF Exec, envVars
  <1>1. SystemDate(now) \in Nat /\ NoReminder \notin Nat
    BY ClockTypes DEF IInv, TypeOK, NoReminder
  <1>2. TypeOK'
    BY <1>1 DEF IInv, TypeOK, Blocked, Starting, ghostVars
  <1>3. StagesInOrder'
    BY <1>1 DEF StagesInOrder, Starting, SystemDate
  <1> QED
    BY <1>2, <1>3 DEF IInv, CurrentIsQueued, WaitsForQueued, DueWhenIssued, FiredBeforeNext,
                      NeverEarly, EarliestInHand, DueToday, NotBeforeToday

(* One entry of the list is given a time, or is removed.                   *)
LEMMA RecalcKeeps == IInv /\ Recalc => IInv'
  <1> SUFFICES ASSUME IInv, Recalc PROVE IInv'
    OBVIOUS
  <1>1. /\ pc = "recalc" /\ cur \in queued /\ cur \in Ids /\ fresh = {} /\ now \in Nat
        /\ next[cur] \in Nat /\ usesSched[cur] \in BOOLEAN /\ next \in [Ids -> Datetime]
        /\ usesSched \in [Ids -> BOOLEAN] /\ queued \in SUBSET Ids
    BY DEF Recalc, IInv, TypeOK, CurrentIsQueued, StagesInOrder, Starting, Datetime
  <1>2. PICK o \in NextOutcomes(Rem[cur], next[cur], usesSched[cur], SystemDateTime(now)) :
          LET keep == o[1] # NO_DATETIME /\ ~LeftBehind(Rem[cur], o[1], now, MaxLate)
          IN  /\ next' = [next EXCEPT ![cur] = IF keep THEN o[1] ELSE NO_DATETIME]
              /\ usesSched' = [usesSched EXCEPT ![cur] = o[2]]
              /\ queued' = IF keep THEN queued ELSE queued \ {cur}
    BY DEF Recalc
  <1>3. /\ o[1] \in Datetime /\ o[2] \in BOOLEAN
        /\ o[1] # NO_DATETIME => o[1] > next[cur]
    <2>1. SystemDateTime(now) \in Nat /\ next[cur] \in Datetime
      BY <1>1, ClockTypes DEF Datetime
    <2> QED BY <1>1, <2>1, NextOutcomesBounds
  <1>4. /\ next' \in [Ids -> Datetime] /\ usesSched' \in [Ids -> BOOLEAN]
        /\ \A r \in Ids \ {cur} : next'[r] = next[r]
        /\ queued' \subseteq queued
        /\ cur \in queued' => next'[cur] \in Nat /\ next'[cur] > next[cur]
    BY <1>1, <1>2, <1>3 DEF Datetime
  <1> USE DEF Recalc, envVars, ghostVars
  <1>5. TypeOK'
    BY <1>1, <1>4 DEF IInv, TypeOK, Datetime, Blocked, Starting
  <1>6. StagesInOrder'
    BY <1>1, <1>4 DEF IInv, StagesInOrder, Starting, TypeOK
  <1>7. FiredBeforeNext'
    BY <1>1, <1>4 DEF IInv, TypeOK, FiredBeforeNext
  <1>8. NeverEarly'
    BY DEF IInv, NeverEarly, AtSec
  <1>9. NotBeforeToday'
    <2>1. realToday * MinsPerDay \in Nat
      BY ClockAssumption DEF IInv, TypeOK
    <2>2. realToday * MinsPerDay <= next[cur]
      BY <1>1 DEF IInv, NotBeforeToday
    <2>3. cur \in queued' => realToday * MinsPerDay <= next'[cur]
      BY <1>1, <1>4, <2>1, <2>2
    <2> QED BY <1>1, <1>4, <2>3 DEF IInv, NotBeforeToday
  <1> QED
    BY <1>5, <1>6, <1>7, <1>8, <1>9 DEF IInv, CurrentIsQueued, WaitsForQueued, DueWhenIssued,
                                        EarliestInHand, DueToday

(* The initialisation pass gives one entry its first time, or removes it.  *)
LEMMA SetupKeeps == IInv /\ SetupReminder => IInv'
  <1> SUFFICES ASSUME IInv, SetupReminder PROVE IInv'
    OBVIOUS
  <1>1. PICK r \in fresh :
          /\ \E o \in NextOutcomes(Rem[r], NO_DATETIME, usesSched[r], SystemDateTime(now)) :
               /\ next' = [next EXCEPT ![r] = o[1]]
               /\ usesSched' = [usesSched EXCEPT ![r] = o[2]]
               /\ queued' = IF o[1] = NO_DATETIME \/ (IsDaemon /\ NextDate(o[1]) > realToday)
                            THEN queued \ {r} ELSE queued
          /\ fresh' = fresh \ {r}
    BY DEF SetupReminder
  <1>2. PICK o \in NextOutcomes(Rem[r], NO_DATETIME, usesSched[r], SystemDateTime(now)) :
          /\ next' = [next EXCEPT ![r] = o[1]]
          /\ usesSched' = [usesSched EXCEPT ![r] = o[2]]
          /\ queued' = IF o[1] = NO_DATETIME \/ (IsDaemon /\ NextDate(o[1]) > realToday)
                       THEN queued \ {r} ELSE queued
    BY <1>1
  <1>3. /\ pc = "setup" /\ pc' = pc /\ now \in Nat /\ r \in Ids
        /\ next \in [Ids -> Datetime] /\ usesSched \in [Ids -> BOOLEAN]
        /\ fired = {} /\ fired' = {}
        /\ UNCHANGED <<loaded, realToday, qid, cur, remain, idle, sighup, changed, shown,
                       now, script, events>>
    BY DEF SetupReminder, IInv, TypeOK, StagesInOrder, Starting, Datetime, ghostVars, envVars
  <1>4. /\ o[1] \in Datetime /\ o[2] \in BOOLEAN
        /\ o[1] # NO_DATETIME => SystemDateTime(now) <= o[1] \/ QDateTime(Rem[r]) <= o[1]
    <2>1. SystemDateTime(now) \in Nat /\ usesSched[r] \in BOOLEAN /\ NO_DATETIME \in Datetime
      BY <1>3, ClockTypes DEF Datetime
    <2> QED BY <1>3, <2>1, NextOutcomesBounds
  <1>5. /\ next' \in [Ids -> Datetime] /\ usesSched' \in [Ids -> BOOLEAN]
        /\ \A s \in Ids \ {r} : next'[s] = next[s]
        /\ queued' \in {queued, queued \ {r}}
        /\ r \in queued' => next'[r] \in Nat
    BY <1>2, <1>3, <1>4 DEF Datetime
  <1>6. TypeOK'
    <2>1. pipe' \in Seq(CommandLine)
      BY DEF SetupReminder, IInv, TypeOK
    <2> QED BY <1>1, <1>3, <1>5, <2>1 DEF IInv, TypeOK, Datetime, Blocked, Starting
  <1>7. StagesInOrder'
    BY <1>1, <1>3, <1>5 DEF IInv, StagesInOrder, Starting, TypeOK, SystemDate
  <1>8. r \in queued' => realToday * MinsPerDay <= next'[r]
    <2> SUFFICES ASSUME r \in queued' PROVE realToday * MinsPerDay <= next'[r]
      OBVIOUS
    <2>1. realToday * MinsPerDay \in Nat /\ realToday * MinsPerDay <= SystemDateTime(now)
      BY <1>3, TodayHasBegun DEF IInv, TypeOK, StagesInOrder
    <2>2. realToday * MinsPerDay <= QDateTime(Rem[r]) /\ QDateTime(Rem[r]) \in Nat
      BY <1>3, EventTypes DEF IInv, TypeOK, NotBeforeToday
    <2>3. SystemDateTime(now) \in Nat /\ next'[r] = o[1] /\ o[1] \in Nat
      BY <1>2, <1>3, <1>5, ClockTypes
    <2> QED BY <1>4, <2>1, <2>2, <2>3 DEF NO_DATETIME
  <1>9. NotBeforeToday'
    BY <1>1, <1>3, <1>5, <1>8 DEF IInv, NotBeforeToday, TypeOK
  <1> QED
    BY <1>3, <1>6, <1>7, <1>9 DEF IInv, CurrentIsQueued, WaitsForQueued, DueWhenIssued,
                                  FiredBeforeNext, NeverEarly, EarliestInHand, DueToday

LEMMA ReadKeeps == IInv /\ Read => IInv'
  <1> SUFFICES ASSUME IInv, Read PROVE IInv'
    OBVIOUS
  <1>1. /\ pc = "read" /\ pc' = "parsed" /\ queued' \subseteq script /\ fresh' = queued'
        /\ next' = [r \in Ids |-> NO_DATETIME]
        /\ usesSched' = [r \in Ids |-> Rem[r].sched]
        /\ qid' = Numbered(queued') /\ loaded' = script
        /\ UNCHANGED <<realToday, cur, remain, idle, sighup, changed, shown, fired,
                       now, script, events>>
    BY DEF Read, ghostVars, envVars
  <1>2. queued' \subseteq Ids
    BY <1>1 DEF IInv, TypeOK
  <1>3. qid' \in [Ids -> Nat]
    <2>1. IsFiniteSet(Ids)
      BY QueueAssumption
    <2>2. \A r \in Ids : Cardinality({s \in queued' : s < r}) \in Nat
      <3> TAKE r \in Ids
      <3>1. IsFiniteSet({s \in queued' : s < r})
        BY <1>2, <2>1, FS_Subset
      <3> QED BY <3>1, FS_CardinalityType
    <2> QED BY <1>1, <2>2 DEF Numbered
  <1>4. usesSched' \in [Ids -> BOOLEAN]
    BY <1>1, QueueAssumption
  <1>5. TypeOK'
    <2>1. pipe' \in Seq(CommandLine)
      BY DEF Read, IInv, TypeOK
    <2> QED BY <1>1, <1>2, <1>3, <1>4, <2>1 DEF IInv, TypeOK, Blocked, Starting
  <1>6. StagesInOrder'
    BY <1>1 DEF IInv, StagesInOrder, Starting, SystemDate
  <1>7. NotBeforeToday'
    <2>1. \A r \in queued' : NotOver(Rem[r], realToday, now)
      BY DEF Read
    <2>2. ASSUME NEW r \in queued' PROVE realToday * MinsPerDay <= QDateTime(Rem[r])
      <3>1. NotOver(Rem[r], realToday, now) /\ QDateTime(Rem[r]) \in Nat
        BY <1>2, <2>1, <2>2, EventTypes
      <3>2. SystemTime(now) \div SecsPerMin \in Nat
        BY ClockTypes, ClockAssumption, DivMod DEF IInv, TypeOK
      <3>3. realToday * MinsPerDay \in Nat
        BY ClockAssumption DEF IInv, TypeOK
      <3> QED BY <3>1, <3>2, <3>3 DEF NotOver
    <2> QED BY <1>1, <2>2 DEF NotBeforeToday
  <1> QED
    BY <1>1, <1>5, <1>6, <1>7 DEF IInv, CurrentIsQueued, WaitsForQueued, DueWhenIssued, DueToday,
                                  EarliestInHand, FiredBeforeNext, NeverEarly, StagesInOrder,
                                  Starting

LEMMA IssueKeeps == IInv /\ Issue => IInv'
  <1> SUFFICES ASSUME IInv, Issue PROVE IInv'
    OBVIOUS
  <1>1. /\ pc = "issue" /\ pc' = "recalc" /\ cur' = cur /\ fresh = {}
        /\ cur \in queued /\ cur \in Ids /\ next[cur] \in Nat /\ AtSec(next[cur]) <= now
        /\ now \in Nat /\ qid[cur] \in Nat
        /\ UNCHANGED <<loaded, realToday, queued, fresh, next, usesSched, qid, remain, idle, sighup,
                       changed, now, script, events>>
    BY DEF Issue, IInv, TypeOK, CurrentIsQueued, StagesInOrder, Starting, DueWhenIssued,
           queueVars, envVars
  <1>2. /\ fired' \in {fired, fired \cup {[r |-> cur, next |-> next[cur], at |-> now]}}
        /\ shown' \in {shown, shown \cup {[r |-> cur, qid |-> qid[cur]]}}
    BY DEF Issue, ghostVars
  <1>3. TypeOK'
    <2>1. pipe' \in Seq(CommandLine)
      BY DEF Issue, IInv, TypeOK
    <2> QED BY <1>1, <1>2, <2>1 DEF IInv, TypeOK, Blocked, Starting
  <1>4. StagesInOrder'
    BY <1>1 DEF IInv, StagesInOrder, Starting, SystemDate
  <1>5. FiredBeforeNext'
    BY <1>1, <1>2 DEF IInv, FiredBeforeNext
  <1>6. NeverEarly'
    BY <1>1, <1>2 DEF IInv, NeverEarly, AtSec
  <1>7. NotBeforeToday' /\ DueToday' /\ EarliestInHand'
    BY <1>1 DEF IInv, NotBeforeToday, DueToday, EarliestInHand, NextDate
  <1> QED
    BY <1>1, <1>3, <1>4, <1>5, <1>6, <1>7 DEF IInv, CurrentIsQueued, WaitsForQueued, DueWhenIssued

(* The steps that only move the process on. *)
LEMMA AdvanceKeeps ==
    IInv /\ (StartHandling \/ SetupDone \/ WakeCommand \/ CmdExit) => IInv'
  <1> SUFFICES ASSUME IInv, StartHandling \/ SetupDone \/ WakeCommand \/ CmdExit PROVE IInv'
    OBVIOUS
  <1>1. /\ \/ pc = "parsed" /\ pc' = "setup"
           \/ pc = "setup" /\ pc' = "find" /\ fresh = {}
           \/ pc = "wait" /\ pc' = "reading" /\ IsServerMode /\ pipe' # << >>
           \/ pc = "reading" /\ pc' = "exited"
        /\ changed' \in BOOLEAN
        /\ UNCHANGED <<loaded, realToday, queued, fresh, next, usesSched, qid, cur, remain, idle,
                       sighup, shown, fired, now, script, events>>
    BY DEF IInv, TypeOK, StartHandling, SetupDone, WakeCommand, CmdExit, Line,
           queueVars, ghostVars, envVars
  <1>2. TypeOK'
    <2>1. pipe' \in Seq(CommandLine)
      <3>1. (pipe' = pipe) \/ (pipe # << >> /\ pipe' = Tail(pipe))
        BY DEF StartHandling, SetupDone, WakeCommand, CmdExit, Line
      <3>2. pipe \in Seq(CommandLine)
        BY DEF IInv, TypeOK
      <3> QED BY <3>1, <3>2, TailTypes
    <2> QED BY <1>1, <2>1 DEF IInv, TypeOK, Blocked, Starting, Gone
  <1>3. StagesInOrder'
    BY <1>1 DEF IInv, StagesInOrder, Starting, SystemDate, IsServerMode
  <1> QED
    BY <1>1, <1>2, <1>3 DEF IInv, CurrentIsQueued, WaitsForQueued, DueWhenIssued, NeverEarly,
                            FiredBeforeNext, AtSec, EarliestInHand, DueToday, NotBeforeToday

LEMMA WakeKeeps == IInv /\ (Find \/ WakeReread \/ WakeIdle) => IInv'
  <1> SUFFICES ASSUME IInv, Find \/ WakeReread \/ WakeIdle PROVE IInv'
    OBVIOUS
  <1>1. CASE WakeReread
    BY <1>1, ExecKeeps DEF WakeReread, IInv, TypeOK
  <1>2. CASE WakeIdle
    <2>1. PICK q \in (IF IsServerMode THEN FindNextReminder(queued) ELSE {cur}) : SleepOrIssue(q)
      BY <1>2 DEF WakeIdle
    <2>2. EarliestOf(q, queued)
      <3>1. queued \in SUBSET Ids /\ \A r \in queued : next[r] \in Nat
        BY <1>2 DEF WakeIdle, IInv, TypeOK, StagesInOrder, Starting
      <3>2. CASE IsServerMode
        BY <2>1, <3>1, <3>2, FindNextReminderFinds
      <3>3. CASE ~IsServerMode
        BY <1>2, <2>1, <3>3 DEF WakeIdle, IInv, WaitsForQueued, EarliestInHand, EarliestOf
      <3> QED BY <3>2, <3>3
    <2>3. sighup' \in BOOLEAN /\ changed' \in BOOLEAN
      BY <1>2 DEF WakeIdle, IInv, TypeOK
    <2> QED
      BY <1>2, <2>1, <2>2, <2>3, ResumeKeeps DEF WakeIdle, queueVars, IInv, TypeOK
  <1>3. CASE Find
    <2>1. PICK q \in FindNextReminder(queued) :
            IF q = NoReminder /\ ~IsDaemon
            THEN pc' = "exited" /\ cur' = q /\ remain' = 0 /\ UNCHANGED idle ELSE SleepOrIssue(q)
      BY <1>3 DEF Find
    <2>2. EarliestOf(q, queued)
      BY <1>3, <2>1, FindNextReminderFinds DEF Find, IInv, TypeOK, StagesInOrder, Starting
    <2>3. CASE SleepOrIssue(q)
      BY <1>3, <2>2, <2>3, ResumeKeeps DEF Find, queueVars, IInv, TypeOK
    <2>4. CASE pc' = "exited" /\ cur' = NoReminder /\ remain' = 0 /\ UNCHANGED idle
      <3>1. /\ pc = "find"
            /\ UNCHANGED <<loaded, realToday, queued, fresh, next, usesSched, qid, sighup,
                           changed, shown, fired, now, script, events>>
        BY <1>3 DEF Find, queueVars, ghostVars, envVars
      <3>2. TypeOK'
        <4>1. pipe' \in Seq(CommandLine)
          BY <1>3 DEF Find, IInv, TypeOK
        <4> QED BY <2>4, <3>1, <4>1 DEF IInv, TypeOK, Blocked, Starting, Gone
      <3>3. StagesInOrder'
        BY <2>4, <3>1 DEF IInv, StagesInOrder, Starting, SystemDate
      <3> QED
        BY <2>4, <3>1, <3>2, <3>3 DEF IInv, CurrentIsQueued, WaitsForQueued, DueWhenIssued,
                                      NeverEarly, FiredBeforeNext, AtSec, EarliestInHand,
                                      DueToday, NotBeforeToday
    <2> QED BY <2>1, <2>3, <2>4
  <1> QED BY <1>1, <1>2, <1>3

(* What follows a command, whatever it deleted. *)
LEMMA AfterCommandKeeps ==
    ASSUME IInv, pc = "reading", NEW Q \in SUBSET queued, AfterCommand(Q)
    PROVE  IInv'
  <1>0. pipe' \in Seq(CommandLine)
    BY TailTypes DEF AfterCommand, IInv, TypeOK, StagesInOrder
  <1>1. CASE sighup /\ Exec
    BY <1>0, <1>1, ExecKeeps DEF AfterCommand
  <1>2. CASE ~(sighup /\ Exec)
    <2>1. PICK q \in FindNextReminder(Q) : SleepOrIssue(q)
      BY <1>2 DEF AfterCommand
    <2>2. EarliestOf(q, Q)
      BY <2>1, FindNextReminderFinds DEF IInv, TypeOK, StagesInOrder, Starting
    <2>3. sighup' \in BOOLEAN /\ changed' \in BOOLEAN
      BY <1>2 DEF AfterCommand, IInv, TypeOK
    <2> QED BY <1>0, <1>2, <2>1, <2>2, <2>3, ResumeKeeps DEF AfterCommand
  <1> QED BY <1>1, <1>2

LEMMA CommandKeeps == IInv /\ (CmdDel \/ CmdReport \/ CmdReread) => IInv'
  <1> SUFFICES ASSUME IInv, CmdDel \/ CmdReport \/ CmdReread PROVE IInv'
    OBVIOUS
  <1>1. pc = "reading"
    BY DEF CmdDel, CmdReport, CmdReread, Line
  <1>2. CASE CmdDel
    <2>1. Without(Head(pipe).qid) \in SUBSET queued
      BY DEF Without
    <2> QED BY <1>1, <1>2, <2>1, AfterCommandKeeps DEF CmdDel
  <1>3. CASE CmdReport
    BY <1>1, <1>3, AfterCommandKeeps DEF CmdReport
  <1>4. CASE CmdReread
    <2>1. CASE AfterCommand(queued)
      BY <1>1, <2>1, AfterCommandKeeps
    <2>2. CASE Exec /\ pipe' = Tail(pipe) /\ UNCHANGED envVars
      <3>1. pipe' \in Seq(CommandLine)
        BY <1>1, <2>2, TailTypes DEF IInv, TypeOK, StagesInOrder
      <3> QED BY <2>2, <3>1, ExecKeeps
    <2> QED BY <1>4, <2>1, <2>2 DEF CmdReread
  <1> QED BY <1>2, <1>3, <1>4

-----------------------------------------------------------------------------
(* What a client may write: a command, or a DEL of what it was shown. *)
Endings == IF PartialLines THEN BOOLEAN ELSE {TRUE}

LEMMA RequestForms ==
    ASSUME NEW c \in Requests
    PROVE  \/ c \in [cmd : Commands \ {"DEL"}, whole : Endings]
           \/ \E w \in Endings, s \in shown :
                 c = [cmd |-> "DEL", whole |-> w, qid |-> s.qid, r |-> s.r]
  <1> DEFINE Shown == {t \in shown : "DEL" \in Commands}
             A == [cmd : Commands \ {"DEL"}, whole : Endings]
             B == {[cmd |-> "DEL", whole |-> w, qid |-> s.qid, r |-> s.r] :
                     w \in Endings, s \in Shown}
  <1>1. Requests = A \cup B
    BY DEF Requests, Endings
  <1>2. Shown \subseteq shown
    OBVIOUS
  <1>3. c \in A \/ c \in B
    <2> HIDE DEF A, B
    <2> QED BY <1>1
  <1>4. c \in B => \E w \in Endings, s \in Shown :
                      c = [cmd |-> "DEL", whole |-> w, qid |-> s.qid, r |-> s.r]
    <2> HIDE DEF Shown
    <2> QED OBVIOUS
  <1> HIDE DEF Shown, B
  <1> QED BY <1>2, <1>3, <1>4

(* The client adds lines to the pipe and ends the one it began. *)
LEMMA EnvironmentWrites ==
    ASSUME IInv, Environment
    PROVE  pipe' \in Seq(CommandLine) /\ (pipe # << >> => pipe' # << >>)
  <1>1. pipe \in Seq(CommandLine)
    BY DEF IInv, TypeOK
  <1>2. CASE Send
    <2>1. PICK c \in Requests : pipe' = Append(pipe, c)
      BY <1>2 DEF Send
    <2>2. c \in CommandLine
      <3>1. CASE c \in [cmd : Commands \ {"DEL"}, whole : Endings]
        BY <3>1, QueueAssumption DEF CommandLine, Endings
      <3>2. ASSUME NEW w \in Endings, NEW s \in shown,
                   c = [cmd |-> "DEL", whole |-> w, qid |-> s.qid, r |-> s.r]
            PROVE  c \in CommandLine
        <4>1. s.qid \in Nat /\ s.r \in Ids /\ w \in BOOLEAN
          BY DEF IInv, TypeOK, Endings
        <4>2. c \in [cmd : {"DEL"}, whole : BOOLEAN, qid : Nat, r : Ids]
          BY <3>2, <4>1
        <4> QED BY <4>2 DEF CommandLine
      <3> QED BY <2>1, <3>1, <3>2, RequestForms
    <2> QED BY <1>1, <2>1, <2>2
  <1>3. CASE CompleteLine
    <2>1. PICK i \in DOMAIN pipe : pipe' = [pipe EXCEPT ![i].whole = TRUE]
      BY <1>3 DEF CompleteLine
    <2>2. i \in 1 .. Len(pipe) /\ pipe[i] \in CommandLine
      BY <1>1
    <2>3. [pipe[i] EXCEPT !.whole = TRUE] \in CommandLine
      BY <2>2 DEF CommandLine
    <2>4. pipe' = [pipe EXCEPT ![i] = [pipe[i] EXCEPT !.whole = TRUE]]
      BY <2>1
    <2> HIDE DEF CommandLine
    <2> QED BY <1>1, <2>2, <2>3, <2>4
  <1>4. CASE Tick \/ Suspend \/ Sighup \/ Edit
    BY <1>1, <1>4 DEF Tick, Suspend, Sighup, Edit
  <1> QED BY <1>2, <1>3, <1>4 DEF Environment

(* The environment moves the clock forward only, and does not touch the    *)
(* list.                                                                   *)
LEMMA EnvironmentKeeps == IInv /\ Environment => IInv'
  <1> SUFFICES ASSUME IInv, Environment PROVE IInv'
    OBVIOUS
  <1>1. /\ now \in Nat /\ remain \in Nat /\ idle \in Nat /\ events \in Nat
        /\ realToday \in Nat /\ realToday <= SystemDate(now)
    BY DEF IInv, TypeOK, StagesInOrder
  <1>2. now' \in Nat /\ now <= now' /\ events' \in Nat
    BY <1>1, QueueAssumption
       DEF Environment, Tick, Suspend, Sighup, Edit, Send, CompleteLine, Event
  <1>3. /\ script' \in SUBSET Ids /\ sighup' \in BOOLEAN /\ changed' \in BOOLEAN
        /\ shown' = shown /\ UNCHANGED unchangedByEnv
    BY QueueAssumption
       DEF Environment, Tick, Suspend, Sighup, Edit, Send, CompleteLine, IInv, TypeOK
  <1>4. remain' \in Nat /\ idle' \in Nat
    <2>1. CASE Tick
      <3>1. idle' \in {idle, now'}
        BY <2>1 DEF Tick, Idling
      <3> QED BY <1>1, <1>2, <2>1, <3>1 DEF Tick, Awake
    <2>2. CASE Suspend
      <3>1. PICK j \in Jumps : remain' \in {remain, IF remain < j THEN 0 ELSE remain - j}
        BY <2>2 DEF Suspend
      <3> QED BY <1>1, <2>2, <3>1, QueueAssumption DEF Suspend
    <2>3. CASE Sighup \/ Edit \/ Send \/ CompleteLine
      BY <1>1, <2>3 DEF Sighup, Edit, Send, CompleteLine
    <2> QED BY <2>1, <2>2, <2>3 DEF Environment
  <1>5. pc' = pc \/ (pc \in Starting /\ pc' = "killed")
    BY DEF Environment, Tick, Suspend, Sighup, Edit, Send, CompleteLine
  <1>6. realToday' <= SystemDate(now')
    BY <1>1, <1>2, <1>3, ClockAdvances DEF unchangedByEnv
  <1>0. pipe' \in Seq(CommandLine) /\ (pipe # << >> => pipe' # << >>)
    BY EnvironmentWrites
  <1>7. TypeOK'
    BY <1>0, <1>2, <1>3, <1>4, <1>5 DEF IInv, TypeOK, unchangedByEnv, Gone, Starting, Blocked
  <1>8. StagesInOrder'
    <2>1. realToday' <= SystemDate(now)'
      BY <1>6 DEF SystemDate
    <2> QED BY <1>0, <1>3, <1>5, <2>1
            DEF IInv, StagesInOrder, unchangedByEnv, Starting, IsServerMode
  <1>9. CurrentIsQueued' /\ WaitsForQueued' /\ FiredBeforeNext'
    BY <1>3, <1>5 DEF IInv, CurrentIsQueued, WaitsForQueued, FiredBeforeNext, unchangedByEnv,
                      StagesInOrder, Starting
  <1>10. DueWhenIssued'
    <2>1. pc = "issue" => AtSec(next[cur]) \in Nat
      BY ClockAssumption
         DEF IInv, TypeOK, CurrentIsQueued, StagesInOrder, Starting, AtSec
    <2> QED BY <1>1, <1>2, <1>3, <1>5, <2>1 DEF IInv, DueWhenIssued, unchangedByEnv, AtSec
  <1>11. NeverEarly'
    BY <1>3 DEF IInv, NeverEarly, AtSec, unchangedByEnv
  <1>12. EarliestInHand' /\ DueToday' /\ NotBeforeToday'
    BY <1>3, <1>5 DEF IInv, EarliestInHand, DueToday, NotBeforeToday, NextDate, unchangedByEnv
  <1> QED BY <1>7, <1>8, <1>9, <1>10, <1>11, <1>12 DEF IInv

LEMMA NextKeeps == IInv /\ [Next]_vars => IInv'
  <1> SUFFICES ASSUME IInv, [Next]_vars PROVE IInv'
    OBVIOUS
  <1>1. CASE ProcessStep
    BY <1>1, ReadKeeps, SetupKeeps, IssueKeeps, RecalcKeeps, AdvanceKeeps, WakeKeeps, CommandKeeps
       DEF ProcessStep, ServerStep
  <1>2. CASE Environment
    BY <1>2, EnvironmentKeeps
  <1>3. CASE UNCHANGED vars
    BY <1>3 DEF vars, IInv, TypeOK, StagesInOrder, CurrentIsQueued, WaitsForQueued,
                DueWhenIssued, FiredBeforeNext, NeverEarly, EarliestInHand, DueToday,
                NotBeforeToday, AtSec, NextDate, SystemDate, IsServerMode
  <1> QED BY <1>1, <1>2, <1>3 DEF Next, Stopped

-----------------------------------------------------------------------------
(* The inductive invariant holds in every state the process reaches. *)
THEOREM QueueInvariant == Spec => []IInv
  BY InitInvariant, NextKeeps, PTL DEF Spec

(* Every variable of the process keeps its type. *)
THEOREM TypeCorrect == Spec => []TypeOK
  <1>1. IInv => TypeOK
    BY DEF IInv
  <1> QED BY <1>1, QueueInvariant, PTL

(* HandleQueuedReminders never works on a reminder that del_reminder, or   *)
(* its own bookkeeping, has freed.                                         *)
THEOREM CurrentAlwaysQueued == Spec => []CurrentIsQueued
  <1>1. IInv => CurrentIsQueued
    BY DEF IInv
  <1> QED BY <1>1, QueueInvariant, PTL

(* No reminder is issued before its time, in any mode, whatever its repeat *)
(* and its scheduling function ask for.                                    *)
THEOREM IssuedInTime == Spec => []NeverEarly
  <1>1. IInv => NeverEarly
    BY DEF IInv
  <1> QED BY <1>1, QueueInvariant, PTL

(* Between two reads of the script no time of a reminder is issued twice.  *)
THEOREM IssuedOnce == Spec => AtMostOnce
  <1> DEFINE Once == \A r \in Ids : Issues(r) =>
                        \A g \in fired : g.r = r => g.next < next[r]
  <1>1. IInv /\ [Next]_vars => [Once]_vars
    <2> SUFFICES ASSUME IInv, NEW r \in Ids, Issues(r), NEW g \in fired, g.r = r
                 PROVE  g.next < next[r]
      BY Zenon
    <2>1. pc = "issue" /\ cur = r /\ r \in queued
      BY DEF Issues, Issue, IInv, CurrentIsQueued
    <2> QED BY <2>1 DEF IInv, FiredBeforeNext
  <1>2. Spec => [][Once]_vars
    BY <1>1, QueueInvariant, PTL DEF Spec
  <1> QED BY <1>2 DEF AtMostOnce

(* When a reminder is issued no other one on the list has an earlier time. *)
THEOREM IssuedInOrder == Spec => InOrder
  <1> DEFINE First == \A r \in Ids : Issues(r) => \A s \in queued : next[r] <= next[s]
  <1>1. IInv /\ [Next]_vars => [First]_vars
    <2> SUFFICES ASSUME IInv, NEW r \in Ids, Issues(r), NEW s \in queued
                 PROVE  next[r] <= next[s]
      BY Zenon
    <2>1. pc = "issue" /\ cur = r /\ r # NoReminder
      BY QueueAssumption DEF Issues, Issue, NoReminder
    <2> QED BY <2>1 DEF IInv, EarliestInHand
  <1>2. Spec => [][First]_vars
    BY <1>1, QueueInvariant, PTL DEF Spec
  <1> QED BY <1>2 DEF InOrder

-----------------------------------------------------------------------------
(* Sleeping, when nothing suspends the computer. *)

(* A datetime in seconds, by day and time of day. *)
LEMMA AtSecParts ==
    ASSUME NEW n \in Nat
    PROVE  /\ AtSec(n) \in Nat
           /\ NextTime(n) * SecsPerMin \in Nat
           /\ NextDate(n) \in Nat
           /\ AtSec(n) = SecsPerDay * NextDate(n) + NextTime(n) * SecsPerMin
  <1>1. NextDate(n) \in Nat /\ NextTime(n) \in Nat /\ n = MinsPerDay * NextDate(n) + NextTime(n)
    BY NextTypes
  <1>2. SecsPerMin \in Nat /\ MinsPerDay \in Nat
    BY ClockAssumption
  <1>3. n * SecsPerMin = (MinsPerDay * NextDate(n) + NextTime(n)) * SecsPerMin
    BY <1>1
  <1>4. (MinsPerDay * NextDate(n) + NextTime(n)) * SecsPerMin
          = (SecsPerMin * MinsPerDay) * NextDate(n) + NextTime(n) * SecsPerMin
    BY <1>1, <1>2
  <1>5. NextTime(n) * SecsPerMin \in Nat /\ n * SecsPerMin \in Nat
    BY <1>1, <1>2
  <1> QED BY <1>1, <1>3, <1>4, <1>5 DEF AtSec, SecsPerDay

(* SystemDateTime is the minute of the clock. *)
LEMMA MinuteOfClock ==
    ASSUME NEW t \in Nat
    PROVE  /\ SystemDateTime(t) \in Nat
           /\ SystemDateTime(t) = t \div SecsPerMin
  <1> DEFINE d == SystemDate(t)  s == SystemTime(t)  m == s \div SecsPerMin
  <1>1. d \in Nat /\ s \in Nat /\ t = SecsPerDay * d + s /\ SystemDateTime(t) \in Nat
    BY ClockTypes
  <1>2. SecsPerMin \in Nat \ {0} /\ MinsPerDay \in Nat \ {0}
    BY ClockAssumption
  <1>3. m \in Nat /\ s % SecsPerMin \in 0 .. SecsPerMin - 1 /\ s = SecsPerMin * m + (s % SecsPerMin)
    <2>1. s \in Nat
      BY <1>1
    <2> HIDE DEF s
    <2> QED BY <1>2, <2>1, DivMod
  <1>4. SystemDateTime(t) = d * MinsPerDay + m
    BY DEF SystemDateTime
  <1> HIDE DEF d, s, m
  <1> DEFINE w == d * MinsPerDay + m  e == s % SecsPerMin
  <1>5. w \in Nat /\ e \in 0 .. SecsPerMin - 1
    BY <1>1, <1>2, <1>3
  <1>6. t = SecsPerMin * w + e
    <2>1. t = (SecsPerMin * MinsPerDay) * d + (SecsPerMin * m + e)
      BY <1>1, <1>3 DEF SecsPerDay
    <2>2. (SecsPerMin * MinsPerDay) * d + (SecsPerMin * m + e) = SecsPerMin * (d * MinsPerDay + m) + e
      BY <1>1, <1>2, <1>3
    <2> QED BY <2>1, <2>2
  <1> HIDE DEF w, e
  <1>7. t \div SecsPerMin = w
    BY <1>2, <1>5, <1>6, DivUnique
  <1> QED BY <1>1, <1>4, <1>7 DEF w

(* The minute of a time before n is n or earlier. *)
LEMMA MinuteBefore ==
    ASSUME NEW t \in Nat, NEW n \in Nat
    PROVE  /\ t <= AtSec(n) => SystemDateTime(t) <= n
           /\ t < AtSec(n) => t + (SecsPerMin - (t % SecsPerMin)) <= AtSec(n)
  <1> DEFINE k == t \div SecsPerMin  e == t % SecsPerMin
  <1>1. SecsPerMin \in Nat \ {0} /\ k \in Nat /\ e \in Nat /\ e < SecsPerMin
        /\ t = SecsPerMin * k + e
    BY ClockAssumption, DivMod
  <1>2. AtSec(n) = SecsPerMin * n
    BY <1>1 DEF AtSec
  <1>3. SystemDateTime(t) = k
    BY MinuteOfClock
  <1> HIDE DEF k, e
  <1>4. ASSUME t <= AtSec(n) PROVE k <= n
    <2>1. ~(k > n)
      <3> SUFFICES ASSUME k >= n + 1 PROVE FALSE
        BY <1>1
      <3>1. SecsPerMin * (n + 1) <= SecsPerMin * k
        BY <1>1, ProductMonotone
      <3>2. SecsPerMin * (n + 1) = SecsPerMin * n + SecsPerMin
        BY <1>1
      <3>3. SecsPerMin * n \in Nat /\ SecsPerMin * k \in Nat
        BY <1>1
      <3> QED BY <1>1, <1>2, <1>4, <3>1, <3>2, <3>3
    <2> QED BY <1>1, <2>1
  <1>5. ASSUME t < AtSec(n) PROVE t + (SecsPerMin - e) <= AtSec(n)
    <2>1. k # n
      <3>1. SecsPerMin * n \in Nat
        BY <1>1
      <3> QED BY <1>1, <1>2, <1>5, <3>1
    <2>2. k + 1 <= n
      <3>1. t <= AtSec(n)
        BY <1>5, AtSecParts
      <3> QED BY <1>1, <1>4, <2>1, <3>1
    <2>3. SecsPerMin * (k + 1) <= SecsPerMin * n
      BY <1>1, <2>2, ProductMonotone
    <2>4. SecsPerMin * (k + 1) = SecsPerMin * k + SecsPerMin /\ SecsPerMin * k \in Nat
      BY <1>1
    <2>5. SecsPerMin * n \in Nat
      BY <1>1
    <2> QED BY <1>1, <1>2, <2>3, <2>4, <2>5
  <1> QED BY <1>3, <1>4, <1>5 DEF e

(* On its day, or before it, the sleep for a reminder ends no later than   *)
(* its time.                                                               *)
LEMMA SleepEndsInTime ==
    ASSUME NEW t \in Nat, NEW n \in Nat, SystemDate(t) <= NextDate(n),
           SleepFor(n, t, SystemDate(t)) > 0
    PROVE  t < AtSec(n) /\ t + SleepFor(n, t, SystemDate(t)) <= AtSec(n)
  <1> DEFINE d == SystemDate(t)  s == SystemTime(t)
             e == NextDate(n)    m == NextTime(n) * SecsPerMin
             z == SleepFor(n, t, d)
  <1>1. d \in Nat /\ s \in Nat /\ s < SecsPerDay /\ t = SecsPerDay * d + s
    BY ClockTypes
  <1>2. e \in Nat /\ m \in Nat /\ AtSec(n) = SecsPerDay * e + m
    BY AtSecParts
  <1>3. z = IF e = d THEN m - s ELSE SecsPerDay - s
    BY DEF SleepFor
  <1>4. SecsPerDay \in Nat \ {0} /\ d <= e /\ z > 0
    BY DayPositive
  <1> HIDE DEF d, s, e, m, z
  <1>5. e = d => t < AtSec(n) /\ t + z <= AtSec(n)
    <2>1. SecsPerDay * d \in Nat
      BY <1>1, <1>4
    <2> QED BY <1>1, <1>2, <1>3, <1>4, <2>1
  <1>6. e # d => t < AtSec(n) /\ t + z <= AtSec(n)
    <2> SUFFICES ASSUME e # d PROVE t < AtSec(n) /\ t + z <= AtSec(n)
      OBVIOUS
    <2>1. d + 1 <= e
      BY <1>1, <1>2, <1>4
    <2>2. SecsPerDay * (d + 1) <= SecsPerDay * e
      BY <1>1, <1>2, <1>4, <2>1, ProductMonotone
    <2>3. SecsPerDay * (d + 1) = SecsPerDay * d + SecsPerDay
      BY <1>1, <1>4
    <2>4. SecsPerDay * d \in Nat /\ SecsPerDay * e \in Nat
      BY <1>1, <1>2, <1>4
    <2> QED BY <1>1, <1>2, <1>3, <1>4, <2>2, <2>3, <2>4
  <1> QED BY <1>5, <1>6 DEF z, d

LEMMA DateNotBefore ==
    ASSUME NEW d \in Nat, NEW n \in Nat, d * MinsPerDay <= n
    PROVE  d <= NextDate(n)
  <1>1. NextDate(n) \in Nat /\ n % MinsPerDay \in Nat /\ n % MinsPerDay < MinsPerDay
        /\ n = MinsPerDay * NextDate(n) + (n % MinsPerDay) /\ MinsPerDay \in Nat
    BY ClockAssumption, DivMod DEF NextDate
  <1> DEFINE k == NextDate(n)
  <1> HIDE DEF k
  <1>2. ASSUME k + 1 <= d PROVE FALSE
    <2>1. MinsPerDay * (k + 1) <= MinsPerDay * d
      BY <1>1, <1>2, ProductMonotone DEF k
    <2>2. MinsPerDay * (k + 1) = MinsPerDay * k + MinsPerDay /\ MinsPerDay * d = d * MinsPerDay
          /\ MinsPerDay * k \in Nat /\ MinsPerDay * d \in Nat
      BY <1>1 DEF k
    <2> QED BY <1>1, <2>1, <2>2 DEF k
  <1> QED BY <1>1, <1>2 DEF k

LEMMA AtSecMonotone ==
    ASSUME NEW m \in Nat, NEW n \in Nat, m <= n
    PROVE  AtSec(m) \in Nat /\ AtSec(n) \in Nat /\ AtSec(m) <= AtSec(n)
  <1>1. SecsPerMin \in Nat
    BY ClockAssumption
  <1>2. SecsPerMin * m <= SecsPerMin * n
    BY <1>1, ProductMonotone
  <1> QED BY <1>1, <1>2 DEF AtSec

(* The process goes on with the earliest entry of what is left of its list. *)
Resumes(Q, q) ==
    /\ Q \in SUBSET queued /\ EarliestOf(q, Q) /\ SleepOrIssue(q) /\ queued' = Q
    /\ pc \in {"find", "wait", "reading"}
    /\ UNCHANGED <<realToday, fresh, next, usesSched, fired, now>>

(* The process moves on and leaves its list alone. *)
Advances ==
    /\ pc \notin Gone /\ pc' \notin {"wait", "issue", "recalc"}
    /\ pc' \in Starting => pc \in Starting
    /\ UNCHANGED <<realToday, queued, fresh, next, usesSched, fired, idle, now>>

(* The steps of the process, by what they do to the list. *)
LEMMA ProcessShape ==
    ASSUME IInv, ProcessStep
    PROVE  /\ \/ Read \/ SetupReminder \/ Issue \/ Recalc
              \/ Exec /\ now' = now
              \/ \E Q, q : Resumes(Q, q)
              \/ Advances
           /\ (pipe' = pipe) \/ (pipe # << >> /\ pipe' = Tail(pipe))
  <1>0. /\ queued \in SUBSET Ids
        /\ pc \in {"find", "wait", "reading"} => \A r \in queued : next[r] \in Nat
        /\ pc = "reading" => pipe # << >>
    BY DEF IInv, TypeOK, StagesInOrder, Starting
  <1>1. CASE Read \/ SetupReminder \/ Issue \/ Recalc
    BY <1>1 DEF Read, SetupReminder, Issue, Recalc
  <1>2. CASE StartHandling \/ SetupDone \/ WakeCommand \/ CmdExit
    BY <1>2 DEF StartHandling, SetupDone, WakeCommand, CmdExit, Line, Advances, Gone, Starting,
                queueVars, ghostVars, envVars
  <1>3. CASE WakeReread
    BY <1>3 DEF WakeReread, envVars
  <1>4. CASE Find
    <2>1. PICK q \in FindNextReminder(queued) :
            IF q = NoReminder /\ ~IsDaemon
            THEN pc' = "exited" /\ cur' = q /\ remain' = 0 /\ UNCHANGED idle ELSE SleepOrIssue(q)
      BY <1>4 DEF Find
    <2>2. /\ pc = "find" /\ pipe' = pipe
          /\ UNCHANGED <<realToday, queued, fresh, next, usesSched, fired, now>>
      BY <1>4 DEF Find, queueVars, ghostVars, envVars
    <2>3. CASE pc' = "exited" /\ UNCHANGED idle
      BY <2>2, <2>3 DEF Advances, Gone, Starting
    <2>4. CASE SleepOrIssue(q)
      <3>1. EarliestOf(q, queued)
        BY <1>0, <2>1, <2>2, FindNextReminderFinds
      <3>2. Resumes(queued, q)
        BY <2>2, <2>4, <3>1 DEF Resumes
      <3> QED BY <2>2, <3>2
    <2> QED BY <2>1, <2>3, <2>4
  <1>5. CASE WakeIdle
    <2>1. PICK q \in (IF IsServerMode THEN FindNextReminder(queued) ELSE {cur}) : SleepOrIssue(q)
      BY <1>5 DEF WakeIdle
    <2>2. /\ pc = "wait" /\ pipe' = pipe
          /\ UNCHANGED <<realToday, queued, fresh, next, usesSched, fired, now>>
      BY <1>5 DEF WakeIdle, queueVars, ghostVars, envVars
    <2>3. EarliestOf(q, queued)
      <3>1. CASE IsServerMode
        BY <1>0, <2>1, <2>2, <3>1, FindNextReminderFinds
      <3>2. CASE ~IsServerMode
        BY <2>1, <2>2, <3>2 DEF IInv, WaitsForQueued, EarliestInHand, EarliestOf
      <3> QED BY <3>1, <3>2
    <2>4. Resumes(queued, q)
      BY <2>1, <2>2, <2>3 DEF Resumes
    <2> QED BY <2>2, <2>4
  <1>6. ASSUME pc = "reading", NEW Q \in SUBSET queued, AfterCommand(Q)
        PROVE  /\ pipe' = Tail(pipe)
               /\ (Exec /\ now' = now) \/ \E q : Resumes(Q, q)
    <2>1. pipe' = Tail(pipe) /\ now' = now
      BY <1>6 DEF AfterCommand, envVars
    <2>2. CASE Exec
      BY <2>1, <2>2
    <2>3. CASE ~Exec
      <3>1. PICK q \in FindNextReminder(Q) : SleepOrIssue(q)
        BY <1>6, <2>3 DEF AfterCommand
      <3>2. EarliestOf(q, Q)
        BY <1>0, <1>6, <3>1, FindNextReminderFinds
      <3>3. queued' = Q /\ UNCHANGED <<realToday, fresh, next, usesSched, fired>>
        BY <1>6, <2>3 DEF AfterCommand, ghostVars
      <3>4. Resumes(Q, q)
        BY <1>6, <2>1, <3>1, <3>2, <3>3 DEF Resumes
      <3> QED BY <2>1, <3>4
    <2> QED BY <2>2, <2>3
  <1>7. CASE CmdDel \/ CmdReport \/ CmdReread
    <2>1. pc = "reading" /\ pipe # << >>
      BY <1>7 DEF CmdDel, CmdReport, CmdReread, Line
    <2>2. \/ \E Q \in SUBSET queued : AfterCommand(Q)
          \/ Exec /\ pipe' = Tail(pipe) /\ now' = now
      <3>1. Without(Head(pipe).qid) \in SUBSET queued
        BY DEF Without
      <3> QED BY <1>7, <3>1 DEF CmdDel, CmdReport, CmdReread, envVars
    <2> QED BY <1>6, <2>1, <2>2
  <1> QED BY <1>1, <1>2, <1>3, <1>4, <1>5, <1>7 DEF ProcessStep, ServerStep

(* A nap that begins on the day of the last read is short enough. *)
LEMMA NapEndsInTime ==
    ASSUME IInv, NEW Q, NEW q, Resumes(Q, q), pc' = "wait", ~RolledOver, NEW r \in Q
    PROVE  now + remain' <= AtSec(next[r])
  <1>1. /\ now \in Nat /\ realToday = SystemDate(now) /\ realToday \in Nat
        /\ q \in queued /\ q # NoReminder /\ next[q] \in Nat /\ next[r] \in Nat
        /\ next[q] <= next[r] /\ q \notin fresh
    BY DEF IInv, TypeOK, StagesInOrder, Starting, Resumes, EarliestOf, RolledOver
  <1>2. TimeToSleep(q) > 0 /\ remain' = Nap(q)
    BY DEF Resumes, SleepOrIssue
  <1>3. SystemDate(now) <= NextDate(next[q])
    BY <1>1, DateNotBefore DEF IInv, NotBeforeToday
  <1>4. TimeToSleep(q) = SleepFor(next[q], now, SystemDate(now))
    BY <1>1 DEF TimeToSleep
  <1>5. now < AtSec(next[q]) /\ now + TimeToSleep(q) <= AtSec(next[q])
    BY <1>1, <1>2, <1>3, <1>4, SleepEndsInTime
  <1>6. now + Nap(q) <= AtSec(next[q])
    <2>1. CASE IsServerMode
      <3>1. Nap(q) = SecsPerMin - (now % SecsPerMin)
        BY <2>1 DEF Nap, IsServerMode
      <3> QED BY <1>1, <1>5, <3>1, MinuteBefore
    <2>2. CASE ~IsServerMode
      <3>1. q \in Ids
        BY <1>1 DEF IInv, TypeOK
      <3>2. TimeToSleep(q) \in Int /\ AtSec(next[q]) \in Nat
        BY <1>1, <3>1, TimeToSleepTypes, AtSecParts
      <3>3. SecsPerMin * PollMinutes \in Nat
        BY ClockAssumption, QueueAssumption
      <3>4. Nap(q) \in Int /\ Nap(q) <= TimeToSleep(q)
        <4> DEFINE poll == SecsPerMin * PollMinutes
        <4>1. Nap(q) = IF Mode = "daemon" THEN IF TimeToSleep(q) < poll THEN TimeToSleep(q) ELSE poll
                       ELSE TimeToSleep(q)
          BY <2>2 DEF Nap
        <4> HIDE DEF poll
        <4> QED BY <3>2, <3>3, <4>1 DEF poll
      <3> QED BY <1>1, <1>5, <3>2, <3>4
    <2> QED BY <2>1, <2>2
  <1>7. AtSec(next[q]) \in Nat /\ AtSec(next[r]) \in Nat /\ AtSec(next[q]) <= AtSec(next[r])
    BY <1>1, AtSecMonotone
  <1>8. Nap(q) \in Nat
    <2>1. q \in Ids
      BY <1>1 DEF IInv, TypeOK
    <2> QED BY <1>1, <1>2, <2>1, NapTypes
  <1> QED BY <1>1, <1>2, <1>6, <1>7, <1>8

LEMMA WakesKept ==
    ASSUME Jumps = {}, IInv, WakesInTime, [Next]_vars
    PROVE  WakesInTime'
  <1> SUFFICES ASSUME pc' = "wait", ~RolledOver', NEW r \in queued'
               PROVE  now' + remain' <= AtSec(next'[r])
    BY DEF WakesInTime, AtSec
  <1>1. CASE ProcessStep
    <2>1. \E Q, q : Resumes(Q, q)
      <3>1. ~Read /\ ~SetupReminder /\ ~Issue /\ ~Recalc /\ ~Exec /\ ~Advances
        BY DEF Read, SetupReminder, Issue, Recalc, Exec, Advances
      <3> QED BY <1>1, <3>1, ProcessShape
    <2>2. PICK Q, q : Resumes(Q, q)
      BY <2>1
    <2>3. UNCHANGED <<now, realToday, next>> /\ r \in Q
      BY <2>2 DEF Resumes
    <2>4. ~RolledOver
      BY <2>3 DEF RolledOver, SystemDate
    <2> QED BY <2>2, <2>3, <2>4, NapEndsInTime
  <1>2. CASE Environment
    <2>1. /\ pc = "wait" /\ UNCHANGED <<realToday, queued, next>>
          /\ \/ Tick
             \/ now' = now /\ remain' \in {0, remain}
      BY <1>2 DEF Environment, Tick, Suspend, Sighup, Edit, Send, CompleteLine, unchangedByEnv,
                  Starting
    <2>2. /\ now \in Nat /\ remain \in Nat /\ realToday \in Nat /\ realToday <= SystemDate(now)
          /\ next[r] \in Nat
      BY <2>1 DEF IInv, TypeOK, StagesInOrder, Starting
    <2>3. AtSec(next[r]) \in Nat
      BY <2>2, AtSecParts
    <2>4. CASE now' = now /\ remain' \in {0, remain}
      <3>1. ~RolledOver
        BY <2>1, <2>4 DEF RolledOver, SystemDate
      <3> QED BY <2>1, <2>2, <2>3, <2>4, <3>1 DEF WakesInTime
    <2>5. CASE Tick
      <3>1. now' = now + 1 /\ remain' = remain - 1
        BY <2>1, <2>5 DEF Tick
      <3>2. ~RolledOver
        <4>1. SystemDate(now) <= SystemDate(now + 1) /\ SystemDate(now) \in Nat
          <5>1. now + 1 \in Nat /\ now <= now + 1
            BY <2>2
          <5> QED BY <2>2, <5>1, ClockTypes, ClockAdvances
        <4>2. SystemDate(now + 1) = realToday
          BY <2>1, <3>1 DEF RolledOver, SystemDate
        <4> QED BY <2>2, <4>1, <4>2 DEF RolledOver
      <3> QED BY <2>1, <2>2, <2>3, <3>1, <3>2 DEF WakesInTime
    <2> QED BY <2>1, <2>4, <2>5
  <1>3. CASE UNCHANGED vars
    BY <1>3 DEF vars, WakesInTime, RolledOver, SystemDate
  <1> QED BY <1>1, <1>2, <1>3 DEF Next, Stopped

(* While nothing suspends the computer, a daemon or a server is awake at   *)
(* every time on its list, unless the date has changed and it is about to  *)
(* reread its script.                                                      *)
THEOREM AwakeInTime ==
    ASSUME Jumps = {}, IsDaemon
    PROVE  Spec => []NeverOversleeps
  <1>1. Init => WakesInTime
    BY DEF Init, WakesInTime
  <1>2. IInv /\ WakesInTime /\ [Next]_vars => WakesInTime'
    BY WakesKept
  <1>3. IInv /\ WakesInTime => NeverOversleeps
    <2> SUFFICES ASSUME IInv, WakesInTime, pc = "wait", ~RolledOver, NEW r \in queued
                 PROVE  now <= AtSec(next[r])
      BY DEF NeverOversleeps
    <2>1. now \in Nat /\ remain \in Nat /\ next[r] \in Nat /\ now + remain <= AtSec(next[r])
      BY DEF IInv, TypeOK, StagesInOrder, Starting, WakesInTime
    <2> QED BY <2>1, AtSecParts
  <1> QED BY <1>1, <1>2, <1>3, QueueInvariant, PTL DEF Spec

-----------------------------------------------------------------------------
(* Missing no time, when nothing suspends the computer. *)

(* The event of a reminder as a day and a minute of that day. *)
LEMMA EventParts ==
    ASSUME NEW r \in Ids
    PROVE  NextDate(QDateTime(Rem[r])) = Rem[r].dse /\ NextTime(QDateTime(Rem[r])) = Rem[r].ttime
  <1>1. /\ Rem[r].dse \in Nat /\ Rem[r].ttime \in 0 .. MinsPerDay - 1
        /\ QDateTime(Rem[r]) \in Nat /\ MinsPerDay \in Nat \ {0}
    BY EventTypes, ClockAssumption
  <1>2. QDateTime(Rem[r]) = MinsPerDay * Rem[r].dse + Rem[r].ttime
    BY <1>1 DEF QDateTime
  <1> QED BY <1>1, <1>2, DivUnique DEF NextDate, NextTime

(* Without its scheduling function a reminder has one next time, and it    *)
(* does not get the function back.                                         *)
LEMMA UnscheduledOutcome ==
    \A r, prev, t : NextOutcomes(r, prev, FALSE, t) = {<<DefaultNext(r, prev, t), FALSE>>}
BY Zenon DEF NextOutcomes

(* The parts of a pair.                                                    *)
LEMMA PairParts == \A n : <<n, FALSE>>[1] = n /\ <<n, FALSE>>[2] = FALSE
OBVIOUS

(* Without suspensions the clock moves by one second at a time; the        *)
(* process rests meanwhile, or it is as busy as before.                    *)
LEMMA ClockWhenAwake ==
    ASSUME Jumps = {}, IInv, Environment
    PROVE  /\ UNCHANGED <<realToday, queued, fresh, next, usesSched, cur, fired>>
           /\ now' \in {now, now + 1}
           /\ \/ idle' = idle
              \/ idle' = now' /\ pc' = "wait" /\ ~RolledOver' /\ fresh' = {}
  <1>1. CASE Tick
    <2>1. /\ now' = now + 1 /\ pc' = pc
          /\ UNCHANGED <<realToday, queued, fresh, next, usesSched, cur, fired>>
          /\ idle' = idle \/ (pc = "wait" /\ idle' = Idling(now'))
      BY <1>1 DEF Tick, unchangedByEnv
    <2>2. pc = "wait" => fresh = {}
      BY DEF IInv, StagesInOrder, Starting
    <2> QED BY <2>1, <2>2 DEF Idling, RolledOver, SystemDate
  <1>2. CASE Sighup \/ Edit \/ Send \/ CompleteLine
    BY <1>2 DEF Sighup, Edit, Send, CompleteLine, unchangedByEnv
  <1>3. ~Suspend
    BY DEF Suspend
  <1> QED BY <1>1, <1>2, <1>3 DEF Environment

(* An earlier time is in an earlier minute, or in the same.                *)
LEMMA MinuteMonotone ==
    ASSUME NEW t \in Nat, NEW u \in Nat, t <= u
    PROVE  /\ SystemDateTime(t) \in Nat /\ SystemDateTime(u) \in Nat
           /\ SystemDateTime(t) <= SystemDateTime(u)
  BY MinuteOfClock, DivMonotone, ClockAssumption

(* Recalc, as it changes the entry at hand. *)
LEMMA RecalcEffect ==
    ASSUME IInv, Recalc
    PROVE  /\ cur \in queued /\ cur \in Ids /\ cur \notin fresh /\ next[cur] \in Nat
           /\ UNCHANGED <<realToday, fresh, now, fired>> /\ pc' = "find"
           /\ \A s \in Ids \ {cur} : next'[s] = next[s] /\ usesSched'[s] = usesSched[s]
           /\ \A s \in Ids \ {cur} : s \in queued' <=> s \in queued
           /\ \E o \in NextOutcomes(Rem[cur], next[cur], usesSched[cur], SystemDateTime(now)) :
                 /\ o[1] \in Datetime
                 /\ o[1] # NO_DATETIME => o[1] > next[cur]
                 /\ usesSched'[cur] = o[2]
                 /\ cur \in queued' => o[1] # NO_DATETIME /\ next'[cur] = o[1]
                 /\ cur \notin queued' => \/ o[1] = NO_DATETIME
                                          \/ LeftBehind(Rem[cur], o[1], now, MaxLate)
  <1>1. /\ pc = "recalc" /\ cur \in queued /\ cur \in Ids /\ fresh = {} /\ now \in Nat
        /\ next[cur] \in Nat /\ usesSched[cur] \in BOOLEAN /\ next \in [Ids -> Datetime]
        /\ usesSched \in [Ids -> BOOLEAN] /\ queued \in SUBSET Ids
    BY DEF Recalc, IInv, TypeOK, CurrentIsQueued, StagesInOrder, Starting, Datetime
  <1>2. PICK o \in NextOutcomes(Rem[cur], next[cur], usesSched[cur], SystemDateTime(now)) :
          LET keep == o[1] # NO_DATETIME /\ ~LeftBehind(Rem[cur], o[1], now, MaxLate)
          IN  /\ next' = [next EXCEPT ![cur] = IF keep THEN o[1] ELSE NO_DATETIME]
              /\ usesSched' = [usesSched EXCEPT ![cur] = o[2]]
              /\ queued' = IF keep THEN queued ELSE queued \ {cur}
    BY DEF Recalc
  <1>3. o[1] \in Datetime /\ (o[1] # NO_DATETIME => o[1] > next[cur])
    <2>1. SystemDateTime(now) \in Nat /\ next[cur] \in Datetime
      BY <1>1, ClockTypes DEF Datetime
    <2> QED BY <1>1, <2>1, NextOutcomesBounds
  <1>4. UNCHANGED <<realToday, fresh, now, fired>> /\ pc' = "find"
    BY DEF Recalc, ghostVars, envVars
  <1>5. /\ \A s \in Ids \ {cur} : next'[s] = next[s] /\ usesSched'[s] = usesSched[s]
        /\ \A s \in Ids \ {cur} : s \in queued' <=> s \in queued
        /\ usesSched'[cur] = o[2]
        /\ cur \in queued' => o[1] # NO_DATETIME /\ next'[cur] = o[1]
        /\ cur \notin queued' => \/ o[1] = NO_DATETIME
                                 \/ LeftBehind(Rem[cur], o[1], now, MaxLate)
    BY <1>1, <1>2
  <1> QED BY <1>1, <1>3, <1>4, <1>5

(* SetupReminder, as it changes the entry it initialises. *)
LEMMA SetupEffect ==
    ASSUME IInv, SetupReminder
    PROVE  /\ UNCHANGED <<realToday, now, fired, pc>> /\ pc = "setup" /\ queued' \subseteq queued
           /\ \E r \in fresh :
                /\ r \in Ids /\ fresh' = fresh \ {r}
                /\ \A s \in Ids \ {r} : next'[s] = next[s] /\ usesSched'[s] = usesSched[s]
                /\ \E o \in NextOutcomes(Rem[r], NO_DATETIME, usesSched[r], SystemDateTime(now)) :
                      /\ next'[r] = o[1] /\ usesSched'[r] = o[2]
                      /\ r \in queued' => o[1] # NO_DATETIME
  <1>1. /\ fresh \subseteq Ids /\ next \in [Ids -> Datetime] /\ usesSched \in [Ids -> BOOLEAN]
    BY DEF IInv, TypeOK, Datetime
  <1>2. UNCHANGED <<realToday, now, fired, pc>> /\ pc = "setup"
    BY DEF SetupReminder, ghostVars, envVars
  <1>3. PICK r \in fresh :
          /\ \E o \in NextOutcomes(Rem[r], NO_DATETIME, usesSched[r], SystemDateTime(now)) :
               /\ next' = [next EXCEPT ![r] = o[1]]
               /\ usesSched' = [usesSched EXCEPT ![r] = o[2]]
               /\ queued' = IF o[1] = NO_DATETIME \/ (IsDaemon /\ NextDate(o[1]) > realToday)
                            THEN queued \ {r} ELSE queued
          /\ fresh' = fresh \ {r}
    BY DEF SetupReminder
  <1> QED BY <1>1, <1>2, <1>3

(* The time of an entry of the list, and that it was not missed.           *)
TimeOf(r) == IF r \in fresh THEN QDateTime(Rem[r]) ELSE next[r]
NotMissed(r) ==
    SystemDateTime(idle) <= TimeOf(r) \/ (RolledOver /\ QDateTime(Rem[r]) <= TimeOf(r))

LEMMA NoneMissedKept ==
    ASSUME Jumps = {}, IInv, AwakeInv, [Next]_vars
    PROVE  NoneIsMissed'
  <1>1. /\ now \in Nat /\ idle \in Nat /\ idle <= now /\ queued \in SUBSET Ids
        /\ realToday \in Nat /\ realToday <= SystemDate(now) /\ next \in [Ids -> Datetime]
        /\ usesSched \in [Ids -> BOOLEAN] /\ fresh \subseteq queued
        /\ \A s \in queued \ fresh : next[s] \in Nat
    BY DEF IInv, TypeOK, StagesInOrder, Datetime, AwakeInv, NoneIsMissed
  <1>2. /\ SystemDateTime(now) \in Nat /\ SystemDateTime(idle) \in Nat
        /\ SystemDateTime(idle) <= SystemDateTime(now)
    BY <1>1, MinuteMonotone
  <1>3. \A r \in queued : NotMissed(r)
    BY DEF AwakeInv, NoneIsMissed, NotMissed, TimeOf
  <1>4. SUFFICES idle' <= now' /\ \A r \in queued' : NotMissed(r)'
    BY DEF NoneIsMissed, NotMissed, TimeOf
  (* The list is left alone and the process is as busy as before. *)
  <1>5. ASSUME now' \in {now, now + 1}, idle' = idle, queued' \subseteq queued,
               UNCHANGED <<realToday, fresh, next>>
        PROVE  idle' <= now' /\ \A r \in queued' : NotMissed(r)'
    <2>1. now' \in Nat /\ now <= now'
      BY <1>1, <1>5
    <2>2. RolledOver => RolledOver'
      <3>1. SystemDate(now) <= SystemDate(now') /\ SystemDate(now) \in Nat /\ SystemDate(now') \in Nat
        BY <1>1, <2>1, ClockTypes, ClockAdvances
      <3>2. SystemDate(now)' = SystemDate(now')
        BY DEF SystemDate
      <3> QED BY <1>1, <1>5, <3>1, <3>2 DEF RolledOver
    <2>3. SystemDateTime(idle)' = SystemDateTime(idle)
      BY <1>5 DEF SystemDateTime, SystemDate, SystemTime
    <2>4. idle' <= now'
      BY <1>1, <1>5, <2>1
    <2> QED BY <1>3, <1>5, <2>2, <2>3, <2>4 DEF NotMissed, TimeOf
  (* The process rests, on the day of its start. *)
  <1>6. ASSUME idle' = now', pc' = "wait", ~RolledOver', fresh' = {}
        PROVE  idle' <= now' /\ \A r \in queued' : NotMissed(r)'
    <2>1. IInv' /\ WakesInTime'
      BY NextKeeps, WakesKept DEF AwakeInv
    <2>2. now' \in Nat /\ remain' \in Nat /\ \A r \in queued' : next'[r] \in Nat
      BY <1>6, <2>1 DEF IInv, TypeOK, StagesInOrder
    <2>3. ASSUME NEW r \in queued' PROVE NotMissed(r)'
      <3>1. next'[r] \in Nat /\ now' + remain' <= AtSec(next'[r]) /\ AtSec(next'[r]) \in Nat
        <4>1. now' + remain' <= AtSec(next'[r])
          BY <1>6, <2>1, <2>3 DEF WakesInTime, AtSec
        <4> QED BY <2>2, <2>3, <4>1, AtSecParts
      <3>2. now' <= AtSec(next'[r])
        BY <2>2, <3>1
      <3>3. SystemDateTime(now') <= next'[r]
        BY <2>2, <3>1, <3>2, MinuteBefore
      <3>4. SystemDateTime(idle)' = SystemDateTime(now')
        BY <1>6 DEF SystemDateTime, SystemDate, SystemTime
      <3> QED BY <1>6, <3>3, <3>4 DEF NotMissed, TimeOf
    <2> QED BY <1>6, <2>2, <2>3
  (* One entry gets a time, and the clock stands still. *)
  <1>7. ASSUME UNCHANGED <<now, idle, realToday>>, NEW q \in queued, fresh' \subseteq fresh,
               queued' \subseteq queued, q \notin fresh',
               \A s \in Ids \ {q} : next'[s] = next[s] /\ (s \in fresh' <=> s \in fresh),
               q \in queued' => NotMissed(q)'
        PROVE  idle' <= now' /\ \A r \in queued' : NotMissed(r)'
    <2>1. SystemDateTime(idle)' = SystemDateTime(idle) /\ RolledOver' = RolledOver
      BY <1>7 DEF SystemDateTime, SystemDate, SystemTime, RolledOver
    <2> QED BY <1>1, <1>3, <1>7, <2>1 DEF NotMissed, TimeOf
  <1>8. CASE Read
    <2>1. /\ fresh' = queued' /\ queued' \subseteq Ids
          /\ UNCHANGED <<now, idle, realToday>>
          /\ \A r \in queued' : NotOver(Rem[r], realToday, now)
      BY <1>8 DEF Read, IInv, TypeOK, envVars
    <2>2. SystemDateTime(idle)' = SystemDateTime(idle) /\ RolledOver' = RolledOver
      BY <2>1 DEF SystemDateTime, SystemDate, SystemTime, RolledOver
    <2>3. ASSUME NEW r \in queued' PROVE NotMissed(r)'
      <3>1. TimeOf(r)' = QDateTime(Rem[r]) /\ QDateTime(Rem[r]) \in Nat
        BY <2>1, <2>3, EventTypes DEF TimeOf
      <3>2. CASE RolledOver
        BY <2>2, <3>1, <3>2 DEF NotMissed
      <3>3. CASE ~RolledOver
        <4>1. SystemDateTime(now) <= QDateTime(Rem[r])
          BY <2>1, <2>3, <3>1, <3>3, <1>2 DEF RolledOver, NotOver, SystemDateTime
        <4> QED BY <1>2, <2>2, <3>1, <4>1 DEF NotMissed
      <3> QED BY <3>2, <3>3
    <2> QED BY <1>1, <2>1, <2>3
  <1>9. CASE SetupReminder
    <2>1. PICK q \in fresh :
            /\ q \in Ids /\ fresh' = fresh \ {q}
            /\ \A s \in Ids \ {q} : next'[s] = next[s]
            /\ \E o \in NextOutcomes(Rem[q], NO_DATETIME, usesSched[q], SystemDateTime(now)) :
                  next'[q] = o[1] /\ (q \in queued' => o[1] # NO_DATETIME)
      BY <1>9, SetupEffect
    <2>2. UNCHANGED <<now, idle, realToday>> /\ q \in queued /\ queued' \subseteq queued
      BY <1>1, <1>9, SetupEffect DEF SetupReminder
    <2>3. ASSUME q \in queued' PROVE NotMissed(q)'
      <3>1. PICK o \in NextOutcomes(Rem[q], NO_DATETIME, usesSched[q], SystemDateTime(now)) :
              next'[q] = o[1] /\ o[1] # NO_DATETIME
        BY <2>1, <2>3
      <3>2. o[1] \in Datetime /\ (SystemDateTime(now) <= o[1] \/ QDateTime(Rem[q]) <= o[1])
        <4>1. NO_DATETIME \in Datetime /\ usesSched[q] \in BOOLEAN
          BY <1>1, <2>1 DEF Datetime
        <4> QED BY <1>2, <2>1, <3>1, <4>1, NextOutcomesBounds
      <3>3. SystemDateTime(idle) <= QDateTime(Rem[q]) \/ RolledOver
        BY <1>3, <2>1, <2>2 DEF NotMissed, TimeOf
      <3>4. QDateTime(Rem[q]) \in Nat /\ o[1] \in Nat
        BY <2>1, <3>1, <3>2, EventTypes DEF Datetime
      <3>5. SystemDateTime(idle) <= o[1] \/ (RolledOver /\ QDateTime(Rem[q]) <= o[1])
        BY <1>2, <3>2, <3>3, <3>4
      <3>6. TimeOf(q)' = o[1] /\ SystemDateTime(idle)' = SystemDateTime(idle)
            /\ RolledOver' = RolledOver
        BY <2>1, <2>2, <3>1 DEF TimeOf, SystemDateTime, SystemDate, SystemTime, RolledOver
      <3> QED BY <3>5, <3>6 DEF NotMissed
    <2> QED BY <1>7, <2>1, <2>2, <2>3
  <1>10. CASE Recalc
    <2>1. /\ cur \in queued /\ cur \in Ids /\ cur \notin fresh /\ next[cur] \in Nat
          /\ UNCHANGED <<realToday, fresh, now, idle, cur>>
          /\ \A s \in Ids \ {cur} : next'[s] = next[s]
          /\ queued' \subseteq queued
      BY <1>1, <1>10, RecalcEffect DEF Recalc
    <2>2. ASSUME cur \in queued' PROVE NotMissed(cur)'
      <3>1. next'[cur] \in Nat /\ next'[cur] > next[cur]
        <4>1. PICK o \in NextOutcomes(Rem[cur], next[cur], usesSched[cur], SystemDateTime(now)) :
                /\ o[1] \in Datetime
                /\ o[1] # NO_DATETIME => o[1] > next[cur]
                /\ cur \in queued' => o[1] # NO_DATETIME /\ next'[cur] = o[1]
          BY <1>10, RecalcEffect
        <4> QED BY <2>2, <4>1 DEF Datetime
      <3>2. SystemDateTime(idle) <= next[cur] \/ (RolledOver /\ QDateTime(Rem[cur]) <= next[cur])
        BY <1>3, <2>1 DEF NotMissed, TimeOf
      <3>3. QDateTime(Rem[cur]) \in Nat
        BY <2>1, EventTypes
      <3>4. TimeOf(cur)' = next'[cur] /\ SystemDateTime(idle)' = SystemDateTime(idle)
            /\ RolledOver' = RolledOver
        BY <2>1 DEF TimeOf, SystemDateTime, SystemDate, SystemTime, RolledOver
      <3> QED BY <1>2, <2>1, <3>1, <3>2, <3>3, <3>4 DEF NotMissed
    <2> QED BY <1>7, <2>1, <2>2
  <1>11. CASE \E Q, q : Resumes(Q, q)
    <2>1. PICK Q, q : Resumes(Q, q)
      BY <1>11
    <2>2. /\ now' = now /\ queued' \subseteq queued /\ UNCHANGED <<realToday, fresh, next>>
          /\ fresh = {}
      BY <2>1 DEF Resumes, IInv, StagesInOrder, Starting
    <2>3. idle' = idle \/ (idle' = now /\ pc' = "wait" /\ ~RolledOver)
      BY <2>1 DEF Resumes, SleepOrIssue, Idling, RolledOver
    <2>4. RolledOver' = RolledOver
      BY <2>2 DEF RolledOver, SystemDate
    <2> QED BY <1>5, <1>6, <2>2, <2>3, <2>4
  <1>12. CASE Environment
    <2>1. /\ UNCHANGED <<realToday, queued, fresh, next>> /\ now' \in {now, now + 1}
          /\ idle' = idle \/ (idle' = now' /\ pc' = "wait" /\ ~RolledOver' /\ fresh' = {})
      BY <1>12, ClockWhenAwake
    <2> QED BY <1>5, <1>6, <2>1
  <1>13. CASE Exec /\ now' = now
    BY <1>1, <1>13 DEF Exec
  <1>14. CASE Issue \/ Advances \/ UNCHANGED vars
    <2>1. UNCHANGED <<realToday, queued, fresh, next, now, idle>>
      BY <1>14 DEF Issue, Advances, vars, queueVars, envVars
    <2> QED BY <1>5, <2>1
  <1> QED BY <1>8, <1>9, <1>10, <1>11, <1>12, <1>13, <1>14, ProcessShape DEF Next, Stopped

LEMMA EndsKept ==
    ASSUME IInv, EndsAtTheTime, [Next]_vars
    PROVE  EndsAtTheTime'
  <1>1. /\ queued \in SUBSET Ids /\ fresh \subseteq queued /\ now \in Nat
        /\ next \in [Ids -> Datetime] /\ usesSched \in [Ids -> BOOLEAN]
        /\ NO_DATETIME \in Datetime /\ SystemDateTime(now) \in Nat
    BY ClockTypes DEF IInv, TypeOK, Datetime
  <1>2. CASE UNCHANGED <<fresh, next, usesSched>> /\ queued' \subseteq queued
    BY <1>2 DEF EndsAtTheTime
  <1>3. CASE Read
    <2>1. queued' \in SUBSET Ids
      BY <1>3 DEF Read, IInv, TypeOK
    <2> QED BY <1>3, <2>1 DEF Read, EndsAtTheTime
  <1>4. ASSUME NEW q \in Ids, NEW prev \in Datetime, q \in queued,
               NEW o \in NextOutcomes(Rem[q], prev, usesSched[q], SystemDateTime(now)),
               o[1] # NO_DATETIME
        PROVE  (o[2] => Rem[q].sched) /\ (~Rem[q].sched => o[1] <= QDateTime(Rem[q]))
    <2>1. usesSched[q] \in BOOLEAN /\ (usesSched[q] => Rem[q].sched)
      BY <1>1, <1>4 DEF EndsAtTheTime
    <2>2. ~usesSched[q] => o[1] = DefaultNext(Rem[q], prev, SystemDateTime(now)) /\ o[2] = FALSE
      <3>1. ~usesSched[q] => NextOutcomes(Rem[q], prev, usesSched[q], SystemDateTime(now))
                               = {<<DefaultNext(Rem[q], prev, SystemDateTime(now)), FALSE>>}
        <4> SUFFICES ASSUME usesSched[q] = FALSE
                     PROVE  NextOutcomes(Rem[q], prev, usesSched[q], SystemDateTime(now))
                               = {<<DefaultNext(Rem[q], prev, SystemDateTime(now)), FALSE>>}
          BY <2>1
        <4> QED
          BY UnscheduledOutcome, Zenon
      <3>2. o \in NextOutcomes(Rem[q], prev, usesSched[q], SystemDateTime(now))
        OBVIOUS
      <3> DEFINE n == DefaultNext(Rem[q], prev, SystemDateTime(now))
      <3>3. ~usesSched[q] => o = <<n, FALSE>>
        BY <3>1, <3>2, Zenon
      <3> HIDE DEF n
      <3> QED
        BY <3>3, PairParts, Zenon DEF n
    <2>3. DefaultNext(Rem[q], prev, SystemDateTime(now)) # NO_DATETIME
            => DefaultNext(Rem[q], prev, SystemDateTime(now)) <= QDateTime(Rem[q])
      BY <1>1, DefaultNextBounds
    <2> QED BY <1>4, <2>1, <2>2, <2>3
  <1>5. CASE SetupReminder
    <2>1. PICK q \in fresh :
            /\ q \in Ids /\ fresh' = fresh \ {q}
            /\ \A s \in Ids \ {q} : next'[s] = next[s] /\ usesSched'[s] = usesSched[s]
            /\ \E o \in NextOutcomes(Rem[q], NO_DATETIME, usesSched[q], SystemDateTime(now)) :
                  /\ next'[q] = o[1] /\ usesSched'[q] = o[2]
                  /\ q \in queued' => o[1] # NO_DATETIME
      BY <1>5, SetupEffect
    <2>2. queued' \subseteq queued
      BY <1>5, SetupEffect
    <2>3. q \in queued' => /\ usesSched'[q] => Rem[q].sched
                           /\ ~Rem[q].sched => next'[q] <= QDateTime(Rem[q])
      BY <1>1, <1>4, <2>1
    <2> QED BY <1>1, <2>1, <2>2, <2>3 DEF EndsAtTheTime
  <1>6. CASE Recalc
    <2>1. /\ cur \in Ids /\ cur \in queued /\ cur \notin fresh /\ fresh' = fresh
          /\ \A s \in Ids \ {cur} : next'[s] = next[s] /\ usesSched'[s] = usesSched[s]
          /\ \A s \in Ids \ {cur} : s \in queued' <=> s \in queued
      BY <1>6, RecalcEffect
    <2>2. PICK o \in NextOutcomes(Rem[cur], next[cur], usesSched[cur], SystemDateTime(now)) :
            usesSched'[cur] = o[2] /\ (cur \in queued' => o[1] # NO_DATETIME /\ next'[cur] = o[1])
      BY <1>6, RecalcEffect
    <2>3. next[cur] \in Datetime
      BY <1>1, <2>1
    <2>4. cur \in queued' => /\ usesSched'[cur] => Rem[cur].sched
                             /\ ~Rem[cur].sched => next'[cur] <= QDateTime(Rem[cur])
      BY <1>4, <2>1, <2>2, <2>3
    <2>5. queued' \in SUBSET Ids
      BY <1>6, <1>1 DEF Recalc
    <2> QED BY <2>1, <2>4, <2>5 DEF EndsAtTheTime
  <1>7. CASE Exec
    BY <1>7 DEF Exec, EndsAtTheTime
  <1>8. CASE Issue \/ Advances \/ \E Q, q : Resumes(Q, q)
    BY <1>2, <1>8 DEF Issue, Advances, Resumes, queueVars
  <1>9. CASE Environment \/ UNCHANGED vars
    BY <1>2, <1>9 DEF Environment, Tick, Suspend, Sighup, Edit, Send, CompleteLine,
                      unchangedByEnv, vars
  <1> QED BY <1>3, <1>5, <1>6, <1>7, <1>8, <1>9, ProcessShape DEF Next, Stopped

LEMMA AtTimeKept ==
    ASSUME IInv, AtTimeFired, [Next]_vars
    PROVE  AtTimeFired'
  <1> SUFFICES ASSUME MaxLate = 0, pc' = "recalc", next'[cur'] = QDateTime(Rem[cur'])
               PROVE  \E f \in fired' : f.r = cur' /\ f.next = QDateTime(Rem[cur'])
    BY DEF AtTimeFired
  <1>1. CASE pc = "recalc" /\ UNCHANGED <<next, cur, fired>>
    BY <1>1 DEF AtTimeFired
  <1>2. CASE Issue
    <2>1. cur \in Ids /\ NextDate(next[cur]) = realToday /\ UNCHANGED <<next, cur>>
      BY <1>2 DEF Issue, IInv, TypeOK, CurrentIsQueued, DueToday, queueVars
    <2>2. StillTimely(Rem[cur], next[cur], now, realToday, MaxLate)
      BY <2>1, EventParts DEF StillTimely
    <2> DEFINE f == [r |-> cur, next |-> next[cur], at |-> now]
    <2>3. fired' = fired \cup {f}
      BY <1>2, <2>2 DEF Issue
    <2>4. f.r = cur /\ f.next = next[cur] /\ f \in fired'
      BY <2>3
    <2>5. f.r = cur' /\ f.next = QDateTime(Rem[cur'])
      BY <2>1, <2>4
    <2> HIDE DEF f
    <2> QED BY <2>4, <2>5
  <1>3. ~Read /\ ~SetupReminder /\ ~Recalc /\ ~Exec /\ ~Advances /\ ~\E Q, q : Resumes(Q, q)
    BY DEF Read, SetupReminder, Recalc, Exec, Advances, Resumes, SleepOrIssue
  <1>4. CASE Environment \/ UNCHANGED vars
    BY <1>1, <1>4 DEF Environment, Tick, Suspend, Sighup, Edit, Send, CompleteLine,
                      unchangedByEnv, vars
  <1> QED BY <1>2, <1>3, <1>4, ProcessShape DEF Next, Stopped

LEMMA AwakeInvAtFirst == Init => AwakeInv
  <1>1. Start <= Start
    BY QueueAssumption
  <1> QED BY <1>1 DEF Init, AwakeInv, WakesInTime, NoneIsMissed, EndsAtTheTime, AtTimeFired

LEMMA AwakeInvKept ==
    ASSUME Jumps = {}, IInv, AwakeInv, [Next]_vars
    PROVE  AwakeInv'
  <1>1. WakesInTime' /\ NoneIsMissed'
    BY WakesKept, NoneMissedKept DEF AwakeInv
  <1>2. EndsAtTheTime' /\ AtTimeFired'
    BY EndsKept, AtTimeKept DEF AwakeInv
  <1> QED BY <1>1, <1>2 DEF AwakeInv

(* While nothing suspends the computer, naps end in time, no time of the   *)
(* list lies before the last moment the process slept, and the time of the *)
(* AT is issued when it is reached; starts, commands and the lines of the  *)
(* client may take any time.                                               *)
THEOREM AwakeInvariant ==
    ASSUME Jumps = {}
    PROVE  Spec => []AwakeInv
  <1>1. IInv /\ AwakeInv /\ [Next]_vars => AwakeInv'
    BY AwakeInvKept
  <1> QED BY <1>1, AwakeInvAtFirst, QueueInvariant, PTL DEF Spec

(* While nothing suspends the computer and with $MaxLateMinutes 0, a       *)
(* reminder without a scheduling function that leaves the list has been    *)
(* issued for the time of its AT, unless the minute of that time came and  *)
(* went while the process was busy.                                        *)
THEOREM AtTimeIssued ==
    ASSUME Jumps = {}
    PROVE  Spec => AtTimeIsIssued
  <1> DEFINE Issued == \E f \in fired : f.r = cur /\ f.next = QDateTime(Rem[cur])
             Passed == CameAndWentWhileBusy(QDateTime(Rem[cur]))
             OnlyIssued == MaxLate = 0 /\ pc = "recalc" /\ cur \notin queued' /\ ~Rem[cur].sched
                             => Issued \/ Passed
  <1>1. IInv /\ AwakeInv /\ [Next]_vars => [OnlyIssued]_vars
    <2> SUFFICES ASSUME IInv, AwakeInv, Next, MaxLate = 0, pc = "recalc", cur \notin queued',
                        ~Rem[cur].sched
                 PROVE  Issued \/ Passed
      BY Zenon
    <2>1. cur \in queued /\ cur \in Ids
      BY DEF IInv, TypeOK, CurrentIsQueued
    <2>2. ~Environment /\ ~Stopped
      BY <2>1 DEF Environment, Tick, Suspend, Sighup, Edit, Send, CompleteLine, unchangedByEnv,
                  Stopped, vars
    <2>3. Recalc
      BY <2>2 DEF Next, ProcessStep, ServerStep, Read, StartHandling, SetupReminder, SetupDone,
                  Find, Issue, WakeReread, WakeIdle, WakeCommand, CmdDel, CmdReport, CmdReread,
                  CmdExit, Line
    <2>4. PICK o \in NextOutcomes(Rem[cur], next[cur], usesSched[cur], SystemDateTime(now)) :
            /\ o[1] \in Datetime
            /\ o[1] # NO_DATETIME => o[1] > next[cur]
            /\ cur \notin queued' => o[1] = NO_DATETIME \/ LeftBehind(Rem[cur], o[1], now, MaxLate)
      BY <2>3, RecalcEffect
    <2>5. /\ cur \notin fresh /\ next[cur] \in Nat /\ next[cur] \in Datetime
          /\ usesSched[cur] \in BOOLEAN /\ now \in Nat /\ SystemDateTime(now) \in Nat
          /\ NextDate(next[cur]) = realToday
      BY <2>1, <2>3, RecalcEffect, ClockTypes DEF IInv, TypeOK, DueToday, Datetime
    <2>6. ~usesSched[cur] /\ next[cur] <= QDateTime(Rem[cur])
      BY <2>1, <2>5 DEF AwakeInv, EndsAtTheTime
    <2>7. QDateTime(Rem[cur]) \in Nat
      BY <2>1, EventTypes
    <2>8. next[cur] = QDateTime(Rem[cur]) => Issued
      BY DEF AwakeInv, AtTimeFired
    <2>9. o[1] = DefaultNext(Rem[cur], next[cur], SystemDateTime(now))
      <3>1. o[1] = DefaultNext(Rem[cur], next[cur], SystemDateTime(now)) /\ o[2] = FALSE
        <4> HIDE DEF Issued, OnlyIssued
        <4>1. NextOutcomes(Rem[cur], next[cur], usesSched[cur], SystemDateTime(now))
                = {<<DefaultNext(Rem[cur], next[cur], SystemDateTime(now)), FALSE>>}
          <5>1. usesSched[cur] = FALSE
            BY <2>5, <2>6
          <5> QED BY <5>1, UnscheduledOutcome, Zenon
        <4> DEFINE n == DefaultNext(Rem[cur], next[cur], SystemDateTime(now))
        <4>2. o = <<n, FALSE>>
          BY <2>4, <4>1, Zenon
        <4> HIDE DEF n
        <4> QED BY <4>2, PairParts, Zenon DEF n
      <3> QED BY <3>1
    <2>10. next[cur] < QDateTime(Rem[cur]) => Passed
      <3> SUFFICES ASSUME next[cur] < QDateTime(Rem[cur]) PROVE Passed
        OBVIOUS
      <3>1. SystemDateTime(idle) < QDateTime(Rem[cur])
        <4>1. SystemDateTime(idle) <= next[cur] \/ QDateTime(Rem[cur]) <= next[cur]
          BY <2>1, <2>5 DEF AwakeInv, NoneIsMissed
        <4>2. SystemDateTime(idle) \in Nat
          BY ClockTypes DEF IInv, TypeOK
        <4> QED BY <2>5, <2>7, <4>1, <4>2
      <3>2. o[1] # NO_DATETIME
        <4> SUFFICES ASSUME o[1] = NO_DATETIME PROVE FALSE
          OBVIOUS
        <4>1. QDateTime(Rem[cur]) <= next[cur]
          BY <2>1, <2>5, <2>9, DefaultNextBounds
        <4> QED BY <2>5, <2>7, <4>1
      <3>3. QDateTime(Rem[cur]) < SystemDateTime(now)
        BY <2>4, <2>5, <2>7, <3>2 DEF LeftBehind
      <3> QED BY <3>1, <3>3 DEF CameAndWentWhileBusy
    <2> QED BY <2>5, <2>6, <2>7, <2>8, <2>10
  <1>2. Spec => [][OnlyIssued]_vars
    BY <1>1, QueueInvariant, AwakeInvariant, PTL DEF Spec
  <1> QED BY <1>2, PTL DEF AtTimeIsIssued

-----------------------------------------------------------------------------
(* Lateness. *)

(* What is issued on the day its time says is not late by the clock's time *)
(* of day, unless its time of day is that of the AT.                       *)
LEMMA TimelyToday ==
    ASSUME NEW r \in Ids, NEW n \in Nat, NEW t \in Nat, NextDate(n) = SystemDate(t),
           StillTimely(Rem[r], n, t, SystemDate(t), MaxLate)
    PROVE  \/ t - AtSec(n) <= SecsPerMin
           \/ /\ NextTime(n) = Rem[r].ttime
              /\ MaxLate = 0 \/ t - AtSec(n) <= AtSec(MaxLate)
  <1> DEFINE late == SystemTime(t) - NextTime(n) * SecsPerMin
  <1>1. t - AtSec(n) = late
    <2>1. /\ SystemDate(t) \in Nat /\ SystemTime(t) \in Nat
          /\ t = SecsPerDay * SystemDate(t) + SystemTime(t)
      BY ClockTypes
    <2>2. NextTime(n) * SecsPerMin \in Nat
          /\ AtSec(n) = SecsPerDay * NextDate(n) + NextTime(n) * SecsPerMin
      BY AtSecParts
    <2>3. SecsPerDay * SystemDate(t) \in Nat
      BY <2>1, DayPositive
    <2> QED BY <2>1, <2>2, <2>3
  <1>2. \/ late <= SecsPerMin
        \/ NextTime(n) = Rem[r].ttime /\ (MaxLate = 0 \/ late <= SecsPerMin * MaxLate)
    BY DEF StillTimely
  <1>3. AtSec(MaxLate) = SecsPerMin * MaxLate
    BY ClockAssumption, QueueAssumption DEF AtSec
  <1> HIDE DEF late
  <1> QED BY <1>1, <1>2, <1>3

(* On the day of the reminder that is its AT.                              *)
LEMMA TimelyOnItsDay ==
    ASSUME NEW r \in Ids, NEW n \in Nat, NEW t \in Nat, NextDate(n) = SystemDate(t),
           Rem[r].dse = NextDate(n), StillTimely(Rem[r], n, t, SystemDate(t), MaxLate)
    PROVE  \/ t - AtSec(n) <= SecsPerMin
           \/ n = QDateTime(Rem[r]) /\ (MaxLate = 0 \/ t - AtSec(n) <= AtSec(MaxLate))
  <1>1. NextTime(n) = Rem[r].ttime => n = QDateTime(Rem[r])
    <2>1. n = MinsPerDay * NextDate(n) + NextTime(n) /\ NextDate(n) \in Nat /\ MinsPerDay \in Nat
      BY NextTypes, ClockAssumption
    <2>2. MinsPerDay * NextDate(n) = NextDate(n) * MinsPerDay
      BY <2>1
    <2> QED BY <2>1, <2>2 DEF QDateTime
  <1> QED BY <1>1, TimelyToday

(* Two times of day that are equal less than a day apart are one time.     *)
LEMMA SameTimeWithinADay ==
    ASSUME NEW m \in Nat, NEW n \in Nat, m <= n, n - m < MinsPerDay, NextTime(m) = NextTime(n)
    PROVE  m = n
  <1> DEFINE a == NextDate(m)  b == NextDate(n)  e == NextTime(m)
  <1>1. /\ a \in Nat /\ b \in Nat /\ e \in Nat /\ MinsPerDay \in Nat
        /\ m = MinsPerDay * a + e /\ n = MinsPerDay * b + e
    BY NextTypes, ClockAssumption
  <1> HIDE DEF a, b, e
  <1>2. ASSUME a + 1 <= b PROVE FALSE
    <2>1. MinsPerDay * (a + 1) <= MinsPerDay * b /\ MinsPerDay * (a + 1) = MinsPerDay * a + MinsPerDay
      BY <1>1, <1>2, ProductMonotone
    <2>2. MinsPerDay * a \in Nat /\ MinsPerDay * b \in Nat
      BY <1>1
    <2> QED BY <1>1, <2>1, <2>2
  <1>3. b <= a
    BY <1>1, <1>2
  <1>4. MinsPerDay * b <= MinsPerDay * a /\ MinsPerDay * a \in Nat /\ MinsPerDay * b \in Nat
    BY <1>1, <1>3, ProductMonotone
  <1> QED BY <1>1, <1>4

(* A step that issues nothing keeps any fact about what was issued. *)
LEMMA FiredOnlyByIssue ==
    ASSUME IInv, [Next]_vars
    PROVE  fired' \subseteq fired \/ Issue
  <1>1. CASE Read \/ SetupReminder \/ Recalc
    BY <1>1 DEF Read, SetupReminder, Recalc, ghostVars
  <1>2. CASE Exec
    BY <1>2 DEF Exec
  <1>3. CASE Advances \/ \E Q, q : Resumes(Q, q)
    BY <1>3 DEF Advances, Resumes
  <1>4. CASE Environment \/ UNCHANGED vars
    BY <1>4 DEF Environment, Tick, Suspend, Sighup, Edit, Send, CompleteLine, unchangedByEnv, vars
  <1> QED BY <1>1, <1>2, <1>3, <1>4, ProcessShape DEF Next, Stopped

LEMMA IssueEffect ==
    ASSUME IInv, Issue
    PROVE  /\ cur \in Ids /\ cur \in queued /\ cur \notin fresh /\ next[cur] \in Nat /\ now \in Nat
           /\ pc = "issue" /\ NextDate(next[cur]) = realToday
           /\ \A f \in fired' \ fired :
                 /\ f = [r |-> cur, next |-> next[cur], at |-> now]
                 /\ StillTimely(Rem[cur], next[cur], now, realToday, MaxLate)
  <1>1. /\ cur \in Ids /\ cur \in queued /\ cur \notin fresh /\ next[cur] \in Nat /\ now \in Nat
        /\ pc = "issue" /\ NextDate(next[cur]) = realToday
    <2>1. pc = "issue" /\ cur \in queued /\ fresh = {} /\ queued \in SUBSET Ids
      BY DEF Issue, IInv, TypeOK, CurrentIsQueued, StagesInOrder, Starting
    <2> QED BY <2>1 DEF IInv, TypeOK, StagesInOrder, DueToday
  <1>2. CASE StillTimely(Rem[cur], next[cur], now, realToday, MaxLate)
    <2>1. fired' = fired \cup {[r |-> cur, next |-> next[cur], at |-> now]}
      BY <1>2 DEF Issue
    <2> QED BY <1>1, <1>2, <2>1
  <1>3. CASE ~StillTimely(Rem[cur], next[cur], now, realToday, MaxLate)
    <2>1. fired' = fired
      BY <1>3 DEF Issue, ghostVars
    <2> QED BY <1>1, <2>1
  <1> QED BY <1>2, <1>3

(* In every mode: what is issued on the day its time says, which is the    *)
(* day of the reminder, is issued within a minute of that time, or is the  *)
(* time of the AT within $MaxLateMinutes.                                  *)
THEOREM InTimeOnItsDay == Spec => []NeverStaleOnItsDay
  <1>1. Init => NeverStaleOnItsDay
    BY DEF Init, NeverStaleOnItsDay
  <1>2. IInv /\ NeverStaleOnItsDay /\ [Next]_vars => NeverStaleOnItsDay'
    <2> SUFFICES ASSUME IInv, NeverStaleOnItsDay, [Next]_vars, NEW f \in fired',
                        SystemDate(f.at) = NextDate(f.next), Rem[f.r].dse = NextDate(f.next)
                 PROVE  FiredInTime(f)
      BY DEF NeverStaleOnItsDay, SystemDate, NextDate, FiredInTime, AtSec
    <2>1. CASE f \in fired
      BY <2>1 DEF NeverStaleOnItsDay
    <2>2. CASE Issue /\ f \notin fired
      <3>1. /\ cur \in Ids /\ next[cur] \in Nat /\ now \in Nat
            /\ NextDate(next[cur]) = realToday
            /\ f = [r |-> cur, next |-> next[cur], at |-> now]
            /\ StillTimely(Rem[cur], next[cur], now, realToday, MaxLate)
        BY <2>2, IssueEffect
      <3>2. f.r = cur /\ f.next = next[cur] /\ f.at = now
        BY <3>1
      <3>3. NextDate(next[cur]) = SystemDate(now) /\ Rem[cur].dse = NextDate(next[cur])
            /\ realToday = SystemDate(now)
        BY <3>1, <3>2
      <3> QED BY <3>1, <3>2, <3>3, TimelyOnItsDay DEF FiredInTime
    <2> QED BY <2>1, <2>2, FiredOnlyByIssue
  <1> QED BY <1>1, <1>2, QueueInvariant, PTL DEF Spec

(* No time of a reminder without a scheduling function is before its first *)
(* notice.                                                                 *)
FromFirstNotice ==
    \A r \in queued \ fresh : ~Rem[r].sched => QDateTime(Rem[r]) - Rem[r].delta <= next[r]

LEMMA FirstNoticeKept ==
    ASSUME IInv, EndsAtTheTime, FromFirstNotice, [Next]_vars
    PROVE  FromFirstNotice'
  <1>1. /\ queued \in SUBSET Ids /\ fresh \subseteq queued /\ now \in Nat
        /\ next \in [Ids -> Datetime] /\ usesSched \in [Ids -> BOOLEAN]
        /\ NO_DATETIME \in Datetime /\ SystemDateTime(now) \in Nat
    BY ClockTypes DEF IInv, TypeOK, Datetime
  <1>2. CASE UNCHANGED <<fresh, next>> /\ queued' \subseteq queued
    BY <1>2 DEF FromFirstNotice
  <1>3. CASE Read
    BY <1>3 DEF Read, FromFirstNotice
  <1>4. CASE SetupReminder
    <2>1. PICK q \in fresh :
            /\ q \in Ids /\ fresh' = fresh \ {q}
            /\ \A s \in Ids \ {q} : next'[s] = next[s]
            /\ \E o \in NextOutcomes(Rem[q], NO_DATETIME, usesSched[q], SystemDateTime(now)) :
                  next'[q] = o[1] /\ (q \in queued' => o[1] # NO_DATETIME)
      BY <1>4, SetupEffect
    <2>2. queued' \subseteq queued
      BY <1>4, SetupEffect
    <2>3. ASSUME q \in queued', ~Rem[q].sched
          PROVE  QDateTime(Rem[q]) - Rem[q].delta <= next'[q]
      <3>1. PICK o \in NextOutcomes(Rem[q], NO_DATETIME, usesSched[q], SystemDateTime(now)) :
              next'[q] = o[1] /\ o[1] # NO_DATETIME
        BY <2>1, <2>3
      <3> DEFINE n == DefaultNext(Rem[q], NO_DATETIME, SystemDateTime(now))
      <3>2. usesSched[q] = FALSE
        BY <1>1, <2>1, <2>2, <2>3 DEF EndsAtTheTime
      <3>3. o = <<n, FALSE>>
        <4>1. NextOutcomes(Rem[q], NO_DATETIME, usesSched[q], SystemDateTime(now)) = {<<n, FALSE>>}
          BY <3>2, UnscheduledOutcome, Zenon
        <4> QED BY <3>1, <4>1, Zenon
      <3>4. o[1] = n
        <4> HIDE DEF n
        <4> QED BY <3>3, PairParts, Zenon
      <3> QED BY <1>1, <2>1, <3>1, <3>4, DefaultNextBounds
    <2> QED BY <1>1, <2>1, <2>2, <2>3 DEF FromFirstNotice
  <1>5. CASE Recalc
    <2>1. /\ cur \in Ids /\ cur \in queued /\ cur \notin fresh /\ fresh' = fresh
          /\ next[cur] \in Nat
          /\ \A s \in Ids \ {cur} : next'[s] = next[s] /\ (s \in queued' <=> s \in queued)
      BY <1>5, RecalcEffect
    <2>2. cur \in queued' => next'[cur] \in Datetime /\ next'[cur] > next[cur]
      <3>1. PICK o \in NextOutcomes(Rem[cur], next[cur], usesSched[cur], SystemDateTime(now)) :
              /\ o[1] \in Datetime
              /\ o[1] # NO_DATETIME => o[1] > next[cur]
              /\ cur \in queued' => o[1] # NO_DATETIME /\ next'[cur] = o[1]
        BY <1>5, RecalcEffect
      <3> QED BY <3>1
    <2>3. queued' \in SUBSET Ids
      BY <1>1, <1>5 DEF Recalc
    <2>4. cur \in queued' /\ ~Rem[cur].sched => QDateTime(Rem[cur]) - Rem[cur].delta <= next'[cur]
      <3>1. ~Rem[cur].sched => QDateTime(Rem[cur]) - Rem[cur].delta <= next[cur]
        BY <2>1 DEF FromFirstNotice
      <3>2. QDateTime(Rem[cur]) - Rem[cur].delta \in Nat
        BY <2>1, EventTypes
      <3> QED BY <2>1, <2>2, <3>1, <3>2 DEF Datetime, NO_DATETIME
    <2> QED BY <2>1, <2>3, <2>4 DEF FromFirstNotice
  <1>6. CASE Exec
    BY <1>6 DEF Exec, FromFirstNotice
  <1>7. CASE Issue \/ Advances \/ \E Q, q : Resumes(Q, q)
    BY <1>2, <1>7 DEF Issue, Advances, Resumes, queueVars
  <1>8. CASE Environment \/ UNCHANGED vars
    BY <1>2, <1>8 DEF Environment, Tick, Suspend, Sighup, Edit, Send, CompleteLine,
                      unchangedByEnv, vars
  <1> QED BY <1>3, <1>4, <1>5, <1>6, <1>7, <1>8, ProcessShape DEF Next, Stopped

(* In every mode, whatever suspends or delays the process: if it issues    *)
(* nothing after the date has changed, and no reminder gives more than a   *)
(* day's notice or names a scheduling function, then nothing is issued     *)
(* more than a minute late but an AT time within $MaxLateMinutes.          *)
THEOREM NeverStaleBeforeMidnight ==
    ASSUME \A r \in Ids : Rem[r].delta < MinsPerDay /\ ~Rem[r].sched
    PROVE  Spec /\ [](pc = "issue" => ~RolledOver) => []NeverStale
  <1>1. Init => NeverStale /\ EndsAtTheTime /\ FromFirstNotice
    BY DEF Init, NeverStale, EndsAtTheTime, FromFirstNotice
  <1>2. IInv /\ EndsAtTheTime /\ FromFirstNotice /\ [Next]_vars => EndsAtTheTime' /\ FromFirstNotice'
    BY EndsKept, FirstNoticeKept
  <1>3. IInv /\ EndsAtTheTime /\ FromFirstNotice /\ (pc = "issue" => ~RolledOver)
          /\ NeverStale /\ [Next]_vars => NeverStale'
    <2> SUFFICES ASSUME IInv, EndsAtTheTime, FromFirstNotice, pc = "issue" => ~RolledOver,
                        NeverStale, [Next]_vars, NEW f \in fired'
                 PROVE  FiredInTime(f)
      BY DEF NeverStale, FiredInTime, AtSec
    <2>1. CASE f \in fired
      BY <2>1 DEF NeverStale
    <2>2. CASE Issue /\ f \notin fired
      <3>1. /\ cur \in Ids /\ cur \in queued /\ cur \notin fresh
            /\ next[cur] \in Nat /\ now \in Nat
            /\ NextDate(next[cur]) = realToday /\ pc = "issue"
            /\ f = [r |-> cur, next |-> next[cur], at |-> now]
            /\ StillTimely(Rem[cur], next[cur], now, realToday, MaxLate)
        BY <2>2, IssueEffect
      <3>2. f.r = cur /\ f.next = next[cur] /\ f.at = now /\ realToday = SystemDate(now)
        BY <3>1 DEF RolledOver
      <3>3. NextTime(next[cur]) = Rem[cur].ttime => next[cur] = QDateTime(Rem[cur])
        <4>1. /\ QDateTime(Rem[cur]) \in Nat /\ Rem[cur].delta \in Nat
              /\ NextTime(QDateTime(Rem[cur])) = Rem[cur].ttime
          BY <3>1, EventTypes, EventParts
        <4>2. /\ next[cur] <= QDateTime(Rem[cur])
              /\ QDateTime(Rem[cur]) - Rem[cur].delta <= next[cur]
          BY <3>1 DEF EndsAtTheTime, FromFirstNotice
        <4>3. QDateTime(Rem[cur]) - next[cur] < MinsPerDay
          BY <3>1, <4>1, <4>2, ClockAssumption
        <4> QED BY <3>1, <4>1, <4>2, <4>3, SameTimeWithinADay
      <3> QED BY <3>1, <3>2, <3>3, TimelyToday DEF FiredInTime
    <2> QED BY <2>1, <2>2, FiredOnlyByIssue
  <1> QED BY <1>1, <1>2, <1>3, QueueInvariant, PTL DEF Spec
=============================================================================
