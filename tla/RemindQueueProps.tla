-------------------------- MODULE RemindQueueProps --------------------------
(***************************************************************************)
(* What the queue of timed reminders promises.                             *)
(***************************************************************************)
EXTENDS RemindQueue

AtSec(t) == t * SecsPerMin

\* The lines a client may have written.
CommandLine == [cmd : Commands \ {"DEL"}, whole : BOOLEAN]
                 \cup [cmd : {"DEL"}, whole : BOOLEAN, qid : Nat, r : Ids]

(* Every variable keeps its type. *)
TypeOK ==
    /\ now \in Nat /\ idle \in Nat /\ events \in Nat
    /\ script \in SUBSET Ids /\ loaded \in SUBSET Ids
    /\ pc \in Blocked \cup Gone \cup {"find", "issue"}
    /\ realToday \in Nat
    /\ queued \in SUBSET Ids /\ fresh \in SUBSET queued
    /\ next \in [Ids -> Nat \cup {NO_DATETIME}]
    /\ usesSched \in [Ids -> BOOLEAN]
    /\ qid \in [Ids -> Nat]
    /\ cur \in Ids \cup {NoReminder}
    /\ remain \in Nat
    /\ sighup \in BOOLEAN /\ changed \in BOOLEAN
    /\ pipe \in Seq(CommandLine)
    /\ shown \in SUBSET [r : Ids, qid : Nat]
    /\ fired \in SUBSET [r : Ids, next : Nat, at : Nat]

(* The reminder that HandleQueuedReminders is about to issue or to         *)
(* reschedule is still on the list, whatever the client deleted while the  *)
(* process waited for it: q never dangles.                                 *)
CurrentIsQueued == pc \in {"issue", "recalc"} => cur \in queued

(* HandleQueuedReminders issues the reminder r. *)
Issues(r) == Issue /\ cur = r /\ StillTimely(Rem[r], next[r], now, realToday, MaxLate)

(* The same time of a reminder is issued at most once by one image of the  *)
(* process: each issue is followed by a later time or by its removal.      *)
AtMostOnce ==
    [][\A r \in Ids : Issues(r) => \A g \in fired : g.r = r => g.next < next[r]]_vars

(* A reminder is never issued before its time. *)
NeverEarly == \A f \in fired : AtSec(f.next) <= f.at

(* The comment before the test in HandleQueuedReminders: a reminder is not *)
(* issued more than a minute late, unless this is its actual trigger time  *)
(* and it is within $MaxLateMinutes.                                       *)
FiredInTime(f) ==
    \/ f.at - AtSec(f.next) <= SecsPerMin
    \/ /\ f.next = QDateTime(Rem[f.r])
       /\ MaxLate = 0 \/ f.at - AtSec(f.next) <= AtSec(MaxLate)

NeverStale == \A f \in fired : FiredInTime(f)

(* The test compares times of day, so it is right about what it issues on  *)
(* the day it is due, and takes a notice a whole number of days ahead for  *)
(* the actual trigger time.                                                *)
NeverStaleOnItsDay ==
    \A f \in fired : SystemDate(f.at) = NextDate(f.next) /\ Rem[f.r].dse = NextDate(f.next)
                        => FiredInTime(f)

(* When a reminder is issued no other one on the list was due before it.   *)
InOrder == [][\A r \in Ids : Issues(r) => \A s \in queued : next[r] <= next[s]]_vars

(* As long as nothing suspends the computer, the process never sleeps past *)
(* the time of a reminder on its list, unless it is about to reread its    *)
(* script because the date changed: a reminder is activated "when the      *)
(* system time reaches the specified time" (remind.1).                     *)
NeverOversleeps ==
    pc = "wait" => \/ \A r \in queued : now <= AtSec(next[r])
                   \/ RolledOver /\ IsDaemon

(* With $MaxLateMinutes 0, a reminder without a scheduling function that   *)
(* leaves the list because its time is over has been issued for the time   *)
(* of its AT, however late: "so all queued reminders are triggered at      *)
(* least once" (HandleQueuedReminders).  The one exception is an AT time   *)
(* whose minute came and went while the process was busy, with its start   *)
(* or with the commands of reminders, and never slept in between.          *)
CameAndWentWhileBusy(t) == SystemDateTime(idle) < t /\ t < SystemDateTime(now)

AtTimeIsIssued ==
    [][MaxLate = 0 /\ pc = "recalc" /\ cur \notin queued' /\ ~Rem[cur].sched
          => \/ \E f \in fired : f.r = cur /\ f.next = QDateTime(Rem[cur])
             \/ CameAndWentWhileBusy(QDateTime(Rem[cur]))]_vars

-----------------------------------------------------------------------------
(* The inductive invariant of the process, by parts.                       *)

(* Until the pass of HandleQueuedReminders is over nothing was issued;     *)
(* afterwards every entry of the list has a time.                          *)
StagesInOrder ==
    /\ pc \in Starting => fired = {}
    /\ pc \notin Starting => fresh = {} \/ pc = "killed"
    /\ \A r \in queued \ fresh : next[r] \in Nat
    /\ realToday <= SystemDate(now)
    /\ pc = "reading" => IsServerMode /\ pipe # << >>

(* A sleep of a process that takes no commands is for an entry of its list. *)
WaitsForQueued == pc = "wait" /\ ~IsServerMode => cur \in queued \cup {NoReminder}

(* A reminder goes on to be issued only when its time has come. *)
DueWhenIssued == pc = "issue" => AtSec(next[cur]) <= now

(* What was issued for an entry of the list lies before its next time; it  *)
(* is that time only while the entry is being rescheduled.                 *)
FiredBeforeNext ==
    \A g \in fired : g.r \in queued =>
        \/ g.next < next[g.r]
        \/ g.next = next[g.r] /\ pc = "recalc" /\ cur = g.r

(* What the process waits for, or is about to issue, is the earliest entry *)
(* of its list.                                                            *)
EarliestInHand ==
    pc \in {"wait", "issue"} => IF cur = NoReminder THEN queued = {}
                                ELSE \A s \in queued : next[cur] <= next[s]

(* It is issued only on the day its time says: TimeToSleep takes any other *)
(* day for the time until midnight.                                        *)
DueToday == pc \in {"issue", "recalc"} => NextDate(next[cur]) = realToday

(* No entry of the list has a time before the day of the last read.        *)
NotBeforeToday ==
    \A r \in queued : realToday * MinsPerDay <= IF r \in fresh THEN QDateTime(Rem[r]) ELSE next[r]

(* Together with the types these facts hold at first and are kept by every *)
(* step of the process and of its environment.                             *)
IInv == /\ TypeOK
        /\ StagesInOrder /\ CurrentIsQueued /\ WaitsForQueued
        /\ DueWhenIssued /\ FiredBeforeNext /\ NeverEarly
        /\ EarliestInHand /\ DueToday /\ NotBeforeToday

(* While nothing suspends the computer a nap ends no later than the first  *)
(* time on the list, unless the date changed.                              *)
WakesInTime ==
    pc = "wait" /\ ~RolledOver => \A r \in queued : now + remain <= AtSec(next[r])

(* The process misses nothing while it is at rest: no time of its list     *)
(* lies before the last moment, on the day of its start, at which it       *)
(* slept.  A process that started before midnight and reads its script     *)
(* after it takes in AT times of the day before.                           *)
NoneIsMissed ==
    /\ idle <= now
    /\ \A r \in queued :
         LET t == IF r \in fresh THEN QDateTime(Rem[r]) ELSE next[r]
         IN  SystemDateTime(idle) <= t \/ (RolledOver /\ QDateTime(Rem[r]) <= t)

(* Notices stop with the time of the AT, unless a function schedules them. *)
EndsAtTheTime ==
    \A r \in queued : /\ usesSched[r] => Rem[r].sched
                      /\ r \notin fresh /\ ~Rem[r].sched => next[r] <= QDateTime(Rem[r])

(* With $MaxLateMinutes 0 the time of the AT is never too late.            *)
AtTimeFired ==
    MaxLate = 0 /\ pc = "recalc" /\ next[cur] = QDateTime(Rem[cur])
       => \E f \in fired : f.r = cur /\ f.next = QDateTime(Rem[cur])

(* Together with IInv these facts are kept while nothing suspends the      *)
(* computer, however long commands, lines of the client and starts take.   *)
AwakeInv == WakesInTime /\ NoneIsMissed /\ EndsAtTheTime /\ AtTimeFired

-----------------------------------------------------------------------------
(* Liveness, for what happens long enough before the clock stops.          *)
Soon == now + SecsPerMin * PollMinutes <= Horizon

(* A process that got a SIGHUP rereads its script, whatever it was doing.  *)
SighupRereads == (sighup /\ Soon) ~> (~sighup \/ pc \in Gone)

(* A reminder whose time has come does not stay on the list with that      *)
(* time: it is issued, rescheduled, deleted or read again.                 *)
Overdue(r) == pc \notin Gone /\ r \in queued \ fresh /\ AtSec(next[r]) <= now
DueIsServed == \A r \in Ids : (Overdue(r) /\ Soon) ~> ~Overdue(r)
=============================================================================
