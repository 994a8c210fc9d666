---------------------------- MODULE RemindQueue ----------------------------
(***************************************************************************)
(* The process that holds the queue of timed reminders: queue.c, with the  *)
(* clock, the signals and the reminder script it lives with.               *)
(*                                                                         *)
(* The process reads its script and queues reminders (read, parsed), works *)
(* out the time of each (setup), then looks for the next one (find),       *)
(* sleeps or serves commands until it is due (wait, reading), issues it    *)
(* (issue) and reschedules it (recalc).  To reread the script it executes  *)
(* itself.                                                                 *)
(*                                                                         *)
(* The clock advances while the process is blocked, while it starts and    *)
(* while it waits for the command of a reminder, and stands still while it *)
(* computes.  Suspend is a computer that sleeps: the clock jumps.          *)
(***************************************************************************)
EXTENDS AtSchedule, Sequences, FiniteSets

CONSTANTS
    Ids,          \* the reminders that may be in the script: their line numbers
    Rem,          \* [Ids -> reminder]: the fields AtSchedule reads, and
                  \*   sched: whether the reminder names a scheduling function
    Scripts,      \* the contents the script may have: sets of Ids
    Mode,         \* "background" (forked), "daemon" (-zn) or "server" (-zj, -z0)
    PollMinutes,  \* Daemon, the n of -zn
    MaxLate,      \* $MaxLateMinutes
    Start,        \* the clock when the process starts
    Horizon,      \* bound: the clock stops here
    MaxBusy,      \* bound: the seconds a process that does not sleep is busy
    Jumps,        \* the lengths in seconds of a suspension
    MaxEvents,    \* bound: suspensions, signals, edits and commands in a behaviour
    Commands,     \* the commands a client sends
    PartialLines, \* whether the client may write a command in two parts
    EditKinds,    \* how the script is edited: "file", "inside", "replace"
    ExecMayFail   \* whether execvp may fail

ASSUME QueueAssumption ==
    /\ Ids \in SUBSET Nat /\ IsFiniteSet(Ids)
    /\ Rem \in [Ids -> [dse : Nat, ttime : 0 .. MinsPerDay - 1,
                        delta : Nat, rep : Nat, sched : BOOLEAN]]
    /\ \A r \in Ids : QDateTime(Rem[r]) >= Rem[r].delta
    /\ Scripts \subseteq SUBSET Ids
    /\ Mode \in {"background", "daemon", "server"}
    /\ PollMinutes \in Nat \ {0}
    /\ {MaxLate, Start, Horizon, MaxBusy, MaxEvents} \subseteq Nat
    /\ Jumps \subseteq Nat
    /\ Commands \subseteq {"DEL", "REREAD", "EXIT", "STATUS"}
    /\ EditKinds \subseteq {"file", "inside", "replace"}
    /\ {PartialLines, ExecMayFail} \subseteq BOOLEAN

VARIABLES
    now,        \* the system clock, in seconds since the epoch
    script,     \* the reminders now in the script
    loaded,     \* the reminders in the script when it was last read
    pc,         \* where the process is
    realToday,  \* RealToday: the date when the process started
    queued,     \* the reminders on the list QueueHead
    fresh,      \* of these, the ones not yet initialised
    next,       \* tt.nextdtime
    usesSched,  \* whether q->sched is still set
    qid,        \* q->qid
    cur,        \* q, the reminder being waited for; NoReminder is NULL
    remain,     \* seconds the process still sleeps
    sighup,     \* got_sighup
    changed,    \* a change of the script the process will notice
    pipe,       \* the commands written to its standard input
    shown,      \* the reminders the client has on its screen, with their qids
    fired,      \* history: what this image of the process has issued
    idle,       \* history: the last time, on the day of its start, at which the
                \*   process began or slept; it was not busy with anything else
    events      \* environment events so far

vars == <<now, script, loaded, pc, realToday, queued, fresh, next, usesSched,
          qid, cur, remain, sighup, changed, pipe, shown, fired, idle, events>>

queueVars == <<queued, fresh, next, usesSched, qid>>
ghostVars == <<shown, fired>>
envVars   == <<now, script, events>>

NoReminder == -1
IsServerMode == Mode = "server"
IsDaemon     == Mode # "background"

\* Process states in which it is blocked, or busy for long enough that the
\* clock advances and the environment acts.  In recalc it has issued a
\* reminder: in every mode it waits for the command of a RUN reminder, or of
\* the option -k, to end (System), and only then reschedules the reminder.
Starting == {"read", "parsed", "setup"}
Blocked == Starting \cup {"wait", "reading", "recalc"}
Gone == {"exited", "killed"}

-----------------------------------------------------------------------------
(* Faulty: the latest entry of the list is found. *)
PrecedesReversed(r, s) == next[r] > next[s] \/ (next[r] = next[s] /\ r >= s)

(* FindNextReminder, as the set of its one answer: the earliest entry of   *)
(* the list and, of several, the one nearest its head.  Reminders are      *)
(* inserted at the head in the order of their lines, so that is the one    *)
(* with the highest line number.                                           *)
Precedes(r, s) == next[r] < next[s] \/ (next[r] = next[s] /\ r >= s)

FindNextReminder(Q) ==
    IF Q = {} THEN {NoReminder} ELSE {q \in Q : \A s \in Q : Precedes(q, s)}

(* TimeToSleep, for the reminder q or for none. *)
TimeToSleep(q) ==
    IF q # NoReminder THEN SleepFor(next[q], now, realToday)
    ELSE IF IsServerMode THEN SecsPerDay - SystemTime(now)
    ELSE SecsPerMin * PollMinutes

(* Faulty: a server sleeps a minute, wherever in a minute it starts. *)
NapUnaligned(q) == IF IsServerMode THEN SecsPerMin ELSE TimeToSleep(q)

(* How long one call of sleep or select lasts. *)
Nap(q) ==
    CASE IsServerMode       -> SecsPerMin - (now % SecsPerMin)
      [] Mode = "daemon"    -> IF TimeToSleep(q) < SecsPerMin * PollMinutes
                               THEN TimeToSleep(q) ELSE SecsPerMin * PollMinutes
      [] OTHER              -> TimeToSleep(q)

Idling(t) == IF SystemDate(t) = realToday THEN t ELSE idle

(* Faulty: the last minute is not worth a sleep. *)
SleepUnlessLastMinute(q) ==
    /\ cur' = q
    /\ IF TimeToSleep(q) > (IF q = NoReminder THEN 0 ELSE SecsPerMin)
       THEN pc' = "wait" /\ remain' = Nap(q) /\ idle' = Idling(now)
       ELSE pc' = "issue" /\ remain' = 0 /\ UNCHANGED idle

(* Go on with q: sleep, or issue it at once. *)
SleepOrIssue(q) ==
    /\ cur' = q
    /\ IF TimeToSleep(q) > 0
       THEN pc' = "wait" /\ remain' = Nap(q) /\ idle' = Idling(now)
       ELSE pc' = "issue" /\ remain' = 0 /\ UNCHANGED idle

(* execvp: the process starts again, with the same standard input and      *)
(* with the default action for every signal it caught.                     *)
Exec == /\ pc' = "read"
        /\ queued' = {} /\ fresh' = {} /\ fired' = {}
        /\ cur' = NoReminder /\ remain' = 0
        /\ sighup' = FALSE
        /\ realToday' = SystemDate(now) /\ idle' = now
        /\ UNCHANGED <<loaded, next, usesSched, qid, changed, shown>>

-----------------------------------------------------------------------------
Init == /\ now = Start
        /\ script \in Scripts
        /\ loaded = {}
        /\ pc = "read"
        /\ realToday = SystemDate(Start)
        /\ queued = {} /\ fresh = {}
        /\ next = [r \in Ids |-> NO_DATETIME]
        /\ usesSched = [r \in Ids |-> FALSE]
        /\ qid = [r \in Ids |-> 0]
        /\ cur = NoReminder
        /\ remain = 0
        /\ sighup = FALSE /\ changed = FALSE
        /\ pipe = << >>
        /\ shown = {} /\ fired = {}
        /\ idle = Start
        /\ events = 0

(* QueueReminder numbers the reminders it queues from 0, in the order of   *)
(* their lines.                                                            *)
Numbered(Q) == [r \in Ids |-> Cardinality({s \in Q : s < r})]

(* The script is read and its reminders are queued.  One with a scheduling *)
(* function may be queued ahead of its first notice: it depends on what    *)
(* the function says.                                                      *)
Read ==
    LET may   == {r \in script : NotOver(Rem[r], realToday, now)}
        must  == {r \in may : NoticeToday(Rem[r], realToday)}
    IN  /\ pc = "read"
        /\ \E early \in SUBSET {r \in may \ must : Rem[r].sched} :
             queued' = must \cup early
        /\ fresh' = queued'
        /\ next' = [r \in Ids |-> NO_DATETIME]
        /\ usesSched' = [r \in Ids |-> Rem[r].sched]
        /\ qid' = Numbered(queued')
        /\ loaded' = script
        /\ pc' = "parsed"
        /\ UNCHANGED <<realToday, cur, remain, idle, sighup, changed, pipe>>
        /\ UNCHANGED ghostVars /\ UNCHANGED envVars

(* HandleQueuedReminders begins.  A daemon notes the modification time of  *)
(* the script, a file that is there: what was edited before is not a       *)
(* change any more.                                                        *)
StartHandling ==
    /\ pc = "parsed"
    /\ pc' = "setup"
    /\ changed' = (changed /\ Mode # "daemon")
    /\ UNCHANGED <<loaded, realToday, cur, remain, idle, sighup, pipe>>
    /\ UNCHANGED queueVars /\ UNCHANGED ghostVars /\ UNCHANGED envVars

(* The initialisation pass of HandleQueuedReminders, for one entry: what   *)
(* will not be issued leaves the queue and, in a daemon, what will not be  *)
(* issued today.                                                           *)
SetupReminder ==
    /\ pc = "setup"
    /\ \E r \in fresh :
         /\ \A s \in fresh : s <= r
         /\ \E o \in NextOutcomes(Rem[r], NO_DATETIME, usesSched[r], SystemDateTime(now)) :
              /\ next' = [next EXCEPT ![r] = o[1]]
              /\ usesSched' = [usesSched EXCEPT ![r] = o[2]]
              /\ queued' = IF o[1] = NO_DATETIME \/ (IsDaemon /\ NextDate(o[1]) > realToday)
                           THEN queued \ {r} ELSE queued
         /\ fresh' = fresh \ {r}
    /\ UNCHANGED <<loaded, pc, realToday, qid, cur, remain, idle, sighup, changed, pipe>>
    /\ UNCHANGED ghostVars /\ UNCHANGED envVars

(* The pass is over.  The signal handlers are installed and a server sets  *)
(* its watch on the script.                                                *)
SetupDone ==
    /\ pc = "setup" /\ fresh = {}
    /\ pc' = "find"
    /\ changed' = (changed /\ ~IsServerMode)
    /\ UNCHANGED <<loaded, realToday, cur, remain, idle, sighup, pipe>>
    /\ UNCHANGED queueVars /\ UNCHANGED ghostVars /\ UNCHANGED envVars

Find ==
    /\ pc = "find"
    /\ \E q \in FindNextReminder(queued) :
         IF q = NoReminder /\ ~IsDaemon
         THEN pc' = "exited" /\ cur' = q /\ remain' = 0 /\ UNCHANGED idle
         ELSE SleepOrIssue(q)
    /\ UNCHANGED <<loaded, realToday, sighup, changed, pipe>>
    /\ UNCHANGED queueVars /\ UNCHANGED ghostVars /\ UNCHANGED envVars

(* The reminder is due: issue it unless it is too late, and reschedule it. *)
Issue ==
    /\ pc = "issue"
    /\ IF StillTimely(Rem[cur], next[cur], now, realToday, MaxLate)
       THEN /\ fired' = fired \cup {[r |-> cur, next |-> next[cur], at |-> now]}
            /\ shown' = IF IsServerMode THEN shown \cup {[r |-> cur, qid |-> qid[cur]]}
                                        ELSE shown
       ELSE UNCHANGED ghostVars
    /\ pc' = "recalc"
    /\ UNCHANGED <<loaded, realToday, cur, remain, idle, sighup, changed, pipe>>
    /\ UNCHANGED queueVars /\ UNCHANGED envVars

Recalc ==
    /\ pc = "recalc"
    /\ \E o \in NextOutcomes(Rem[cur], next[cur], usesSched[cur], SystemDateTime(now)) :
         LET keep == o[1] # NO_DATETIME /\ ~LeftBehind(Rem[cur], o[1], now, MaxLate)
         IN  /\ next' = [next EXCEPT ![cur] = IF keep THEN o[1] ELSE NO_DATETIME]
             /\ usesSched' = [usesSched EXCEPT ![cur] = o[2]]
             /\ queued' = IF keep THEN queued ELSE queued \ {cur}
    /\ pc' = "find"
    /\ UNCHANGED <<loaded, realToday, fresh, qid, cur, remain, idle, sighup, changed, pipe>>
    /\ UNCHANGED ghostVars /\ UNCHANGED envVars

-----------------------------------------------------------------------------
Awake == \/ remain = 0
         \/ IsServerMode /\ (pipe # << >> \/ changed)

\* Faulty: the date is never looked at again.
RolledOverNever == FALSE

RolledOver == SystemDate(now) # realToday

\* Faulty: the flag of the signal handler is forgotten.
WantsRereadNotForSighup == IsDaemon /\ (changed \/ RolledOver)

(* Why a process that wakes up rereads its script, before it looks at its  *)
(* commands.  A forked process that is no daemon looks at neither the date *)
(* nor the file.                                                           *)
WantsReread == sighup \/ (IsDaemon /\ (changed \/ RolledOver))

WakeReread ==
    /\ pc = "wait" /\ Awake /\ WantsReread
    /\ Exec
    /\ UNCHANGED pipe /\ UNCHANGED envVars

(* It goes on when it need not reread, or when execvp fails. *)
GoesOn == WantsReread => ExecMayFail

(* Nothing to serve: find the next reminder again, unless it is sleep that *)
(* returned.                                                               *)
WakeIdle ==
    /\ pc = "wait" /\ Awake /\ GoesOn
    /\ ~(IsServerMode /\ pipe # << >>)
    /\ \E q \in (IF IsServerMode THEN FindNextReminder(queued) ELSE {cur}) :
         SleepOrIssue(q)
    /\ changed' = IF IsServerMode THEN FALSE ELSE changed
    /\ UNCHANGED <<loaded, realToday, sighup, pipe>>
    /\ UNCHANGED queueVars /\ UNCHANGED ghostVars /\ UNCHANGED envVars

(* Standard input is readable: ServerWait starts to read a line, one       *)
(* character at a time, and blocks until it has the whole of it.           *)
WakeCommand ==
    /\ pc = "wait" /\ Awake /\ GoesOn
    /\ IsServerMode /\ pipe # << >>
    /\ pc' = "reading"
    /\ changed' = FALSE
    /\ UNCHANGED <<loaded, realToday, cur, remain, idle, sighup, pipe>>
    /\ UNCHANGED queueVars /\ UNCHANGED ghostVars /\ UNCHANGED envVars

Line(c) == pc = "reading" /\ pipe # << >> /\ Head(pipe).whole /\ Head(pipe).cmd = c

(* Faulty: the process goes on with the reminder it waited for. *)
AfterCommandSameReminder(Q) ==
    /\ pipe' = Tail(pipe)
    /\ queued' = Q
    /\ SleepOrIssue(cur)
    /\ UNCHANGED <<loaded, realToday, fresh, next, usesSched, qid, sighup, changed>>
    /\ UNCHANGED ghostVars /\ UNCHANGED envVars

(* Back in HandleQueuedReminders after a command: a SIGHUP that came while *)
(* the line was read is seen now.                                          *)
AfterCommand(Q) ==
    /\ pipe' = Tail(pipe)
    /\ \/ sighup /\ Exec
       \/ /\ sighup => ExecMayFail
          /\ queued' = Q
          /\ \E q \in FindNextReminder(Q) : SleepOrIssue(q)
          /\ UNCHANGED <<loaded, realToday, fresh, next, usesSched, qid, sighup, changed>>
          /\ UNCHANGED ghostVars
    /\ UNCHANGED envVars

(* del_reminder. *)
Without(n) == {r \in queued : qid[r] # n}

CmdDel == Line("DEL") /\ AfterCommand(Without(Head(pipe).qid))

CmdReport == Line("STATUS") /\ AfterCommand(queued)

CmdReread ==
    /\ Line("REREAD")
    /\ \/ Exec /\ pipe' = Tail(pipe) /\ UNCHANGED envVars
       \/ ExecMayFail /\ AfterCommand(queued)

CmdExit ==
    /\ Line("EXIT")
    /\ pc' = "exited"
    /\ pipe' = Tail(pipe)
    /\ UNCHANGED <<loaded, realToday, cur, remain, idle, sighup, changed>>
    /\ UNCHANGED queueVars /\ UNCHANGED ghostVars /\ UNCHANGED envVars

ServerStep == CmdDel \/ CmdReport \/ CmdReread \/ CmdExit

ProcessStep ==
    \/ Read \/ StartHandling \/ SetupReminder \/ SetupDone \/ Find \/ Issue \/ Recalc
    \/ WakeReread \/ WakeIdle \/ WakeCommand \/ ServerStep

-----------------------------------------------------------------------------
(* The environment. *)
unchangedByEnv == <<loaded, realToday, queued, fresh, next, usesSched, qid, cur, fired>>

\* Bounds: how long the process is busy, which it is not when the clock stops.
MayBeBusy == now < idle + MaxBusy /\ now + SecsPerMin * PollMinutes < Horizon

(* A second passes.  The process wakes up the moment its nap is over or    *)
(* the line it reads is whole; to start and to wait for a command may take *)
(* any time.                                                               *)
Tick ==
    /\ now < Horizon
    /\ pc \in Blocked
    /\ IF pc = "wait" THEN ~Awake ELSE MayBeBusy
    /\ pc = "reading" => ~Head(pipe).whole
    /\ now' = now + 1
    /\ IF pc = "wait" THEN remain' = remain - 1 /\ idle' = Idling(now')
                      ELSE UNCHANGED <<remain, idle>>
    /\ UNCHANGED <<script, pc, sighup, changed, pipe, shown, events>>
    /\ UNCHANGED unchangedByEnv

Event == events < MaxEvents /\ events' = events + 1

(* The computer is suspended.  The system may or may not count the time    *)
(* spent asleep as time the process slept.                                 *)
Suspend ==
    /\ Event
    /\ pc \in Blocked
    /\ \E j \in Jumps :
         /\ now + j + SecsPerMin * PollMinutes <= Horizon
         /\ now' = now + j
         /\ remain' \in {remain, IF remain < j THEN 0 ELSE remain - j}
    /\ UNCHANGED <<script, pc, sighup, changed, pipe, shown, idle>>
    /\ UNCHANGED unchangedByEnv

(* SIGHUP interrupts a nap, but not the reading of a command, which is     *)
(* restarted (SA_RESTART).  Until its handlers are installed the process   *)
(* dies of it.                                                             *)
Sighup ==
    /\ Event
    /\ pc \notin Gone
    /\ IF pc \in Starting
       THEN pc' = "killed" /\ UNCHANGED <<sighup, remain>>
       ELSE /\ sighup' = TRUE
            /\ remain' = IF pc = "wait" THEN 0 ELSE remain
            /\ UNCHANGED pc
    /\ UNCHANGED <<now, script, changed, pipe, shown, idle>>
    /\ UNCHANGED unchangedByEnv

(* The script is edited.  A server is told of writes to the file, and to   *)
(* the files inside it when it is a directory; a daemon compares the       *)
(* modification time of the file itself, and sees a replaced file as well. *)
Notices(kind) ==
    \/ IsServerMode /\ kind \in {"file", "inside"}
    \/ Mode = "daemon" /\ kind \in {"file", "replace"}

Edit ==
    /\ Event
    /\ pc \in Blocked
    /\ script' \in Scripts \ {script}
    /\ \E kind \in EditKinds : changed' = (changed \/ Notices(kind))
    /\ UNCHANGED <<now, pc, remain, sighup, pipe, shown, idle>>
    /\ UNCHANGED unchangedByEnv

(* The client writes a command, or the first part of one.  It asks to      *)
(* delete a reminder by the qid it was shown with.                         *)
Requests ==
    LET Whole == IF PartialLines THEN BOOLEAN ELSE {TRUE}
    IN  [cmd : Commands \ {"DEL"}, whole : Whole]
          \cup {[cmd |-> "DEL", whole |-> w, qid |-> s.qid, r |-> s.r] :
                  w \in Whole, s \in {t \in shown : "DEL" \in Commands}}

Send ==
    /\ Event
    /\ IsServerMode /\ pc \in Blocked
    /\ \A i \in DOMAIN pipe : pipe[i].whole
    /\ \E c \in Requests : pipe' = Append(pipe, c)
    /\ UNCHANGED <<now, script, pc, remain, sighup, changed, shown, idle>>
    /\ UNCHANGED unchangedByEnv

CompleteLine ==
    /\ \E i \in DOMAIN pipe : ~pipe[i].whole /\ pipe' = [pipe EXCEPT ![i].whole = TRUE]
    /\ UNCHANGED <<now, script, pc, remain, sighup, changed, shown, idle, events>>
    /\ UNCHANGED unchangedByEnv

(* The process is gone, or the clock has reached its bound. *)
Stopped == (pc \in Gone \/ now = Horizon) /\ UNCHANGED vars

Environment == Tick \/ Suspend \/ Sighup \/ Edit \/ Send \/ CompleteLine

Next == ProcessStep \/ Environment \/ Stopped

Spec == Init /\ [][Next]_vars

(* The process runs when it can, the clock advances and the client ends    *)
(* the lines it begins.                                                    *)
Fairness == /\ WF_vars(ProcessStep)
            /\ WF_vars(Tick)
            /\ WF_vars(CompleteLine)

FairSpec == Spec /\ Fairness
=============================================================================
