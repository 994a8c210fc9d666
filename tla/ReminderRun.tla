---------------------------- MODULE ReminderRun ----------------------------
(***************************************************************************)
(* The life of a file of reminders (DoReminders and main of main.c, DoRem  *)
(* and TriggerReminder of dorem.c): every day it is run, perhaps more than *)
(* once, its user marks tasks as complete, and option -j purges it.  A run *)
(* reads the file line by line and may be killed at any line.              *)
(*                                                                         *)
(* A line has the name of a reminder, or another one for any other         *)
(* command, and a mark: "expired" if it is commented out as expired,       *)
(* "note" for a comment of the purge.  The text of the messages, INCLUDE,  *)
(* IF, daemon and calendar mode are left out.                              *)
(***************************************************************************)
EXTENDS RemCommand

CONSTANTS
    Rem,        \* the reminders, by name
    Files,      \* the files to begin with: their lines and whether $OnceFile is set
    Options,    \* the options of a run
    FirstDay, LastDay,  \* bounds: the days of the life
    MaxLines            \* and the lines of a purged file that is used

ASSUME ReminderRunAssumption == FirstDay \in Nat \ {0} /\ LastDay \in Nat /\ MaxLines \in Nat

ASSUME RemAssumption == \A name \in DOMAIN Rem : IsRem(Rem[name])

ASSUME OptionsAssumption == \A opt \in Options : opt.sort = <<>> \/ opt.sort[1] \in Directions

VARIABLES
    file,       \* its lines
    OnceFile,   \* whether $OnceFile is set
    stamp,      \* the date in $OnceFile or, without one, the access date of the file
    complete,   \* the COMPLETE-THROUGH dates
    today,
    run         \* the run that goes on, or the last one of today

vars == <<file, OnceFile, stamp, complete, today, run>>

Line(name) == [name |-> name, mark |-> ""]
Note       == [name |-> "", mark |-> "note"]

NoRun == [mode |-> "none", opt |-> CHOOSE opt \in Options : TRUE, line |-> 1, OnceDate |-> -1,
          omits |-> NoOmits, contexts |-> <<>>, DidMsgReminder |-> FALSE, queued |-> {},
          came |-> <<>>, sorted |-> <<>>, out |-> <<>>, purged |-> <<>>]

Init == \E f \in Files :
            /\ file = f.lines /\ OnceFile = f.once_file
            /\ stamp = 0 /\ today = FirstDay /\ run = NoRun
            /\ complete = [i \in DOMAIN Rem |-> NO_DATE]

-----------------------------------------------------------------------------
(* The parts of DoRem. *)

IsReminder(l) == l.mark = "" /\ l.name \in DOMAIN Rem

\* What is refused whatever the date is.
IsRefused(t, c) ==
    \/ t.offset # 0 /\ t.ttime = NO_TIME
    \/ ~t.is_todo /\ (c # NO_DATE \/ t.max_overdue >= 0)
    \/ t.typ = ""

\* The lines of the purged file for a reminder; an error adds it once more.
Echoed(l) == <<Line(l.name)>>
Diagnosed(l) == <<Note>> \o Echoed(l)

\* Faulty: only the reason is left.
FailedEchoNever(l) == <<Note, Note>>

RefusedEcho(l, t) == (IF t.typ = "" THEN Diagnosed(l) ELSE Echoed(l)) \o Diagnosed(l)
FailedEcho(l)     == Diagnosed(l) \o Diagnosed(l)

\* Faulty: a task that is late is over.
PurgeEchoLateTask(l, t, d) ==
    IF d.expired \/ d.date < today THEN <<[l EXCEPT !.mark = "expired"]>> ELSE Echoed(l)

PurgeEchoLine(l, t, d) ==
    CASE ~(d.expired \/ (~t.is_todo /\ d.date < today)) -> Echoed(l)
      [] (d.expired \/ (~t.is_todo /\ d.date < today)) /\ t.expr /\ t.nonconst -> <<Note>> \o Diagnosed(l)
      [] (d.expired \/ (~t.is_todo /\ d.date < today)) /\ t.expr /\ ~t.nonconst ->
            <<Note, [l EXCEPT !.mark = "expired"]>>
      [] OTHER -> <<[l EXCEPT !.mark = "expired"]>>

\* The date of the last run with ONCE reminders: read at the first one, and kept.
GetOnceDate(t) ==
    IF t.once /\ ~IgnoreOnce(run.opt) /\ run.OnceDate < 0 THEN stamp ELSE run.OnceDate

\* Faulty: today is not written there.
AsksOnceFileNever(t) == FALSE

\* ... and when it is read from $OnceFile, today is written there.
AsksOnceFile(t) == t.once /\ ~IgnoreOnce(run.opt) /\ OnceFile /\ run.OnceDate < 0

-----------------------------------------------------------------------------
(* TriggerReminder: the reminder is issued, or waits in the sort buffer.   *)

\* Dedupe compares the date, the time and the text.
IsDupe(t, d) ==
    run.opt.DedupeReminders
      /\ \E k \in DOMAIN run.came : /\ run.came[k].date = d.date /\ run.came[k].time = d.time
                                    /\ Rem[run.came[k].name].body = t.body

IsMessage(t) == t.typ \in {"MSG", "MSF"}

Silent(t) == t.typ \in {"CAL", "PS", "PSFILE", "SPECIAL"} \/ (t.typ = "RUN" /\ run.opt.RunDisabled)

Issued(l, t, d) == [name |-> l.name, date |-> d.date, time |-> d.time, priority |-> t.priority, typ |-> t.typ]

TriggerReminder(r, l, t, d) ==
    LET banner == r.DidMsgReminder \/ (IsMessage(t) /\ ~r.opt.NextMode)
        rem    == Issued(l, t, d)
    IN  CASE Silent(t) -> r
          [] ~Silent(t) /\ ~r.opt.NextMode /\ IsDupe(t, d) -> [r EXCEPT !.DidMsgReminder = banner]
          [] ~Silent(t) /\ ~r.opt.NextMode /\ ~IsDupe(t, d) /\ r.opt.sort # <<>> ->
                [r EXCEPT !.DidMsgReminder = banner, !.came = Append(@, rem),
                          !.sorted = InsertIntoSortBuffer(@, rem, r.opt.sort[1])]
          [] OTHER -> [r EXCEPT !.DidMsgReminder = banner, !.came = Append(@, rem), !.out = Append(@, rem)]

-----------------------------------------------------------------------------
(* One line of the file. *)

NextLine(r) == [r EXCEPT !.line = @ + 1, !.contexts = Append(@, run.omits)]

Purging(echo) == run' = NextLine([run EXCEPT !.purged = @ \o echo]) /\ UNCHANGED stamp

(* Comments of a purge are not copied; other commands are.                 *)
OtherLine(l) ==
    /\ ~IsReminder(l)
    /\ Purging(IF run.opt.PurgeMode /\ l.mark = "" THEN Echoed(l) ELSE <<>>)

\* An error: it is reported, and purging goes on.
RefusedLine(l, t) ==
    /\ IsRefused(t, complete[l.name])
    /\ Purging(IF run.opt.PurgeMode THEN RefusedEcho(l, t) ELSE <<>>)

WithOmit(t, d) == IF t.addomit THEN AddGlobalOmit(run.omits, d.date).omits ELSE run.omits

(* The date cannot be computed, or nothing satisfies the expression.       *)
NoDate(l, t, d) ==
    /\ d.failed \/ (t.sat # {} /\ d.expired)
    /\ ~run.opt.PurgeMode \/ t.sat = {}
    /\ Purging(IF run.opt.PurgeMode THEN FailedEcho(l) ELSE <<>>)

(* Its date is to be omitted and there is no room for it: it is an error,  *)
(* and no more is done about the reminder.                                 *)
IsFull(o, t, d) == t.addomit /\ AddGlobalOmit(o, d.date).err

NoRoom(l, t, d) ==
    /\ IsFull(run.omits, t, d) /\ ~d.failed /\ (t.sat # {} => ~d.expired /\ ~run.opt.PurgeMode)
    /\ Purging(IF run.opt.PurgeMode THEN Diagnosed(l) ELSE <<>>)

\* A reminder with a SATISFY is always kept; it may have an error.
SatisfyEcho(l, d) == Diagnosed(l) \o IF d.date = Failed THEN Diagnosed(l) ELSE <<>>

(* Purge mode. *)
PurgeLine(l, t, d) ==
    /\ run.opt.PurgeMode /\ (t.sat = {} => ~d.failed /\ ~IsFull(run.omits, t, d))
    /\ run' = NextLine([run EXCEPT !.omits = IF t.sat # {} THEN @ ELSE WithOmit(t, d),
                                !.purged = @ \o IF t.sat # {} THEN SatisfyEcho(l, d) ELSE PurgeEchoLine(l, t, d)])
    /\ UNCHANGED stamp

(* It is queued and issued.  Both ask when ONCE reminders were last issued.*)
RemLine(l, t, d) ==
    LET once  == GetOnceDate(t)
        c     == complete[l.name]
        ready == [run EXCEPT !.omits = WithOmit(t, d),
                             !.OnceDate = once,
                             !.queued = IF ShouldQueueReminder(t, d, once, today, run.opt)
                                        THEN @ \cup {l.name} ELSE @]
    IN  /\ ~run.opt.PurgeMode /\ ~d.failed /\ ~(t.sat # {} /\ d.expired) /\ ~IsFull(run.omits, t, d)
        /\ run' = NextLine(IF /\ ShouldIssue(WithOmit(t, d), t, c, d, once, today, run.opt)
                           /\ ~todo_filtered(t, run.opt)
                        THEN TriggerReminder(ready, l, t, d) ELSE ready)
        /\ stamp' = IF AsksOnceFile(t) THEN today ELSE stamp

DateOf(l, t) == Trigger(run.omits, t, complete[l.name], today)

ReadLine ==
    /\ run.mode = "reading" /\ run.line <= Len(file)
    /\ LET l == file[run.line]
       IN  \/ OtherLine(l)
           \/ IsReminder(l) /\ RefusedLine(l, Rem[l.name])
           \/ /\ IsReminder(l) /\ ~IsRefused(Rem[l.name], complete[l.name])
              /\ \E d \in {DateOf(l, Rem[l.name])} :
                    \/ NoDate(l, Rem[l.name], d) \/ NoRoom(l, Rem[l.name], d)
                    \/ PurgeLine(l, Rem[l.name], d) \/ RemLine(l, Rem[l.name], d)
    /\ UNCHANGED <<file, OnceFile, complete, today>>

-----------------------------------------------------------------------------
(* The run.  Opening the file reads its access date and changes it.        *)

Start(opt) ==
    /\ run.mode \in {"none", "over"}
    /\ run' = [NoRun EXCEPT !.mode = "reading", !.opt = opt,
                            !.OnceDate = IF OnceFile THEN -1 ELSE stamp]
    /\ stamp' = IF OnceFile THEN stamp ELSE today
    /\ UNCHANGED <<file, OnceFile, complete, today>>

(* The end of the file: main issues what was sorted.                       *)
Finish ==
    /\ run.mode = "reading" /\ run.line > Len(file)
    /\ run' = [run EXCEPT !.mode = "over", !.out = @ \o run.sorted]
    /\ UNCHANGED <<file, OnceFile, stamp, complete, today>>

(* The run is killed.  It may be killed while it writes $OnceFile: the     *)
(* file is empty then.                                                     *)
Killed ==
    /\ run.mode = "reading"
    /\ run' = NoRun
    /\ \/ UNCHANGED stamp
       \/ /\ run.line <= Len(file) /\ IsReminder(file[run.line])
          /\ ~run.opt.PurgeMode /\ AsksOnceFile(Rem[file[run.line].name])
          /\ stamp' = 0
    /\ UNCHANGED <<file, OnceFile, complete, today>>

-----------------------------------------------------------------------------
(* The user. *)

\* A change of the file is an access to it.
Touched == stamp' = IF OnceFile THEN stamp ELSE today

(* The task that the last run issued is marked as complete.                *)
Complete(name) ==
    /\ run.mode = "over"
    /\ \E k \in DOMAIN run.came :
          /\ run.came[k].name = name /\ Rem[name].is_todo /\ run.came[k].date <= LastDay
          /\ complete' = [complete EXCEPT ![name] = run.came[k].date]
    /\ run' = NoRun /\ Touched
    /\ UNCHANGED <<file, OnceFile, today>>

(* The purged file takes the place of the file.                            *)
TakePurged ==
    /\ run.mode = "over" /\ run.opt.PurgeMode /\ Len(run.purged) <= MaxLines
    /\ file' = run.purged
    /\ run' = NoRun /\ Touched
    /\ UNCHANGED <<OnceFile, complete, today>>

NextDayComes ==
    /\ run.mode \in {"none", "over"} /\ today < LastDay
    /\ today' = today + 1 /\ run' = NoRun
    /\ UNCHANGED <<file, OnceFile, stamp, complete>>

Next == \/ \E opt \in Options : Start(opt)
        \/ ReadLine \/ Finish \/ Killed
        \/ \E name \in DOMAIN Rem : Complete(name)
        \/ TakePurged \/ NextDayComes

Spec == Init /\ [][Next]_vars
=============================================================================
