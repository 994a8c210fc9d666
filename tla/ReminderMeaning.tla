-------------------------- MODULE ReminderMeaning --------------------------
(***************************************************************************)
(* What the runs of a file of reminders must do over the days.             *)
(*                                                                         *)
(* Each run begins from nothing: it computes the dates anew from the file, *)
(* the day and one timestamp.  What it issues is compared with the dates   *)
(* on which the reminders occur, and with what earlier runs have issued.   *)
(***************************************************************************)
EXTENDS ReminderRun

(* History, from which no run reads: how often the file was used today,    *)
(* how many runs of today issued ONCE reminders, and the tasks that are    *)
(* due or late, as the last run had them.                                  *)
VARIABLE seen

Agenda == ~run.opt.PurgeMode
Plain  == Agenda /\ run.opt.TodoFilter = "" /\ run.opt.DontIssueAts = 0
HasOnce(r) ==
    /\ ~r.opt.PurgeMode /\ ~IgnoreOnce(r.opt)
    /\ \E name \in r.queued \cup {r.out[k].name : k \in DOMAIN r.out} : Rem[name].once

Owed == {r \in Range(run.came) : Rem[r.name].is_todo /\ r.date <= today}

Used(n) == IF n < 2 THEN n + 1 ELSE n

SeenNothing(owed) == [used |-> 0, once |-> 0, owed |-> owed]

HInit == Init /\ seen = SeenNothing({})

HNext ==
    \/ (\E opt \in Options : Start(opt)) /\ seen' = [seen EXCEPT !.used = Used(@)]
    \/ (ReadLine \/ Finish)
         /\ seen' = [seen EXCEPT !.once = IF HasOnce(run') /\ ~HasOnce(run) THEN Used(@) ELSE @,
                                 !.owed = IF run.mode = "reading" /\ run'.mode = "over" /\ Plain
                                          THEN {[name |-> r.name, date |-> r.date] : r \in Owed} ELSE @]
    \/ Killed /\ seen' = [seen EXCEPT !.used = 2, !.once = IF stamp' = stamp THEN @ ELSE 0]
    \/ (\E name \in DOMAIN Rem : Complete(name))
         /\ seen' = [seen EXCEPT !.used = 2, !.owed = {r \in @ : complete[r.name] = complete'[r.name]}]
    \/ TakePurged /\ seen' = [seen EXCEPT !.used = 2]
    \/ NextDayComes /\ seen' = SeenNothing(seen.owed)

hvars == <<vars, seen>>

HSpec == HInit /\ [][HNext]_hvars

-----------------------------------------------------------------------------
(* The date a reminder has on a day, by its occurrences. *)

\* As far as a date on a day of the life may be ahead or come from.
Horizon == LastDay + 21

DatesOf(o, t) ==
    {dse \in 0 .. Horizon : Computable(o, t) /\ Occurs(o, t, dse) /\ (t.sat = {} \/ dse % 7 \in t.sat)}

\* The day in our time zone on which the occurrence of a date begins.
Begins(t, dse) == AdjustTriggerForTimeZone(t, [date |-> dse, time |-> t.ttime]).date

\* An event is looked for from today or from where it says, a task from where it is complete.
LookedForFrom(t, c, day) ==
    LET scan == CASE t.from # NO_DATE -> {t.from}
                  [] t.from = NO_DATE /\ t.scanfrom > 0 -> {t.scanfrom}
                  [] t.from = NO_DATE /\ t.scanfrom <= 0 /\ t.scanfrom # NO_SCANFROM -> {day + t.scanfrom}
                  [] OTHER -> {}
    IN  CASE t.is_todo -> Max({c + 1} \cup scan)
          [] ~t.is_todo /\ t.from # NO_DATE -> Max({day} \cup scan)
          [] OTHER -> IF scan = {} THEN day ELSE Max(scan)

NoneLeft == -9

DateOn(o, t, c, day) ==
    LET from == LookedForFrom(t, c, day)
        left == {dse \in DatesOf(o, t) : Begins(t, dse) + t.duration_days >= from}
    IN  IF left = {} THEN NoneLeft ELSE Max({from, Begins(t, Min(left))})

IsLate(t, date, day)  == t.is_todo /\ date < day
IsTooLate(t, date, day) == IsLate(t, date, day) /\ t.max_overdue >= 0 /\ date + t.max_overdue < day

\* Whether it is to be issued on a day when it has this date.
IsDue(o, t, c, date, day, opt) ==
    /\ date # NoneLeft
    /\ IF IsLate(t, date, day) THEN ~IsTooLate(t, date, day)
       ELSE date >= day /\ InAdvance(o, t, c, date, day, opt)

-----------------------------------------------------------------------------
(* Properties. *)

Over == run.mode = "over"

(* On each day a run issues the reminders that are due and no others: an   *)
(* event on each of the days it lasts, on the day it has in our time zone, *)
(* a task from the first day it is not complete for.  Of the ONCE          *)
(* reminders the first run of a day issues all.  Only an ADDOMIT for which *)
(* there is no room keeps its reminder back (DoRem, ComputeTrigger,        *)
(* DoSatRemind, get_scanfrom and ShouldTriggerReminder together).          *)
IssuesWhatIsDue ==
    Over /\ Plain =>
        \A k \in {j \in DOMAIN file : IsReminder(file[j])} :
            LET name == file[k].name  t == Rem[name]  o == run.contexts[k]
            IN  /\ ~IsRefused(t, complete[name]) /\ ~Silent(t) /\ (t.once => seen.used = 1)
                /\ ~(t.addomit /\ Len(o.full) = MAX_FULL_OMITS)
                =>
                  \E date \in {DateOn(o, t, complete[name], today)} :
                    {r.date : r \in {q \in Range(run.came) : q.name = name}}
                       = IF IsDue(o, t, complete[name], date, today, run.opt) THEN {date} ELSE {}

(* At most one run of a day issues or queues reminders with ONCE, also     *)
(* when a run is killed or the reminders wait to be sorted (GetOnceDate). A *)
(* run that is killed while it writes the timestamp leaves none behind,    *)
(* though an earlier one has issued them: from there it counts anew.       *)
OnceADay == seen.once <= 1

(* With option -g the reminders come out in the order asked for, and those *)
(* that are equal as they came (InsertIntoSortBuffer, CompareRems).        *)
SortedStably ==
    Over /\ Agenda /\ run.opt.sort # <<>> /\ ~run.opt.NextMode =>
        IsStableSort(run.out, run.came, run.opt.sort[1])

(* A reminder that is marked as expired has nothing left to say: an event  *)
(* is not due on this day or a later one, and a task is complete through   *)
(* its last date (the verdict of DoRem in purge mode).                     *)
PurgedIsOver ==
    Over /\ run.opt.PurgeMode =>
        \A l \in {q \in Range(run.purged) : q.mark = "expired"} :
            LET t == Rem[l.name]  c == complete[l.name]
                o == run.contexts[CHOOSE k \in DOMAIN file : file[k] = Line(l.name)]
            IN  IF t.is_todo THEN \A dse \in DatesOf(o, t) : dse >= t.from => dse <= c
                ELSE \A day \in today .. LastDay : ~IsDue(o, t, c, DateOn(o, t, c, day), day, run.opt)

(* "In Purge Mode, Remind will not purge TODOs unless they have been       *)
(* marked as complete" (remind.1): the verdict of DoRem in purge mode.     *)
TodosPurgedWhenComplete ==
    Over /\ run.opt.PurgeMode =>
        \A l \in {q \in Range(run.purged) : q.mark = "expired"} :
            Rem[l.name].is_todo => complete[l.name] # NO_DATE

\* Of equal lines in a row, the first.
Squeezed(names) ==
    FoldLeft(LAMBDA kept, name : IF kept # <<>> /\ Last(kept) = name THEN kept ELSE Append(kept, name), <<>>, names)

(* The purged file has all lines of the file in their order but the        *)
(* comments of an earlier purge, whatever errors there are; some of those  *)
(* make a line come twice (PurgeEchoLine in DoReminders and in DoRem).     *)
PurgeLosesNothing ==
    Over /\ run.opt.PurgeMode =>
        LET Names(lines)  == [k \in DOMAIN lines |-> lines[k].name]
        IN  Squeezed(Names(SelectSeq(file, LAMBDA l : l.mark = "")))
              = Squeezed(Names(SelectSeq(run.purged, LAMBDA l : l.mark # "note")))

(* A task that was due or late is so on the next run, on the same date,    *)
(* until it is marked as complete or too late for its MAX-OVERDUE: neither *)
(* a newer occurrence nor a purge takes it away.                           *)
NaggedUntilDone ==
    [][ Over' /\ ~Over /\ Plain =>
          \A r \in seen.owed :
             \/ IsTooLate(Rem[r.name], r.date, today)
             \/ \E k \in DOMAIN run.came : run.came[k].name = r.name /\ run.came[k].date = r.date ]_hvars
=============================================================================
