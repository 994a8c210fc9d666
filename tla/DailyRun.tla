------------------------------ MODULE DailyRun ------------------------------
(***************************************************************************)
(* A script that is run every day: what one REM command of it does on the  *)
(* days of its life.                                                       *)
(*                                                                         *)
(* Each run computes the trigger date anew from the date and the script.   *)
(* What the runs of different days say about a date must agree.            *)
(***************************************************************************)
EXTENDS Occurrences

CONSTANT Scripts    \* records of a REM command: its OMIT context, its trigger and,
                    \* as bounds, the days of its first and its last run

ASSUME DailyRunAssumption == \A s \in Scripts : IsTrigger(s.trig) /\ s.first \in Nat /\ s.last \in Nat

VARIABLES
    script,     \* the REM command and its context; it does not change
    today,
    promised,   \* the date the last run computed
    announced   \* whether the last run issued the reminder

vars == <<script, today, promised, announced>>

\* What a run says of a script: DoRem computes a date and asks whether to issue it.
Computed(s, day) == ComputeTrigger(s.omits, s.trig, day)

IsAnnounced(s, dse, day) ==
    dse \notin {Expired, Failed} /\ ShouldTriggerReminder(s.omits, s.trig, dse, day)

Init == /\ script \in Scripts
        /\ today = script.first
        /\ promised = Computed(script, today)
        /\ announced = IsAnnounced(script, promised, today)

(* The next day's run. *)
Run == /\ today < script.last
       /\ today' = today + 1
       /\ promised' = Computed(script, today')
       /\ announced' = IsAnnounced(script, promised', today')
       /\ UNCHANGED script

Next == Run

Spec == Init /\ [][Next]_vars

-----------------------------------------------------------------------------
(* Properties of the runs. *)

(* The date is today exactly when the day satisfies the specification:     *)
(* neither the jump to the next date nor the search backwards over omitted *)
(* days in GetNextTriggerDate misses a date or finds a wrong one, and the  *)
(* limits on the search give up no date.                                   *)
TriggersOnTheDay == promised = today <=> Occurs(script.omits, script.trig, today)

(* What a run promises the next one keeps: a date stays until it is over,  *)
(* and a reminder that has expired does not come back.                     *)
PromiseKept == [][ /\ promised = Expired => promised' = Expired
                   /\ promised >= today' => promised' = promised ]_vars

(* A reminder that is announced in advance is announced every day until    *)
(* its date, also if the days of warning do not count omitted ones         *)
(* (ShouldTriggerReminder).                                                *)
AnnouncedUntilTheDay == [][ announced /\ promised > today => announced' /\ promised' = promised ]_vars
=============================================================================
