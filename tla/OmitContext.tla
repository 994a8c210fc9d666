---------------------------- MODULE OmitContext ----------------------------
(***************************************************************************)
(* The commands of a script that change the OMIT context, in any order,    *)
(* over several passes.                                                    *)
(***************************************************************************)
EXTENDS Omits

CONSTANTS
    WeekdayOmits,   \* the sets of weekdays that the script OMITs
    DateOmits,      \* the pairs of dates, before and after a THROUGH, it OMITs
    AddOmitDates,   \* the trigger dates of its REM commands with ADDOMIT; -1 is expired
    MaxSaved        \* bound: nested PUSH-OMIT-CONTEXTs

\* What the words of an OMIT give of a date.
GivenDates == [y : {NO_YR} \cup Nat, m : {NO_MON} \cup 0 .. 11, d : {NO_DAY} \cup 1 .. 31]

ASSUME CommandAssumption ==
    /\ WeekdayOmits \subseteq SUBSET Weekdays
    /\ DateOmits \subseteq GivenDates \X GivenDates
    /\ AddOmitDates \subseteq Nat \cup {-1}
    /\ MaxSaved \in Nat

VARIABLES
    omits,      \* the context
    saved       \* SavedOmitContexts, the most recent one first

vars == <<omits, saved>>

Init == omits = NoOmits /\ saved = << >>

(* OMIT; a command that is refused may have omitted a part of its dates.   *)
Omit == /\ \/ \E wd \in WeekdayOmits : omits' = OmitWeekdays(omits, wd).omits
           \/ \E range \in DateOmits : omits' = OmitDates(omits, range[1], range[2]).omits
        /\ UNCHANGED saved

RemAddOmit == /\ \E dse \in AddOmitDates : omits' = AddGlobalOmit(omits, dse).omits
              /\ UNCHANGED saved

DoClear == omits' = NoOmits /\ UNCHANGED saved

PushOmitContext == /\ Len(saved) < MaxSaved
                   /\ saved' = <<omits>> \o saved
                   /\ UNCHANGED omits

\* Faulty: the weekdays are not restored.
PopOmitContextDatesOnly ==
    /\ saved # << >>
    /\ omits' = [Head(saved) EXCEPT !.weekday = omits.weekday]
    /\ saved' = Tail(saved)

(* POP-OMIT-CONTEXT; without a PUSH it is refused. *)
PopOmitContext == /\ saved # << >>
                  /\ omits' = Head(saved)
                  /\ saved' = Tail(saved)

(* PerIterationInit. *)
NewPass == omits' = NoOmits /\ saved' = << >>

Next == Omit \/ RemAddOmit \/ DoClear \/ PushOmitContext \/ PopOmitContext \/ NewPass

Spec == Init /\ [][Next]_vars

-----------------------------------------------------------------------------
(* The abstract view of a context: the sets of what is omitted.            *)
Days(o)   == ToSet(o.full)
Yearly(o) == ToSet(o.partial)

Sets == INSTANCE OmitSets WITH
    days     <- Days(omits),
    yearly   <- Yearly(omits),
    weekdays <- omits.weekday,
    stack    <- [i \in DOMAIN saved |->
                   <<Days(saved[i]), Yearly(saved[i]), saved[i].weekday>>]

(* The sorted arrays, the binary search and the saved copies do what sets  *)
(* would: nothing is omitted twice, lost or found by mistake, and a POP    *)
(* brings back exactly the context of its PUSH.                            *)
ImplementsOmitSets == Sets!Spec

(* IsOmitted finds a date exactly when it is in one of the sets.           *)
Window == {dse \in UNION {(d - 1) .. (d + 1) : d \in AddOmitDates \ {-1}} : dse >= 0}
SearchIsMembership ==
    \A dse \in Window : IsOmitted(omits, dse, {}) <=> Sets!Omitted(dse)
=============================================================================
