---------------------------- MODULE Occurrences ----------------------------
(***************************************************************************)
(* The meaning of a trigger, one date at a time: the dates on which a      *)
(* reminder occurs, without a word about how to find the next one.         *)
(***************************************************************************)
EXTENDS Triggers

Given(x, given) == given = -1 \/ x = given

Matches(t, dse) ==
    LET date == FromDSE(dse)
    IN  Given(date.d, t.d) /\ Given(date.m, t.m) /\ Given(date.y, t.y)

\* A weekday with a day is the first such weekday on or after that day.
Specified(t, dse) ==
    IF t.wd = {} THEN Matches(t, dse)
    ELSE /\ dse % 7 \in t.wd
         /\ IF t.d = NO_DAY THEN Matches(t, dse)
            ELSE \E j \in dse - 6 .. dse :
                    j >= 0 /\ Matches(t, j) /\ \A i \in j .. dse - 1 : i % 7 \notin t.wd

\* Going back n days, or n days that are not omitted.
IsBack(o, t, from, dse) ==
    \/ t.back <= 0 /\ dse = from + t.back
    \/ t.back > 0 /\ dse < from /\ ~Omitted(o, t, dse) /\ Kept(o, t, dse .. from - 1) = t.back

\* How far back, at most, a date comes from, over a block of omitted days.
Reach(t) == IF t.back < 0 THEN -t.back ELSE IF t.back = 0 THEN 0 ELSE MaxSteps(t.back)

Base(o, t, dse) == \E from \in dse .. dse + Reach(t) : Specified(t, from) /\ IsBack(o, t, from, dse)

\* The date a repeated reminder counts from.
Origin(t) == LET j == DSE(t.y, t.m, t.d) IN CHOOSE dse \in j .. j + 6 : Specified(t, dse)

Repetition(o, t, dse) ==
    IF t.rep = 0 THEN Base(o, t, dse)
    ELSE \E first \in Origin(t) - Reach(t) .. Origin(t) :
            /\ IsBack(o, t, Origin(t), first)
            /\ dse >= first /\ (dse - first) % t.rep = 0

\* The reminder occurs on a date, unless it moves from an omitted date.
Occurs(o, t, dse) ==
    /\ t.until # NO_UNTIL => dse <= t.until
    /\ \/ Repetition(o, t, dse) /\ (t.skip = "" \/ ~Omitted(o, t, dse))
       \/ /\ t.skip = "BEFORE" /\ ~Omitted(o, t, dse)
          /\ \E n \in 1 .. MaxSatIter - 1 :
                /\ \A j \in dse + 1 .. dse + n : Omitted(o, t, j)
                /\ Repetition(o, t, dse + n)
       \/ /\ t.skip = "AFTER" /\ ~Omitted(o, t, dse)
          /\ \E n \in 1 .. MaxSatIter - 1 :
                /\ \A j \in dse - n .. dse - 1 : Omitted(o, t, j)
                /\ Repetition(o, t, dse - n)

(* The triggers whose dates the code is known not to find by examining     *)
(* each day as the manual describes; see the README.                       *)
Diverges(t) ==
    \/ t.wd # {} /\ t.d # NO_DAY /\ t.m = NO_MON /\ t.y # NO_YR
    \/ t.rep # 0 /\ t.skip = "BEFORE"
    \/ t.back # 0 /\ t.skip = "AFTER"
    \/ t.back # 0 /\ t.until # NO_UNTIL
    \/ t.back # 0 /\ t.rep # 0 /\ t.skip = "SKIP"
=============================================================================
