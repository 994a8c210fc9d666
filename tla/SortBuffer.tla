----------------------------- MODULE SortBuffer -----------------------------
(***************************************************************************)
(* The sort buffer of option -g (sort.c): reminders wait in it until the   *)
(* script has been read.  A reminder is a record with its date, its time   *)
(* or NO_TIME, and its priority; by holds the directions of the sort.      *)
(***************************************************************************)
EXTENDS Integers, SequencesExt

NO_TIME == -1       \* INT_MAX

\* Date, time and priority ascend or descend; reminders without a time come first or last.
Directions == [date : {"ascend", "descend"}, time : {"ascend", "descend"},
               prio : {"ascend", "descend"}, untimed_first : BOOLEAN]

After(direction) == IF direction = "descend" THEN -1 ELSE 1

\* 1 if a goes before b, -1 if it goes after b, 0 if they are equal.
Compare(x, y, direction) ==
    CASE x < y -> After(direction) [] x > y -> -After(direction) [] OTHER -> 0

CompareTimes(x, y, by) ==
    CASE x = NO_TIME /\ y # NO_TIME -> IF by.untimed_first THEN 1 ELSE -1
      [] x # NO_TIME /\ y = NO_TIME -> IF by.untimed_first THEN -1 ELSE 1
      [] OTHER -> Compare(x, y, by.time)

CompareRems(a, b, by) ==
    CASE a.date # b.date -> Compare(a.date, b.date, by.date)
      [] a.date = b.date /\ CompareTimes(a.time, b.time, by) # 0 -> CompareTimes(a.time, b.time, by)
      [] OTHER -> Compare(a.priority, b.priority, by.prio)

\* Faulty: a reminder goes before the ones that are equal to it.
InsertBeforeEquals(queue, rem, by) ==
    LET k == Min({Len(queue) + 1} \cup {i \in DOMAIN queue : CompareRems(rem, queue[i], by) >= 0})
    IN  SubSeq(queue, 1, k - 1) \o <<rem>> \o SubSeq(queue, k, Len(queue))

(* A reminder goes before the first one that it should be issued before.   *)
InsertIntoSortBuffer(queue, rem, by) ==
    LET k == Min({Len(queue) + 1} \cup {i \in DOMAIN queue : CompareRems(rem, queue[i], by) > 0})
    IN  SubSeq(queue, 1, k - 1) \o <<rem>> \o SubSeq(queue, k, Len(queue))

-----------------------------------------------------------------------------
(* What the buffer is for: the order of the reminders, by rank of their    *)
(* date, time and priority, and otherwise as they came.                    *)

Ranked(n, direction) == IF direction = "descend" THEN -n ELSE n

\* Of two reminders the first key that differs counts.
Key(rem, by) == << Ranked(rem.date, by.date),
                   IF (rem.time = NO_TIME) = by.untimed_first THEN 0 ELSE 1,
                   Ranked(rem.time, by.time), Ranked(rem.priority, by.prio) >>

Precedes(k, l) == \E i \in 1 .. 4 : k[i] < l[i] /\ \A j \in 1 .. i - 1 : k[j] = l[j]

\* queue holds the reminders of came, in this order.
IsStableSort(queue, came, by) ==
    LET before(i, j) == \/ Precedes(Key(came[i], by), Key(came[j], by))
                        \/ Key(came[i], by) = Key(came[j], by) /\ i < j
        place(i)     == 1 + Cardinality({j \in DOMAIN came : before(j, i)})
    IN  Len(queue) = Len(came) /\ \A i \in DOMAIN came : queue[place(i)] = came[i]
=============================================================================
