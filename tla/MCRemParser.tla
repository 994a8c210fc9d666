---------------------------- MODULE MCRemParser ----------------------------
(***************************************************************************)
(* An instance of RemGrammar for TLC: short lines of all the words, longer *)
(* ones of the words that read on.                                         *)
(***************************************************************************)
EXTENDS RemGrammar

CONSTANTS MaxWords,     \* words of a trigger, of all kinds
          MaxCoreWords  \* words of a trigger of the core

Core == {Word("until"), Word("from"), Word("at"), Word("last"), Word("omit"), Word("monday"),
         Word("february"), Word("december"), Num(31), Num(2025), Signed("*", 7), Signed("+", 3),
         Clock(10, 0, ""), Day(2025, 11, 5, NO_TIME)}

Others == {Word(w) : w \in {"addomit", "before", "complete-through", "duration", "first",
                            "in", "info", "lastday", "max-overdue", "maybe-uncomputable", "noqueue",
                            "omitfunc", "once", "priority", "scanfrom", "sched", "skip", "special",
                            "tag", "through", "todo", "tz", "warn"}}
          \cup {Quoted(""), Quoted("Url"), Num(5), Num(2000), Num(9990), Num(10000), Num(0), Signed("++", 2),
                Signed("-", 3), Signed("--", 2), Signed("~", 2),
                Clock(12, 30, "a"), Clock(30, 0, ""), Clock(5, 75, ""), Day(2025, 1, 31, NO_TIME)}

Ending == {EndOfLine, Word("msg"), Word("hello")}

Moment == Day(2025, 11, 5, 1380)
PastedWords == {Pasted(Num(5), FALSE, TRUE), Pasted(Word("monday"), TRUE, FALSE), Pasted(Word("msg"), TRUE, FALSE)}

Longer(r) == \/ Len(r) < MaxWords
             \/ Len(r) < MaxCoreWords /\ \A i \in 1 .. Len(r) : r[i] \in Core

(* Where a line goes on with a word that the code reads otherwise than the *)
(* manual has it: a date with a time after a time or a duration, and a     *)
(* word for the number of MAX-OVERDUE.                                     *)
KnownDivergence(r, l) ==
    \/ l = Moment /\ \E i \in 1 .. Len(r) : r[i].k = "clock" \/ r[i] = Word("duration")
    \/ FindToken(l) = Tok("T_Illegal", OK) /\ Len(r) > 0 /\ r[Len(r)] = Word("max-overdue")

AnyWord(r) ==
    IF Len(r) > 0 /\ r[Len(r)] = EndOfLine THEN {EndOfLine}
    ELSE IF ~Longer(r) THEN {EndOfLine, Word("msg")}
    ELSE IF Len(r) < MaxWords THEN Core \cup Others \cup Ending \cup PastedWords \cup {Moment}
    ELSE Core \cup {EndOfLine}

MCReadable(r) == {l \in AnyWord(r) : ~KnownDivergence(r, l)}
=============================================================================
