--------------------------- MODULE ScriptMeaning ---------------------------
(***************************************************************************)
(* What a script means: the lines it executes, by structural recursion on  *)
(* its text and without a stack.  An IF extends to the ENDIF that belongs  *)
(* to it, its ELSE is the first one that is not in an inner IF, and other  *)
(* ELSEs and ENDIFs mean nothing.  An IF that is not ended extends to the  *)
(* end of its file.  A RETURN ends its file.  An included file stands for  *)
(* the lines it executes; a command stands for the lines it prints, if the *)
(* file that runs it is trusted.                                           *)
(***************************************************************************)
EXTENDS IncludeStack

Opens(l)  == l.op \in {"if", "iftrig"}

\* The depth of the text t at line j in the block that starts at line i.
DepthAt(t, i, j) ==
    Cardinality({k \in i .. j : Opens(t[k])}) - Cardinality({k \in i .. j : t[k].op = "endif"})

EndOf(t, i, hi) ==
    LET ends == {j \in i .. hi : t[j].op = "endif" /\ DepthAt(t, i, j) = 0}
    IN  IF ends = {} THEN hi + 1 ELSE Min(ends)

ElseOf(t, i, end) ==
    LET elses == {j \in i .. end - 1 : t[j].op = "else" /\ DepthAt(t, i, j) = 1}
    IN  IF elses = {} THEN end ELSE Min(elses)

Meant(l, returned) == [lines |-> l, returned |-> returned]

RECURSIVE MeaningOfLines(_, _, _, _), MeaningOfFiles(_, _)

\* The lines lo .. hi of the file f, read at include depth d.
MeaningOfLines(f, lo, hi, d) ==
    LET t    == text[f]
        l    == t[lo]
        end  == EndOf(t, lo, hi)
        mid  == ElseOf(t, lo, end)
        Then(m, next) ==
            IF m.returned THEN m
            ELSE LET rest == MeaningOfLines(f, next, hi, d)
                 IN  Meant(m.lines \o rest.lines, rest.returned)
        included ==
            IF d >= INCLUDE_NEST THEN << >>
            ELSE IF l.arg \in DOMAIN Dirs THEN MeaningOfFiles(Dirs[l.arg], d + 1)
            ELSE IF l.arg \in Files THEN MeaningOfFiles(<<l.arg>>, d + 1)
            ELSE << >>
    IN  IF lo > hi THEN Meant(<< >>, FALSE)
        ELSE CASE Opens(l) /\ l.arg = "false" -> Then(MeaningOfLines(f, mid + 1, end - 1, d), end + 1)
               [] Opens(l) /\ l.arg # "false" -> Then(MeaningOfLines(f, lo + 1, mid - 1, d), end + 1)
               [] l.op = "include"            -> Then(Meant(included, FALSE), lo + 1)
               [] l.op = "includecmd"         ->
                     Then(Meant(IF d >= INCLUDE_NEST \/ f \notin Trusted THEN << >>
                                ELSE MeaningOfFiles(<<l.arg>>, d + 1), FALSE), lo + 1)
               [] l.op = "return"             -> Meant(<< >>, TRUE)
               [] l.op = "rem"                -> Then(Meant(<< <<f, lo>> >>, FALSE), lo + 1)
               [] OTHER                       -> MeaningOfLines(f, lo + 1, hi, d)

MeaningOfFiles(fs, d) ==
    IF fs = << >> THEN << >>
    ELSE MeaningOfLines(Head(fs), 1, Len(text[Head(fs)]), d).lines \o MeaningOfFiles(Tail(fs), d)

Meaning ==
    MeaningOfFiles(IF InitialFile \in DOMAIN Dirs THEN Dirs[InitialFile] ELSE <<InitialFile>>, 1)

(* The include machinery, with its one stack of blocks, its closed and     *)
(* reopened files and its cache, executes what the script means.           *)
MeansWhatItSays == pc = "done" /\ present = Files => Where(out) = Meaning
=============================================================================
