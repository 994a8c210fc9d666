-------------------------- MODULE MCIncludeStack --------------------------
(***************************************************************************)
(* Instances of IncludeStack for TLC: a script A, a file B that belongs to *)
(* somebody else, a directory D that holds B and an empty file C, and two  *)
(* commands, one of them written with a !.                                 *)
(***************************************************************************)
EXTENDS ScriptMeaning

L(op, arg) == [op |-> op, arg |-> arg]

RemLine == L("rem", "-")
Else    == L("else", "-")
Endif   == L("endif", "-")
Ret     == L("return", "-")

MCFiles   == {"A", "B", "C"}
MCDirs    == [d \in {"D"} |-> <<"B", "C">>]
MCCmds    == {"cmd", "!cmd"}
MCTrusted == {"A", "C", "D"}

Conditions == {L("if", "true"), L("if", "false")}

SeqsOf(S, lengths) == UNION {[1 .. n -> S] : n \in lengths}

TextsOf(As, Bs) ==
    {[f \in MCFiles \cup MCCmds |->
        CASE f = "A" -> a [] f = "B" -> b [] f = "C" -> << >> [] OTHER -> <<RemLine>>] :
       a \in As, b \in Bs}

\* Any two or three lines in A, and a B that disturbs its includer as best it
\* can.  Files of three lines are too long for the cache.
AnyLines == {RemLine, Else, Endif, Ret, L("if", "error"), L("if", "false"), L("iftrig", "error"),
             L("include", "B"), L("include", "D"), L("includecmd", "cmd"), L("includecmd", "!cmd"),
             L("run", "off"), L("run", "on")}
Disturbing == {<<RemLine>>, <<Else>>, <<Endif, Ret>>, <<L("if", "false"), Else>>, <<L("include", "A"), RemLine>>,
               <<L("run", "on"), L("if", "error")>>, <<L("exit", "-")>>, <<L("includecmd", "!cmd")>>,
               <<Else, Ret, RemLine>>}
AnyTexts == TextsOf(SeqsOf(AnyLines, 2 .. 3), Disturbing)

\* Any three or four lines in A without errors, and a B with loose ends.  Files
\* of four lines are too long for the cache.
MeaningfulLines == Conditions \cup {RemLine, Else, Endif, Ret, L("include", "B"), L("include", "D")}
MeaningfulTexts ==
    TextsOf(SeqsOf(MeaningfulLines, 3 .. 4),
            {<<RemLine>>, <<Endif, RemLine>>, <<L("if", "false"), Ret>>, <<Else, Ret, RemLine>>,
             <<L("includecmd", "cmd"), L("include", "B")>>})
=============================================================================
