--------------------------- MODULE MCDefinitions ---------------------------
EXTENDS Definitions

N(x) == <<x>>
MCBuckets == <<1, 3, 7>>

MCMessages == {LANGID, English, N("ago"), <<"%", "d", "l">>, <<"l", "%", "%", "%", "l", "d">>, <<"x", "%", "d">>}
MCReminders == {<<"d1", "t1", "x">>, <<"d1", "t1", "y">>, <<"d2", "t1", "x">>, <<"d1", "t2", "x">>}

MCNames == {N("a"), N("A"), N("b"), N("c")}
MCLower == [n \in MCNames |-> IF n = N("A") THEN N("a") ELSE n]
MCSettable == {N("A"), N("b"), N("c")}
MCPreservable == {N("c")}
MCContextual == {N("a")}
MCSysVars == [n \in {Limit, N("$FormWidth"), N("$Ago"), N("$Tt")} |->
    CASE n = Limit -> [modifiable |-> TRUE, kind |-> "limit", initial |-> 0]
      [] n = N("$FormWidth") -> [modifiable |-> TRUE, kind |-> "int", initial |-> 1, min |-> 1, max |-> 2]
      [] n = N("$Ago") -> [modifiable |-> TRUE, kind |-> "trans", orig |-> N("ago")]
      [] OTHER -> [modifiable |-> FALSE, kind |-> "int", initial |-> 0, min |-> 0, max |-> 0]]
MCSettings == {<<Limit, 0>>, <<Limit, 1>>, <<Limit, 2>>, <<N("$FormWidth"), 2>>, <<N("$FormWidth"), 3>>,
               <<N("$Ago"), <<"x", "%", "d">>>>, <<N("$Ago"), English>>, <<N("$Tt"), 1>>}
MCVarLists == {<<N("a")>>, <<N("c"), N("b"), N("b")>>, <<Limit, N("$Ago")>>, <<N("a"), N("$Tt")>>}

MCFuncNames == {N("f"), N("F"), N("g"), N("h"), N("abs")}
MCFuncLower == [n \in MCFuncNames |-> IF n = N("F") THEN N("f") ELSE n]
Fset(file, line, name, args, body) ==
    [file |-> file, line |-> line, name |-> N(name), args |-> args, body |-> body]
MCFsets == {Fset("x", 1, "F", << >>, "1"), Fset("y", 1, "f", <<N("g")>>, "2"),
            Fset("[cmdline]", 0, "h", << >>, "3"), Fset("y", 2, "abs", << >>, "4"),
            Fset("y", 3, "f", <<N("f"), N("F")>>, "5"), Fset("y", 4, "f", << >>, "bad"),
            Fset("y", 5, "h", <<N("f"), N("g"), N("h")>>, "6")}
MCSkipped == {Fset("y", 1, "f", <<N("g")>>, "2")}
MCFuncLists == {<<N("f"), N("g")>>, <<N("F"), N("abs")>>}
MCBuiltins == {N("abs")}
MCRenames == {<<N("F"), N("g")>>, <<N("h"), N("abs")>>}

\* Hash values that collide in some sizes and not in others.
MCHashVal == [k \in MCMessages \cup MCReminders \cup MCNames \cup MCFuncNames |->
    CASE k \in {N("a"), N("f"), LANGID} -> 1
      [] k \in {N("b"), N("g"), N("ago")} -> 4
      [] k \in {N("c"), N("h"), <<"%", "d", "l">>} -> 3
      [] k \in MCReminders -> IF k[3] = "x" THEN 8 ELSE 1
      [] OTHER -> 0]
=============================================================================
