--------------------------- MODULE MCExpressions ----------------------------
(***************************************************************************)
(* Instances of Expressions for TLC.                                       *)
(***************************************************************************)
EXTENDS Expressions

Op(o) == <<"op", o>>
Fn(f) == <<"call", f>>
One == <<"num", <<1>>>>
Zero == <<"num", <<0>>>>
X == <<"id", "x">>
A == <<"id", "a">>
Str(c) == <<"lit", StrV(<<c>>)>>

AnyArgs == 99

MCFunc ==
    [catch |-> [min |-> 2, max |-> 2, is_constant |-> TRUE],
     choose |-> [min |-> 2, max |-> AnyArgs, is_constant |-> TRUE],
     iif |-> [min |-> 1, max |-> AnyArgs, is_constant |-> TRUE],
     isany |-> [min |-> 1, max |-> AnyArgs, is_constant |-> TRUE],
     isconst |-> [min |-> 1, max |-> 1, is_constant |-> TRUE],
     value |-> [min |-> 1, max |-> 2, is_constant |-> TRUE],
     const |-> [min |-> 1, max |-> 1, is_constant |-> TRUE],
     nonconst |-> [min |-> 1, max |-> 1, is_constant |-> FALSE],
     coerce |-> [min |-> 2, max |-> 2, is_constant |-> TRUE],
     max |-> [min |-> 1, max |-> AnyArgs, is_constant |-> TRUE],
     min |-> [min |-> 1, max |-> AnyArgs, is_constant |-> TRUE],
     abs |-> [min |-> 1, max |-> 1, is_constant |-> TRUE],
     eval |-> [min |-> 1, max |-> 1, is_constant |-> TRUE],
     shell |-> [min |-> 1, max |-> 2, is_constant |-> FALSE],
     today |-> [min |-> 0, max |-> 0, is_constant |-> FALSE]]

\* f(a) = a + x;  r(a) = a && r(a - 1);  d() = shell("s") where RUN is off;  n() = 1 under an IF on the day.
MCFunctions ==
    [f |-> [args |-> <<"a">>, body |-> <<A, Op("+"), X>>, is_constant |-> TRUE, run_disabled |-> FALSE],
     r |-> [args |-> <<"a">>, body |-> <<A, Op("&&"), Fn("r"), A, Op("-"), One, Op(")")>>,
            is_constant |-> TRUE, run_disabled |-> FALSE],
     d |-> [args |-> << >>, body |-> <<Fn("shell"), Str(20), Op(")")>>, is_constant |-> TRUE, run_disabled |-> TRUE],
     n |-> [args |-> << >>, body |-> <<One>>, is_constant |-> FALSE, run_disabled |-> FALSE]]

\* The strings "shell('s')", "x" and "1 +".
MCText == <<26>> :> <<Fn("shell"), Str(20), Op(")")>> @@ <<27>> :> <<X>> @@ <<28>> :> <<One, Op("+")>>

Env(x, tomorrow) ==
    [vars |-> [x |-> [v |-> IntV(x), is_constant |-> FALSE],
               c |-> [v |-> IntV(IntMax), is_constant |-> TRUE]],
     sys |-> [U |-> IntV(7), T |-> IntV(3 + tomorrow)],
     today |-> <<"DATE", 58 + tomorrow>>, shell |-> StrV(<<20 + tomorrow>>)]

MCToday == Env(-IntMax - 1, 0)
MCEnvs == {Env(0, 1)}

Written(tokens, length, n, alarms) ==
    [tokens |-> tokens, length |-> length, evals |-> n, alarms |-> alarms]

Grammar ==
    Written({One, X, <<"bad">>, Fn("f")} \cup
            {Op(o) : o \in {"-", "!", "*", "<", "==", "&&", "||", "(", ")", ","}}, 5, 1, {NoAlarm})

Calls ==
    Written({One, X, Str(26), Str(28), Op(","), Op(")"), Op("/"), Fn("catch"), Fn("eval"), Fn("shell"), Fn("d"), Fn("n")},
            5, 1, {NoAlarm})

Alternatives ==
    Written({Zero, X, Str(27), Op(","), Op(")")} \cup
            {Fn(f) : f \in {"choose", "isany", "isconst", "value", "today"}}, 5, 1, {NoAlarm})

LongCalls ==
    Written({One, X, Op(","), Op(")"), Op("/"), Fn("catch"), Fn("iif"), Fn("choose")}, 6, 1, {NoAlarm})

Recursion ==
    Written({One, Zero, Op(","), Op(")"), Op("-"), Fn("r"), Fn("catch"), Fn("f")}, 5, 2, {NoAlarm, 0, 3})

Lits(vals) == {<<"lit", v>> : v \in vals}
Nums == {<<"num", ds>> : ds \in {<<7>>, <<0>>, <<3, 2, 7, 6, 7>>, <<9, 9, 9, 9, 9>>}}
Arith == {Op(o) : o \in {"+", "-", "*", "/", "%", "<=", ">=", "!=", ">"}}

\* Values at the ends of their ranges; x is the least integer.
Arithmetic ==
    Written(Nums \cup Arith \cup {X, <<"id", "c">>, <<"sys", "U">>, <<"sys", "T">>, <<"sys", "none">>} \cup
            Lits({<<"DATE", 0>>, <<"DATE", 789>>, <<"DATE", IntMax>>, <<"DATETIME", 0>>, <<"DATETIME", IntMax>>,
                  StrV(<< >>), StrV(<<7, 20>>)}), 3, 1, {NoAlarm})

\* Times, but not with the least integer: see Overflow.
Times ==
    Written(Nums \cup {Op("+"), Op("-"), Op("<="), <<"id", "c">>} \cup
            Lits({<<"TIME", 0>>, <<"TIME", 1439>>, <<"DATETIME", 1440>>, <<"DATE", 0>>, StrV(<<7>>)}), 3, 1, {NoAlarm})

Overflow == Written({<<"lit", <<"TIME", 0>>>>, X, Op("-")}, 3, 1, {NoAlarm})

Coercion ==
    Written({X, Op(","), Op(")"), Fn("coerce"), Fn("max"), Fn("nonconst")} \cup
            Lits({<<"DATE", 789>>, <<"TIME", 1439>>, <<"DATETIME", IntMax>>,
                  StrV(<<21>>), StrV(<<22>>), StrV(<<24>>)}), 5, 1, {NoAlarm})

MCStyles ==
    [grammar |-> Grammar, calls |-> Calls, choices |-> Alternatives, long |-> LongCalls, recursion |-> Recursion,
     arithmetic |-> Arithmetic, times |-> Times, coercion |-> Coercion]
=============================================================================
