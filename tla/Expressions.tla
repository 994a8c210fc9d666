---------------------------- MODULE Expressions -----------------------------
(***************************************************************************)
(* Expressions from their text to their value.  A line is written token by *)
(* token, for as long as what is written may still become an expression,   *)
(* and evaluated, once or twice on the same line of the script.  What the  *)
(* parser and the evaluator make of it is compared with a definition by    *)
(* the text: the operator that binds loosest, and is the last of those, is *)
(* applied to what the tokens on its two sides mean.                       *)
(***************************************************************************)
EXTENDS Evaluator

CONSTANTS Styles,    \* by name, what lines are written: tokens, length, expressions on a line, alarms
          Today,     \* variables, system variables, today() and shell() of this run
          Envs       \* and those of other runs

VARIABLES style, line, evals, g, ans, alarmed

vars == <<style, line, evals, g, ans, alarmed>>

Globals(env) ==
    [env |-> env, thisline |-> 0, level |-> 0, run |-> {}, exceeded |-> FALSE, alarm |-> NoAlarm,
     nonconst |-> FALSE, used |-> 0, hw |-> 0]

Init ==
    /\ style \in DOMAIN Styles /\ g = Globals(Today)
    /\ line = << >> /\ evals = 0 /\ ans = Err("none") /\ alarmed = FALSE

\* A refused text stays refused unless it was refused for its end.
Continuations ==
    IF evals > 0 \/ Len(line) >= Styles[style].length THEN {}
    ELSE LET p == parse_expression(line, << >>, 0, 0)
         IN  IF p.r = "OK" \/ p.rest = << >> THEN Styles[style].tokens ELSE {}

Type(t) ==
    /\ line' = Append(line, t)
    /\ UNCHANGED <<style, evals, g, ans, alarmed>>

\* An expression of the line is evaluated; SIGALRM may come after some nodes.
Evaluate(alarm) ==
    /\ line # << >> /\ evals < Styles[style].evals
    /\ LET e == EvalExpr(line, g, alarm) IN ans' = e[1] /\ g' = e[2]
    /\ evals' = evals + 1 /\ alarmed' = (alarmed \/ alarm # NoAlarm)
    /\ UNCHANGED <<style, line>>

Next == (\E t \in Continuations : Type(t)) \/ (\E alarm \in Styles[style].alarms : Evaluate(alarm))

Spec == Init /\ [][Next]_vars

-----------------------------------------------------------------------------
\* What a text means

Ends(t) == t[1] \in {"num", "lit", "id", "sys"} \/ t = <<"op", ")">>
Opens(t) == t[1] = "call" \/ t = <<"op", "(">>

\* Parentheses that are open before the token i.
Nest(toks, i) ==
    Cardinality({j \in 1 .. i - 1 : Opens(toks[j])}) - Cardinality({j \in 1 .. i - 1 : toks[j] = <<"op", ")">>})

Splits(toks, k) ==
    {i \in 2 .. Len(toks) : /\ toks[i][1] = "op" /\ toks[i][2] \in Levels[k]
                            /\ Ends(toks[i - 1]) /\ Nest(toks, i) = 0}

\* The last operator of the loosest level there is.
SplitAt(toks) ==
    LET ks == {k \in DOMAIN Levels : Splits(toks, k) # {}} IN IF ks = {} THEN 0 ELSE Max(Splits(toks, Min(ks)))

Left(toks) == SubSeq(toks, 1, SplitAt(toks) - 1)
Right(toks) == SubSeq(toks, SplitAt(toks) + 1, Len(toks))
Prefixed(toks) == toks[1][1] = "op" /\ toks[1][2] \in {"-", "!", "+"}
Enclosed(toks) ==
    Len(toks) > 1 /\ Opens(toks[1]) /\ toks[Len(toks)] = <<"op", ")">> /\ \A i \in 2 .. Len(toks) : Nest(toks, i) > 0
Inside(toks) == SubSeq(toks, 2, Len(toks) - 1)

\* The arguments between the commas.
Arguments(toks) ==
    LET cuts == SetToSortSeq({0, Len(toks) + 1} \cup
                             {i \in DOMAIN toks : toks[i] = <<"op", ",">> /\ Nest(toks, i) = 0}, <)
    IN  IF toks = << >> THEN << >>
        ELSE [j \in 1 .. Len(cuts) - 1 |-> SubSeq(toks, cuts[j] + 1, cuts[j + 1] - 1)]

Value(ds) == FoldLeft(LAMBDA n, d : IF n > IntMax THEN n ELSE 10 * n + d, 0, ds)

RECURSIVE WellFormed(_)
WellFormed(toks) ==
    IF toks = << >> THEN FALSE
    ELSE IF SplitAt(toks) > 0 THEN WellFormed(Left(toks)) /\ WellFormed(Right(toks))
    ELSE IF Prefixed(toks) THEN WellFormed(Tail(toks))
    ELSE IF Len(toks) = 1
    THEN /\ Ends(toks[1]) /\ toks[1][1] # "op"
         /\ toks[1][1] = "num" => Fits(Value(toks[1][2]))
         /\ toks[1][1] = "sys" => toks[1][2] \in SysVars
    ELSE /\ Enclosed(toks)
         /\ IF toks[1][1] = "op" THEN WellFormed(Inside(toks))
            ELSE LET args == Arguments(Inside(toks))  f == toks[1][2]
                 IN  /\ \A i \in DOMAIN args : WellFormed(args[i])
                     /\ f \in DOMAIN Func => /\ Len(args) >= Func[f].min
                                             /\ Func[f].max # NO_MAX_ARGS => Len(args) <= Func[f].max

\* Sums, differences and products as numbers, then refused where they do not fit.
InRange(v) ==
    CASE ~ Fits(v[2]) \/ (v[1] \in {"DATE", "DATETIME"} /\ v[2] < 0) -> Err("over")
      [] v[1] = "TIME" /\ Fits(v[2]) -> <<"TIME", v[2] % MINUTES_PER_DAY>>
      [] OTHER -> v

SumType(t, u) ==
    CASE t = "INT" -> u
      [] u = "INT" /\ t # "INT" -> t
      [] {t, u} = {"TIME", "DATETIME"} -> "DATETIME"
      [] t = "TIME" /\ u = "TIME" -> "TIME"
      [] OTHER -> "ERR"

DifferenceType(t, u) ==
    CASE u = "INT" -> t
      [] t = u /\ u # "INT" -> "INT"
      [] t = "DATETIME" /\ u = "TIME" -> t
      [] OTHER -> "ERR"

Exact(o, v, w) ==
    LET strings == "STR" \in {v[1], w[1]}
        t == IF o = "+" THEN SumType(v[1], w[1]) ELSE DifferenceType(v[1], w[1])
    IN  CASE o \in {"+", "-"} /\ ~ strings ->
               IF t = "ERR" THEN Err("type")
               ELSE InRange(<<t, IF o = "+" THEN v[2] + w[2] ELSE v[2] - w[2]>>)
          [] o = "*" /\ v[1] = "INT" /\ w[1] = "INT" -> InRange(IntV(v[2] * w[2]))
          [] OTHER -> Binary(o, v, w)

\* Evaluation without counters and flags: c has the depth of calls, the local variables, and whether
\* shell() may run.
RECURSIVE Denotes(_, _), DenoteAll(_, _)

DenoteAll(args, c) == [i \in DOMAIN args |-> Denotes(args[i], c)]

FirstError(vals) == Min({i \in DOMAIN vals : IsErr(vals[i])} \cup {Len(vals) + 1})

Applied(f, args, c) ==
    LET deeper == [c EXCEPT !.depth = @ + 1]
        D(i) == Denotes(args[i], deeper)
        n == D(1)[2]
        conds == {i \in 1 .. Len(args) - 1 : i % 2 = 1 /\ (IsErr(D(i)) \/ truthy(D(i)))}
        vals == DenoteAll(args, c)
        u == Functions[f]
        Deep == c.depth >= MAX_RECURSION_LEVEL
    IN  CASE f \notin DOMAIN Func ->
               IF f \notin DOMAIN Functions \/ Len(args) # Len(u.args) THEN Err("call")
               ELSE IF \E i \in DOMAIN vals : IsErr(vals[i]) THEN vals[FirstError(vals)]
               ELSE IF Deep THEN Err("deep")
               ELSE Denotes(u.body, [deeper EXCEPT !.shell = @ /\ ~ u.run_disabled,
                                                   !.locals = [a \in {u.args[i] : i \in DOMAIN u.args} |->
                                                                 vals[CHOOSE i \in DOMAIN u.args : u.args[i] = a]]])
          [] f \in DOMAIN Func /\ Deep -> Err("deep")
          [] f = "catch" /\ ~ Deep -> IF IsErr(D(1)) THEN D(2) ELSE D(1)
          [] f = "choose" /\ ~ Deep ->
               IF IsErr(D(1)) THEN D(1) ELSE IF D(1)[1] # "INT" THEN Err("type")
               ELSE D(1 + (CHOOSE k \in 1 .. Len(args) - 1 :
                             \A m \in 1 .. Len(args) - 1 : (k - n) * (k - n) <= (m - n) * (m - n)))
          [] f = "iif" /\ ~ Deep ->
               IF Len(args) % 2 = 0 THEN Err("odd")
               ELSE IF conds = {} THEN D(Len(args))
               ELSE IF IsErr(D(Min(conds))) THEN D(Min(conds)) ELSE D(Min(conds) + 1)
          [] f = "isany" /\ ~ Deep ->
               LET stop == {i \in 2 .. Len(args) : IsErr(D(i)) \/ D(i) = D(1)}
               IN  IF IsErr(D(1)) THEN D(1)
                   ELSE IF stop # {} /\ IsErr(D(Min(stop))) THEN D(Min(stop)) ELSE Bool(stop # {})
          [] f = "shell" /\ ~ Deep -> IF \E i \in DOMAIN vals : IsErr(vals[i]) THEN Err("arg")
                                      ELSE IF c.shell THEN c.env.shell ELSE Err("run")
          [] f = "today" /\ ~ Deep -> c.env.today
          [] f = "eval" /\ ~ Deep ->
               IF IsErr(vals[1]) THEN vals[1]
               ELSE IF vals[1][1] # "STR" THEN Err("type")
               ELSE IF vals[1][2] \notin DOMAIN Text THEN Err("eval")
               ELSE IF ~ WellFormed(Text[vals[1][2]]) THEN Err("eval")
               ELSE Denotes(Text[vals[1][2]], [deeper EXCEPT !.shell = FALSE, !.locals = << >>])
          [] OTHER -> IF \E i \in DOMAIN vals : IsErr(vals[i]) THEN vals[FirstError(vals)] ELSE Call(f, vals)

Denotes(toks, c) ==
    LET i == SplitAt(toks)
        o == toks[i][2]
        v == Denotes(Left(toks), c)
        w == Denotes(Right(toks), c)
        x == Denotes(Tail(toks), c)
        name == toks[1][2]
    IN  CASE i > 0 -> IF IsErr(v) THEN v
                      ELSE IF o = "&&" THEN IF truthy(v) THEN w ELSE v
                      ELSE IF o = "||" THEN IF truthy(v) THEN v ELSE w
                      ELSE IF IsErr(w) THEN w ELSE Exact(o, v, w)
          [] i = 0 /\ Prefixed(toks) ->
               IF IsErr(x) \/ name = "+" THEN x
               ELSE IF name = "!" THEN Bool(~ truthy(x))
               ELSE IF x[1] = "INT" THEN InRange(IntV(- x[2])) ELSE Err("type")
          [] i = 0 /\ ~ Prefixed(toks) /\ Len(toks) > 1 ->
               IF toks[1][1] = "op" THEN Denotes(Inside(toks), c)
               ELSE Applied(name, Arguments(Inside(toks)), c)
          [] i = 0 /\ ~ Prefixed(toks) /\ Len(toks) = 1 ->
               CASE toks[1][1] = "num" -> IntV(Value(name))
                 [] toks[1][1] = "lit" -> name
                 [] toks[1][1] = "sys" -> c.env.sys[name]
                 [] toks[1][1] = "id" -> IF name \in DOMAIN c.locals THEN c.locals[name]
                                         ELSE IF name \in DOMAIN c.env.vars THEN c.env.vars[name].v ELSE Err("var")

Meaning ==
    IF WellFormed(line)
    THEN Denotes(line, [env |-> g.env, depth |-> 0, locals |-> << >>, shell |-> TRUE]) ELSE Err("syntax")

-----------------------------------------------------------------------------

LimitHit == ans = Err("E_EXPR_NODES_EXCEEDED")

\* isconst() and value() are about variables, not about values.
AboutValues == \A i \in DOMAIN line : line[i] \notin {<<"call", "isconst">>, <<"call", "value">>}

(* An expression has the value that its text means: operators bind as the  *)
(* grammar says and associate to the left, && and || and iif() and         *)
(* choose() and catch() evaluate what they should, sums and products are   *)
(* exact or refused, and shell() runs nowhere inside eval() or a function  *)
(* that was defined where RUN is off (parse_expression, EvalExpr).         *)
MeansWhatItSays ==
    evals > 0 /\ ~ alarmed /\ ~ LimitHit /\ AboutValues =>
        LET v == Meaning IN IF IsErr(v) THEN IsErr(ans) ELSE ans = v

(* Whatever fails, and wherever the time limit strikes, the nodes of the   *)
(* trees are given back, and the depth of calls, RUN, and the alarm are as *)
(* they were (free_expr_tree, eval_builtin, eval_userfunc, FEval,          *)
(* evaluate_expression).                                                   *)
NothingLeftOver ==
    g.used = 0 /\ g.level = 0 /\ g.run = {} /\ ~ g.exceeded /\ g.alarm = NoAlarm

(* A value that remind takes for a constant, so that it may purge the      *)
(* reminder, is the same on another day and in another environment         *)
(* (the nonconst flag of evaluate_expr_node and of the built-in functions; *)
(* isconst() says nothing of its argument).                                *)
ConstantsStayConstant ==
    evals = 1 /\ ~ alarmed /\ ~ IsErr(ans) /\ ~ g.nonconst /\ <<"call", "isconst">> \notin ToSet(line) =>
        \A env \in Envs : EvalExpr(line, Globals(env), NoAlarm)[1] = ans

(* No line evaluates more nodes than the limit and, when it has used them  *)
(* up, every further expression on it fails whatever catch() it is in      *)
(* (ExpressionNodeLimitPerLine in evaluate_expr_node).                     *)
LimitIsFinal ==
    [][ExpressionNodeLimitPerLine > 0 =>
         /\ g'.thisline <= ExpressionNodeLimitPerLine
         /\ evals > 0 /\ g.thisline = ExpressionNodeLimitPerLine => IsErr(ans')]_vars
=============================================================================
