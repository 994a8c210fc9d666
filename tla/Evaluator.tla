----------------------------- MODULE Evaluator ------------------------------
(***************************************************************************)
(* The evaluation of expression trees: expr.c, and those built-in          *)
(* functions of funcs.c that evaluate their own arguments or expressions.  *)
(* The globals that evaluation reads and writes are a record g:            *)
(*   env       variables, with their constness, and system variables       *)
(*   thisline  ExpressionNodesEvaluatedThisLine                            *)
(*   level     FuncRecursionLevel                                          *)
(*   run       RunDisabled, as a set of reasons                            *)
(*   exceeded  ExpressionTimeLimitExceeded, which SIGALRM sets             *)
(*   alarm     nodes still evaluated before SIGALRM comes, NoAlarm if none *)
(*   nonconst  the flag of the expression                                  *)
(*   used, hw  the counters of the parser, which eval() runs               *)
(* An evaluation returns <<value or error, globals>>.                      *)
(***************************************************************************)
EXTENDS ExprParser

CONSTANTS Functions,   \* user functions: arguments, body, is_constant, run_disabled
          Text,        \* the tokens of the strings that eval() is given
          ConstSysVars,         \* system variables that never change
          ExpressionNodeLimitPerLine,   \* 0 for none
          MAX_RECURSION_LEVEL

NoAlarm == -1

\* The trees that FSET made of the functions' bodies.
Body == [f \in DOMAIN Functions |-> parse_expression(Functions[f].body, Functions[f].args, 0, 0).node]

Enter(g) == [g EXCEPT !.level = @ + 1]
Leave(g) == [g EXCEPT !.level = @ - 1]
NonConst(g) == [g EXCEPT !.nonconst = TRUE]

\* The limit is one node late.
FaultyLimit(g) == ExpressionNodeLimitPerLine > 0 /\ g.thisline > ExpressionNodeLimitPerLine

NodeLimitReached(g) == ExpressionNodeLimitPerLine > 0 /\ g.thisline >= ExpressionNodeLimitPerLine

\* One node more, and the alarm one node nearer.
Tick(g) ==
    [g EXCEPT !.thisline = @ + 1, !.exceeded = @ \/ g.alarm = 0,
              !.alarm = IF @ = 0 THEN NoAlarm ELSE IF @ > 0 THEN @ - 1 ELSE @]

\* A variable says nothing of its constness.
FaultyGetVar(x, g) ==
    IF x \notin DOMAIN g.env.vars THEN <<Err("E_NOSUCH_VAR"), g>> ELSE <<g.env.vars[x].v, g>>

get_var(x, g) ==
    IF x \notin DOMAIN g.env.vars THEN <<Err("E_NOSUCH_VAR"), g>>
    ELSE <<g.env.vars[x].v, IF g.env.vars[x].is_constant THEN g ELSE NonConst(g)>>

GetSysVar(x, g) == <<g.env.sys[x], IF x \in ConstSysVars THEN g ELSE NonConst(g)>>

\* The type names that coerce() is given, written as one character each.
CoerceTypes == <<21>> :> "INT" @@ <<22>> :> "DATE" @@ <<23>> :> "TIME" @@ <<24>> :> "STR" @@ <<25>> :> "DATETIME"

FCoerce(name, v) ==
    IF name[1] # "STR" THEN Err("E_BAD_TYPE")
    ELSE IF name[2] \notin DOMAIN CoerceTypes THEN Err("E_CANT_COERCE")
    ELSE DoCoerce(CoerceTypes[name[2]], v)

Extreme(f, args) ==
    LET Better(v, m) == IF f = "max" THEN Less(m, v) ELSE Less(v, m)
    IN  IF \E i \in DOMAIN args : args[i][1] # args[1][1] THEN Err("E_BAD_TYPE")
        ELSE FoldLeft(LAMBDA m, v : IF Better(v, m) THEN v ELSE m, args[1], Tail(args))

Abs(v) == IF v[1] # "INT" THEN Err("E_BAD_TYPE")
          ELSE Checked("INT", IF v[2] < 0 THEN - v[2] ELSE v[2], "E_2HIGH")

Call(f, args) ==
    CASE f \in {"max", "min"} -> Extreme(f, args)
      [] f = "abs" -> Abs(args[1])
      [] f = "coerce" -> FCoerce(args[1], args[2])
      [] f \in {"const", "nonconst"} -> args[1]

\* What follows an evaluation unless it failed.
Then(e, Rest(_)) == IF IsErr(e[1]) THEN e ELSE Rest(e)

RECURSIVE evaluate_expr_node(_, _, _), EvalArgs(_, _, _, _), FIsAny(_, _, _, _), FIif(_, _, _)

\* The arguments from left to right, up to the first that fails: <<OK or an error, globals, values>>.
EvalArgs(kids, locals, g, vals) ==
    IF kids = << >> THEN <<<<"OK">>, g, vals>>
    ELSE Then(evaluate_expr_node(kids[1], locals, g),
              LAMBDA e : EvalArgs(Tail(kids), locals, e[2], Append(vals, e[1])))

\* The right operand is evaluated only when the left does not decide.
logical_binop(node, locals, g) ==
    Then(evaluate_expr_node(node.kids[1], locals, g),
         LAMBDA e : IF truthy(e[1]) = (node.u = "||") THEN e
                    ELSE evaluate_expr_node(node.kids[2], locals, e[2]))

Operator(node, locals, g) ==
    IF node.u \in {"&&", "||"} THEN logical_binop(node, locals, g)
    ELSE Then(EvalArgs(node.kids, locals, g, << >>),
              LAMBDA e : <<CASE Len(e[3]) = 2 -> Binary(node.u, e[3][1], e[3][2])
                             [] Len(e[3]) = 1 /\ node.u = "-" -> unary_minus(e[3][1])
                             [] Len(e[3]) = 1 /\ node.u = "!" -> logical_not(e[3][1]), e[2]>>)

\* catch(): the second argument is evaluated only if the first fails.
Caught(e, other, locals) == IF IsErr(e[1]) THEN evaluate_expr_node(other, locals, e[2]) ELSE e

FCatch(node, locals, g) == Caught(evaluate_expr_node(node.kids[1], locals, g), node.kids[2], locals)

FChoose(node, locals, g) ==
    LET last == Len(node.kids) - 1
        Clamp(n) == IF n < 1 THEN 1 ELSE IF n > last THEN last ELSE n
    IN  Then(evaluate_expr_node(node.kids[1], locals, g),
             LAMBDA e : IF e[1][1] # "INT" THEN <<Err("E_BAD_TYPE"), e[2]>>
                        ELSE evaluate_expr_node(node.kids[Clamp(e[1][2]) + 1], locals, e[2]))

\* The candidates in turn, until one equals v.
FIsAny(v, kids, locals, g) ==
    IF kids = << >> THEN <<Bool(FALSE), g>>
    ELSE Then(evaluate_expr_node(kids[1], locals, g),
              LAMBDA e : IF e[1] = v THEN <<Bool(TRUE), e[2]>> ELSE FIsAny(v, Tail(kids), locals, e[2]))

\* Conditions and values in turn; the last is the value if no condition holds.
FIif(kids, locals, g) ==
    IF Len(kids) % 2 = 0 THEN <<Err("E_IIF_ODD"), g>>
    ELSE Then(evaluate_expr_node(kids[1], locals, g),
              LAMBDA e : IF Len(kids) = 1 THEN e
                         ELSE IF truthy(e[1]) THEN evaluate_expr_node(kids[2], locals, e[2])
                         ELSE FIif(Tail(Tail(kids)), locals, e[2]))

\* The constness of the argument alone; that of the expression is left as it was.
Constness(e, nonconst) ==
    <<IF IsErr(e[1]) THEN e[1] ELSE Bool(~ e[2].nonconst), [e[2] EXCEPT !.nonconst = nonconst]>>

FIsconst(node, locals, g) ==
    Constness(evaluate_expr_node(node.kids[1], locals, [g EXCEPT !.nonconst = FALSE]), g.nonconst)

\* That a variable does not exist may differ from day to day.
FValue(node, locals, g) ==
    LET Named(v) == v[2] \in DOMAIN Text /\ Text[v[2]][1][1] = "id"
        Var(e) == IF Named(e[1]) THEN get_var(Text[e[1][2]][1][2], e[2]) ELSE <<Err("E_NOSUCH_VAR"), e[2]>>
    IN  Then(evaluate_expr_node(node.kids[1], locals, g),
             LAMBDA e : IF e[1][1] # "STR" THEN <<Err("E_BAD_TYPE"), e[2]>>
                        ELSE IF ~ IsErr(Var(e)[1]) \/ Len(node.kids) = 1 THEN Var(e)
                        ELSE evaluate_expr_node(node.kids[2], locals, NonConst(e[2])))

\* The functions that get the tree, not values.
NewStyle == {"catch", "choose", "iif", "isany", "isconst", "value"}

newfunc(node, locals, g) ==
    CASE node.u = "catch" -> FCatch(node, locals, g)
      [] node.u = "choose" -> FChoose(node, locals, g)
      [] node.u = "iif" -> FIif(node.kids, locals, g)
      [] node.u = "isconst" -> FIsconst(node, locals, g)
      [] node.u = "value" -> FValue(node, locals, g)
      [] node.u = "isany" -> Then(evaluate_expr_node(node.kids[1], locals, g),
                                  LAMBDA e : FIsAny(e[1], Tail(node.kids), locals, e[2]))

(* eval(): the string is parsed and evaluated, without the local variables *)
(* and with shell() disabled; its nodes are given back.  It has a flag of  *)
(* its own for constness, which is joined to that of the expression.       *)
Restored(e, g, node) == <<e[1], [e[2] EXCEPT !.run = g.run, !.used = @ - Size(node), !.nonconst = @ \/ g.nonconst]>>

EvalParsed(p, g) ==
    LET h == [g EXCEPT !.hw = p.hw, !.used = p.used]
    IN  IF p.r # "OK" THEN <<Err(p.r), NonConst(h)>>
        ELSE Restored(evaluate_expr_node(p.node, << >>, [h EXCEPT !.run = @ \cup {"RUN_IN_EVAL"}, !.nonconst = FALSE]),
                      g, p.node)

FEval(v, g) ==
    IF v[1] # "STR" THEN <<Err("E_BAD_TYPE"), g>>
    ELSE EvalParsed(parse_expression(IF v[2] \in DOMAIN Text THEN Text[v[2]] ELSE <<<<"bad">>>>, << >>, g.used, g.hw), g)

\* shell() runs a command: what it prints is from outside.
FShell(g) == IF g.run # {} THEN <<Err("E_RUN_DISABLED"), g>> ELSE <<g.env.shell, g>>

\* An old-style function applied to its values: <<value, globals>>.
func(f, args, g) ==
    CASE f = "eval" -> FEval(args[1], g)
      [] f = "shell" -> FShell(g)
      [] f = "today" -> <<g.env.today, g>>
      [] OTHER -> <<Call(f, args), g>>

\* The result of f: const() makes it, and all before it, constant.
Returned(f, e) ==
    <<e[1], IF f = "const" /\ ~ IsErr(e[1]) THEN [Leave(e[2]) EXCEPT !.nonconst = FALSE] ELSE Leave(e[2])>>

eval_builtin(node, locals, g) ==
    IF g.level >= MAX_RECURSION_LEVEL THEN <<Err("E_RECURSIVE"), g>>
    ELSE IF node.u \in NewStyle THEN Returned(node.u, newfunc(node, locals, Enter(g)))
    ELSE Then(EvalArgs(node.kids, locals, g, << >>),
              LAMBDA e : Returned(node.u, func(node.u, e[3], Enter(e[2]))))

\* The body runs at another depth and perhaps with RUN off; what is afterwards.
Callee(f, g) ==
    LET h == Enter(IF Functions[f].is_constant THEN g ELSE NonConst(g))
    IN  IF Functions[f].run_disabled THEN [h EXCEPT !.run = @ \cup {"RUN_UF"}] ELSE h

Return(e, run) == <<e[1], [Leave(e[2]) EXCEPT !.run = run]>>

(* A call of a user function: arguments first, then the check of the       *)
(* recursion; RunDisabled is back as it was when the body is evaluated.    *)
eval_userfunc(node, locals, g) ==
    LET f == node.u
        n == Len(node.kids)
    IN  IF f \notin DOMAIN Functions THEN <<Err("E_UNDEF_FUNC"), g>>
        ELSE IF n < Len(Functions[f].args) THEN <<Err("E_2FEW_ARGS"), g>>
        ELSE IF n > Len(Functions[f].args) THEN <<Err("E_2MANY_ARGS"), g>>
        ELSE Then(EvalArgs(node.kids, locals, g, << >>),
                  LAMBDA e : IF e[2].level >= MAX_RECURSION_LEVEL THEN <<Err("E_RECURSIVE"), e[2]>>
                             ELSE Return(evaluate_expr_node(Body[f], e[3], Callee(f, e[2])), e[2].run))

evaluate_expr_node(node, locals, g) ==
    LET h == Tick(g)
    IN  CASE g.exceeded -> <<Err("E_TIME_EXCEEDED"), [g EXCEPT !.exceeded = FALSE]>>
          [] ~ g.exceeded /\ NodeLimitReached(g) -> <<Err("E_EXPR_NODES_EXCEEDED"), g>>
          [] OTHER ->
               CASE node.type = "CONST" -> <<node.u, h>>
                 [] node.type = "VAR" -> get_var(node.u, h)
                 [] node.type = "LOCAL" -> <<locals[node.u], h>>
                 [] node.type = "SYSVAR" -> GetSysVar(node.u, h)
                 [] node.type = "BUILTIN" ->
                      eval_builtin(node, locals, IF Func[node.u].is_constant THEN h ELSE NonConst(h))
                 [] node.type = "USER" -> eval_userfunc(node, locals, h)
                 [] node.type = "OP" -> Operator(node, locals, h)

\* The time limit: the alarm is set before and taken back after.
AlarmOff(e) == <<e[1], [e[2] EXCEPT !.exceeded = FALSE, !.alarm = NoAlarm]>>

evaluate_expression(node, g, alarm) ==
    AlarmOff(evaluate_expr_node(node, << >>, [g EXCEPT !.exceeded = FALSE, !.alarm = alarm]))

(* EvalExpr: parse, evaluate, give the tree back.  p.nonconst_expr is only *)
(* ever set, and not by an expression that fails.                          *)
Freed(e, g, node) ==
    <<e[1], [e[2] EXCEPT !.used = @ - Size(node), !.nonconst = g.nonconst \/ (~ IsErr(e[1]) /\ @)]>>

Parsed(p, g, alarm) ==
    LET h == [g EXCEPT !.used = p.used, !.hw = p.hw]
    IN  IF p.r # "OK" THEN <<Err(p.r), h>>
        ELSE Freed(evaluate_expression(p.node, [h EXCEPT !.nonconst = FALSE], alarm), g, p.node)

EvalExpr(toks, g, alarm) == Parsed(parse_expression(toks, << >>, g.used, g.hw), g, alarm)
=============================================================================
