----------------------------- MODULE ExprParser -----------------------------
(***************************************************************************)
(* The recursive-descent parser of expr.c.  The text of an expression is a *)
(* sequence of tokens, what parse_expr_token leaves in ExprBuf one after   *)
(* the other:                                                              *)
(*   <<"op", o>>     an operator, a parenthesis or a comma                 *)
(*   <<"num", ds>>   a number written with the digits ds                   *)
(*   <<"lit", v>>    a string, a date, a time or a date and time           *)
(*   <<"id", x>>     a name          <<"sys", x>>  a $name                 *)
(*   <<"call", f>>   a name and the ( that follows it                      *)
(*   <<"bad">>       what is no token, such as a lone &                    *)
(* The state of a parse is a record: rest, the tokens not yet consumed;    *)
(* used, ExprNodesUsed; hw, parse_level_high_water; r, the return code;    *)
(* and node, the tree that is returned, NoNode for NULL.                   *)
(***************************************************************************)
EXTENDS Values

CONSTANTS SysVars,         \* the names of the system variables
          Func,            \* built-in functions: arguments, constness
          NO_MAX_ARGS,     \* maxargs of a function with any number of them
          MAX_PARSE_LEVEL

NoNode == [type |-> "NULL", u |-> << >>, kids |-> << >>]
Node(type, u, kids) == [type |-> type, u |-> u, kids |-> kids]

RECURSIVE Size(_)
Size(node) ==
    IF node.type = "NULL" THEN 0 ELSE 1 + FoldLeft(LAMBDA n, k : n + Size(k), 0, node.kids)

\* One more node, at the top of those given.
alloc_expr_node(s, node) == [s EXCEPT !.used = @ + 1, !.node = node]

\* Only the top of the tree goes back to the free list.
FaultyFree(s, node) == [s EXCEPT !.used = @ - (IF node.type = "NULL" THEN 0 ELSE 1), !.node = NoNode]

free_expr_tree(s, node) == [s EXCEPT !.used = @ - Size(node), !.node = NoNode]

Fail(s, code) == [s EXCEPT !.r = code, !.node = NoNode]

EndOfText == <<"end">>
Peek(s) == IF s.rest = << >> THEN EndOfText ELSE s.rest[1]
Get(s) == [s EXCEPT !.rest = IF @ = << >> THEN @ ELSE Tail(@)]
Is(s, o) == Peek(s) = <<"op", o>>
BadNext(s) == Peek(s) = <<"bad">>

(* CHECK_PARSE_LEVEL: the limit is looked at only by a parse that goes     *)
(* deeper than all before it.                                              *)
CheckParseLevel(s, level) ==
    IF level <= s.hw THEN s
    ELSE [s EXCEPT !.hw = level, !.r = IF level > MAX_PARSE_LEVEL THEN "E_OP_STK_OVER" ELSE @, !.node = NoNode]

(* A number is refused when a digit makes it smaller.                      *)
Literal(ds) ==
    FoldLeft(LAMBDA v, d : IF IsErr(v) THEN v
                           ELSE LET n == Wrap(Wrap(10 * v[2]) + d)
                                IN  IF n < v[2] THEN Err("E_2HIGH") ELSE IntV(n),
             IntV(0), ds)

\* A constant node for the number, the string, the date or the time at hand.
set_constant_value(tok) == IF tok[1] = "num" THEN Literal(tok[2]) ELSE tok[2]

\* The local variables are the arguments of the function being defined.
make_atom(s, tok, locals) ==
    LET arg == {i \in DOMAIN locals : locals[i] = tok[2]}
        v == set_constant_value(tok)
        new(node) == alloc_expr_node(s, node)
    IN  CASE tok[1] = "id" -> IF arg # {} THEN new(Node("LOCAL", Min(arg), << >>))
                              ELSE new(Node("VAR", tok[2], << >>))
          [] tok[1] = "sys" -> IF tok[2] \in SysVars THEN new(Node("SYSVAR", tok[2], << >>))
                               ELSE Fail(s, "E_NOSUCH_VAR")
          [] OTHER -> IF IsErr(v) THEN Fail(s, v[2]) ELSE new(Node("CONST", v, << >>))

\* Binary operators from the loosest to the tightest; factors are level 7.
Levels == << {"||"}, {"&&"}, {"==", "!="}, {"<", ">", "<=", ">="}, {"+", "-"}, {"*", "/", "%"} >>

RECURSIVE ParseLevel(_, _, _, _), ParseRest(_, _, _, _), ParseFactor(_, _, _), ParseAtom(_, _, _),
          ParseArgs(_, _, _, _), Joined(_, _, _, _, _), WithArg(_, _, _, _)

\* An operand of the level k.
Operand(k, s, locals, level) ==
    IF k = 6 THEN ParseFactor(s, locals, level) ELSE ParseLevel(k + 1, s, locals, level)

(* parse_expression_aux, parse_or_expr, parse_and_expr, parse_eq_expr,     *)
(* parse_cmp_expr and parse_term_expr: operands of the next level, joined  *)
(* from the left.                                                          *)
AfterFirst(k, s, locals, level) ==
    IF s.r # "OK" THEN free_expr_tree(s, s.node)
    ELSE IF k = 6 /\ BadNext(s) THEN Fail(free_expr_tree(s, s.node), "E_PARSE_ERR")
    ELSE ParseRest(k, s, locals, level)

ParseLevel(k, s, locals, level) ==
    LET c == CheckParseLevel(s, level)
    IN  IF c.r # "OK" THEN c ELSE AfterFirst(k, Operand(k, c, locals, level + 1), locals, level)

\* The loop: s.node is the tree so far, and becomes the left operand.
ParseRest(k, s, locals, level) ==
    LET o == Peek(s)[2]
        left == Get(alloc_expr_node(s, Node("OP", o, <<s.node>>)))
    IN  IF Peek(s)[1] # "op" \/ o \notin Levels[k] THEN s
        ELSE Joined(k, left.node, Operand(k, left, locals, level + 1), locals, level)

Joined(k, left, s, locals, level) ==
    LET op == [left EXCEPT !.kids = Append(@, s.node)]
    IN  IF s.r # "OK" THEN free_expr_tree(s, left)
        ELSE IF k = 6 /\ BadNext(s) THEN Fail(free_expr_tree(s, op), "E_PARSE_ERR")
        ELSE ParseRest(k, [s EXCEPT !.node = op], locals, level)

\* Unary + is dropped; - and ! of an integer constant are computed at once.
Prefix(o, s) ==
    IF s.r # "OK" \/ o = "+" THEN s
    ELSE IF s.node.type = "CONST" /\ s.node.u[1] = "INT"
    THEN [s EXCEPT !.node.u = IF o = "-" THEN IntV(- @[2]) ELSE logical_not(@)]
    ELSE alloc_expr_node(s, Node("OP", o, <<s.node>>))

ParseFactor(s, locals, level) ==
    LET c == CheckParseLevel(s, level)
        o == Peek(c)[2]
    IN  IF c.r # "OK" THEN c
        ELSE IF BadNext(c) THEN Fail(c, "E_PARSE_ERR")
        ELSE IF Peek(c)[1] # "op" \/ o \notin {"-", "!", "+"} THEN ParseAtom(c, locals, level + 1)
        ELSE Prefix(o, ParseFactor(Get(c), locals, level + 1))

Parenthesized(s) ==
    IF s.r # "OK" THEN [s EXCEPT !.node = NoNode]
    ELSE IF ~ Is(s, ")") THEN Fail(free_expr_tree(s, s.node), "E_MISS_RIGHT_PAREN")
    ELSE Get(s)

ParseAtom(s, locals, level) ==
    LET c == CheckParseLevel(s, level)
        tok == Peek(c)
    IN  CASE c.r # "OK" -> c
          [] c.r = "OK" /\ tok = EndOfText -> Fail(c, "E_EOLN")
          [] c.r = "OK" /\ tok[1] = "bad" -> Fail(c, "E_PARSE_ERR")
          [] c.r = "OK" /\ tok = <<"op", "(">> -> Parenthesized(ParseLevel(1, Get(c), locals, level + 1))
          [] c.r = "OK" /\ tok[1] = "op" /\ tok[2] # "(" ->
               Fail(c, IF tok[2] = "," THEN "E_ILLEGAL_CHAR" ELSE "E_EXPECTING_ATOM")
          [] c.r = "OK" /\ tok[1] = "call" ->
               LET d == CheckParseLevel(c, level + 1)
                   type == IF tok[2] \in DOMAIN Func THEN "BUILTIN" ELSE "USER"
               IN  IF d.r # "OK" THEN d
                   ELSE ParseArgs(Get(alloc_expr_node(d, Node(type, tok[2], << >>))), locals, level + 1, TRUE)
          [] OTHER ->
               LET a == make_atom(Get(c), tok, locals) IN IF a.r # "OK" THEN [a EXCEPT !.rest = c.rest] ELSE a

GiveUp(s, node, code) == Fail(free_expr_tree(s, node), code)
TooMany(node) == node.type = "BUILTIN" /\ Func[node.u].max # NO_MAX_ARGS /\ Len(node.kids) > Func[node.u].max
TooFew(node) == node.type = "BUILTIN" /\ Len(node.kids) < Func[node.u].min

(* The arguments of parse_function_call: s.node is the call so far.  Too   *)
(* many arguments are found at the first that is too many, too few at the  *)
(* end; an error gives back the nodes of all the arguments.                *)
ParseArgs(s, locals, level, first) ==
    IF BadNext(s) THEN GiveUp(s, s.node, "E_PARSE_ERR")
    ELSE IF Is(s, ")")
    THEN IF ~ first THEN GiveUp(s, s.node, "E_PARSE_ERR")
         ELSE IF TooFew(s.node) THEN GiveUp(s, s.node, "E_2FEW_ARGS")
         ELSE Get(s)
    ELSE WithArg(s, ParseLevel(1, s, locals, level + 1), locals, level)

\* The argument that was read after s.
WithArg(s, a, locals, level) ==
    LET call == [s.node EXCEPT !.kids = Append(@, a.node)]
        more == [Get(a) EXCEPT !.node = call]
    IN  IF a.r # "OK" THEN free_expr_tree(a, s.node)
        ELSE IF TooMany(call) THEN [GiveUp(a, call, "E_2MANY_ARGS") EXCEPT !.rest = s.rest]
        ELSE IF BadNext(a) THEN GiveUp(a, call, "E_PARSE_ERR")
        ELSE IF Is(a, ",") THEN ParseArgs(more, locals, level, FALSE)
        ELSE IF ~ Is(a, ")") THEN GiveUp(a, call, "E_EXPECT_COMMA")
        ELSE IF TooFew(call) THEN GiveUp(a, call, "E_2FEW_ARGS")
        ELSE more

\* The whole text is one expression: a ] or the end of the text follows it.
AtEnd(s) ==
    IF s.rest = << >> THEN s
    ELSE Fail(free_expr_tree(s, s.node), IF s.r = "OK" THEN "E_EXPECTING_EOXPR" ELSE s.r)

parse_expression(toks, locals, used, hw) ==
    AtEnd(ParseLevel(1, [rest |-> toks, used |-> used, hw |-> hw, r |-> "OK", node |-> NoNode], locals, 0))
=============================================================================
