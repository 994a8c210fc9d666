------------------------------ MODULE IfStack ------------------------------
(***************************************************************************)
(* The stack of IF ... ELSE ... ENDIF blocks: ifelse.c.                    *)
(*                                                                         *)
(* There is one stack for all files.  A file sees the entries above its    *)
(* base pointer only.  The functions take and return a record with         *)
(*   ifs   the stack IfArray, of length if_pointer                         *)
(*   base  base_pointer                                                    *)
(*   ret   return_encountered                                              *)
(* and leave its other fields alone.                                       *)
(***************************************************************************)
EXTENDS Naturals, SequencesExt

CONSTANT IF_NEST        \* the depth of the stack (64)

ASSUME IfNestAssumption == IF_NEST \in Nat

IfEntry == [if_true : BOOLEAN, before_else : BOOLEAN]

if_stack_full(r) == Len(r.ifs) >= IF_NEST

push_if(r, is_true) ==
    IF if_stack_full(r) THEN r
    ELSE [r EXCEPT !.ifs = Append(@, [if_true |-> is_true, before_else |-> TRUE])]

(* Faulty: a second ELSE of an IF is not refused. *)
encounter_else_again(r) ==
    IF Len(r.ifs) <= r.base THEN r
    ELSE [r EXCEPT !.ifs[Len(r.ifs)].before_else = ~@]

(* An ELSE that belongs to no IF of this file changes nothing. *)
encounter_else(r) ==
    IF Len(r.ifs) <= r.base \/ ~Last(r.ifs).before_else THEN r
    ELSE [r EXCEPT !.ifs[Len(r.ifs)].before_else = FALSE]

(* Faulty: an ENDIF may end an IF of the including file. *)
encounter_endif_any(r) ==
    IF r.ifs = << >> THEN r ELSE [r EXCEPT !.ifs = Front(@)]

encounter_endif(r) ==
    IF Len(r.ifs) <= r.base THEN r ELSE [r EXCEPT !.ifs = Front(@)]

DoReturn(r) == [r EXCEPT !.ret = TRUE]

(* Lines in this part of a block are executed. *)
Executing(e) == e.if_true = e.before_else

(* Faulty: only the innermost block counts. *)
should_ignore_line_innermost(r) ==
    r.ret \/ (Len(r.ifs) > r.base /\ ~Executing(Last(r.ifs)))

should_ignore_line(r) ==
    r.ret \/ \E i \in r.base + 1 .. Len(r.ifs) : ~Executing(r.ifs[i])

(* At the end of a file: its unfinished blocks end, and so does its RETURN. *)
pop_excess_ifs(r) ==
    [r EXCEPT !.ifs = IF Len(@) > r.base THEN SubSeq(@, 1, r.base) ELSE @,
              !.ret = FALSE]

(* IF and IFTRIG in a part that is ignored, or whose condition cannot be   *)
(* evaluated, open a block all the same, unless the stack is full or the   *)
(* trigger of an IFTRIG cannot be parsed.                                  *)
DoIf(r, cond) ==
    push_if(r, should_ignore_line(r) \/ cond # "false")

DoIfTrig(r, cond) ==
    IF should_ignore_line(r) THEN push_if(r, TRUE)
    ELSE IF cond = "error" THEN r
    ELSE push_if(r, cond = "true")
=============================================================================
