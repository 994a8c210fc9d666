------------------------------- MODULE Tokens -------------------------------
(***************************************************************************)
(* The words of a REM command and what FindToken takes them for (token.c). *)
(*                                                                         *)
(* A lexeme is what ParseToken returns, by its shape:                      *)
(*   Word(w)             a word, in lower case                             *)
(*   Quoted(w)           a string in quotes; of an INFO, its header or ""   *)
(*   Num(n)              a number                                          *)
(*   Signed(c, n)        a number after *, +, ++, -, --, ~ or ~~           *)
(*   Clock(h, min, ap)   a time, ap is "", "a" or "p"                      *)
(*   Day(y, m, d, at)    a date with dashes, with a time of day or NO_TIME *)
(*   EndOfLine           nothing                                           *)
(*   Pasted(l, more, nonconst)  the value of an expression [..]; more      *)
(*                       words of the value may follow                     *)
(* A token has a type and a value; the value of an illegal one is an error *)
(* or OK.                                                                  *)
(***************************************************************************)
EXTENDS Dates, TLC

YR_RANGE == 4000
NO_TIME  == -1          \* INT_MAX
OK       == "OK"

Word(w)           == [k |-> "word", w |-> w]
Quoted(w)         == [k |-> "quoted", w |-> w]
Num(n)            == [k |-> "num", n |-> n]
Signed(c, n)      == [k |-> "signed", c |-> c, n |-> n]
Clock(h, min, ap) == [k |-> "clock", h |-> h, min |-> min, ap |-> ap]
Day(y, m, d, at)  == [k |-> "day", y |-> y, m |-> m, d |-> d, at |-> at]
EndOfLine         == [k |-> "end"]
Pasted(l, more, nonconst) == [k |-> "pasted", l |-> l, more |-> more, nonconst |-> nonconst]

Tok(type, val) == [type |-> type, val |-> val]

-----------------------------------------------------------------------------
(* The keywords of a REM command. *)
TokArray ==
    ("addomit" :> Tok("T_AddOmit", 0))   @@ ("after" :> Tok("T_Skip", "AFTER")) @@
    ("at" :> Tok("T_At", 0))             @@ ("before" :> Tok("T_Skip", "BEFORE")) @@
    ("cal" :> Tok("T_RemType", "CAL"))   @@ ("complete-through" :> Tok("T_CompleteThrough", 0)) @@
    ("december" :> Tok("T_Month", 11))   @@ ("duration" :> Tok("T_Duration", 0)) @@
    ("february" :> Tok("T_Month", 1))    @@ ("first" :> Tok("T_Ordinal", 0)) @@
    ("friday" :> Tok("T_WkDay", 4))      @@ ("from" :> Tok("T_Scanfrom", "FROM")) @@
    ("in" :> Tok("T_In", 0))             @@ ("info" :> Tok("T_Info", 0)) @@
    ("last" :> Tok("T_Ordinal", -1))     @@ ("lastday" :> Tok("T_BackAdj", -1)) @@
    ("lastworkday" :> Tok("T_BackAdj", 1)) @@ ("max-overdue" :> Tok("T_MaxOverdue", 0)) @@
    ("maybe-uncomputable" :> Tok("T_MaybeUncomputable", 0)) @@
    ("monday" :> Tok("T_WkDay", 0))      @@ ("msf" :> Tok("T_RemType", "MSF")) @@
    ("msg" :> Tok("T_RemType", "MSG"))   @@ ("noqueue" :> Tok("T_NoQueue", 0)) @@
    ("omit" :> Tok("T_Omit", 0))         @@ ("omitfunc" :> Tok("T_OmitFunc", 0)) @@
    ("once" :> Tok("T_Once", 0))         @@ ("priority" :> Tok("T_Priority", 0)) @@
    ("ps" :> Tok("T_RemType", "PS"))     @@ ("psfile" :> Tok("T_RemType", "PSFILE")) @@
    ("run" :> Tok("T_RemType", "RUN"))   @@ ("satisfy" :> Tok("T_RemType", "SATISFY")) @@
    ("scanfrom" :> Tok("T_Scanfrom", "SCANFROM")) @@ ("sched" :> Tok("T_Sched", 0)) @@
    ("second" :> Tok("T_Ordinal", 1))    @@ ("skip" :> Tok("T_Skip", "SKIP")) @@
    ("special" :> Tok("T_RemType", "SPECIAL")) @@ ("tag" :> Tok("T_Tag", 0)) @@
    ("through" :> Tok("T_Through", 0))   @@ ("todo" :> Tok("T_Todo", 0)) @@
    ("tz" :> Tok("T_Tz", 0))             @@ ("until" :> Tok("T_Until", 0)) @@
    ("warn" :> Tok("T_Warn", 0))

-----------------------------------------------------------------------------
(* FindToken and FindNumericToken. *)

DateOK(y, m, d) == y \in BASE .. BASE + YR_RANGE /\ d \in 1 .. DaysInMonth(m, y)

NumberToken(n) ==
    CASE n \in BASE .. BASE + YR_RANGE -> Tok("T_Year", n)
      [] n \in 1 .. 31 -> Tok("T_Day", n)
      [] OTHER -> Tok("T_Number", n)

\* A doubled sign negates the number.
SignedToken(c, n) ==
    CASE c = "*"  -> Tok("T_Rep", n)
      [] c = "+"  -> Tok("T_Delta", n)   [] c = "++" -> Tok("T_Delta", -n)
      [] c = "-"  -> Tok("T_Back", n)    [] c = "--" -> Tok("T_Back", -n)
      [] c = "~"  -> Tok("T_BackAdj", n) [] c = "~~" -> Tok("T_BackAdj", -n)

Hour24(h, ap) == CASE ap = "a" /\ h = 12 -> 0 [] ap = "p" /\ h < 12 -> h + 12 [] OTHER -> h

TimeToken(l) ==
    IF l.min > 59 \/ (l.ap # "" /\ l.h \notin 1 .. 12) THEN Tok("T_Illegal", "E_BAD_TIME")
    ELSE LET hour == Hour24(l.h, l.ap)
         IN  Tok(IF hour <= 23 THEN "T_Time" ELSE "T_LongTime", hour * 60 + l.min)

MINUTES_PER_DAY == 1440

DateToken(l) ==
    IF ~DateOK(l.y, l.m, l.d) THEN Tok("T_Illegal", "E_BAD_DATE")
    ELSE LET dse == DSE(l.y, l.m, l.d)
         IN  IF l.at = NO_TIME THEN Tok("T_Date", dse)
             ELSE Tok("T_DateTime", MINUTES_PER_DAY * dse + l.at)

FindToken(lexeme) ==
    LET l == IF lexeme.k = "pasted" THEN lexeme.l ELSE lexeme
    IN  CASE l.k = "end"    -> Tok("T_Empty", 0)
          [] l.k = "word"   -> IF l.w \in DOMAIN TokArray THEN TokArray[l.w] ELSE Tok("T_Illegal", OK)
          [] l.k = "quoted" -> Tok("T_Illegal", OK)
          [] l.k = "num"    -> NumberToken(l.n)
          [] l.k = "signed" -> SignedToken(l.c, l.n)
          [] l.k = "clock"  -> TimeToken(l)
          [] l.k = "day"    -> DateToken(l)
=============================================================================
