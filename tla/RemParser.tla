----------------------------- MODULE RemParser -----------------------------
(***************************************************************************)
(* ParseRem: how the words of a REM command fill in its trigger (dorem.c). *)
(*                                                                         *)
(* ParseRem reads word after word.  Some words make it call a function     *)
(* that reads on by itself, until it meets a word that is not its own: it  *)
(* pushes this one back, and ParseRem gets it.  The variable in says which *)
(* function is reading, or, by the type of its token, whose argument comes *)
(* next.  Warnings, and the ! before a time zone that suppresses one, are  *)
(* left out.                                                               *)
(***************************************************************************)
EXTENDS Tokens, Sequences, Functions

CONSTANTS Readable(_),      \* the lexemes that may come next, after those read so far
          DefaultDelta, DefaultTDelta, DefaultPrio    \* $DefaultDelta, -t and so on

ASSUME RemParserAssumption == DefaultDelta \in Nat /\ DefaultTDelta \in Nat /\ DefaultPrio \in Nat

VARIABLES
    read,       \* the lexemes of the line that have been read, with their tokens
    pushed,     \* the lexeme that was pushed back, if any
    flags,      \* expr_happened, nonconst_expr and isnested of the parser
    in,         \* who reads the next word
    part,       \* y, m, d and seen_delta of the function that reads
    trig,       \* Trigger and TimeTrig together
    result      \* "" while parsing, then OK or an error

vars == <<read, pushed, flags, in, part, trig, result>>

NO_DATE     == -1
NO_TZ       == "NULL"
NO_SCANFROM == -1000000      \* INT_MIN: below every relative date

NoTrigger ==
    [y |-> -1, m |-> -1, d |-> -1, wd |-> {}, back |-> 0, delta |-> -DefaultDelta, seen_delta |-> FALSE,
     until |-> NO_DATE, rep |-> 0, localomit |-> {}, skip |-> "", once |-> FALSE, addomit |-> FALSE,
     noqueue |-> FALSE, typ |-> "", scanfrom |-> NO_SCANFROM, from |-> NO_DATE, priority |-> DefaultPrio,
     sched |-> "", warn |-> "", omitfunc |-> "", duration_days |-> 0, maybe_uncomputable |-> FALSE,
     tags |-> <<>>, infos |-> <<>>, tz |-> NO_TZ, need_wkday |-> FALSE, is_todo |-> FALSE,
     max_overdue |-> -1, complete_through |-> NO_DATE, adj_for_last |-> FALSE, passthru |-> "",
     nonconst_expr |-> FALSE, expr_happened |-> FALSE,
     ttime |-> NO_TIME, ttime_orig |-> NO_TIME, tdelta |-> DefaultTDelta, trep |-> 0, duration |-> NO_TIME]

NoPart == [y |-> -1, m |-> -1, d |-> -1, seen_delta |-> FALSE]

Init == /\ read = <<>> /\ pushed = <<>>
        /\ flags = [expr |-> FALSE, nonconst |-> FALSE, nested |-> FALSE]
        /\ in = "ParseRem" /\ part = NoPart
        /\ trig = NoTrigger /\ result = ""

-----------------------------------------------------------------------------
(* What a word does. *)

\* The word is used up.
Goes == pushed' = <<>>

\* It fills in a part of the trigger, ...
Fill(t) == trig' = t /\ Goes /\ UNCHANGED <<in, part, result>>

\* ... it is an error, ...
Refuse(e) == result' = e /\ Goes /\ UNCHANGED <<in, part, trig>>

\* ... it is one unless this part has not been filled in, ...
FillOnce(field, value, e) ==
    IF trig[field] # NoTrigger[field] THEN Refuse(e) ELSE Fill([trig EXCEPT ![field] = value])

\* ... it calls for another function or for an argument, ...
Call(f, t) == in' = f /\ part' = NoPart /\ trig' = t /\ Goes /\ UNCHANGED result

\* ... it is the last one of a function, ...
Return(t) == in' = "ParseRem" /\ trig' = t /\ Goes /\ UNCHANGED <<part, result>>

\* ... or it is not for this function: PushToken.
PushToken(lexeme, t) ==
    in' = "ParseRem" /\ trig' = t /\ pushed' = <<lexeme>> /\ UNCHANGED <<part, result>>

IsIllegal(tok) == tok.type = "T_Illegal" /\ tok.val # OK

-----------------------------------------------------------------------------
(* The end of the trigger: checks and adjustments that need all of it. *)

\* Faulty: the year is not left after December.
AdjustForLastInYear(t) ==
    IF ~t.adj_for_last \/ t.m = -1 THEN [t EXCEPT !.adj_for_last = FALSE]
    ELSE [t EXCEPT !.adj_for_last = FALSE, !.m = (t.m + 1) % 12]

AdjustForLast(t) ==
    IF ~t.adj_for_last \/ t.m = -1 THEN [t EXCEPT !.adj_for_last = FALSE]
    ELSE [t EXCEPT !.adj_for_last = FALSE, !.m = (t.m + 1) % 12,
                   !.y = IF t.m = 11 /\ t.y # -1 THEN t.y + 1 ELSE t.y]

\* A SCHED function makes the advance warning of an AT void.
DropDelta(t) == IF t.sched = "" THEN t ELSE [t EXCEPT !.tdelta = 0]

\* Faulty: what the parser met is forgotten.
WithExprFlag(t) == [t EXCEPT !.expr_happened = flags'.expr]

WithFlags(t) == [t EXCEPT !.nonconst_expr = @ \/ flags'.nonconst, !.expr_happened = flags'.expr]

Finish(t) ==
    /\ trig' = DropDelta(AdjustForLast(WithFlags(t)))
    /\ result' = IF t.need_wkday /\ t.wd = {} THEN "E_PARSE_ERR" ELSE OK
    /\ Goes /\ UNCHANGED <<in, part>>

\* SPECIAL MSG and so on are the plain types.
FixSpecialType(t) ==
    IF t.typ = "SPECIAL" /\ t.passthru \in {"msg", "msf", "run", "cal", "ps", "psfile"}
    THEN [t EXCEPT !.typ = TokArray[t.passthru].val] ELSE t

FinishType(t) == IF flags'.nested THEN Refuse("E_CANT_NEST_RTYPE") ELSE Finish(t)

-----------------------------------------------------------------------------
(* ParseRem: the words by the type of their token. *)

ComputeTrigDuration(t) ==
    IF t.ttime = NO_TIME \/ t.duration = NO_TIME THEN 0
    ELSE (t.ttime + t.duration - 1) \div MINUTES_PER_DAY

Timed(t) == [t EXCEPT !.duration_days = ComputeTrigDuration(t)]

\* A day, month or year that is given already.
GivenTwice(t) ==
    CASE t.d # -1 -> "E_DAY_TWICE" [] t.m # -1 -> "E_MON_TWICE" [] t.y # -1 -> "E_YR_TWICE" [] OTHER -> OK

FullDateFill(dse, t) ==
    LET date == FromDSE(dse)
    IN  IF GivenTwice(trig) # OK THEN Refuse(GivenTwice(trig))
        ELSE Fill([t EXCEPT !.y = date.y, !.m = date.m, !.d = date.d])

RemOrdinal(tok) ==
    CASE trig.d # -1 -> Refuse("E_DAY_TWICE")
      [] tok.val < 0 /\ trig.back # 0 -> Refuse("E_BACK_TWICE")
      [] tok.val < 0 -> Fill([trig EXCEPT !.back = -7, !.d = 1, !.adj_for_last = TRUE, !.need_wkday = TRUE])
      [] OTHER -> Fill([trig EXCEPT !.d = 1 + 7 * tok.val, !.need_wkday = TRUE])

RemBackAdj(tok) ==
    CASE trig.back # 0 -> Refuse("E_BACK_TWICE")
      [] trig.d # -1 -> Refuse("E_DAY_TWICE")
      [] OTHER -> Fill([trig EXCEPT !.back = tok.val, !.d = 1, !.adj_for_last = TRUE])

RemDateTime(tok) ==
    LET at == tok.val % MINUTES_PER_DAY
    IN  FullDateFill(tok.val \div MINUTES_PER_DAY, [trig EXCEPT !.ttime = at, !.ttime_orig = at])

RemWkDay(tok) ==
    IF tok.val \in trig.wd THEN Refuse("E_WD_TWICE") ELSE Fill([trig EXCEPT !.wd = @ \cup {tok.val}])

(* The parts of the date and of its modifiers. *)
RemDatePart(tok) ==
    \/ tok.type = "T_Ordinal"  /\ RemOrdinal(tok)
    \/ tok.type = "T_BackAdj"  /\ RemBackAdj(tok)
    \/ tok.type = "T_Date"     /\ FullDateFill(tok.val, trig)
    \/ tok.type = "T_DateTime" /\ RemDateTime(tok)
    \/ tok.type = "T_WkDay"    /\ RemWkDay(tok)
    \/ tok.type = "T_Month"    /\ FillOnce("m", tok.val, "E_MON_TWICE")
    \/ tok.type = "T_Year"     /\ FillOnce("y", tok.val, "E_YR_TWICE")
    \/ tok.type = "T_Day"      /\ FillOnce("d", tok.val, "E_DAY_TWICE")
    \/ tok.type = "T_Rep"      /\ FillOnce("rep", tok.val, "E_REP_TWICE")
    \/ tok.type = "T_Back"     /\ FillOnce("back", tok.val, "E_BACK_TWICE")
    \/ tok.type = "T_Skip"     /\ FillOnce("skip", tok.val, "E_SKIP_ERR")
    \/ /\ tok.type = "T_Delta"
       /\ IF trig.seen_delta THEN Refuse("E_DELTA_TWICE")
          ELSE Fill([trig EXCEPT !.delta = tok.val, !.seen_delta = TRUE])

(* The keywords that stand alone. *)
RemFlag(tok) ==
    \/ tok.type = "T_Todo"    /\ FillOnce("is_todo", TRUE, "E_TODO_TWICE")
    \/ tok.type = "T_Once"    /\ FillOnce("once", TRUE, "E_ONCE_TWICE")
    \/ tok.type = "T_AddOmit" /\ Fill([trig EXCEPT !.addomit = TRUE])
    \/ tok.type = "T_NoQueue" /\ Fill([trig EXCEPT !.noqueue = TRUE])
    \/ tok.type = "T_MaybeUncomputable" /\ Fill([trig EXCEPT !.maybe_uncomputable = TRUE])
    \/ tok.type = "T_In"      /\ Fill(trig)

(* The keywords with an argument, or that call another function. *)
RemArgument(tok) ==
    \/ tok.type \in {"T_Priority", "T_Warn", "T_Sched", "T_OmitFunc", "T_Info", "T_Tag", "T_Duration"}
         /\ Call(tok.type, trig)
    \/ /\ tok.type = "T_MaxOverdue"
       /\ IF trig.max_overdue >= 0 THEN Refuse("E_MAX_OVERDUE_TWICE") ELSE Call("T_MaxOverdue", trig)
    \/ /\ tok.type = "T_Tz"
       /\ IF trig.tz # NO_TZ THEN Refuse("E_TZ_SPECIFIED_TWICE") ELSE Call("T_Tz", trig)
    \/ tok.type = "T_At" /\ Call("ParseTimeTrig", trig)
    \/ /\ tok.type = "T_Time"       \* AT may be left out
       /\ IF trig.ttime # NO_TIME THEN Refuse("E_TIME_TWICE")
          ELSE Call("ParseTimeTrig", [trig EXCEPT !.ttime = tok.val, !.ttime_orig = tok.val])
    \/ /\ tok.type = "T_Scanfrom"
       /\ IF trig.scanfrom # NO_SCANFROM \/ trig.from # NO_DATE THEN Refuse("E_SCAN_TWICE")
          ELSE Call(tok.val, trig)
    \/ /\ tok.type = "T_Until"
       /\ IF trig.until # NO_DATE THEN Refuse("E_UNTIL_TWICE") ELSE Call("UNTIL", trig)
    \/ /\ tok.type = "T_Through"
       /\ CASE trig.rep # 0 -> Refuse("E_REP_TWICE")
            [] trig.until # NO_DATE -> Refuse("E_UNTIL_TWICE")
            [] OTHER -> Call("UNTIL", [trig EXCEPT !.rep = 1])
    \/ /\ tok.type = "T_CompleteThrough"
       /\ IF trig.complete_through # NO_DATE THEN Refuse("E_COMPLETE_THROUGH_TWICE")
          ELSE Call("COMPLETE-THROUGH", trig)
    \/ tok.type = "T_Omit" /\ Call("ParseLocalOmit", trig)

(* The end: a type, the end of the line, or a word of the message. *)
RemEnd(tok, lexeme) ==
    \/ /\ tok.type = "T_RemType"
       /\ IF tok.val = "SPECIAL" /\ ~flags'.nested THEN Call("T_RemType", [trig EXCEPT !.typ = "SPECIAL"])
          ELSE FinishType([trig EXCEPT !.typ = tok.val])
    \/ tok.type = "T_Empty"    /\ Finish(trig)
    \/ tok.type = "T_Number"   /\ Refuse("E_PARSE_ERR")
    \/ tok.type = "T_LongTime" /\ Refuse("E_BAD_TIME")
    \/ tok.type = "T_Illegal"  /\ IF IsIllegal(tok) THEN Refuse(tok.val)
                                  ELSE FinishType([trig EXCEPT !.typ = "MSG"])

ParseRem(tok, lexeme) ==
    in = "ParseRem" /\ (RemDatePart(tok) \/ RemFlag(tok) \/ RemArgument(tok) \/ RemEnd(tok, lexeme))

-----------------------------------------------------------------------------
(* The arguments of one word. *)

\* An illegal word that is no error of its own ends the parsing without one.
MaxOverdue(tok) ==
    /\ in = "T_MaxOverdue"
    /\ CASE tok.type = "T_Illegal" -> Refuse(tok.val)
         [] tok.type \notin {"T_Day", "T_Year", "T_Number", "T_Illegal"} -> Refuse("E_EXPECTING_NUMBER")
         [] OTHER -> Return([trig EXCEPT !.max_overdue = tok.val])

Duration(tok) ==
    /\ in = "T_Duration"
    /\ IF tok.type \notin {"T_Time", "T_LongTime", "T_Year", "T_Day", "T_Number"} THEN Refuse("E_BAD_TIME")
       ELSE Return(Timed([trig EXCEPT !.duration = IF tok.val = 0 THEN NO_TIME ELSE tok.val]))

ParsePriority(tok) ==
    /\ in = "T_Priority"
    /\ CASE tok.type \notin {"T_Day", "T_Year", "T_Number"} -> Refuse("E_EXPECTING_NUMBER")
         [] tok.val > 9999 -> Refuse("E_2HIGH")
         [] OTHER -> Return([trig EXCEPT !.priority = tok.val])

\* The text of an argument; at the end of the line there is none.
Text(lexeme) ==
    CASE lexeme.k \in {"word", "quoted"} -> lexeme.w
      [] lexeme.k = "pasted" /\ lexeme.l.k = "word" -> lexeme.l.w
      [] OTHER -> ""

(* A name.  OMITFUNC makes the trigger a non-constant one. *)
NameArgument(tok, lexeme) ==
    \/ in = "T_Warn"  /\ Return([trig EXCEPT !.warn = Text(lexeme)])
    \/ in = "T_Sched" /\ Return([trig EXCEPT !.sched = Text(lexeme)])
    \/ in = "T_Tz"    /\ Return([trig EXCEPT !.tz = Text(lexeme)])
    \/ in = "T_Tag"   /\ Return([trig EXCEPT !.tags = Append(@, Text(lexeme))])
    \/ in = "T_OmitFunc" /\ Return([trig EXCEPT !.omitfunc = Text(lexeme), !.nonconst_expr = TRUE])

(* AppendTrigInfo: an INFO is known by its header, which may come once.    *)
AppendTrigInfo(lexeme) ==
    /\ in = "T_Info"
    /\ CASE lexeme.k = "end" -> Refuse("E_EOLN")
         [] lexeme.k \notin {"end", "quoted"} -> Refuse("E_MISS_QUOTE")
         [] lexeme.k = "quoted" /\ Text(lexeme) \in {""} \cup Range(trig.infos) -> Refuse("E_PARSE_ERR")
         [] OTHER -> Return([trig EXCEPT !.infos = Append(@, Text(lexeme))])

SpecialType(lexeme) ==
    /\ in = "T_RemType"
    /\ IF lexeme.k = "end" THEN Refuse("E_EOLN")
       ELSE Finish(FixSpecialType([trig EXCEPT !.passthru = Text(lexeme)]))

-----------------------------------------------------------------------------
(* The functions that read several words. *)

ParseTimeTrig(tok, lexeme) ==
    /\ in = "ParseTimeTrig"
    /\ \/ /\ tok.type = "T_Time"
          /\ IF trig.ttime # NO_TIME THEN Refuse("E_TIME_TWICE")
             ELSE Fill([trig EXCEPT !.ttime = tok.val, !.ttime_orig = tok.val])
       \/ /\ tok.type = "T_Delta"
          /\ IF part.seen_delta THEN Refuse("E_DELTA_TWICE")
             ELSE /\ trig' = [trig EXCEPT !.tdelta = IF tok.val >= 0 THEN tok.val ELSE -tok.val]
                  /\ part' = [part EXCEPT !.seen_delta = TRUE]
                  /\ Goes /\ UNCHANGED <<in, result>>
       \/ tok.type = "T_Rep" /\ FillOnce("trep", tok.val, "E_REP_TWICE")
       \/ /\ tok.type \notin {"T_Time", "T_Delta", "T_Rep"}
          /\ CASE IsIllegal(tok) -> Refuse(tok.val)
               [] ~IsIllegal(tok) /\ trig.ttime = NO_TIME -> Refuse("E_EXPECT_TIME")
               [] OTHER -> PushToken(lexeme, Timed(trig))

ParseLocalOmit(tok, lexeme) ==
    /\ in = "ParseLocalOmit"
    /\ CASE tok.type = "T_WkDay" -> Fill([trig EXCEPT !.localomit = @ \cup {tok.val}])
         [] tok.type # "T_WkDay" /\ trig.localomit = {} -> Refuse("E_EXPECTING_WEEKDAY")
         [] OTHER -> PushToken(lexeme, trig)

(* The date of UNTIL, THROUGH, COMPLETE-THROUGH, FROM and SCANFROM: what   *)
(* they are for goes into the trigger.                                     *)
SetDate(dse) ==
    CASE in = "UNTIL"            -> [trig EXCEPT !.until = dse]
      [] in = "COMPLETE-THROUGH" -> [trig EXCEPT !.complete_through = dse]
      [] in = "FROM"             -> [trig EXCEPT !.from = dse]
      [] in = "SCANFROM"         -> [trig EXCEPT !.scanfrom = dse]

\* Faulty: the last one counts.
PartLast(field, value, e) ==
    part' = [part EXCEPT ![field] = value] /\ Goes /\ UNCHANGED <<in, trig, result>>

PartOnce(field, value, e) ==
    IF part[field] # -1 THEN Refuse(e)
    ELSE part' = [part EXCEPT ![field] = value] /\ Goes /\ UNCHANGED <<in, trig, result>>

\* A date in parts is over when another word comes.
EndOfDate(tok, lexeme) ==
    CASE IsIllegal(tok) -> Refuse(tok.val)
      [] ~IsIllegal(tok) /\ -1 \in {part.y, part.m, part.d} -> Refuse("E_INCOMPLETE")
      [] ~IsIllegal(tok) /\ -1 \notin {part.y, part.m, part.d} /\ ~DateOK(part.y, part.m, part.d) ->
           Refuse("E_BAD_DATE")
      [] OTHER -> PushToken(lexeme, SetDate(DSE(part.y, part.m, part.d)))

\* Of the parts given already the year is named first.
PartGivenTwice ==
    CASE part.y # -1 -> "E_YR_TWICE" [] part.m # -1 -> "E_MON_TWICE" [] part.d # -1 -> "E_DAY_TWICE"
      [] OTHER -> OK

\* SCANFROM may be relative to today.
RelativeScanFrom(tok) ==
    CASE in # "SCANFROM" -> Refuse("E_INCOMPLETE")
      [] in = "SCANFROM" /\ PartGivenTwice # OK -> Refuse(PartGivenTwice)
      [] OTHER -> Return([trig EXCEPT !.scanfrom = IF tok.val > 0 THEN -tok.val ELSE tok.val,
                                      !.nonconst_expr = TRUE])

GetFullDate(tok, lexeme) ==
    /\ in \in {"UNTIL", "COMPLETE-THROUGH", "FROM", "SCANFROM"}
    /\ \/ tok.type = "T_Year"  /\ PartOnce("y", tok.val, "E_YR_TWICE")
       \/ tok.type = "T_Month" /\ PartOnce("m", tok.val, "E_MON_TWICE")
       \/ tok.type = "T_Day"   /\ PartOnce("d", tok.val, "E_DAY_TWICE")
       \/ /\ tok.type = "T_Date"
          /\ IF PartGivenTwice # OK THEN Refuse(PartGivenTwice) ELSE Return(SetDate(tok.val))
       \/ /\ tok.type = "T_Back" /\ in \in {"FROM", "SCANFROM"}
          /\ RelativeScanFrom(tok)
       \/ /\ tok.type \notin {"T_Year", "T_Month", "T_Day", "T_Date"}
          /\ tok.type = "T_Back" => in \notin {"FROM", "SCANFROM"}
          /\ EndOfDate(tok, lexeme)

-----------------------------------------------------------------------------
(* ParseToken: the word pushed back, or the next one of the line, which    *)
(* may be the value of an expression.  OMITFUNC and a relative SCANFROM    *)
(* count as a non-constant expression.                                     *)

Flags(lexeme) ==
    LET pasted == lexeme.k = "pasted" /\ pushed = <<>>
        counts == in = "T_OmitFunc" \/ (in = "SCANFROM" /\ FindToken(lexeme).type = "T_Back")
    IN  [expr     |-> flags.expr \/ pasted \/ counts,
         nonconst |-> flags.nonconst \/ (pasted /\ lexeme.nonconst) \/ counts,
         nested   |-> IF pushed # <<>> THEN flags.nested ELSE pasted /\ lexeme.more]

ReadWord(lexeme) ==
    /\ result = ""
    /\ flags' = Flags(lexeme)
    /\ read' = IF pushed = <<>> THEN Append(read, [lexeme |-> lexeme, tok |-> FindToken(lexeme)]) ELSE read
    /\ LET tok == FindToken(lexeme)
       IN  \/ ParseRem(tok, lexeme)
           \/ MaxOverdue(tok) \/ Duration(tok) \/ ParsePriority(tok)
           \/ NameArgument(tok, lexeme) \/ AppendTrigInfo(lexeme) \/ SpecialType(lexeme)
           \/ ParseTimeTrig(tok, lexeme) \/ ParseLocalOmit(tok, lexeme) \/ GetFullDate(tok, lexeme)

Next == \E lexeme \in IF pushed # <<>> THEN {pushed[1]} ELSE Readable([i \in 1 .. Len(read) |-> read[i].lexeme]) : ReadWord(lexeme)

Spec == Init /\ [][Next]_vars
=============================================================================
