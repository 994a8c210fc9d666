----------------------------- MODULE RemGrammar -----------------------------
(***************************************************************************)
(* What the words of a REM command mean, and that ParseRem takes them so.  *)
(*                                                                         *)
(* The manual calls the command a set of parts in any order.  Here a part  *)
(* is a keyword with the words after it that belong to it, and the other   *)
(* words describe the date.  Nothing is said of how to read the words one  *)
(* by one.                                                                 *)
(***************************************************************************)
EXTENDS RemParser, FiniteSetsExt

Type(i)  == read[i].tok.type
Value(i) == read[i].tok.val

\* The words of the trigger: they end with a type, the message or the line.
Ends(i) == Type(i) \in {"T_RemType", "T_Empty"} \/ read[i].tok = Tok("T_Illegal", OK)

TakesOne == {"T_Priority", "T_Warn", "T_Sched", "T_OmitFunc", "T_Info", "T_Tag", "T_Duration",
             "T_MaxOverdue", "T_Tz"}

\* A keyword takes the word after it, unless it is itself taken by the one before.
IsArgument(i) ==
    LET run == {k \in 1 .. i - 1 : \A j \in k .. i - 1 : Type(j) \in TakesOne}
    IN  Cardinality(run) % 2 = 1

\* The part that a keyword begins, and the words that may belong to it.
DateOf(i) == CASE Type(i) \in {"T_Until", "T_Through"} -> "until" [] Type(i) = "T_CompleteThrough" -> "complete"
               [] Type(i) = "T_Scanfrom" /\ Value(i) = "FROM" -> "from"
               [] Type(i) = "T_Scanfrom" /\ Value(i) = "SCANFROM" -> "scanfrom"
               [] OTHER -> ""

Takes(i) ==
    IF IsArgument(i) THEN {}
    ELSE CASE DateOf(i) \in {"from", "scanfrom"} -> {"T_Year", "T_Month", "T_Day", "T_Date", "T_Back"}
           [] DateOf(i) \in {"until", "complete"} -> {"T_Year", "T_Month", "T_Day", "T_Date"}
           [] Type(i) \in {"T_At", "T_Time"} -> {"T_Time", "T_Delta", "T_Rep"}
           [] Type(i) = "T_Omit" -> {"T_WkDay"}
           [] OTHER -> {}

\* A whole date, and the distance of a SCANFROM, is the last word of its part.
Belongs(i, j) ==
    /\ i < j
    /\ \A k \in i + 1 .. j : Type(k) \in Takes(i)
    /\ DateOf(i) # "" => \A k \in i + 1 .. j - 1 : Type(k) \notin {"T_Date", "T_Back"}

\* Where the type or the message is, and the words before it.
TypeAt  == Min({i \in 1 .. Len(read) : Ends(i) /\ ~IsArgument(i)} \cup {Len(read) + 1})
Trigger == 1 .. TypeAt - 1

Part(i)  == {j \in Trigger : Belongs(i, j)}
Loose(j) == ~IsArgument(j) /\ \A i \in Trigger : ~Belongs(i, j)

LooseWords == {j \in Trigger : Loose(j)}

(* The reading of a line, given its loose words L. *)
Of(L, type)   == {j \in L : Type(j) = type}
Keyword(L, w) == {i \in L : DateOf(i) = w}
WordsOf(L, w) == UNION {Part(i) : i \in Keyword(L, w)}
Timings      == {i \in Trigger : ~IsArgument(i) /\ Type(i) \in {"T_At", "T_Time"}}
Times        == {i \in Trigger : ~IsArgument(i) /\ Type(i) = "T_Time"}
Timing(type) == {j \in UNION {Part(i) : i \in Timings} : Type(j) = type}

\* The value of the only word of a set, or the one when there is none.
The(S, none) == IF S = {} THEN none ELSE Value(Max(S))

\* A full date in a part: one word or three.
DatePart(L, w, type) == {j \in WordsOf(L, w) : Type(j) = type}

FullDate(L, w) ==
    IF DatePart(L, w, "T_Date") # {} THEN The(DatePart(L, w, "T_Date"), NO_DATE)
    ELSE DSE(The(DatePart(L, w, "T_Year"), -1), The(DatePart(L, w, "T_Month"), -1), The(DatePart(L, w, "T_Day"), -1))

DateMeant(L, w) == IF Keyword(L, w) = {} THEN NO_DATE ELSE FullDate(L, w)

\* The day of an ordinal, of the day before or the week before a month.
DaysMeant(L) ==
    {Value(j) : j \in Of(L, "T_Day")}
      \cup {FromDSE(Value(j)).d : j \in Of(L, "T_Date")}
      \cup {FromDSE(Value(j) \div MINUTES_PER_DAY).d : j \in Of(L, "T_DateTime")}
      \cup {IF Value(j) < 0 THEN 1 ELSE 1 + 7 * Value(j) : j \in Of(L, "T_Ordinal")}
      \cup {1 : j \in Of(L, "T_BackAdj")}

MonthsMeant(L) ==
    {Value(j) : j \in Of(L, "T_Month")}
      \cup {FromDSE(Value(j)).m : j \in Of(L, "T_Date")}
      \cup {FromDSE(Value(j) \div MINUTES_PER_DAY).m : j \in Of(L, "T_DateTime")}

YearsMeant(L) ==
    {Value(j) : j \in Of(L, "T_Year")}
      \cup {FromDSE(Value(j)).y : j \in Of(L, "T_Date")}
      \cup {FromDSE(Value(j) \div MINUTES_PER_DAY).y : j \in Of(L, "T_DateTime")}

Counted(L, type) == Cardinality(Of(L, type))

\* "last" and "~" count back from the month after the one they name.
FromNextMonth(L) == Of(L, "T_BackAdj") # {} \/ \E j \in Of(L, "T_Ordinal") : Value(j) < 0

BacksMeant(L) == {Value(j) : j \in Of(L, "T_Back") \cup Of(L, "T_BackAdj")}
                \cup {-7 : j \in {i \in Of(L, "T_Ordinal") : Value(i) < 0}}

TimesMeant(L) == {Value(j) : j \in Times} \cup {Value(j) % MINUTES_PER_DAY : j \in Of(L, "T_DateTime")}

Some(S, none) == IF S = {} THEN none ELSE CHOOSE x \in S : TRUE

DurationsMeant == {j \in Trigger : IsArgument(j) /\ Type(j - 1) = "T_Duration"}

DurationMeant == IF The(DurationsMeant, 0) = 0 THEN NO_TIME ELSE The(DurationsMeant, 0)

\* The days after its first one that what begins then and lasts so long goes on.
LaterDays(ttime, duration) ==
    Cardinality({n \in 1 .. 9 : NO_TIME \notin {ttime, duration} /\ ttime + duration > MINUTES_PER_DAY * n})

\* A trigger with the date, the times and the limits that are meant.
Meant(L) ==
    LET m == Some(MonthsMeant(L), -1)  y == Some(YearsMeant(L), -1)
    IN  /\ trig.d = Some(DaysMeant(L), -1)
        /\ trig.m = IF FromNextMonth(L) /\ m # -1 THEN (m + 1) % 12 ELSE m
        /\ trig.y = IF FromNextMonth(L) /\ m = 11 /\ y # -1 THEN y + 1 ELSE y
        /\ trig.wd = {Value(j) : j \in Of(L, "T_WkDay")}
        /\ trig.back = Some(BacksMeant(L), 0)
        /\ trig.rep = IF Of(L, "T_Through") # {} THEN 1 ELSE The(Of(L, "T_Rep"), 0)
        /\ trig.delta = The(Of(L, "T_Delta"), -DefaultDelta)
        /\ trig.localomit = UNION {{Value(j) : j \in Part(i)} : i \in Of(L, "T_Omit")}
        /\ trig.until = DateMeant(L, "until") /\ trig.from = DateMeant(L, "from")
        /\ trig.complete_through = DateMeant(L, "complete")
        /\ trig.ttime = Some(TimesMeant(L), NO_TIME)
        /\ trig.trep = The(Timing("T_Rep"), 0)
        /\ trig.duration = DurationMeant
        /\ trig.duration_days = LaterDays(Some(TimesMeant(L), NO_TIME), DurationMeant)

Incomplete(L, w) == Keyword(L, w) # {} /\ DatePart(L, w, "T_Date") = {}
                   /\ ~(w = "scanfrom" /\ DatePart(L, w, "T_Back") # {})
                   /\ \/ \E type \in {"T_Year", "T_Month", "T_Day"} : DatePart(L, w, type) = {}
                      \/ LET y == The(DatePart(L, w, "T_Year"), -1)  m == The(DatePart(L, w, "T_Month"), -1)
                         IN  m = -1 \/ y = -1 \/ ~DateOK(y, m, The(DatePart(L, w, "T_Day"), -1))

Twice(L) ==
    \/ Counted(L, "T_Day") + Counted(L, "T_Date") + Counted(L, "T_DateTime") + Counted(L, "T_Ordinal") + Counted(L, "T_BackAdj") > 1
    \/ Counted(L, "T_Month") + Counted(L, "T_Date") + Counted(L, "T_DateTime") > 1
    \/ Counted(L, "T_Year") + Counted(L, "T_Date") + Counted(L, "T_DateTime") > 1
    \/ Counted(L, "T_Back") + Counted(L, "T_BackAdj") + Cardinality({j \in Of(L, "T_Ordinal") : Value(j) < 0}) > 1
    \/ Cardinality({Value(j) : j \in Of(L, "T_WkDay")}) < Counted(L, "T_WkDay")
    \/ \E type \in {"T_Delta", "T_Skip", "T_Todo", "T_Once", "T_MaxOverdue", "T_Tz"} : Counted(L, type) > 1
    \/ Counted(L, "T_Rep") + Counted(L, "T_Through") > 1
    \/ Cardinality(Times) + Counted(L, "T_DateTime") > 1
    \/ Cardinality(Timing("T_Rep")) > 1
    \/ \E w \in {"until", "complete"} : Cardinality(Keyword(L, w)) > 1
    \/ Cardinality(Keyword(L, "from")) + Cardinality(Keyword(L, "scanfrom")) > 1
    \/ \E w \in {"until", "complete", "from", "scanfrom"} :
          \E type \in {"T_Year", "T_Month", "T_Day"} :
             Cardinality(DatePart(L, w, type) \cup DatePart(L, w, "T_Date") \cup DatePart(L, w, "T_Back")) > 1
    \/ \E i \in Timings : Type(i) = "T_At" /\ Cardinality({j \in Part(i) : Type(j) = "T_Delta"}) > 1
    \/ \E i \in Of(L, "T_Time") : Cardinality({j \in Part(i) : Type(j) = "T_Delta"}) > 1

NumberTypes == {"T_Year", "T_Day", "T_Number"}

BadArgument(i) ==
    CASE Type(i - 1) = "T_Duration"   -> Type(i) \notin NumberTypes \cup {"T_Time", "T_LongTime"}
      [] Type(i - 1) = "T_MaxOverdue" -> Type(i) \notin NumberTypes
      [] Type(i - 1) = "T_Priority"   -> Type(i) \notin NumberTypes \/ Value(i) > 9999
      [] Type(i - 1) = "T_Info" ->
           \/ read[i].lexeme.k # "quoted" \/ read[i].lexeme.w = ""
           \/ \E j \in 2 .. i - 1 : IsArgument(j) /\ Type(j - 1) = "T_Info" /\ read[j] = read[i]
      [] OTHER -> FALSE

Wrong(L) ==
    \/ \E i \in L : IsIllegal(read[i].tok) \/ Type(i) \in {"T_Number", "T_LongTime"}
    \/ Counted(L, "T_Ordinal") > 0 /\ Counted(L, "T_WkDay") = 0
    \/ \E i \in Timings : \A j \in Times \cup Of(L, "T_DateTime") : j > Max(Part(i) \cup {i})
    \/ \E i \in Of(L, "T_Omit") : \A j \in Of(L, "T_Omit") : j <= i => Part(j) = {}
    \/ \E w \in {"until", "complete", "from", "scanfrom"} : Incomplete(L, w)
    \/ DatePart(L, "from", "T_Back") # {}
    \/ \E i \in 2 .. Len(read) : IsArgument(i) /\ BadArgument(i)
    \/ TypeAt < Len(read) /\ Type(TypeAt + 1) = "T_Empty"
    \/ TypeAt <= Len(read) /\ read[TypeAt].lexeme.k = "pasted" /\ read[TypeAt].lexeme.more

-----------------------------------------------------------------------------
(* Properties of the parsing. *)

Parsed == result = OK

(* A word belongs to the part it stands in and to no other: the functions  *)
(* that read several words take all of theirs and give the next one back.  *)
(* So the date, the times and the limits of a trigger are the ones meant,  *)
(* whatever comes before or after them (ParseRem and the functions it      *)
(* calls).                                                                 *)
MeansItsParts == Parsed => \A L \in {LooseWords} : Meant(L)

(* A line is refused because some part comes twice or is incomplete or     *)
(* because a word is wrong, and it is refused whenever that is so: no part *)
(* of a line that is accepted was overwritten by a later one.              *)
AcceptsWhatIsClear ==
    result # "" => \A L \in {LooseWords} : (result = OK <=> ~Twice(L) /\ ~Wrong(L))

(* A trigger that depends on more than the script is marked, or it might   *)
(* be purged: one with the value of a non-constant expression in it, with  *)
(* an OMITFUNC or with a SCANFROM relative to today.                       *)
MarksNonConstant ==
    Parsed => \A L \in {LooseWords} :
                ( trig.nonconst_expr <=>
                    \/ \E i \in 1 .. Len(read) : read[i].lexeme.k = "pasted" /\ read[i].lexeme.nonconst
                    \/ Of(L, "T_OmitFunc") # {}
                    \/ DatePart(L, "scanfrom", "T_Back") # {} )
=============================================================================
