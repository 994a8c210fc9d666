------------------------------- MODULE Values -------------------------------
(***************************************************************************)
(* The values of Remind's expressions and the operators on them (expr.c).  *)
(* A value is <<type, payload>>: "INT", "DATE" (days since 1990), "TIME"   *)
(* (minutes), "DATETIME" (minutes since 1990) with an integer of bounded   *)
(* width, or "STR" with a sequence of characters.  An operation that fails *)
(* gives <<"ERR", code>>.  A character is a digit 0 .. 9 or one of the     *)
(* codes below.                                                            *)
(***************************************************************************)
EXTENDS Dates, SequencesExt

CONSTANTS IntMax,        \* INT_MAX of the build
          MaxStringLen   \* $MaxStringLen, 0 for none

ASSUME IntMaxAssumption == IntMax \in Nat /\ IntMax >= 1440

MINUTES_PER_DAY == 1440
IntMin == - IntMax - 1
Fits(x) == x \in IntMin .. IntMax

\* What an int holds after an operation that overflows.
Wrap(x) == ((x + IntMax + 1) % (2 * (IntMax + 1))) - IntMax - 1

IntV(i) == <<"INT", i>>
StrV(s) == <<"STR", s>>
Err(code) == <<"ERR", code>>
IsErr(v) == v[1] = "ERR"
Bool(b) == IntV(IF b THEN 1 ELSE 0)

truthy(v) == IF v[1] = "STR" THEN v[2] # << >> ELSE v[2] # 0

\* Division of C, which truncates.
CDiv(a, b) == IF (a >= 0) = (b > 0) THEN (IF a < 0 THEN -a ELSE a) \div (IF b < 0 THEN -b ELSE b)
              ELSE - ((IF a < 0 THEN -a ELSE a) \div (IF b < 0 THEN -b ELSE b))
CMod(a, b) == a - b * CDiv(a, b)

-----------------------------------------------------------------------------
\* Characters and strings

Digit(c) == c \in 0 .. 9
Dash == 10      Slash == 11     Colon == 12     Dot == 13
At == 14        BigT == 15      Blank == 16     LetterA == 17
LetterP == 18   LetterM == 19   Other == 20
DateSep == Dash
TimeSep == Colon
DateTimeSep == At

RECURSIVE Decimal(_)
Decimal(n) == IF n < 10 THEN <<n>> ELSE Append(Decimal(n \div 10), n % 10)

\* %0*d
Padded(n, width) ==
    LET s == Decimal(n) IN [i \in 1 .. width - Len(s) |-> 0] \o s

\* The number that the leading digits of s are read as, and what follows them.
Number(s) ==
    LET k == Max({0} \cup {j \in 1 .. Len(s) : \A i \in 1 .. j : Digit(s[i])})
    IN  [k |-> k, rest |-> SubSeq(s, k + 1, Len(s)),
         n |-> FoldLeft(LAMBDA a, d : Wrap(Wrap(10 * a) + d), 0, SubSeq(s, 1, k))]

NoParse == [ok |-> FALSE]

At1(s, set) == s # << >> /\ s[1] \in set

\* am or pm, with or without the m: 12-hour clock to 24-hour clock.
To24(h, c) == IF c = LetterA THEN h % 12 ELSE IF h < 12 THEN h + 12 ELSE h

\* The minutes, after the hour h; then perhaps am or pm.
AfterHour(h, m) ==
    LET half == At1(m.rest, {LetterA, LetterP})
        after == IF ~ half THEN m.rest
                 ELSE IF At1(Tail(m.rest), {LetterM}) THEN Tail(Tail(m.rest)) ELSE Tail(m.rest)
    IN  IF m.k = 0 \/ h > 23 \/ m.n > 59 \/ (half /\ h \notin 1 .. 12) THEN NoParse
        ELSE [ok |-> TRUE, rest |-> after, tim |-> 60 * (IF half THEN To24(h, m.rest[1]) ELSE h) + m.n]

AsTime(h) ==
    IF h.k = 0 \/ ~ At1(h.rest, {Colon, Dot, TimeSep}) THEN NoParse ELSE AfterHour(h.n, Number(Tail(h.rest)))

ParseLiteralTime(s) == AsTime(Number(s))

YR_RANGE == 4000
DateOK(y, m, d) == y \in BASE .. BASE + YR_RANGE /\ m \in 0 .. 11 /\ d >= 1 /\ d <= DaysInMonth(m, y)

NO_DATE == -1
NO_TIME == -1

\* A date, a time, or a date and a time.
Dated(dse, t) == IF t.ok THEN [ok |-> TRUE, dse |-> dse, tim |-> t.tim, rest |-> t.rest] ELSE NoParse

AfterMonth(y, m, d) ==
    IF d.k = 0 \/ ~ DateOK(y, m - 1, d.n) THEN NoParse
    ELSE Dated(DSE(y, m - 1, d.n),
               IF At1(d.rest, {Blank, At, BigT}) THEN ParseLiteralTime(Tail(d.rest))
               ELSE [ok |-> TRUE, tim |-> NO_TIME, rest |-> d.rest])

AfterYear(y, m) ==
    IF m.k = 0 \/ ~ At1(m.rest, {Slash, Dash, DateSep}) THEN NoParse
    ELSE AfterMonth(y, m.n, Number(Tail(m.rest)))

DateOrTime(first) ==
    IF first.k > 0 /\ At1(first.rest, {Colon, Dot, TimeSep}) THEN Dated(NO_DATE, AsTime(first))
    ELSE IF first.k = 0 \/ ~ At1(first.rest, {Slash, Dash, DateSep}) THEN NoParse
    ELSE AfterYear(first.n, Number(Tail(first.rest)))

ParseLiteralDateOrTime(s) == DateOrTime(Number(s))

DateString(dse) ==
    LET f == FromDSE(dse)
    IN  Padded(f.y, 4) \o <<DateSep>> \o Padded(f.m + 1, 2) \o <<DateSep>> \o Padded(f.d, 2)

TimeString(t) == Padded(t \div 60, 2) \o <<TimeSep>> \o Padded(t % 60, 2)

-----------------------------------------------------------------------------
\* Coercion

AsString(v) ==
    StrV(CASE v[1] = "INT" -> IF v[2] < 0 THEN <<Dash>> \o Decimal(- v[2]) ELSE Decimal(v[2])
           [] v[1] = "TIME" -> TimeString(v[2])
           [] v[1] = "DATE" -> DateString(v[2])
           [] v[1] = "DATETIME" -> DateString(v[2] \div MINUTES_PER_DAY) \o <<DateTimeSep>>
                                     \o TimeString(v[2] % MINUTES_PER_DAY))

\* The whole string is an integer.
AsInteger(neg, i) == IF i.rest = << >> THEN IntV(Wrap(IF neg THEN - i.n ELSE i.n)) ELSE Err("E_CANT_COERCE")

\* The whole string p is a date, perhaps with a time.
AsDate(type, p) ==
    IF ~ p.ok THEN Err("E_CANT_COERCE")
    ELSE IF p.dse = NO_DATE \/ p.rest # << >> THEN Err("E_CANT_COERCE")
    ELSE IF type = "DATE" THEN <<"DATE", p.dse>>
    ELSE <<"DATETIME", Wrap(p.dse * MINUTES_PER_DAY + (IF p.tim = NO_TIME THEN 0 ELSE p.tim))>>

AsTimeOfDay(t) ==
    IF ~ t.ok THEN Err("E_CANT_COERCE") ELSE IF t.rest # << >> THEN Err("E_CANT_COERCE") ELSE <<"TIME", t.tim>>

FromString(type, s) ==
    CASE type = "INT" -> LET neg == At1(s, {Dash}) IN AsInteger(neg, Number(IF neg THEN Tail(s) ELSE s))
      [] type \in {"DATE", "DATETIME"} -> AsDate(type, ParseLiteralDateOrTime(s))
      [] type = "TIME" -> AsTimeOfDay(ParseLiteralTime(s))

DoCoerce(type, v) ==
    CASE type = v[1] -> v
      [] type # v[1] /\ v[1] = "STR" -> FromString(type, v[2])
      [] type # v[1] /\ type = "STR" -> AsString(v)
      [] type = "INT" /\ v[1] \in {"DATE", "TIME", "DATETIME"} -> IntV(v[2])
      [] type = "DATE" /\ v[1] = "INT" -> IF v[2] >= 0 THEN <<"DATE", v[2]>> ELSE Err("E_2LOW")
      [] type = "DATE" /\ v[1] = "DATETIME" -> <<"DATE", CDiv(v[2], MINUTES_PER_DAY)>>
      [] type = "TIME" /\ v[1] \in {"INT", "DATETIME"} -> <<"TIME", v[2] % MINUTES_PER_DAY>>
      [] type = "DATETIME" /\ v[1] = "INT" -> <<"DATETIME", v[2]>>
      [] type = "DATETIME" /\ v[1] = "DATE" -> <<"DATETIME", Wrap(v[2] * MINUTES_PER_DAY)>>
      [] OTHER -> Err("E_CANT_COERCE")

-----------------------------------------------------------------------------
\* Operators

Checked(type, s, over) == IF Fits(s) THEN <<type, s>> ELSE Err(over)

Date(type, s) == IF Fits(s) /\ s >= 0 THEN <<type, s>> ELSE Err("E_DATE_OVER")

\* Two values as strings, one after the other.
Concat(v, w) ==
    LET Str(u) == IF u[1] = "STR" THEN u[2] ELSE AsString(u)[2]
        s == Str(v) \o Str(w)
    IN  IF MaxStringLen > 0 /\ Len(s) > MaxStringLen THEN Err("E_STRING_TOO_LONG") ELSE StrV(s)

\* The sum is not checked.
FaultyAdd(v, w) ==
    LET t == {v[1], w[1]}
        s == v[2] + w[2]
    IN  CASE "STR" \in t -> Concat(v, w)
          [] t = {"INT"} -> IntV(Wrap(s))
          [] t = {"DATE", "INT"} -> Date("DATE", s)
          [] t \in {{"DATETIME", "INT"}, {"DATETIME", "TIME"}} -> Date("DATETIME", s)
          [] t \in {{"TIME", "INT"}, {"TIME"}} ->
               IF Fits(s) THEN <<"TIME", s % MINUTES_PER_DAY>> ELSE Err("E_DATE_OVER")
          [] OTHER -> Err("E_BAD_TYPE")

add(v, w) ==
    LET t == {v[1], w[1]}
        s == v[2] + w[2]
    IN  CASE "STR" \in t -> Concat(v, w)
          [] t = {"INT"} -> Checked("INT", s, "E_2HIGH")
          [] t = {"DATE", "INT"} -> Date("DATE", s)
          [] t \in {{"DATETIME", "INT"}, {"DATETIME", "TIME"}} -> Date("DATETIME", s)
          [] t \in {{"TIME", "INT"}, {"TIME"}} ->
               IF Fits(s) THEN <<"TIME", s % MINUTES_PER_DAY>> ELSE Err("E_DATE_OVER")
          [] OTHER -> Err("E_BAD_TYPE")

\* Nothing is checked when minutes are taken from a time.
subtract(v, w) ==
    LET d == v[2] - w[2]
    IN  CASE v[1] = "INT" /\ w[1] = "INT" -> Checked("INT", d, "E_2HIGH")
          [] v[1] = "DATE" /\ w[1] = "INT" -> Date("DATE", d)
          [] v[1] = "DATETIME" /\ w[1] \in {"INT", "TIME"} -> Date("DATETIME", d)
          [] v[1] = "TIME" /\ w[1] = "INT" -> <<"TIME", CMod(Wrap(d), MINUTES_PER_DAY) % MINUTES_PER_DAY>>
          [] v[1] = w[1] /\ v[1] \in {"DATE", "TIME", "DATETIME"} -> Checked("INT", d, "E_DATE_OVER")
          [] OTHER -> Err("E_BAD_TYPE")

Repeat(s, n) ==
    LET l == Len(s) * n
    IN  IF n < 0 THEN Err("E_2LOW")
        ELSE IF l = 0 THEN StrV(<< >>)
        ELSE IF Wrap(l) < 0 \/ l >= IntMax \/ (MaxStringLen > 0 /\ l > MaxStringLen) THEN Err("E_STRING_TOO_LONG")
        ELSE StrV(FlattenSeq([i \in 1 .. n |-> s]))

multiply(v, w) ==
    CASE v[1] = "INT" /\ w[1] = "INT" -> Checked("INT", v[2] * w[2], "E_2HIGH")
      [] v[1] = "INT" /\ w[1] = "STR" -> Repeat(w[2], v[2])
      [] v[1] = "STR" /\ w[1] = "INT" -> Repeat(v[2], w[2])
      [] OTHER -> Err("E_BAD_TYPE")

divide_or_mod(v, w, op) ==
    IF v[1] # "INT" \/ w[1] # "INT" THEN Err("E_BAD_TYPE")
    ELSE IF w[2] = 0 THEN Err("E_DIV_ZERO")
    ELSE IF w[2] = -1 /\ v[2] = IntMin THEN Err("E_2HIGH")
    ELSE IntV(IF op = "/" THEN CDiv(v[2], w[2]) ELSE CMod(v[2], w[2]))

\* strcmp(a, b) < 0
Before(a, b) ==
    \/ Len(a) < Len(b) /\ \A i \in DOMAIN a : a[i] = b[i]
    \/ \E i \in DOMAIN a \cap DOMAIN b : a[i] < b[i] /\ \A j \in 1 .. i - 1 : a[j] = b[j]

Less(v, w) == IF v[1] = "STR" THEN Before(v[2], w[2]) ELSE v[2] < w[2]

compare(v, w, how) ==
    IF v[1] # w[1] /\ how \notin {"==", "!="} THEN Err("E_BAD_TYPE")
    ELSE Bool(CASE how = "==" -> v = w
                [] how = "!=" -> v # w
                [] how = "<" -> Less(v, w)
                [] how = ">" -> Less(w, v)
                [] how = "<=" -> ~ Less(w, v)
                [] how = ">=" -> ~ Less(v, w))

logical_not(v) == Bool(~ truthy(v))

unary_minus(v) ==
    IF v[1] # "INT" THEN Err("E_BAD_TYPE") ELSE Checked("INT", - v[2], "E_2LOW")

Binary(op, v, w) ==
    CASE op = "+" -> add(v, w)
      [] op = "-" -> subtract(v, w)
      [] op = "*" -> multiply(v, w)
      [] op \in {"/", "%"} -> divide_or_mod(v, w, op)
      [] OTHER -> compare(v, w, op)
=============================================================================
