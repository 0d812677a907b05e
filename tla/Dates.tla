---------------------------------- MODULE Dates ---------------------------------
(***************************************************************************)
(* nr.parsing.date: formats for dates and times that are regular           *)
(* expressions, sets of them, and durations.  A text is a sequence of      *)
(* pairs of digits [d |-> n], characters [c |-> ch] and the digits of a    *)
(* fraction [f |-> digits]; a format has options, characters and parts     *)
(* that may be missing.                                                    *)
(***************************************************************************)
EXTENDS Integers, Sequences, SequencesExt, FiniteSets, FiniteSetsExt, Functions, TLC

CONSTANTS None

D(n) == [d |-> n]
C(ch) == [c |-> ch]
Is(kind, x) == kind \in DOMAIN x

-------------------------------------------------------------------------------
\* FormatOptions: how long a value is in a text, and what it is.  Digits beyond the sixth
\* of a fraction are cut off after its leading zeros.
DigitsOf(n) == LET len == Min({k \in 1 .. 7 : n < 10 ^ k}) IN
               [i \in 1 .. len |-> (n \div 10 ^ (len - i)) % 10]
ValueOf(digits) == FoldLeft(LAMBDA v, x : v * 10 + x, 0, digits)
Microsecond(digits) ==
  LET n == DigitsOf(ValueOf(digits) * 10 ^ Max({6 - Len(digits), 0})) IN
  ValueOf(SubSeq(n, 1, Min({6, Len(n)})))

IsPair(text, i) == i <= Len(text) /\ Is("d", text[i])
IsChar(text, i, chars) == i <= Len(text) /\ Is("c", text[i]) /\ text[i].c \in chars
Sign(text) == IF text[1].c = "-" THEN -1 ELSE 1

\* The values with which a text may begin: how much of the text, and the value.
FieldValues(opt, text) ==
  CASE opt = "Y" -> IF IsPair(text, 1) /\ IsPair(text, 2) THEN {<<2, 100 * text[1].d + text[2].d>>} ELSE {}
    [] opt = "f" -> IF text # <<>> /\ Is("f", text[1]) THEN {<<1, Microsecond(text[1].f)>>} ELSE {}
    [] opt = "z" ->
         (IF IsChar(text, 1, {"Z"}) THEN {<<1, 0>>} ELSE {})
           \cup IF IsChar(text, 1, {"+", "-"}) /\ IsPair(text, 2)
                THEN {<<2, Sign(text) * 3600 * text[2].d>>}
                       \cup (IF IsPair(text, 3)
                             THEN {<<3, Sign(text) * (3600 * text[2].d + 60 * text[3].d)>>} ELSE {})
                       \cup (IF IsChar(text, 3, {":"}) /\ IsPair(text, 4)
                             THEN {<<4, Sign(text) * (3600 * text[2].d + 60 * text[4].d)>>} ELSE {})
                ELSE {}
    [] OTHER -> IF IsPair(text, 1) THEN {<<1, text[1].d>>} ELSE {}

Pair(n) == <<D(n)>>
Stripped(digits) == SubSeq(digits, 1, Max({0} \cup {i \in DOMAIN digits : digits[i] # 0}))
Fraction(us) ==
  LET six == [i \in 1 .. 6 |-> (us \div 10 ^ (6 - i)) % 10] IN
  [f |-> IF us = 0 THEN <<0>> ELSE Stripped(six)]
Offset(s) ==
  LET abs == IF s < 0 THEN -s ELSE s IN
  <<C(IF s < 0 THEN "-" ELSE "+"), D(abs \div 3600), C(":"), D((abs \div 60) % 60)>>
    \o IF abs % 60 = 0 THEN <<>> ELSE <<C(":"), D(abs % 60)>>
FormatValue(opt, v) ==
  CASE opt = "Y" -> <<D(v \div 100), D(v % 100)>>
    [] opt = "f" -> <<Fraction(v)>>
    [] opt = "z" -> IF v = None THEN <<>> ELSE IF v = 0 THEN <<C("Z")>> ELSE Offset(v)
    [] OTHER -> Pair(v)

-------------------------------------------------------------------------------
\* What a compiled format captures of a text that it matches as a whole.
RECURSIVE Captures(_, _, _)
Captures(nodes, text, kwargs) ==
  IF nodes = <<>> THEN IF text = <<>> THEN {kwargs} ELSE {}
  ELSE IF Is("lit", Head(nodes))
  THEN IF IsChar(text, 1, {Head(nodes).lit}) THEN Captures(Tail(nodes), Tail(text), kwargs) ELSE {}
  ELSE IF Is("maybe", Head(nodes))
  THEN Captures(Head(nodes).maybe \o Tail(nodes), text, kwargs) \cup Captures(Tail(nodes), text, kwargs)
  ELSE UNION {Captures(Tail(nodes), SubSeq(text, v[1] + 1, Len(text)),
                       (Head(nodes).opt :> v[2]) @@ kwargs) : v \in FieldValues(Head(nodes).opt, text)}

\* The sequence of a format, which has the optional parts like the others.
RECURSIVE Sequence(_)
Sequence(nodes) ==
  FlattenSeq([i \in DOMAIN nodes |-> IF Is("maybe", nodes[i]) THEN Sequence(nodes[i].maybe) ELSE <<nodes[i]>>])

Defaults == [Y |-> 1900, m |-> 1, d |-> 1, H |-> 0, M |-> 0, S |-> 0, f |-> 0, z |-> None]
DaysIn(y, m) == IF m # 2 THEN IF m \in {4, 6, 9, 11} THEN 30 ELSE 31
                ELSE IF (y % 4 = 0 /\ y % 100 # 0) \/ y % 400 = 0 THEN 29 ELSE 28
IsDatetime(t) ==
  /\ t.Y >= 1 /\ t.m \in 1 .. 12 /\ t.d \in 1 .. DaysIn(t.Y, t.m)
  /\ t.H < 24 /\ t.M < 60 /\ t.S < 60
  /\ t.z # None => t.z > -86400 /\ t.z < 86400

\* parse_datetime() and format_datetime() of a format; None is a ValueError.
ParseFormat(format, text) ==
  LET found == {t \in {c @@ Defaults : c \in Captures(format, text, <<>>)} : IsDatetime(t)} IN
  IF found = {} THEN None ELSE CHOOSE t \in found : TRUE
FormatDatetime(format, t) ==
  FlattenSeq([i \in DOMAIN Sequence(format) |->
    LET n == Sequence(format)[i] IN IF Is("lit", n) THEN <<C(n.lit)>> ELSE FormatValue(n.opt, t[n.opt])])

\* format_set: the first format that parses the text.
ParseAny(formats, text) ==
  LET fit == {i \in DOMAIN formats : ParseFormat(formats[i], text) # None} IN
  IF fit = {} THEN None ELSE ParseFormat(formats[Min(fit)], text)
OnlyDate(t) == IF t = None THEN None ELSE [t EXCEPT !.H = 0, !.M = 0, !.S = 0, !.f = 0, !.z = None]
OnlyTime(t) == IF t = None THEN None ELSE [t EXCEPT !.Y = 1, !.m = 1, !.d = 1, !.z = None]
ParseDatetime(set, text, partial) ==
  IF set.datetimes = <<>> THEN None
  ELSE IF ParseAny(set.datetimes, text) # None THEN ParseAny(set.datetimes, text)
  ELSE IF ~partial THEN None
  ELSE IF ParseAny(set.dates, text) # None THEN OnlyDate(ParseAny(set.dates, text))
  ELSE OnlyTime(ParseAny(set.times, text))

\* ISO_8601 and JAVA_OFFSET_DATETIME.
O(opt) == [opt |-> opt]
L(ch) == [lit |-> ch]
Maybe(nodes) == [maybe |-> nodes]
DateFormats == <<<<O("Y"), Maybe(<<L("-"), O("m"), Maybe(<<L("-"), O("d")>>)>>)>>,
           <<O("Y"), Maybe(<<O("m"), Maybe(<<O("d")>>)>>)>>>>
Zone == Maybe(<<O("z")>>)
TimeFormats == <<<<O("H"), Maybe(<<L(":"), O("M"), Maybe(<<L(":"), O("S"), Maybe(<<L("."), O("f")>>)>>)>>), Zone>>,
           <<O("H"), Maybe(<<O("M"), Maybe(<<O("S")>>)>>), Zone>>>>
Iso8601 == [dates |-> DateFormats, times |-> TimeFormats,
            datetimes |-> [i \in 1 .. 2 |-> DateFormats[i] \o <<L("T")>> \o TimeFormats[i]]]
Java == [dates |-> <<>>, times |-> <<>>, datetimes |->
  <<<<O("Y"), L("-"), O("m"), L("-"), O("d"), L("T"), O("H"), L(":"), O("M"),
      Maybe(<<L(":"), O("S"), Maybe(<<L("."), O("f")>>)>>), Zone>>>>]

-------------------------------------------------------------------------------
\* duration: a field of each unit; a string has a date part and a time part.
Units == [date |-> <<"Y", "M", "W", "D">>, time |-> <<"H", "M", "S">>]
Written(fields, units) ==
  SelectSeq([i \in DOMAIN units |-> <<fields[units[i]], units[i]>>], LAMBDA x : x[1] # 0)
Str(dur) == [date |-> Written(dur.date, Units.date), time |-> Written(dur.time, Units.time)]

\* parse(): in any order, the last of a unit has the say.
ReadFields(parts, units) ==
  FoldLeft(LAMBDA fields, x : [fields EXCEPT ![x[2]] = x[1]], [u \in ToSet(units) |-> 0], parts)
ParseDuration(s) ==
  IF \E k \in DOMAIN s : \E i \in DOMAIN s[k] : s[k][i][2] \notin ToSet(Units[k]) THEN None
  ELSE [date |-> ReadFields(s.date, Units.date), time |-> ReadFields(s.time, Units.time)]

\* In eighths of a day a month has 243.5 and a year 2922: seconds, doubled.
TotalSeconds2(dur) ==
  dur.date["Y"] * 2 * 31557600 + dur.date["M"] * 2 * 2629800 + dur.date["W"] * 2 * 604800
    + dur.date["D"] * 2 * 86400 + dur.time["H"] * 2 * 3600 + dur.time["M"] * 2 * 60 + dur.time["S"] * 2

-------------------------------------------------------------------------------
\* What is formatted is parsed to the same again, unless the offset of its timezone has
\* seconds, which are written and not read (options.py:70-107).
RoundTrip(set, t) ==
  LET text == FormatDatetime(set.datetimes[1], t) IN
  /\ ParseDatetime(set, text, FALSE) = IF t.z # None /\ t.z % 60 # 0 THEN None ELSE t
  /\ set.dates # <<>> => ParseDatetime(set, FormatDatetime(set.dates[1], t), TRUE) = OnlyDate(t)

\* The order of the formats in a set does not matter: at most one of them matches a text,
\* unless they agree on it.
OneFormatFits(text) ==
  \A i, j \in 1 .. 2 :
    LET a == ParseFormat(Iso8601.datetimes[i], text)
        b == ParseFormat(Iso8601.datetimes[j], text)
    IN  a = None \/ b = None \/ a = b

\* A fraction of up to six digits, or one that does not begin with a zero, is cut to
\* microseconds (options.py:143-145).
FractionIsCut(digits) ==
  Len(digits) <= 6 \/ digits[1] # 0 =>
    Microsecond(digits) = ValueOf([i \in 1 .. 6 |-> IF i \in DOMAIN digits THEN digits[i] ELSE 0])

\* A duration is read as it was written, and the order of its units does not matter.
DurationRoundTrip(dur) ==
  /\ ParseDuration(Str(dur)) = dur
  /\ ParseDuration([k \in {"date", "time"} |-> Reverse(Str(dur)[k])]) = dur
  /\ TotalSeconds2(dur) = 0 <=> Str(dur) = [date |-> <<>>, time |-> <<>>]
===============================================================================
