------------------------------- MODULE Strings -------------------------------
(***************************************************************************)
(* Strings of the script interpreter (src/payload/exec.rs).  The script    *)
(* counts UTF-16 units; the interpreter keeps UTF-8, and searches by byte. *)
(*                                                                         *)
(* A regular expression, here one that matches a given string, remembers   *)
(* where its last match ended, in units, for whichever string is next.     *)
(* replace() takes all matches first; then it calls back, and while a      *)
(* callback runs the same expression can be used for something else.  A    *)
(* pattern that is a string is replaced as an expression without groups    *)
(* is.                                                                     *)
(***************************************************************************)
EXTENDS Integers, SequencesExt

CONSTANTS
    Texts,      \* strings: sequences of characters
    Templates,  \* strings to replace by
    Answers,    \* strings a callback returns
    Regexes,    \* [pat, groups, global, sticky]; groups has a string or None by number
    Numbers,    \* numbers, as Number() makes them, with the digits of their value
    Rests,      \* text that may stand behind a number
    Wholes,     \* whole numbers
    Samples,    \* values of the script, [k, v, id]
    None,       \* a group that took no part
    MaxCalls    \* bound on the calls of the script

VARIABLES
    re,         \* the expression
    lastIndex,  \* in units
    call,       \* replace() under way: [s, found, last, out, given, st]
    walk,       \* matches of exec() on one string: [s, spans, full, over], in units
    calls       \* calls so far

vars == <<re, lastIndex, call, walk, calls>>

----------------------------------------------------------------------------
(* Characters: "wide" takes 2 bytes and a unit, "pair" 4 bytes and two    *)
(* units, all others one of each.  Positions count from 0.                 *)

Bytes(c) == CASE c = "wide" -> 2 [] c = "pair" -> 4 [] OTHER -> 1
Units(c) == IF c = "pair" THEN <<"high", "low">> ELSE <<c>>
Size(s) == FoldLeft(LAMBDA n, c : n + Bytes(c), 0, s)
Utf16(s) == FlattenSeq([i \in DOMAIN s |-> Units(s[i])])
IsAscii(s) == \A i \in DOMAIN s : s[i] \notin {"wide", "pair"}
Least(m, n) == IF m < n THEN m ELSE n
Most(m, n) == IF m > n THEN m ELSE n

\* from_utf16_lossy(): half a pair is replaced.
RECURSIVE Lossy(_)
Lossy(u) ==
    CASE u = <<>> -> <<>>
      [] Len(u) > 1 /\ u[1] = "high" /\ u[2] = "low" -> <<"pair">> \o Lossy(Tail(Tail(u)))
      [] OTHER -> <<IF u[1] \in {"high", "low"} THEN "?" ELSE u[1]>> \o Lossy(Tail(u))

\* The characters of s before a byte, and from one byte to another.
Before(s, b) == CHOOSE n \in 0 .. Len(s) : Size(SubSeq(s, 1, n)) = b
Part(s, b, e) == SubSeq(s, Before(s, b) + 1, Before(s, e))
Boundaries(s) == {Size(SubSeq(s, 1, n)) : n \in 0 .. Len(s)}

\* byte_to_u16(): the units before a byte.
ByteToU16(s, b) == IF IsAscii(s) THEN b ELSE Len(Utf16(SubSeq(s, 1, Before(s, b))))

\* u16_to_byte(): -1 inside a pair and beyond the end.
U16ToByte(s, u) ==
    LET at == {b \in Boundaries(s) : ByteToU16(s, b) = u}
    IN  IF IsAscii(s) THEN IF u <= Len(s) THEN u ELSE -1
        ELSE IF at = {} THEN -1 ELSE CHOOSE b \in at : TRUE

----------------------------------------------------------------------------
(* Matches: pairs of bytes.                                                *)

Occurs(s, pat, b) == b + Size(pat) \in Boundaries(s) /\ Part(s, b, b + Size(pat)) = pat
Nowhere == <<-1, -1>>
From(s, pat, at) ==
    LET places == {b \in Boundaries(s) : b >= at /\ Occurs(s, pat, b)}
        first == CHOOSE b \in places : \A c \in places : b <= c
    IN  IF places = {} THEN Nowhere ELSE <<first, first + Size(pat)>>

\* All matches, one after the other; after an empty one the search goes on behind the
\* next character.
Behind(s, m) == IF m[1] < m[2] THEN m[2] ELSE IF m[2] = Size(s) THEN Size(s) + 1
                ELSE CHOOSE b \in Boundaries(s) : b > m[2] /\ \A c \in Boundaries(s) : c > m[2] => b <= c
RECURSIVE AllFrom(_, _, _)
AllFrom(s, pat, at) ==
    LET m == From(s, pat, at)
    IN  IF at > Size(s) \/ m = Nowhere THEN <<>> ELSE <<m>> \o AllFrom(s, pat, Behind(s, m))

----------------------------------------------------------------------------
(* expand_template(): t is the template, i where it is read, run where the *)
(* text begins that was not written yet.                                   *)

Digit(c) == CASE c = "0" -> 0 [] c = "1" -> 1 [] OTHER -> -1
Group(groups, n) == IF groups[n] = None THEN <<>> ELSE groups[n]

\* Mutant: the second digit always counts.
TwoDigitsAnyway(t, i, groups) == i + 2 <= Len(t) /\ Digit(t[i + 2]) >= 0

\* Two digits are a group's number if there is such a group.
TwoDigits(t, i, groups) ==
    /\ i + 2 <= Len(t) /\ Digit(t[i + 2]) >= 0
    /\ 10 * Digit(t[i + 1]) + Digit(t[i + 2]) \in DOMAIN groups
ByDigits(t, i, groups) ==
    LET one == Digit(t[i + 1])
        two == 10 * one + Digit(t[i + 2])
    IN  IF TwoDigits(t, i, groups)
          THEN [used |-> 3, text |-> IF two \in DOMAIN groups THEN Group(groups, two) ELSE <<>>]
        ELSE IF one \in DOMAIN groups THEN [used |-> 2, text |-> Group(groups, one)]
        ELSE [used |-> 2, text |-> SubSeq(t, i, i + 1)]
Reference(t, i, s, m, groups) ==
    CASE t[i + 1] = "$" -> [used |-> 2, text |-> <<"$">>]
      [] t[i + 1] = "&" -> [used |-> 2, text |-> Part(s, m[1], m[2])]
      [] t[i + 1] = "`" -> [used |-> 2, text |-> Part(s, 0, m[1])]
      [] t[i + 1] = "'" -> [used |-> 2, text |-> Part(s, m[2], Size(s))]
      [] Digit(t[i + 1]) >= 0 -> ByDigits(t, i, groups)
      [] OTHER -> [used |-> 2, text |-> SubSeq(t, i, i + 1)]
RECURSIVE ExpandFrom(_, _, _, _, _, _, _)
ExpandFrom(t, i, run, s, m, groups, out) ==
    IF i > Len(t) THEN out \o SubSeq(t, run, Len(t))
    ELSE IF t[i] # "$" \/ i = Len(t) THEN ExpandFrom(t, i + 1, run, s, m, groups, out)
    ELSE LET r == Reference(t, i, s, m, groups)
         IN  ExpandFrom(t, i + r.used, i + r.used, s, m, groups, out \o SubSeq(t, run, i - 1) \o r.text)
Expand(t, s, m, groups) == ExpandFrom(t, 1, 1, s, m, groups, <<>>)

----------------------------------------------------------------------------
(* Methods that cut and search                                             *)

Rel(n, len) == IF n < 0 THEN Most(len + n, 0) ELSE Least(n, len)
Length(s) == IF IsAscii(s) THEN Len(s) ELSE Len(Utf16(s))
UnitAt(s, i) == IF IsAscii(s) THEN s[i + 1] ELSE Utf16(s)[i + 1]

\* utf16_slice()
Utf16Slice(s, a, b) ==
    IF a >= b THEN <<>>
    ELSE IF IsAscii(s) THEN SubSeq(s, Least(a, Least(b, Len(s))) + 1, Least(b, Len(s)))
    ELSE Lossy(SubSeq(Utf16(s), a + 1, Least(b, Len(Utf16(s)))))

CharAt(s, i) == IF i < 0 \/ i >= Length(s) THEN <<>> ELSE Utf16Slice(s, i, i + 1)
At(s, k) == CharAt(s, IF k >= 0 THEN k ELSE Length(s) + k)
\* A pair, or -1 beyond the string.
CodePointAt(s, i) ==
    IF i < 0 \/ i >= Length(s) THEN <<>>
    ELSE IF UnitAt(s, i) = "high" /\ i + 1 < Length(s)
      THEN IF UnitAt(s, i + 1) = "low" THEN <<"high", "low">> ELSE <<UnitAt(s, i)>>
    ELSE <<UnitAt(s, i)>>
Slice(s, a, b) == Utf16Slice(s, Rel(a, Length(s)), Rel(b, Length(s)))
Clamp(s, n) == Least(Most(n, 0), Length(s))
Substring(s, a, b) ==
    Utf16Slice(s, Least(Clamp(s, a), Clamp(s, b)), Most(Clamp(s, a), Clamp(s, b)))
Substr(s, a, n) ==
    LET start == Rel(a, Length(s)) IN Utf16Slice(s, start, start + Least(Most(n, 0), Length(s) - start))
\* For strings that are ASCII; others are refused.
IndexOf(s, pat, from) == From(s, pat, Clamp(s, from))[1]
SplitBy(s, pat) ==
    LET ms == AllFrom(s, pat, 0)
        edge(k) == IF k = 0 THEN 0 ELSE ms[k][2]
    IN  IF pat = <<>> THEN [i \in DOMAIN Utf16(s) |-> Lossy(<<Utf16(s)[i]>>)]
        ELSE [k \in 1 .. Len(ms) + 1 |->
                Part(s, edge(k - 1), IF k <= Len(ms) THEN ms[k][1] ELSE Size(s))]
\* padStart(); the filling begins anew until it is long enough.
PadStart(s, target, fill) ==
    IF target <= Length(s) \/ fill = <<>> THEN s
    ELSE [i \in 1 .. target - Length(s) |-> fill[((i - 1) % Len(fill)) + 1]] \o s

----------------------------------------------------------------------------
(* Numbers as text.  A number is 0.digits times ten to the e10, its digits *)
(* neither beginning nor ending with "0"; both zeros are one number.  A    *)
(* word is one character, a space stands for all white space, and a letter *)
(* for both its cases.                                                     *)

Number(neg, digits, e10) == [neg |-> neg, digits |-> digits, e10 |-> e10]
Zero == Number(FALSE, <<>>, 0)
NaN == Number(FALSE, <<"NaN">>, 0)
Infinity(neg) == Number(neg, <<"Infinity">>, 0)
IsFinite(x) == x.digits = <<>> \/ x.digits[1] \notin {"NaN", "Infinity"}

Alphabet == <<"0", "1", "2", "3", "4", "5", "6", "7", "8", "9", "a", "b", "c", "d", "e", "f", "g",
              "h", "i", "j", "k", "l", "m", "n", "o", "p", "q", "r", "s", "t", "u", "v", "w", "x",
              "y", "z">>
InRadix(r) == {Alphabet[i] : i \in 1 .. r}
Decimal == InRadix(10)
Sign(neg) == IF neg THEN <<"-">> ELSE <<>>
Zeros(n) == [i \in 1 .. n |-> "0"]

\* Digits with the point behind the first of them.
Valued(neg, ds, point) ==
    LET some == {i \in DOMAIN ds : ds[i] # "0"}
        first == CHOOSE i \in some : \A j \in some : i <= j
        final == CHOOSE i \in some : \A j \in some : i >= j
    IN  IF some = {} THEN Zero ELSE Number(neg, SubSeq(ds, first, final), point - first + 1)

\* The loop of radix_str(), and what its digits amount to.
RECURSIVE Written(_, _)
Written(n, r) == IF n < 1 THEN <<>> ELSE Append(Written(n \div r, r), Alphabet[(n % r) + 1])
Whole(neg, ds, r) ==
    LET amount == FoldLeft(LAMBDA n, c : n * r + (CHOOSE i \in 1 .. r : Alphabet[i] = c) - 1, 0, ds)
        tens == IF r = 10 THEN ds ELSE Written(amount, 10)
    IN  Valued(neg, tens, Len(tens))

\* num_to_str(), and how it lays out what is neither zero nor without size.
LaidOut(ds, e) ==
    LET k == Len(ds)
        size == Written(IF e > 0 THEN e - 1 ELSE 1 - e, 10)
        fraction == IF k > 1 THEN <<".">> \o Tail(ds) ELSE <<>>
        power == <<"e", IF e < 1 THEN "-" ELSE "+">> \o size
    IN  CASE k <= e /\ e <= 21 -> ds \o Zeros(e - k)
          [] 0 < e /\ e < k /\ e <= 21 -> SubSeq(ds, 1, e) \o <<".">> \o SubSeq(ds, e + 1, k)
          [] -6 < e /\ e <= 0 -> <<"0", ".">> \o Zeros(0 - e) \o ds
          [] e <= -6 \/ e > 21 -> <<ds[1]>> \o fraction \o power
NumToStr(x) ==
    Sign(x.neg) \o (CASE ~IsFinite(x) -> x.digits
                      [] x.digits = <<>> -> <<"0">>
                      [] OTHER -> LaidOut(x.digits, x.e10))

\* radix_str() of a whole number.
RadixStr(n, r) ==
    LET size == IF n < 0 THEN 0 - n ELSE n
        tens == Written(size, 10)
    IN  IF r = 10 THEN NumToStr(Valued(n < 0, tens, Len(tens)))
        ELSE Sign(n < 0) \o (IF size = 0 THEN <<"0">> ELSE Written(size, r))

\* Where the characters of a set that stand at i end.
Past(t, i, set) ==
    CHOOSE j \in i .. Len(t) + 1 :
        (\A k \in i .. j - 1 : t[k] \in set) /\ (j > Len(t) \/ t[j] \notin set)
Is(t, i, set) == i <= Len(t) /\ t[i] \in set
Behind1(t, i, set) == IF Is(t, i, set) THEN i + 1 ELSE i
TrimStart(t) == SubSeq(t, Past(t, 1, {" "}), Len(t))
Trim(t) == Reverse(TrimStart(Reverse(TrimStart(t))))

\* parse::<f64>(): a sign, digits with a point among them, an exponent with a sign.
Read(t) ==
    LET from == Behind1(t, 1, {"+", "-"})
        a == Past(t, from, Decimal)
        b == IF Is(t, a, {"."}) THEN Past(t, a + 1, Decimal) ELSE a
        s == Behind1(t, b + 1, {"+", "-"})
        raised == Is(t, b, {"e"})
        end == IF raised THEN Past(t, s, Decimal) ELSE b
        size == FoldLeft(LAMBDA n, c : n * 10 + (CHOOSE i \in 1 .. 10 : Alphabet[i] = c) - 1, 0,
                         IF raised THEN SubSeq(t, s, end - 1) ELSE <<>>)
        mantissa == SubSeq(t, from, a - 1) \o SubSeq(t, a + 1, b - 1)
    IN  IF end <= Len(t) \/ mantissa = <<>> \/ (raised /\ end = s) THEN NaN
        ELSE Valued(t[1] = "-", mantissa, a - from + (IF Is(t, b + 1, {"-"}) THEN 0 - size ELSE size))

\* str_to_num()
AllDigits(ds, r) ==
    IF ds = <<>> \/ \E i \in DOMAIN ds : ds[i] \notin InRadix(r) THEN NaN ELSE Whole(FALSE, ds, r)
StrToNum(text) ==
    LET t == Trim(text)
        body == SubSeq(t, 3, Len(t))
    IN  CASE t = <<>> -> Zero
          [] IsPrefix(<<"0", "x">>, t) -> AllDigits(body, 16)
          [] IsPrefix(<<"0", "o">>, t) -> AllDigits(body, 8)
          [] IsPrefix(<<"0", "b">>, t) -> AllDigits(body, 2)
          [] t \in {<<"Infinity">>, <<"+", "Infinity">>} -> Infinity(FALSE)
          [] t = <<"-", "Infinity">> -> Infinity(TRUE)
          [] OTHER -> IF \E i \in DOMAIN t : t[i] \notin Decimal \cup {".", "e", "+", "-"} THEN NaN
                      ELSE Read(t)

\* parse_int(); radix 0 is the script's undefined.
ParseInt(text, radix) ==
    LET t == TrimStart(text)
        at == Behind1(t, 1, {"-", "+"})
        hex == radix \in {0, 16} /\ Is(t, at, {"0"}) /\ Is(t, at + 1, {"x"})
        r == IF hex THEN 16 ELSE IF radix = 0 THEN 10 ELSE radix
        from == IF hex THEN at + 2 ELSE at
        end == Past(t, from, InRadix(r))
    IN  IF r \notin 2 .. 36 \/ end = from THEN NaN
        ELSE Whole(t[1] = "-", SubSeq(t, from, end - 1), r)

\* parse_float(): the longest beginning that is a number.
ParseFloat(text) ==
    LET t == TrimStart(text)
        from == Behind1(t, 1, {"+", "-"})
        a == Past(t, from, Decimal)
        b == IF Is(t, a, {"."}) THEN Past(t, a + 1, Decimal) ELSE a
        s == Behind1(t, b + 1, {"+", "-"})
        end == IF Is(t, b, {"e"}) /\ Past(t, s, Decimal) > s THEN Past(t, s, Decimal) ELSE b
    IN  IF Is(t, from, {"Infinity"}) THEN Infinity(t[1] = "-")
        ELSE IF b = from \/ (b = from + 1 /\ t[from] = ".") THEN NaN
        ELSE Read(SubSeq(t, 1, end - 1))

----------------------------------------------------------------------------
(* Values, and how one kind is made from another.  A value has an id that  *)
(* tells objects apart, and 0 if it is none.  A "fixed" object is known by *)
(* its text (plain ones, promises, iterators, expressions, errors).        *)
(* Functions and what the host gives cannot be converted.                  *)

Fault == [k |-> "fault", v |-> 0, id |-> 0]
IsFault(x) == x.k = "fault"
Text(s) == [k |-> "string", v |-> s, id |-> 0]
Nullish == {"undefined", "null"}
Basic == {"number", "string", "boolean"}
Object == {"array", "fixed", "function", "opaque"}

\* to_str()
RECURSIVE ToStr(_)
ToStr(x) ==
    CASE x.k \in Nullish -> Text(<<x.k>>)
      [] x.k = "boolean" -> Text(<<IF x.v THEN "true" ELSE "false">>)
      [] x.k = "number" -> Text(NumToStr(x.v))
      [] x.k \in {"string", "fixed"} -> Text(x.v)
      [] x.k = "global" -> Text(<<"[object Window]">>)
      [] x.k = "array" ->
            LET parts == [i \in DOMAIN x.v |-> IF x.v[i].k \in Nullish THEN Text(<<>>) ELSE ToStr(x.v[i])]
                comma(i) == IF i > 1 THEN <<",">> ELSE <<>>
            IN  IF \E i \in DOMAIN parts : IsFault(parts[i]) THEN Fault
                ELSE Text(FlattenSeq([i \in DOMAIN parts |-> comma(i) \o parts[i].v]))
      [] x.k \in {"function", "opaque", "native", "scope"} -> Fault

\* to_prim() and to_num()
ToPrim(x) == IF x.k \in Nullish \cup Basic THEN x ELSE ToStr(x)
ToNum(x) ==
    LET p == IF x.k \in Object THEN ToPrim(x) ELSE x
        number(n) == [k |-> "number", v |-> n, id |-> 0]
    IN  CASE p.k = "null" -> number(Zero)
          [] p.k = "boolean" -> number(IF p.v THEN Number(FALSE, <<"1">>, 1) ELSE Zero)
          [] p.k = "string" -> number(StrToNum(p.v))
          [] p.k \in {"number", "fault"} -> p
          [] p.k \in {"undefined", "global", "native", "scope"} -> number(NaN)

TypeOf(x) ==
    CASE x.k \in Basic \cup {"undefined", "function"} -> x.k
      [] x.k = "native" -> x.v
      [] x.k \in {"null", "array", "fixed", "opaque", "global", "scope"} -> "object"

\* How numbers and strings are compared, strings by their units.
NumEqual(x, y) == x = y /\ x # NaN
Under(x, y) ==
    LET digit(n, i) == IF i > Len(n.digits) THEN "0" ELSE n.digits[i]
        place(c) == CHOOSE i \in 1 .. 10 : Alphabet[i] = c
    IN  CASE y = Zero \/ ~IsFinite(x) -> FALSE
          [] x = Zero \/ ~IsFinite(y) -> x # y
          [] x.e10 # y.e10 -> x.e10 < y.e10
          [] OTHER -> \E i \in DOMAIN y.digits :
                        /\ \A j \in 1 .. i - 1 : digit(x, j) = digit(y, j)
                        /\ place(digit(x, i)) < place(digit(y, i))
NumBelow(x, y) ==
    /\ NaN \notin {x, y}
    /\ CASE x.neg /\ y.neg -> Under([y EXCEPT !.neg = FALSE], [x EXCEPT !.neg = FALSE])
         [] x.neg # y.neg -> x.neg
         [] OTHER -> Under(x, y)

UnitOrder ==
    <<" ", "+", ",", "-", ".">> \o SubSeq(Alphabet, 1, 10)
    \o <<"Infinity", "NaN", "[object Object]", "[object Window]">>
    \o SubSeq(Alphabet, 11, 16) \o <<"false">> \o SubSeq(Alphabet, 17, 24) \o <<"null">>
    \o SubSeq(Alphabet, 25, 30) \o <<"true", "u", "undefined">> \o SubSeq(Alphabet, 32, 36)
    \o <<"wide", "high", "low">>
StrBelow(s, t) ==
    LET a == Utf16(s)
        b == Utf16(t)
        place(u) == CHOOSE i \in DOMAIN UnitOrder : UnitOrder[i] = u
    IN  \E n \in 0 .. Least(Len(a), Len(b)) :
            /\ SubSeq(a, 1, n) = SubSeq(b, 1, n)
            /\ n < Len(b) /\ (n = Len(a) \/ place(a[n + 1]) < place(b[n + 1]))

\* The operators: a set of one answer, or of none if there is an error.
StrictEq(l, r) ==
    l.k = r.k /\ (l.k = "number" => l.v # NaN) /\ IF l.k \in Basic THEN l.v = r.v ELSE l.id = r.id
LooseEq(l, r) ==
    LET p == IF l.k \in Object /\ r.k \in Basic THEN ToPrim(l) ELSE l
        q == IF r.k \in Object /\ l.k \in Basic THEN ToPrim(r) ELSE r
    IN  CASE l.k \in Nullish \/ r.k \in Nullish -> {l.k \in Nullish /\ r.k \in Nullish}
          [] IsFault(p) \/ IsFault(q) -> {}
          [] p.k = "string" /\ q.k = "string" -> {p.v = q.v}
          [] {p.k, q.k} \subseteq Basic /\ {p.k, q.k} # {"string"} ->
                {NumEqual(ToNum(p).v, ToNum(q).v)}
          [] OTHER -> {StrictEq(l, r)}
\* Whether l is less, and whether less or equal.
Compared(l, r) ==
    LET p == ToPrim(l)
        q == ToPrim(r)
        x == ToNum(p).v
        y == ToNum(q).v
    IN  CASE IsFault(p) \/ IsFault(q) -> {}
          [] p.k = "string" /\ q.k = "string" -> {<<StrBelow(p.v, q.v), ~StrBelow(q.v, p.v)>>}
          [] OTHER -> {<<NumBelow(x, y), NumBelow(x, y) \/ NumEqual(x, y)>>}
LessThan(l, r) == {c[1] : c \in Compared(l, r)}
LessEqual(l, r) == {c[2] : c \in Compared(l, r)}

----------------------------------------------------------------------------
(* Regular expressions *)

Idle == [s |-> <<>>, found |-> <<>>, last |-> 0, out |-> <<>>, given |-> <<>>, st |-> "idle"]
NoWalk(s) == [s |-> s, spans |-> <<>>, full |-> lastIndex = 0, over |-> FALSE]

Init ==
    /\ re \in Regexes /\ lastIndex = 0 /\ call = Idle /\ calls = 0
    /\ walk = [s |-> <<>>, spans |-> <<>>, full |-> FALSE, over |-> FALSE]

Call == calls < MaxCalls /\ calls' = calls + 1 /\ UNCHANGED re
WalkOn(s) == IF walk.s = s /\ ~walk.over THEN walk ELSE NoWalk(s)

\* regex_run(): an expression that keeps its place begins there.
Stateful == re.global \/ re.sticky
Start == IF Stateful THEN lastIndex ELSE 0
Found(s) ==
    LET at == U16ToByte(s, Start)
        m == From(s, re.pat, at)
    IN  IF at = -1 \/ (re.sticky /\ m[1] # at) THEN Nowhere ELSE m

\* exec() and test(), and match() of an expression that is not global.
Exec(s) ==
    LET m == Found(s)
    IN  /\ Call
        /\ lastIndex' = IF ~Stateful THEN lastIndex ELSE IF m = Nowhere THEN 0 ELSE ByteToU16(s, m[2])
        /\ walk' = IF m = Nowhere THEN [WalkOn(s) EXCEPT !.over = TRUE]
                   ELSE [WalkOn(s) EXCEPT !.spans = Append(@, <<ByteToU16(s, m[1]), ByteToU16(s, m[2])>>)]
        /\ UNCHANGED call
Execute == \E s \in Texts : Exec(s)

\* match() of a global expression: all at once, and from the beginning.
Match ==
    /\ Call /\ re.global
    /\ lastIndex' = 0 /\ walk' = NoWalk(<<>>)
    /\ UNCHANGED call

\* replace() and replaceAll(): what is replaced is settled before anything else.
Begun(s, found) == [Idle EXCEPT !.s = s, !.found = found, !.st = "calling"]
Finished(c) == [c EXCEPT !.out = @ \o Part(c.s, c.last, Size(c.s)), !.st = "done"]
With(c, text) ==
    LET m == Head(c.found)
    IN  [c EXCEPT !.out = @ \o Part(c.s, c.last, m[1]) \o text, !.last = m[2], !.found = Tail(@)]
RECURSIVE ExpandAll(_, _)
ExpandAll(c, t) ==
    IF c.found = <<>> THEN Finished(c)
    ELSE ExpandAll(With(c, Expand(t, c.s, Head(c.found), re.groups)), t)
GoOn(c) == IF c.found = <<>> THEN Finished(c) ELSE c
Targets(s) == IF re.global THEN AllFrom(s, re.pat, 0)
              ELSE SelectSeq(<<From(s, re.pat, 0)>>, LAMBDA m : m # Nowhere)
Expanded(s, t) == ExpandAll(Begun(s, Targets(s)), t).out
Rewind ==
    /\ lastIndex' = IF re.global THEN 0 ELSE lastIndex
    /\ walk' = IF re.global THEN NoWalk(<<>>) ELSE walk
Replace ==
    /\ Call /\ call.st \in {"idle", "done"}
    /\ \E s \in Texts : call' = GoOn(Begun(s, Targets(s)))
    /\ Rewind
\* With a template, which is Expanded(), nothing can come in between.
ReplaceAtOnce == Call /\ Rewind /\ UNCHANGED call

\* A callback returns, or throws.
Answer ==
    /\ call.st = "calling"
    /\ \E r \in Answers : call' = GoOn([With(call, r) EXCEPT !.given = Append(@, r)])
    /\ UNCHANGED <<re, lastIndex, walk, calls>>
Throw ==
    /\ call.st = "calling"
    /\ call' = Idle
    /\ UNCHANGED <<re, lastIndex, walk, calls>>

Next == Execute \/ Match \/ Replace \/ ReplaceAtOnce \/ Answer \/ Throw

Spec == Init /\ [][Next]_vars

----------------------------------------------------------------------------
(* What is meant, in characters and units. *)

\* The first characters of the matches, by character.
RECURSIVE Starts(_, _, _)
Starts(s, pat, n) ==
    IF n + Len(pat) > Len(s) THEN <<>>
    ELSE IF SubSeq(s, n + 1, n + Len(pat)) = pat THEN <<n>> \o Starts(s, pat, n + Most(Len(pat), 1))
    ELSE Starts(s, pat, n + 1)
UnitSpan(s, pat, n) == <<Len(Utf16(SubSeq(s, 1, n))), Len(Utf16(SubSeq(s, 1, n + Len(pat))))>>
UnitSpans(s, pat) ==
    LET starts == Starts(s, pat, 0) IN [k \in DOMAIN starts |-> UnitSpan(s, pat, starts[k])]

\* exec() on one string, again and again, walks its matches in order: each is one, none
\* begins before the last one ended, and when it answers null, having begun at the
\* beginning, it has given all of them.  Whatever the expression was used for before, on
\* strings of other lengths and widths, its place is not taken for one of this string's.
ExecWalks ==
    Stateful =>
        /\ \A k \in DOMAIN walk.spans :
              LET m == walk.spans[k]
              IN  /\ m[2] <= Length(walk.s)
                  /\ SubSeq(Utf16(walk.s), m[1] + 1, m[2]) = Utf16(re.pat)
                  /\ k > 1 => m[1] >= walk.spans[k - 1][2]
        /\ walk.over /\ walk.full /\ re.pat # <<>> =>
              IF re.sticky THEN IsPrefix(walk.spans, UnitSpans(walk.s, re.pat))
              ELSE walk.spans = UnitSpans(walk.s, re.pat)

\* The text a template stands for, read from the left.
RECURSIVE Meant(_, _, _, _)
Meant(t, s, n, groups) ==
    LET two == 10 * Digit(t[2]) + Digit(t[3])
        rest(k) == Meant(SubSeq(t, k, Len(t)), s, n, groups)
    IN  CASE t = <<>> -> <<>>
          [] Len(t) = 1 \/ (t # <<>> /\ t[1] # "$") -> <<t[1]>> \o rest(2)
          [] OTHER ->
               CASE t[2] = "$" -> <<"$">> \o rest(3)
                 [] t[2] = "&" -> re.pat \o rest(3)
                 [] t[2] = "`" -> SubSeq(s, 1, n) \o rest(3)
                 [] t[2] = "'" -> SubSeq(s, n + Len(re.pat) + 1, Len(s)) \o rest(3)
                 [] Digit(t[2]) >= 0 ->
                      IF Len(t) > 2 /\ Digit(t[Least(3, Len(t))]) >= 0 /\ two \in DOMAIN groups
                        THEN Group(groups, two) \o rest(4)
                      ELSE IF Digit(t[2]) \in DOMAIN groups THEN Group(groups, Digit(t[2])) \o rest(3)
                      ELSE <<"$">> \o rest(2)
                 [] OTHER -> <<"$">> \o rest(2)

\* replace() puts for each match, and for nothing else, what the template or the callback
\* says, whatever callbacks do with the expression while they run.
Wanted(s) == LET all == Starts(s, re.pat, 0)
             IN  IF re.global THEN all ELSE SubSeq(all, 1, Least(1, Len(all)))
Replaced(s, at, text) ==
    LET from(k) == IF k = 0 THEN 0 ELSE at[k] + Len(re.pat)
    IN  FlattenSeq([k \in DOMAIN at |-> SubSeq(s, from(k - 1) + 1, at[k]) \o text[k]])
          \o SubSeq(s, from(Len(at)) + 1, Len(s))
TextsMeant(s, t) == [k \in DOMAIN Wanted(s) |-> Meant(t, s, Wanted(s)[k], re.groups)]
ReplaceIsExact ==
    /\ call.st = "done" => call.out = Replaced(call.s, Wanted(call.s), call.given)
    /\ calls = 0 => \A s \in Texts, t \in Templates :
          Expanded(s, t) = Replaced(s, Wanted(s), TextsMeant(s, t))

\* The methods that cut a string count units, on either representation: cut anywhere, the
\* two parts have the units of the whole, up to a pair that was cut in two; and the other
\* methods are what slice() says they are.
Positions(s) == 0 - Length(s) - 1 .. Length(s) + 1
UnitsAreKept(s, k) ==
    LET u == Utf16(Slice(s, 0, k) \o Slice(s, k, Length(s)))
    IN  Len(u) = Length(s) /\ \A i \in DOMAIN u : u[i] = Utf16(s)[i] \/ (u[i] = "?" /\ Utf16(s)[i] \in {"high", "low"})
CutsAreExact == calls = 0 => \A s \in Texts :
    /\ \A k \in Positions(s) :
          /\ UnitsAreKept(s, k)
          /\ At(s, k) = (IF k \in {-1, Length(s)} THEN Slice(s, k, Length(s)) ELSE Slice(s, k, k + 1))
             \/ k < 0 - Length(s)
          /\ Utf16(Substr(s, k, Length(s))) = Utf16(Slice(s, k, Length(s)))
          /\ k \in 0 .. Length(s) - 1 => Utf16(CharAt(s, k)) \in {<<Utf16(s)[k + 1]>>, <<"?">>}
          /\ k \in 0 .. Length(s) - 1 => CodePointAt(s, k) \in {<<Utf16(s)[k + 1]>>, SubSeq(Utf16(s), k + 1, Least(k + 2, Length(s)))}
    /\ \A a, b \in Positions(s) : Substring(s, a, b) = Slice(s, Clamp(s, Least(a, b)), Clamp(s, Most(a, b)))
    /\ IsAscii(s) => \A k \in 0 .. Length(s) :
          LET i == IndexOf(s, re.pat, k)
          IN  IF i = -1 THEN \A j \in k .. Length(s) : Slice(s, j, j + Len(re.pat)) # re.pat \/ ~IsAscii(re.pat)
              ELSE i >= k /\ Slice(s, i, i + Len(re.pat)) = re.pat
    /\ re.pat # <<>> => \A parts \in {SplitBy(s, re.pat)} :
              s = FlattenSeq([k \in DOMAIN parts |-> IF k = 1 THEN parts[k] ELSE re.pat \o parts[k]])
    /\ \A n \in 0 .. Length(s) + 3 :
          LET p == PadStart(s, n, <<"a", "b">>)
          IN  Length(p) = Most(n, Length(s)) /\ IsSuffix(s, p)

\* A number that is written and read again is the same number, on both sides of every
\* boundary between ways of writing it and with anything behind it that cannot belong to
\* it; parseInt() of it is its whole part, or its first digit from 1e21 up and below 1e-6,
\* where it is written with an exponent; and whole numbers are read in the radix they are
\* written in, with its prefix too.
WholePart(x) == IF x.e10 < 1 THEN Zero
                ELSE Valued(x.neg, SubSeq(x.digits \o Zeros(x.e10), 1, x.e10), x.e10)
NumbersAreExact == calls = 0 =>
    /\ \A x \in Numbers :
          /\ StrToNum(NumToStr(x)) = x
          /\ \A rest \in Rests : ParseFloat(<<" ">> \o NumToStr(x) \o rest) = x
          /\ IsFinite(x) => ParseInt(NumToStr(x), 0) =
                IF x.e10 \in -5 .. 21 THEN WholePart(x) ELSE Number(x.neg, <<x.digits[1]>>, 1)
    /\ \A n \in Wholes :
          /\ \A r \in 2 .. 36 : ParseInt(RadixStr(n, r) \o <<".">>, r) = StrToNum(RadixStr(n, 10))
          /\ n >= 0 => \A p \in {<<"x", 16>>, <<"o", 8>>, <<"b", 2>>} :
                StrToNum(<<"0", p[1]>> \o RadixStr(n, p[2])) = StrToNum(RadixStr(n, 10))
          /\ n >= 0 => \A r \in {0, 16} :
                ParseInt(<<"0", "x">> \o RadixStr(n, 16), r) = StrToNum(RadixStr(n, 10))

\* == is the same both ways, is === between values of one type (of typeof, null apart), and
\* holds between a basic value and another value but undefined and null exactly if neither
\* is less than the other though they can be compared; less-than is the converse of
\* less-or-equal unless a number is NaN, and has no cycles among strings nor among numbers;
\* and an array of one item converts as the item does.
EqualityAgrees(equal) ==
    \A a, b \in Samples :
        /\ equal[a, b] = equal[b, a]
        /\ StrictEq(a, b) => equal[a, b] = {TRUE}
        /\ TypeOf(a) = TypeOf(b) /\ "null" \notin {a.k, b.k} => equal[a, b] = {StrictEq(a, b)}
OrderAgrees(equal, order, prim, num) ==
    \A a, b \in {x \in Samples : ~IsFault(prim[x])} :
        \E less, most, greater, least \in BOOLEAN :
            /\ order[a, b] = {<<less, most>>} /\ order[b, a] = {<<greater, least>>}
            /\ ~less \/ ~greater
            /\ most <=> ~greater /\ (NaN \in {num[a].v, num[b].v} => {prim[a].k, prim[b].k} = {"string"})
            /\ a.k \in Basic /\ b.k \in Basic \cup Object => (equal[a, b] = {TRUE} <=> most /\ least)
NoCycles(order, prim) ==
    \A kinds \in {{"string"}, {"number", "boolean"} \cup Nullish} :
        \A a, b, c \in {x \in Samples : prim[x].k \in kinds} :
            <<TRUE, TRUE>> \in order[a, b] \cap order[b, c] => <<TRUE, TRUE>> \in order[a, c]
ConversionsAgree == calls = 0 =>
    /\ \A equal \in {[a, b \in Samples |-> LooseEq(a, b)]}, prim \in {[a \in Samples |-> ToPrim(a)]},
          order \in {[a, b \in Samples |-> Compared(a, b)]}, num \in {[a \in Samples |-> ToNum(a)]} :
          EqualityAgrees(equal) /\ OrderAgrees(equal, order, prim, num) /\ NoCycles(order, prim)
    /\ \A x \in Samples : \A one \in {ToStr([k |-> "array", v |-> <<x>>, id |-> -1])} :
          IF x.k \in Nullish THEN one.v = <<>> ELSE one = ToStr(x)

\* What strings are made from others is what the script means by it.
StringsAreExact == ReplaceIsExact /\ CutsAreExact /\ NumbersAreExact /\ ConversionsAgree
=============================================================================
