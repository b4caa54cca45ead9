------------------------------ MODULE MCValues ------------------------------
(***************************************************************************)
(* The values of the script interpreter for TLC: arrays, objects and       *)
(* strings, which share no state, one part of the run each.                *)
(***************************************************************************)
EXTENDS Arrays

CONSTANTS Names, Texts, Answers, None, MaxSteps, MaxCalls,
          Templates, Regexes, Numbers, Rests, Wholes, Samples

VARIABLES part, heap, ic, stack, steps, re, lastIndex, replacing, walk, calls

MCElements == {Num(0), Arr(<<Num(1), Undef>>)}
MCAtFirst == {<<>>, <<Num(1), Num(2)>>, <<Arr(<<Num(1), Arr(<<Num(2)>>)>>), Num(0), Num(2)>>}
MCArgs == -1 .. 1

\* Two objects, and two places in the code that read a name each.
Places == <<"a", "b">>
O == INSTANCE Objects WITH
    Keys <- Names, Data <- {1}, KeyAt <- Places, NoObjects <- 2

MCTexts == {<<>>, <<"a", "a", "b">>, <<"wide", "pair", "a">>, <<"pair", "wide", "a", "pair">>}
MCAnswers == {<<>>, <<"x">>}
Letters == {"$", "&", "0", "1", "x"}
SmallTemplates ==
    UNION {[1 .. n -> Letters] : n \in 0 .. 3}
    \cup {<<"$", "`", "'">>, <<"x", "$", "'">>, <<"$", "1", "1", "x">>, <<"x", "$", "1", "0">>,
          <<"$", "$", "$", "1">>}
Regex(pat, groups, g, y) == [pat |-> pat, groups |-> groups, global |-> g, sticky |-> y]
Ten == [n \in 1 .. 10 |-> IF n = 10 THEN <<"x">> ELSE IF n = 1 THEN <<"a">> ELSE None]
SmallRegexes ==
    {Regex(p, <<>>, g, y) : p \in {<<"a">>, <<"pair">>, <<>>}, g, y \in BOOLEAN}
    \cup {Regex(<<"a">>, g, TRUE, FALSE) : g \in {<<None>>, <<<<"b">>>>, Ten}}
    \cup {Regex(<<"wide", "pair">>, <<>>, TRUE, FALSE)}
\* Zero, the numbers without size, and digits about every boundary of e10; a double has the
\* fifteen digits wherever they are not those of a whole number beyond 1e17.
SomeDigits == {<<"7">>, <<"1", "5">>, <<"9", "0", "1">>}
Fifteen == <<"1", "2", "3", "4", "5", "6", "7", "8", "9", "0", "1", "2", "3", "4", "5">>
Powers10 == -8 .. 4 \cup 14 .. 17 \cup {22, 23, -100, 100, 308}
SmallNumbers ==
    [neg : {FALSE}, digits : {<<>>, <<"NaN">>}, e10 : {0}]
    \cup [neg : BOOLEAN, digits : {<<"Infinity">>}, e10 : {0}]
    \cup [neg : BOOLEAN, digits : SomeDigits, e10 : Powers10 \cup 18 .. 21]
    \cup [neg : BOOLEAN, digits : {Fifteen}, e10 : Powers10]
SmallRests == {<<>>, <<" ">>, <<"x">>, <<"e">>, <<"e", "-">>, <<"e", "+", "x">>, <<"-">>}
SmallWholes == {0, 1, 2, 9, 10, 35, 36, 37, 255, 256, 1295, 1296, 99999, 2147483647}
\* Values of every kind; 10, which is less than 9 as text.
Val(k, v, id) == [k |-> k, v |-> v, id |-> id]
One == [neg |-> FALSE, digits |-> <<"1">>, e10 |-> 1]
Basics ==
    {Val("undefined", 0, 0), Val("null", 0, 0), Val("boolean", TRUE, 0), Val("boolean", FALSE, 0)}
    \cup {Val("number", n, 0) : n \in {One, [One EXCEPT !.neg = TRUE], [One EXCEPT !.digits = <<"9">>],
                                        [One EXCEPT !.digits = <<"1", "5">>], [One EXCEPT !.e10 = 2]}}
    \cup {Val("number", n, 0) :
             n \in [neg : {FALSE}, digits : {<<>>, <<"NaN">>, <<"Infinity">>}, e10 : {0}]}
    \cup {Val("string", s, 0) : s \in {<<>>, <<"1">>, <<" ", "1">>, <<"9">>, <<"1", "0">>, <<"1", ",", "1">>,
             <<"x">>, <<"wide">>, <<"pair", "x">>, <<"[object Object]">>, <<"Infinity">>}}
SmallValues ==
    Basics
    \cup {Val("array", items, id) : items \in {<<>>, <<Val("number", One, 0)>>}, id \in {1, 2}}
    \cup {Val("array", <<Val("null", 0, 0), Val("array", <<Val("string", <<"x">>, 0)>>, 4)>>, 3),
          Val("array", <<Val("string", <<"1">>, 0), Val("function", 0, 5)>>, 6),
          Val("fixed", <<"[object Object]">>, 7), Val("fixed", <<"[object Object]">>, 8),
          Val("function", 0, 5), Val("opaque", 0, 9), Val("native", "function", 10),
          Val("native", "object", 11), Val("global", 0, 0), Val("scope", 0, 12)}
AllWholes == SmallWholes \cup {0 - n : n \in SmallWholes}
S == INSTANCE Strings WITH call <- replacing

objects == <<heap, ic, stack, steps>>
strings == <<re, lastIndex, replacing, walk, calls>>

OneArray == CHOOSE a \in AtFirst : TRUE
\* An iterator has begun, so that nothing is asked of the array.
NoArrays == arr = OneArray /\ call = Idle /\ it = 1 /\ edits = 0 /\ log = <<>> /\ given = <<0>>
NoObjects == heap = <<>> /\ ic = <<>> /\ stack = <<>> /\ steps = 0
NoStrings == re = 0 /\ lastIndex = 0 /\ replacing = 0 /\ walk = 0 /\ calls = 0

ValuesInit ==
    \/ part = "arrays" /\ NoObjects /\ NoStrings /\ Init
    \/ part = "objects" /\ NoArrays /\ NoStrings /\ O!ObjectsInit
    \/ part = "strings" /\ NoArrays /\ NoObjects /\ S!Init
ValuesNext ==
    \/ part = "arrays" /\ Next /\ UNCHANGED <<part, objects, strings>>
    \/ part = "objects" /\ O!ObjectsNext /\ UNCHANGED <<part, vars, strings>>
    \/ part = "strings" /\ S!Next /\ UNCHANGED <<part, vars, objects>>
ValuesSpec == ValuesInit /\ [][ValuesNext]_<<part, vars, objects, strings>>

\* A read by the position kept is a lookup (Objects!CachedReadIsLookup).
CachedReadIsLookup == part = "objects" => O!CachedReadIsLookup
\* What the methods of arrays and strings give is what is meant (Arrays!MethodsAreExact,
\* Strings!StringsAreExact), and exec() walks the matches of one string
\* (Strings!ExecWalks).
BuiltinsAreExact ==
    MethodsAreExact /\ (part = "strings" => S!StringsAreExact /\ S!ExecWalks)
=============================================================================
