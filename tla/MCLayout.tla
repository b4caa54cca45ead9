------------------------------ MODULE MCLayout ------------------------------
(***************************************************************************)
(* Scripts for Layout: a function that lists two batches, the batches, and *)
(* a function that sets the key.                                           *)
(***************************************************************************)
EXTENDS Layout

Drive(slots, key) == [fault |-> FALSE, slots |-> slots, key |-> key]
Faulty == [fault |-> TRUE, slots |-> <<>>, key |-> None]

\* Keys are 1 and 2, the field of the prefix is 7; calls 1 to 3 may make the
\* function that shuffles.
ListTwo == Function(10, <<NewArray(1, 2), Item(1, 0, Closure(11)), Item(1, 1, Closure(12))>>)
Nested == Function(11, <<Mention(13), Method(2)>>)
Inner == Function(13, <<Method(1)>>)

Builder(len, sets) == Function(20, <<NewArray(1, len), Item(1, 0, Constant), Prop(7, Constant)>> \o sets)

Script(builder, drives, made, shuffled, fields) ==
    [shards |-> <<<<ListTwo, Nested>>, <<Inner, builder>>>>,
     drives |-> drives, made |-> made, shuffled |-> shuffled, fields |-> fields]

\* Where the key is set, and what the calls make: which of two keys is driven,
\* which is guessed.
Setters ==
    {<<Prop(k, CallResult(1)), Prop(l, v), SetVar(5, CallResult(2)), SetVar(5, CallResult(3))>> :
       k, l \in {1, 2}, v \in {CallResult(2), Variable(5), Constant}}
Swap == <<1, 0, 2>>
Rotate == <<1, 2, 0>>
Guesses ==
    {Script(Builder(3, s), d, m, <<Swap, Rotate, Rotate>>, <<7>>) :
       s \in Setters,
       d \in {11 :> Drive(<<0>>, k) @@ 12 :> e : k \in {1, 2, None}, e \in {Drive(<<1>>, 1), Drive(<<2>>, 2), Drive(<<>>, 1), Faulty}}
               \cup {11 :> Faulty @@ 12 :> Faulty},
       m \in [{1, 2, 3} -> {"closure", "other", "fault"}]}

\* What the batches register, and what shuffling gives, right or wrong.
Shuffled(len, firsts, seconds) ==
    {Script(Builder(len, <<Prop(1, CallResult(1))>>),
            11 :> Drive(a, 1) @@ 12 :> Drive(b, 1), <<"closure">>, <<items>>, <<7>>) :
       a \in firsts, b \in seconds, items \in [1 .. len -> 0 .. len - 1] \cup {<<0, 1>>, <<3, 0, 1>>, Faulted}}
Shuffles ==
    Shuffled(3, {<<i>> : i \in 0 .. 3} \cup {<<0, 1>>}, {<<i>> : i \in 0 .. 3})
      \cup Shuffled(4, {<<0, 1>>, <<3, 2>>, <<1, 1>>}, {<<i>> : i \in 0 .. 3})

\* Arrays that are not what is looked for.
Odd ==
    {[Script(Function(20, t), 11 :> Drive(<<0>>, 1) @@ 12 :> Drive(<<1>>, 1), <<"closure">>, <<Swap>>, f)
        EXCEPT !.shards[1][1].body = l] :
       t \in {<<NewArray(1, n), i, Other(1), Prop(7, Constant), Prop(1, CallResult(1))>> :
                n \in {2, 3}, i \in {Item(1, 0, Constant), Item(1, 0, Closure(13)), NewArray(1, 4)}}
               \cup {<<Prop(1, CallResult(1))>>},
       f \in {<<7>>, <<8>>, <<>>},
       l \in {<<>>, ListTwo.body, <<NewArray(1, 1)>> \o ListTwo.body,
              <<NewArray(1, 2), Item(1, 0, Closure(11)), Other(1), Item(1, 1, Closure(12))>>,
              <<NewArray(1, 2), Item(1, 0, Closure(11)), Item(1, 5, Closure(12)), Item(1, 1, Closure(12))>>}}

SmallScripts == Guesses \cup Shuffles \cup Odd
=============================================================================
