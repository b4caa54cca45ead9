----------------------------- MODULE MCControl -----------------------------
(***************************************************************************)
(* What the script interpreter does while functions of the script run      *)
(* inside of it: sort() with a comparison, and promises, which share no    *)
(* state, one part of the run each.  Sorted are every array of up to six   *)
(* items over three ranks, a wild comparison of up to eight, and one array *)
(* whose natural runs are long enough to strain the stack of runs.         *)
(***************************************************************************)
EXTENDS TimSort

CONSTANTS Nothing, NoDerived, MaxPromises, MaxCalls

VARIABLES part, ps, frames, made, chained, ran, calls, faulted

Call(items, wild, copy) == [items |-> items, callable |-> TRUE, wild |-> wild, copy |-> copy]

Small == UNION {[1 .. n -> {1, 2, 3}] : n \in 0 .. 6}
WithUndef == {<<2, Undef, 1>>, <<Undef, 2, 2, Undef, 1>>, <<Undef>>}

\* Ascending runs of these lengths, each beginning below the end of the last.
RunLengths == <<18, 13, 4, 3, 5, 3>>
Strained ==
    LET end == [k \in 0 .. 6 |-> FoldFunctionOnSet(+, 0, RunLengths, 1 .. k)]
    IN  [i \in 1 .. end[6] |->
           LET k == CHOOSE j \in 1 .. 6 : end[j - 1] < i /\ i <= end[j]
           IN  10 * (i - end[k - 1]) - k]

MCInputs ==
    {Call(s, FALSE, FALSE) : s \in Small \cup WithUndef \cup {Strained}}
    \cup {Call(<<2, Undef, 1>>, FALSE, TRUE)}
    \cup {[Call(<<2, 1>>, FALSE, FALSE) EXCEPT !.callable = FALSE]}
    \cup {Call([i \in 1 .. n |-> 1], TRUE, FALSE) : n \in 2 .. 8}

P == INSTANCE Promises WITH
    Plain <- {1}, Undef <- Nothing, None <- NoDerived, stack <- frames

promises == <<ps, frames, made, chained, ran, calls, faulted>>
NoSort ==
    /\ input = [items |-> <<>>, callable |-> TRUE, wild |-> FALSE, copy |-> FALSE]
    /\ Init
NoPromises ==
    /\ ps = <<>> /\ frames = <<>> /\ made = {} /\ chained = {} /\ ran = <<>>
    /\ calls = 0 /\ faulted = FALSE

ControlInit ==
    \/ part = "sort" /\ NoPromises /\ Init
    \/ part = "promises" /\ NoSort /\ P!Init
ControlNext ==
    \/ part = "sort" /\ Next /\ UNCHANGED <<part, promises>>
    \/ part = "promises" /\ P!Next /\ UNCHANGED <<part, vars>>
ControlSpec == ControlInit /\ [][ControlNext]_<<part, vars, promises>>

\* Every reaction runs once, whatever the others do (Promises!ReactionsRunOnce).
ReactionsRunOnce == part = "promises" => P!ReactionsRunOnce
=============================================================================
