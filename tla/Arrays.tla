------------------------------- MODULE Arrays -------------------------------
(***************************************************************************)
(* The methods of arrays in the script interpreter (src/payload/exec.rs)   *)
(* other than sort.  Some call back a function of the script for one       *)
(* element after the other; that function may throw, and may change the    *)
(* array under the method's feet by any of the other methods.              *)
(*                                                                         *)
(* An element is a number, undefined or another array, which stays as it   *)
(* is.  Arguments are integers: NaN is 0 and fractions are cut off before  *)
(* anything else happens.  Indices are those of the code, from 0.          *)
(***************************************************************************)
EXTENDS Integers, SequencesExt

CONSTANTS
    AtFirst,    \* the arrays there are at first, sequences of elements
    Elements,   \* what the script puts into arrays, and answers
    Args,       \* integers given to methods
    MaxEdits,   \* bound on the changes to the array
    MaxNexts    \* bound on the calls of next()

VARIABLES
    arr,     \* the array
    call,    \* the method under way, or Idle
    it,      \* an iterator over the array: its position
    edits,   \* changes so far
    log,     \* history: [i, x, r], the callbacks of the call and their answers
    given    \* history: the positions the iterator gave

vars == <<arr, call, it, edits, log, given>>

Num(n) == [k |-> "num", n |-> n, items |-> <<>>]
Arr(s) == [k |-> "arr", n |-> 0, items |-> s]
Undef == [k |-> "undef", n |-> 0, items |-> <<>>]
IsArr(v) == v.k = "arr"
Truthy(v) == v.k = "arr" \/ (v.k = "num" /\ v.n # 0)

Least(m, n) == IF m < n THEN m ELSE n
Most(m, n) == IF m > n THEN m ELSE n

\* rel(): a position, counted from the end when it is negative.
Rel(n, len) == IF n < 0 THEN Most(len + n, 0) ELSE Least(n, len)

Done == -1      \* usize::MAX
Idle == [n |-> "", i |-> 0, len |-> 0, init |-> Undef, x |-> Undef, acc |-> Undef, out |-> <<>>,
         callable |-> TRUE, st |-> "idle", result |-> Undef]

Init ==
    /\ arr \in AtFirst /\ call = Idle /\ it = 0 /\ edits = 0 /\ log = <<>> /\ given = <<>>

----------------------------------------------------------------------------
(* Methods that change the array: [a, out], what it is then and what is    *)
(* returned.                                                               *)

Edited(a, out) == [a |-> a, out |-> out]

Push(a, v) == Edited(Append(a, v), Num(Len(a) + 1))
PopLast(a) == IF a = <<>> THEN Edited(a, Undef) ELSE Edited(Front(a), Last(a))
Shift(a) == IF a = <<>> THEN Edited(a, Undef) ELSE Edited(Tail(a), Head(a))
Unshift(a, v) == Edited(<<v>> \o a, Num(Len(a) + 1))
ReverseAll(a) == Edited(Reverse(a), Arr(Reverse(a)))

\* splice(); without a count everything from the start goes.
SpliceAt(a, start, del, ins) ==
    Edited(SubSeq(a, 1, start) \o ins \o SubSeq(a, start + del + 1, Len(a)),
           Arr(SubSeq(a, start + 1, start + del)))
Splice(a, s, d, ins) ==
    LET start == Rel(s, Len(a)) IN SpliceAt(a, start, Least(Most(d, 0), Len(a) - start), ins)
SpliceRest(a, s) == LET start == Rel(s, Len(a)) IN SpliceAt(a, start, Len(a) - start, <<>>)

\* fill(): take() up to the end, skip() to the start.
Fill(a, v, s, e) ==
    LET start == Rel(s, Len(a))
        end == Rel(e, Len(a))
    IN  Edited([i \in DOMAIN a |-> IF start < i /\ i <= end THEN v ELSE a[i]], Undef)

\* move_within(): from the end when the elements move up.
MoveWithin(a, src, dst, n) ==
    LET order == [k \in 1 .. n |-> IF src < dst THEN n + 1 - k ELSE k]
    IN  FoldLeft(LAMBDA b, i : [b EXCEPT ![dst + i] = b[src + i]], a, order)
CopyWithin(a, t, f, e) ==
    LET to == Rel(t, Len(a))
        from == Rel(f, Len(a))
        count == Least(Most(Rel(e, Len(a)) - from, 0), Len(a) - to)
    IN  Edited(MoveWithin(a, from, to, count), Undef)

\* set(): an element, the ones missing before it, or the length.
SetIndex(a, i, v) ==
    Edited([k \in 1 .. Most(Len(a), i + 1) |-> IF k = i + 1 THEN v ELSE IF k <= Len(a) THEN a[k] ELSE Undef], Undef)
SetLength(a, n) == Edited([k \in 1 .. n |-> IF k <= Len(a) THEN a[k] ELSE Undef], Undef)

\* The script calls one of these, inside a callback or outside.
Change(done) ==
    /\ edits < MaxEdits /\ edits' = edits + 1
    /\ arr' = done.a
    /\ UNCHANGED <<call, it, log, given>>

ChangeEnd == Change(PopLast(arr)) \/ \E v \in Elements : Change(Push(arr, v))
ChangeStart == Change(Shift(arr)) \/ \E v \in Elements : Change(Unshift(arr, v))
ChangeOrder == Change(ReverseAll(arr))
ChangeRange ==
    \E v \in Elements, s, e \in Args :
        Change(Splice(arr, s, e, <<v>>)) \/ Change(SpliceRest(arr, s)) \/ Change(Fill(arr, v, s, e))
ChangeWithin == \E t, f, e \in Args : Change(CopyWithin(arr, t, f, e))
ChangeLength ==
    \E v \in Elements, n \in Args \cap Nat : Change(SetIndex(arr, n, v)) \/ Change(SetLength(arr, n))

----------------------------------------------------------------------------
(* Methods that only read *)

Slice(a, s, e) == IF Rel(s, Len(a)) < Rel(e, Len(a)) THEN SubSeq(a, Rel(s, Len(a)) + 1, Rel(e, Len(a))) ELSE <<>>
Concat(a, v) == IF IsArr(v) THEN a \o v.items ELSE Append(a, v)
Position(a, k) == IF k >= 0 THEN k ELSE Len(a) + k
At(a, k) == LET i == Position(a, k) IN IF i < 0 \/ i >= Len(a) THEN Undef ELSE a[i + 1]
With(a, k, v) ==
    LET i == Position(a, k) IN IF i < 0 \/ i >= Len(a) THEN Undef ELSE Arr([a EXCEPT ![i + 1] = v])
IndexOf(a, v) == SelectInSeq(a, LAMBDA x : x = v) - 1
LastIndexOf(a, v) == SelectLastInSeq(a, LAMBDA x : x = v) - 1

\* flatten_into()
RECURSIVE FlattenInto(_, _, _)
FlattenInto(src, depth, out) ==
    FoldLeft(LAMBDA o, x : IF depth >= 1 /\ IsArr(x) THEN FlattenInto(x.items, depth - 1, o) ELSE Append(o, x),
             out, src)

----------------------------------------------------------------------------
(* Methods that call back *)

Upwards == {"forEach", "map", "filter", "some", "every", "find", "findIndex", "flatMap"}
Downwards == {"findLast", "findLastIndex"}
Folds == {"reduce", "reduceRight"}
Asks == {"flatMap", "findLast", "findLastIndex", "reduceRight"}   \* require_callable()
GoesUp(n) == n \in Upwards \cup {"reduce"}
InCall == call.st = "callback"

\* What a method is when its loop is through.
Final(c) ==
    CASE c.n \in {"map", "filter", "flatMap"} -> Arr(c.out)
      [] c.n \in Folds -> c.acc
      [] c.n = "some" -> Num(0)
      [] c.n = "every" -> Num(1)
      [] c.n \in {"findIndex", "findLastIndex"} -> Num(-1)
      [] OTHER -> Undef
Returned(c, v) == [c EXCEPT !.st = "returned", !.result = v]
Threw(c) == [c EXCEPT !.st = "threw"]

\* The loop is through at the length there was first; those that go upwards without
\* folding also stop where the array has become too short.
AtEnd(c, a) ==
    \/ ~GoesUp(c.n) /\ c.i < 0
    \/ GoesUp(c.n) /\ c.i >= c.len
    \/ c.n \in Upwards /\ c.i >= Len(a)

\* The element is read before the callback; a fold reads undefined where there is none.
Visit(c, a) ==
    IF AtEnd(c, a) THEN Returned(c, Final(c))
    ELSE IF ~c.callable THEN Threw(c)
    ELSE [c EXCEPT !.st = "callback", !.x = IF c.i < Len(a) THEN a[c.i + 1] ELSE Undef]

\* The call; reduce() without an initial value takes the first or the last element.
Begun(n, init, callable) ==
    LET len == Len(arr)
        c == [Idle EXCEPT !.n = n, !.len = len, !.callable = callable, !.init = init]
        first == IF GoesUp(n) THEN 0 ELSE len - 1
    IN  IF ~callable /\ n \in Asks THEN Threw(c)
        ELSE IF n \notin Folds THEN Visit([c EXCEPT !.i = first], arr)
        ELSE IF init # Undef THEN Visit([c EXCEPT !.i = first, !.acc = init], arr)
        ELSE IF len = 0 THEN Threw(c)
        ELSE Visit([c EXCEPT !.i = IF n = "reduce" THEN 1 ELSE len - 2, !.acc = arr[first + 1]], arr)
Begin ==
    /\ call = Idle
    /\ \E n \in Upwards \cup Downwards \cup Folds, init \in Elements \cup {Undef}, callable \in BOOLEAN :
          /\ n \notin Folds => init = Undef
          /\ call' = Begun(n, init, callable)
    /\ UNCHANGED <<arr, it, edits, log, given>>

\* Mutant: the element is read again after the callback.
FoundAgain(c, a) == IF c.i < Len(a) THEN a[c.i + 1] ELSE Undef
Found(c, a) == c.x

\* What a callback's answer makes of the call.
Decided(c, r) ==
    \/ c.n \in {"some", "find", "findIndex", "findLast", "findLastIndex"} /\ Truthy(r)
    \/ c.n = "every" /\ ~Truthy(r)
Decision(c, a) ==
    CASE c.n = "some" -> Num(1)
      [] c.n = "every" -> Num(0)
      [] c.n \in {"find", "findLast"} -> Found(c, a)
      [] OTHER -> Num(c.i)
Kept(c, r, a) ==
    CASE c.n = "map" -> <<r>>
      [] c.n = "filter" /\ Truthy(r) -> <<Found(c, a)>>
      [] c.n = "flatMap" -> IF IsArr(r) THEN r.items ELSE <<r>>
      [] OTHER -> <<>>
Taken(c, r, a) ==
    IF Decided(c, r) THEN Returned(c, Decision(c, a))
    ELSE Visit([c EXCEPT !.out = @ \o Kept(c, r, a), !.acc = IF c.n \in Folds THEN r ELSE @,
                         !.i = IF GoesUp(c.n) THEN @ + 1 ELSE @ - 1], a)
Answer ==
    /\ InCall
    /\ \E r \in Elements :
          /\ log' = Append(log, [i |-> call.i, x |-> call.x, r |-> r])
          /\ call' = Taken(call, r, arr)
    /\ UNCHANGED <<arr, it, edits, given>>
Throw ==
    /\ InCall
    /\ call' = Threw(call)
    /\ UNCHANGED <<arr, it, edits, log, given>>

----------------------------------------------------------------------------
(* Iterators *)

\* iter_step(): an iterator that found nothing is over.
After(a, pos) == IF pos # Done /\ pos < Len(a) THEN pos + 1 ELSE Done
IterNext ==
    /\ Len(given) < MaxNexts
    /\ it' = After(arr, it)
    /\ given' = Append(given, IF it # Done /\ it < Len(arr) THEN it ELSE Done)
    /\ UNCHANGED <<arr, call, edits, log>>

Next ==
    \/ ChangeEnd \/ ChangeStart \/ ChangeOrder \/ ChangeRange \/ ChangeWithin \/ ChangeLength
    \/ Begin \/ Answer \/ Throw \/ IterNext

Spec == Init /\ [][Next]_vars

----------------------------------------------------------------------------
\* A method that calls back asks about one position after the other, each once and never
\* beyond the length the array had first, however the callbacks change the array; it
\* stops at the first answer that decides, and is what the answers and the elements the
\* callbacks were given make it.
First(n, init) == IF n \in Folds /\ init = Undef THEN 1 ELSE 0
Expected(c) ==
    LET said == SelectSeq(log, LAMBDA l : Truthy(l.r))
        last == log[Len(log)]
    IN  CASE c.n = "map" -> Arr([k \in DOMAIN log |-> log[k].r])
          [] c.n = "filter" -> Arr([k \in DOMAIN said |-> said[k].x])
          [] c.n = "flatMap" -> Arr(FlattenSeq([k \in DOMAIN log |-> IF IsArr(log[k].r) THEN log[k].r.items ELSE <<log[k].r>>]))
          [] c.n = "some" -> Num(IF said = <<>> THEN 0 ELSE 1)
          [] c.n = "every" -> Num(IF Len(said) = Len(log) THEN 1 ELSE 0)
          [] c.n \in {"find", "findLast"} -> IF said = <<>> THEN Undef ELSE last.x
          [] c.n \in {"findIndex", "findLastIndex"} -> Num(IF said = <<>> THEN -1 ELSE last.i)
          [] c.n \in Folds /\ log # <<>> -> last.r
          [] OTHER -> c.result
CallFollowsAnswers ==
    /\ InCall => Len(log) + First(call.n, call.init) < call.len
    /\ \A k \in DOMAIN log :
          log[k].i = IF GoesUp(call.n) THEN k - 1 + First(call.n, call.init)
                     ELSE call.len - k - First(call.n, call.init)
    /\ \A k \in DOMAIN log : Decided(call, log[k].r) => k = Len(log) /\ call.st = "returned"
    /\ call.st = "returned" => call.result = Expected(call)

\* The methods leave each element where the standard says, in every array the script
\* can come to and for every argument, negative and out of range ones included: what
\* splice() took out and what it left make up the array before; an overlapping copy reads
\* what was there before; a search finds the outermost one; flat() to any depth keeps the
\* numbers in order.
From(s) == IF s < 0 THEN Most(Len(arr) + s, 0) ELSE Least(s, Len(arr))
CopySource(t, f, e, k) ==
    LET src == k - From(t) + From(f) IN IF k > From(t) /\ src <= From(e) THEN src ELSE k
Where(v) == {k \in DOMAIN arr : arr[k] = v}
RECURSIVE Leaves(_)
Leaves(a) == FlattenSeq([k \in DOMAIN a |-> IF IsArr(a[k]) THEN Leaves(a[k].items) ELSE <<a[k]>>])
Positions == 0 - Len(arr) - 1 .. Len(arr) + 1
MethodsAreExact == call = Idle /\ given = <<>> =>
    /\ \A s, e \in Positions, v \in Elements :
          LET done == Splice(arr, s, e, <<v>>)
              cut == Slice(arr, s, e)
              filled == Fill(arr, v, s, e).a
          IN  /\ arr = SubSeq(done.a, 1, From(s)) \o done.out.items \o SubSeq(done.a, From(s) + 2, Len(done.a))
              /\ Len(cut) = Most(From(e) - From(s), 0)
              /\ \A k \in DOMAIN cut : cut[k] = arr[From(s) + k]
              /\ \A k \in DOMAIN arr : filled[k] = IF k \in From(s) + 1 .. From(e) THEN v ELSE arr[k]
    /\ \A s \in Positions : arr = SpliceRest(arr, s).a \o SpliceRest(arr, s).out.items
    /\ \A t, f, e \in Positions : CopyWithin(arr, t, f, e).a = [k \in DOMAIN arr |-> arr[CopySource(t, f, e, k)]]
    /\ \A v \in Elements :
          /\ IF Where(v) = {} THEN IndexOf(arr, v) = -1 /\ LastIndexOf(arr, v) = -1
             ELSE /\ {IndexOf(arr, v) + 1, LastIndexOf(arr, v) + 1} \subseteq Where(v)
                  /\ Where(v) \subseteq IndexOf(arr, v) + 1 .. LastIndexOf(arr, v) + 1
          /\ \A k \in Positions : LET set == With(arr, k, v)
                                  IN  set # Undef => /\ At(set.items, k) = v
                                                     /\ ReplaceAt(set.items, Position(arr, k) + 1, At(arr, k)) = arr
    /\ \A d \in Positions : Leaves(FlattenInto(arr, d, <<>>)) = Leaves(arr)

\* The positions an iterator gives rise one by one, and once it is over it is over, also
\* when the array grows again.
IteratorsEndOnce ==
    \A k \in 1 .. Len(given) - 1 :
        given[k + 1] = Done \/ (given[k] # Done /\ given[k + 1] = given[k] + 1)

\* What goes over an array, call or iterator, survives its changes.
LoopsSurviveChanges == CallFollowsAnswers /\ IteratorsEndOnce
=============================================================================
