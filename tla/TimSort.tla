------------------------------ MODULE TimSort ------------------------------
(***************************************************************************)
(* Array.prototype.sort and toSorted of the script interpreter             *)
(* (src/payload/exec.rs): the defined elements are copied, sorted by       *)
(* timsort() with a comparison function that is a function of the script,  *)
(* and written back.                                                       *)
(*                                                                         *)
(* An element is its place in the array before the sort.  The comparison   *)
(* either compares ranks, or is wild: any answer to any question, the same *)
(* question twice included.  The code only asks whether an answer is below *)
(* zero, so an answer is a Boolean.  What a function asks in one loop, at  *)
(* most once at each index, it asks here in one step.  Indices are those   *)
(* of the code, from 0.                                                    *)
(***************************************************************************)
EXTENDS Integers, Sequences, FiniteSets, SequencesExt, FiniteSetsExt

CONSTANTS
    Inputs,      \* [items, callable, wild, copy]: a sequence of ranks or Undef; is the
                 \* comparison a function? is it wild? is the call toSorted?
    MinGallop,   \* SORT_MIN_GALLOP
    MinMerge,    \* SORT_MIN_MERGE
    MaxTouches   \* bound: how often comparisons change the array's length

Undef == -1      \* Val::Undef
Extra == 0       \* what a comparison pushes onto the array

\* MAX_ARRAY, 2^24, here a bound on every array; and the powers of two up to there.
MaxArray == 16777216
Powers == {1, 2, 4, 8, 16, 32, 64, 128, 256, 512, 1024, 2048, 4096, 8192, 16384, 32768, 65536,
           131072, 262144, 524288, 1048576, 2097152, 4194304, 8388608, MaxArray}

ASSUME InputsAssumption ==
    \A i \in Inputs : /\ i.items \in Seq(Nat \cup {Undef}) /\ Len(i.items) <= MaxArray
                      /\ {i.callable, i.wild, i.copy} \subseteq BOOLEAN

ASSUME BoundsAssumption ==
    MinGallop \in Nat \ {0} /\ MinMerge \in Nat \ {0, 1} /\ MaxTouches \in Nat

VARIABLES
    input,      \* the call, a member of Inputs
    arr,        \* the array: elements, Undef and Extra
    out,        \* what the call returned
    pc,         \* where timsort() is
    w,          \* the copy being sorted
    low,        \* where the unsorted rest begins
    start,      \* binary_insertion_sort(): [at, high], next pivot and end
    runs,       \* stack of [base, len]
    merge,      \* state of merge_low() or merge_high()
    minGallop,  \* min_gallop
    touches     \* changes of length so far

vars == <<input, arr, out, pc, w, low, start, runs, merge, minGallop, touches>>

Items == input.items
Elements == {e \in DOMAIN Items : Items[e] # Undef}
N == Cardinality(Elements)

\* The elements in the order of the array, from 0.
InOrder(i) == CHOOSE e \in Elements : Cardinality({d \in Elements : d < e}) = i

\* merge_low() and merge_high() are mirror images.  Of the runs A and B the one
\* copied to tmp is A in the first and B in the second; the first fills the gap
\* from its low end, the second from its high end.
NoMerge == [side |-> "none", back |-> "none", tmp |-> <<>>, dest |-> 0, ct |-> 0, cw |-> 0,
            len |-> [A |-> 0, B |-> 0], won |-> [A |-> 0, B |-> 0], mg |-> 0]

Init ==
    /\ input \in Inputs
    /\ arr = [e \in DOMAIN Items |-> IF Items[e] = Undef THEN Undef ELSE e]
    /\ out = <<>>
    /\ pc = IF ~input.callable THEN "threw" ELSE IF N < 2 THEN "sorted" ELSE "run"
    /\ w = [i \in 0 .. N - 1 |-> InOrder(i)]
    /\ low = 0
    /\ start = [at |-> 0, high |-> 0]
    /\ runs = <<>>
    /\ merge = NoMerge
    /\ minGallop = MinGallop
    /\ touches = 0

----------------------------------------------------------------------------
(* Comparisons and searches *)

\* sort_compare(x, y) < 0, for the pair asked at each index: the answers there can be.
Answers(asked) ==
    IF input.wild THEN [DOMAIN asked -> BOOLEAN]
    ELSE {[i \in DOMAIN asked |-> Items[asked[i][1]] < Items[asked[i][2]]]}

\* The elements a[base ..] that gallop_right() takes to come before key.
NotAbove(a, key, base, length) ==
    {[i \in 0 .. length - 1 |-> ~above[i]] :
        above \in Answers([i \in 0 .. length - 1 |-> <<key, a[base + i]>>])}

\* Mutant: gallop_left() passes over equals.
BelowOrEqual(a, key, base, length) == NotAbove(a, key, base, length)

\* The elements that gallop_left() takes to come before key.
Below(a, key, base, length) ==
    Answers([i \in 0 .. length - 1 |-> <<a[base + i], key>>])

\* Halving lo .. hi until it is empty, which it is after 25 times at most.
Halved(before, s) ==
    LET m == s.l + (s.h - s.l) \div 2
    IN  IF s.l >= s.h THEN s
        ELSE IF before[m] THEN [l |-> m + 1, h |-> s.h] ELSE [l |-> s.l, h |-> m]
Bisect(before, lo, hi) ==
    LET left[k \in 0 .. 25] ==
            IF k = 0 THEN [l |-> lo, h |-> hi] ELSE Halved(before, left[k - 1])
    IN  left[25].h

\* The offset 1, 3, 7, ... at which a search that goes on while go stops.
Stride(max, go) ==
    Min({o \in {2 * p - 1 : p \in Powers} : o >= max \/ ~go[o]})

\* gallop_left() and gallop_right(): strides away from hint, then halving.
Gallop(before, length, hint) ==
    IF before[hint]
    THEN LET max == length - hint
             o == Stride(max, [x \in 1 .. max - 1 |-> before[hint + x]])
             cut == IF o > max THEN max ELSE o
         IN  Bisect(before, hint + (o - 1) \div 2 + 1, hint + cut)
    ELSE LET max == hint + 1
             o == Stride(max, [x \in 1 .. max - 1 |-> ~before[hint - x]])
             cut == IF o > max THEN max ELSE o
         IN  Bisect(before, hint - cut + 1, hint - (o - 1) \div 2)

\* move_within(), and copying out of another vector.
Moved(f, g, src, dst, n) ==
    [i \in DOMAIN f |-> IF dst <= i /\ i < dst + n THEN g[src + i - dst] ELSE f[i]]

----------------------------------------------------------------------------
(* Runs *)

\* min_run_length(): the leading bits, plus one if any bit after them is set.
MinRun ==
    LET p == Min({q \in Powers : N \div q < MinMerge})
    IN  N \div p + (IF N % p > 0 THEN 1 ELSE 0)

\* A run is pushed; the collapse of the stack comes next.
PushRun(len) ==
    /\ runs' = Append(runs, [base |-> low, len |-> len])
    /\ low' = low + len
    /\ pc' = "collapse"

\* count_and_make_run(): how far the order of the first two goes on.
RunLength(less) ==
    Min({i \in low + 2 .. N : i = N \/ less[i] # less[low + 1]}) - low

\* count_and_make_run(), and what timsort() makes of the run.
MakeRun ==
    /\ pc = "run"
    /\ \E less \in Answers([i \in low + 1 .. N - 1 |-> <<w[i], w[i - 1]>>]) :
          LET run == IF low + 1 = N THEN 1 ELSE RunLength(less)
              forced == Min({MinRun, N - low})
          IN  /\ w' = IF run > 1 /\ less[low + 1]
                      THEN [i \in DOMAIN w |-> IF low <= i /\ i < low + run
                                               THEN w[2 * low + run - 1 - i] ELSE w[i]]
                      ELSE w
              /\ IF run < forced
                 THEN /\ pc' = "insert"
                      /\ start' = [at |-> low + run, high |-> low + forced]
                      /\ UNCHANGED <<low, runs>>
                 ELSE PushRun(run) /\ UNCHANGED start
    /\ UNCHANGED <<input, arr, out, merge, minGallop, touches>>

\* Mutant: start is not advanced.
InsertAgain ==
    /\ pc = "insert"
    /\ \E above \in Answers([i \in low .. start.at - 1 |-> <<w[start.at], w[i]>>]) :
          LET left == Bisect([i \in DOMAIN above |-> ~above[i]], low, start.at)
          IN  w' = [Moved(w, w, left, left + 1, start.at - left) EXCEPT ![left] = w[start.at]]
    /\ UNCHANGED <<input, arr, out, pc, low, start, runs, merge, minGallop, touches>>

\* binary_insertion_sort(): one pivot.
Insert ==
    /\ pc = "insert"
    /\ \E above \in Answers([i \in low .. start.at - 1 |-> <<w[start.at], w[i]>>]) :
          LET left == Bisect([i \in DOMAIN above |-> ~above[i]], low, start.at)
          IN  w' = [Moved(w, w, left, left + 1, start.at - left) EXCEPT ![left] = w[start.at]]
    /\ IF start.at + 1 = start.high
       THEN PushRun(start.high - low) /\ UNCHANGED start
       ELSE start' = [start EXCEPT !.at = @ + 1] /\ UNCHANGED <<pc, low, runs>>
    /\ UNCHANGED <<input, arr, out, merge, minGallop, touches>>

\* run_invariant(), k being the number of runs up to and including the one meant.
RunInvariant(k) == k < 3 \/ runs[k - 2].len > runs[k - 1].len + runs[k].len

\* Which run is merged with the one above it; 0 for none.
CollapseAt ==
    LET k == Len(runs)
    IN  IF k < 2 THEN 0
        ELSE IF ~RunInvariant(k) \/ ~RunInvariant(k - 1)
             THEN IF runs[k - 2].len < runs[k].len THEN k - 2 ELSE k - 1
             ELSE IF runs[k - 1].len <= runs[k].len THEN k - 1 ELSE 0

\* The same, once all runs are on the stack.
FinalAt ==
    LET k == Len(runs)
    IN  IF k < 2 THEN 0
        ELSE IF k > 2 /\ runs[k - 2].len < runs[k].len THEN k - 2 ELSE k - 1

----------------------------------------------------------------------------
(* Merging *)

InTmp(m) == IF m.side = "low" THEN "A" ELSE "B"
InW(m) == IF m.side = "low" THEN "B" ELSE "A"

\* The next element of a run, and the place of the first of those left of it.
Cursor(m, run) == IF run = InTmp(m) THEN m.ct ELSE m.cw
Source(m, v, run) == IF run = InTmp(m) THEN m.tmp ELSE v
Next1(m, v, run) == Source(m, v, run)[Cursor(m, run)]
First(m, run) == IF m.side = "low" THEN Cursor(m, run) ELSE Cursor(m, run) - m.len[run] + 1

\* k elements of a run go to the gap: what w becomes, and what the merge.
Filled(m, v, run, k) ==
    IF m.side = "low" THEN Moved(v, Source(m, v, run), Cursor(m, run), m.dest, k)
    ELSE Moved(v, Source(m, v, run), Cursor(m, run) - k + 1, m.dest - k + 1, k)

Taken(m, run, k) ==
    LET d == IF m.side = "low" THEN k ELSE 0 - k
    IN  [m EXCEPT !.dest = @ + d, !.len[run] = @ - k,
                  !.ct = IF run = InTmp(m) THEN @ + d ELSE @,
                  !.cw = IF run = InW(m) THEN @ + d ELSE @]

Outcome(m) ==
    CASE m.len[InW(m)] = 0 -> "succeed"
      [] m.len[InW(m)] > 0 /\ m.len[InTmp(m)] = 1 -> "copy"
      [] m.len[InW(m)] > 0 /\ m.len[InTmp(m)] = 0 -> "succeed"
      [] OTHER -> "go"

\* The merge ends with m: the rest of tmp, or the rest of w and the last of tmp.
EndMerge(m, v) ==
    /\ w' = IF Outcome(m) = "succeed" THEN Filled(m, v, InTmp(m), m.len[InTmp(m)])
            ELSE LET r == m.len[InW(m)]
                 IN  Filled(Taken(m, InW(m), r), Filled(m, v, InW(m), r), InTmp(m), 1)
    /\ merge' = NoMerge
    /\ pc' = m.back

\* The merge is at m with v in place of w, and goes on at next unless it is over.
Proceed(m, v, next) ==
    IF Outcome(m) = "go" THEN w' = v /\ merge' = m /\ pc' = next ELSE EndMerge(m, v)

\* merge_low() or merge_high() up to their loop.
BeginMerge(baseA, lenA, baseB, lenB, back) ==
    LET isLow == lenA <= lenB
        base == IF isLow THEN baseA ELSE baseB
        size == IF isLow THEN lenA ELSE lenB
        m == [side |-> IF isLow THEN "low" ELSE "high", back |-> back,
              tmp |-> [i \in 0 .. size - 1 |-> w[base + i]],
              dest |-> IF isLow THEN baseA ELSE baseB + lenB - 1,
              ct |-> IF isLow THEN 0 ELSE lenB - 1,
              cw |-> IF isLow THEN baseB ELSE baseA + lenA - 1,
              len |-> [A |-> lenA, B |-> lenB], won |-> [A |-> 0, B |-> 0], mg |-> minGallop]
    IN  Proceed(Taken(m, InW(m), 1), Filled(m, w, InW(m), 1), "single")

\* merge_at(): what is already in place at both ends stays out of the merge.
MergeAt(i, back) ==
    LET a == runs[i]
        b == runs[i + 1]
        skip == {Gallop(f, a.len, 0) : f \in NotAbove(w, w[b.base], a.base, a.len)}
        last == w[a.base + a.len - 1]
        keep == {Gallop(f, b.len, b.len - 1) : f \in Below(w, last, b.base, b.len)}
    IN  /\ runs' = SubSeq(runs, 1, i - 1) \o <<[a EXCEPT !.len = @ + b.len]>>
                       \o SubSeq(runs, i + 2, Len(runs))
        /\ \E k \in skip, n \in keep :
              IF k = a.len \/ n = 0
              THEN pc' = back /\ UNCHANGED <<w, merge>>
              ELSE BeginMerge(a.base + k, a.len - k, b.base, n, back)

\* The loop that restores the invariant of the stack after a run was pushed.
Collapse ==
    /\ pc = "collapse"
    /\ IF CollapseAt = 0
       THEN pc' = (IF low = N THEN "final" ELSE "run") /\ UNCHANGED <<w, merge, runs>>
       ELSE MergeAt(CollapseAt, "collapse")
    /\ UNCHANGED <<input, arr, out, low, start, minGallop, touches>>

\* The loop that merges what is left.
FinalCollapse ==
    /\ pc = "final"
    /\ IF FinalAt = 0
       THEN pc' = "sorted" /\ UNCHANGED <<w, merge, runs>>
       ELSE MergeAt(FinalAt, "final")
    /\ UNCHANGED <<input, arr, out, low, start, minGallop, touches>>

\* One comparison; a run that wins mg times in a row is galloped through.
Single ==
    /\ pc = "single"
    /\ LET m == merge
           asked == IF m.side = "low" THEN <<w[m.cw], m.tmp[m.ct]>> ELSE <<m.tmp[m.ct], w[m.cw]>>
       IN  \E less \in Answers([i \in {0} |-> asked]) :
             LET run == IF less[0] THEN InW(m) ELSE InTmp(m)
                 wins == m.won[run] + 1
                 m1 == [Taken(m, run, 1) EXCEPT
                          !.won = [[A |-> 0, B |-> 0] EXCEPT ![run] = wins],
                          !.mg = IF wins >= m.mg THEN @ + 1 ELSE @]
             IN  Proceed(m1, Filled(m, w, run, 1), IF wins >= m.mg THEN "gallopA" ELSE "single")
    /\ UNCHANGED <<input, arr, out, low, start, runs, minGallop, touches>>

\* How many of the n elements left of a run a gallop that found k puts in place.
Won(m, n, k) == IF m.side = "low" THEN k ELSE n - k
Hint(m, n) == IF m.side = "low" THEN 0 ELSE n - 1

\* The elements of A that go before the next of B, and that one.
GallopA ==
    /\ pc = "gallopA"
    /\ LET mg == IF merge.mg - 1 > 1 THEN merge.mg - 1 ELSE 1
           m == [merge EXCEPT !.mg = mg]
           n == m.len["A"]
       IN  /\ minGallop' = mg
           /\ \E f \in NotAbove(Source(m, w, "A"), Next1(m, w, "B"), First(m, "A"), n) :
                 LET k == Won(m, n, Gallop(f, n, Hint(m, n)))
                     m1 == [Taken(m, "A", k) EXCEPT !.won["A"] = k]
                     v1 == Filled(m, w, "A", k)
                 IN  IF Outcome(m1) # "go" THEN EndMerge(m1, v1)
                     ELSE Proceed(Taken(m1, "B", 1), Filled(m1, v1, "B", 1), "gallopB")
    /\ UNCHANGED <<input, arr, out, low, start, runs, touches>>

\* The elements of B that go before the next of A, and that one.
GallopB ==
    /\ pc = "gallopB"
    /\ LET m == merge
           n == m.len["B"]
       IN  \E f \in Below(Source(m, w, "B"), Next1(m, w, "A"), First(m, "B"), n) :
             LET k == Won(m, n, Gallop(f, n, Hint(m, n)))
                 m1 == Taken(m, "B", k)
                 v1 == Filled(m, w, "B", k)
                 again == k >= MinGallop \/ m.won["A"] >= MinGallop
                 m2 == [Taken(m1, "A", 1) EXCEPT
                          !.won = IF again THEN [@ EXCEPT !["B"] = k] ELSE [A |-> 0, B |-> 0],
                          !.mg = IF again THEN @ ELSE @ + 1]
             IN  IF Outcome(m1) # "go" THEN EndMerge(m1, v1) /\ UNCHANGED minGallop
                 ELSE /\ Proceed(m2, Filled(m1, v1, "A", 1), IF again THEN "gallopA" ELSE "single")
                      /\ minGallop' = IF again \/ Outcome(m2) # "go" THEN minGallop ELSE m2.mg
    /\ UNCHANGED <<input, arr, out, low, start, runs, touches>>

----------------------------------------------------------------------------
(* The call *)

\* A comparison is being made.
Comparing ==
    \/ pc \in {"insert", "single", "gallopA", "gallopB"}
    \/ pc = "run" /\ low + 1 < N
    \/ pc = "collapse" /\ CollapseAt # 0
    \/ pc = "final" /\ FinalAt # 0

\* The comparison throws, and so does the call.
Throw ==
    /\ Comparing
    /\ pc' = "threw"
    /\ UNCHANGED <<input, arr, out, w, low, start, runs, merge, minGallop, touches>>

\* The comparison, being the script's, makes the array longer or shorter.
Touch ==
    /\ Comparing
    /\ touches < MaxTouches
    /\ touches' = touches + 1
    /\ arr' \in {Append(arr, Extra), SubSeq(arr, 1, Len(arr) - 1)}
    /\ UNCHANGED <<input, out, pc, w, low, start, runs, merge, minGallop>>

\* Writing back: places the array lost meanwhile are made anew.
WriteBack(a, work) ==
    [i \in 1 .. Max({Len(a), Len(work)}) |-> IF i <= Len(work) THEN work[i] ELSE a[i]]

\* The undefined elements go last; sort writes back, toSorted does not.
Finish ==
    /\ pc = "sorted"
    /\ pc' = "done"
    /\ LET work == [i \in 1 .. Len(Items) |-> IF i <= N THEN w[i - 1] ELSE Undef]
       IN  /\ arr' = IF input.copy THEN arr ELSE WriteBack(arr, work)
           /\ out' = IF input.copy THEN work ELSE arr'
    /\ UNCHANGED <<input, w, low, start, runs, merge, minGallop, touches>>

Returned ==
    /\ pc \in {"done", "threw"}
    /\ UNCHANGED vars

Next ==
    \/ MakeRun \/ Insert \/ Collapse \/ FinalCollapse \/ Single \/ GallopA \/ GallopB
    \/ Throw \/ Touch \/ Finish \/ Returned

Spec == Init /\ [][Next]_vars

----------------------------------------------------------------------------
(* Properties *)

\* Cursors, the gap and the runs stay within the copy: no index is out of range,
\* whatever comparisons answer, and the runs lie side by side.
TypeOK ==
    /\ pc \in {"run", "insert", "collapse", "final", "single", "gallopA", "gallopB",
               "sorted", "done", "threw"}
    /\ w \in [0 .. N - 1 -> Elements]
    /\ low \in 0 .. N
    /\ pc = "insert" => low < start.at /\ start.at < start.high /\ start.high <= N
    /\ \A i \in DOMAIN runs :
          /\ runs[i].len > 0
          /\ runs[i].base + runs[i].len = IF i = Len(runs) THEN low ELSE runs[i + 1].base
    /\ merge.side # "none" =>
          /\ merge.mg > 0 /\ merge.len["A"] > 0 /\ merge.len["B"] > 0
          /\ \A run \in {"A", "B"} :
                First(merge, run) .. First(merge, run) + merge.len[run] - 1
                   \subseteq DOMAIN Source(merge, w, run)
    /\ minGallop > 0 /\ touches \in 0 .. MaxTouches

\* The places of w whose elements are in tmp.
Gap ==
    LET n == merge.len[InTmp(merge)]
    IN  IF merge.side = "none" THEN {}
        ELSE IF merge.side = "low" THEN merge.dest .. merge.dest + n - 1
        ELSE merge.dest - n + 1 .. merge.dest

\* At every step of a merge each element is in w, outside the gap, or in what is
\* left of tmp, even when comparisons contradict each other: moving elements over
\* the gap never overwrites one that was not yet moved.
NothingLost ==
    Elements = {w[i] : i \in DOMAIN w \ Gap} \cup
               {merge.tmp[First(merge, InTmp(merge)) + j - 1] : j \in 1 .. Cardinality(Gap)}

Precedes(x, y) == Items[x] < Items[y] \/ (Items[x] = Items[y] /\ x < y)

\* With a consistent comparison the result is sorted and equals stay in order.
SortedStably ==
    pc = "done" /\ ~input.wild => \A i \in 2 .. N : Precedes(out[i - 1], out[i])

\* Comparisons that contradict each other, or change the array's length, cannot
\* make sort() lose an element, repeat one or move an undefined one forward.
ResultIsComplete ==
    pc = "done" => /\ Len(out) >= Len(Items)
                   /\ {out[i] : i \in 1 .. N} = Elements
                   /\ \A i \in N + 1 .. Len(Items) : out[i] = Undef

\* Before the next run is looked for, the lengths on the whole stack, not only at
\* its top, fall faster than Fibonacci numbers: this is what bounds the stack.
StackFalls ==
    pc = "run" => \A k \in 2 .. Len(runs) :
                    RunInvariant(k) /\ runs[k - 1].len > runs[k].len

\* Nothing is lost, repeated or out of order, in the copy or in the array.
SortIsExact == TypeOK /\ NothingLost /\ SortedStably /\ ResultIsComplete /\ StackFalls

\* What is left to do: elements not in a run yet, runs not merged yet, and within
\* these the elements not merged or inserted yet.
ToDo ==
    LET here == CASE pc = "threw" -> 0
                  [] pc # "threw" /\ merge.side # "none" -> 2 * N + 4 + merge.len["A"] + merge.len["B"]
                  [] pc = "collapse" -> 2 * N + 4
                  [] pc \in {"run", "final"} /\ merge.side = "none" -> 2 * N + 3
                  [] pc = "insert" -> 2 + start.high - start.at
                  [] pc = "sorted" -> 1
                  [] OTHER -> 0
    IN  ((N - low) * (N + 1) + Len(runs)) * (4 * N + 5) + here

\* Every step of the code leaves less to do, so sort() ends, and ends no later,
\* when comparisons contradict each other.
AlwaysCloser == [][touches' # touches \/ ToDo' < ToDo]_vars
=============================================================================
