------------------------------- MODULE Objects -------------------------------
(***************************************************************************)
(* Objects of the script interpreter (src/payload/exec.rs): lists of named *)
(* properties, some of which are accessors, that is, have a getter and a   *)
(* setter instead of a value.  A place in the code that reads one constant *)
(* name keeps where it found it last, for whichever object that was.       *)
(*                                                                         *)
(* Getters and setters are functions of the script: while one runs, any    *)
(* other operation can happen.  Properties are never removed.              *)
(***************************************************************************)
EXTENDS Integers, FiniteSets, SequencesExt

CONSTANTS
    Keys,        \* names
    Data,        \* values that are no objects
    KeyAt,       \* by place in the code: the name it reads
    NoObjects,   \* how many objects there are
    MaxSteps     \* bound on the operations of the script

VARIABLES
    heap,    \* by object: the properties, [n, v], in the order they were made
    ic,      \* by place in the code: a position in a list of properties
    stack,   \* getters, setters and assignments under way, the innermost last
    steps    \* operations so far

objectVars == <<heap, ic, stack, steps>>

Undefined == <<"undef", 0>>
Datum(d) == <<"data", d>>
Accessor(get, set) == <<"accessor", [get |-> get, set |-> set]>>
IsAccessor(v) == v[1] = "accessor"
Prop(n, v) == [n |-> n, v |-> v]

\* Frames: a getter whose value the script wants, or an assignment; a setter; a loop of
\* Object.assign() with the names that are left.
Getting == [k |-> "getter", src |-> 0, dst |-> 0, rest |-> <<>>]
Setting == [k |-> "setter", src |-> 0, dst |-> 0, rest |-> <<>>]
Assigning(src, dst, rest) == [k |-> "assign", src |-> src, dst |-> dst, rest |-> rest]

ObjectsInit ==
    /\ heap = [o \in 1 .. NoObjects |-> <<>>]
    /\ ic = [s \in DOMAIN KeyAt |-> 1]
    /\ stack = <<>> /\ steps = 0

----------------------------------------------------------------------------
(* Looking up a name.  An answer is a value, or the call of a getter.      *)

Find(p, n) == SelectInSeq(p, LAMBDA q : q.n = n)
Value(v) == [v |-> v, call |-> FALSE]
GetterCall == [v |-> Undefined, call |-> TRUE]

\* get(): an accessor without a getter is undefined.
AnswerOf(v) ==
    IF ~IsAccessor(v) THEN Value(v)
    ELSE IF v[2].get THEN GetterCall ELSE Value(Undefined)
Get(p, n) == IF Find(p, n) = 0 THEN Value(Undefined) ELSE AnswerOf(p[Find(p, n)].v)

\* Mutant: where the name was last time is where it is.
HitUnchecked(p, n, at) == at \in DOMAIN p

\* plain_ic(): the position kept is good if the name there is the one that is read.
Hit(p, n, at) == at \in DOMAIN p /\ p[at].n = n
Place(p, n, at) == IF Hit(p, n, at) THEN at ELSE Find(p, n)
KeptPlace(p, n, at) == IF Place(p, n, at) = 0 THEN at ELSE Place(p, n, at)

\* A read of a constant name: by the position, unless the property is an accessor.
Cached(p, n, at) ==
    LET i == Place(p, n, at)
    IN  IF i = 0 THEN Get(p, n) ELSE IF IsAccessor(p[i].v) THEN Get(p, n) ELSE Value(p[i].v)

----------------------------------------------------------------------------
(* Writing *)

\* define_raw() and the last part of set().
Define(p, n, v) ==
    IF Find(p, n) = 0 THEN Append(p, Prop(n, v)) ELSE [p EXCEPT ![Find(p, n)].v = v]

\* accessor_slot(), and set() of w, [heap, stack]: a setter is called, if there is one.
IsAccessorOf(p, n) == Find(p, n) # 0 /\ IsAccessor(p[Find(p, n)].v)
Set(w, o, n, v) ==
    IF ~IsAccessorOf(w.heap[o], n) THEN [w EXCEPT !.heap[o] = Define(@, n, v)]
    ELSE IF w.heap[o][Find(w.heap[o], n)].v[2].set THEN [w EXCEPT !.stack = Append(@, Setting)]
    ELSE w

----------------------------------------------------------------------------
(* The script *)

InControl == stack # <<>> => Last(stack).k \in {"getter", "setter"}
Step == InControl /\ steps < MaxSteps /\ steps' = steps + 1
Plain == {Datum(d) : d \in Data}
Values == Plain \cup {Undefined}
Descriptors == {Accessor(g, s) : g, s \in BOOLEAN}
Becomes(w) == heap' = w.heap /\ stack' = w.stack
World == [heap |-> heap, stack |-> stack]

\* What a read calls, if it calls anything.
Deliver(a) == stack' = IF a.call THEN Append(stack, Getting) ELSE stack

\* A member of a constant name.
ReadAt ==
    /\ Step
    /\ \E s \in DOMAIN KeyAt, o \in DOMAIN heap :
          /\ Deliver(Cached(heap[o], KeyAt[s], ic[s]))
          /\ ic' = [ic EXCEPT ![s] = KeptPlace(heap[o], KeyAt[s], @)]
    /\ UNCHANGED heap

\* A member of a computed name.
ReadKey ==
    /\ Step
    /\ \E n \in Keys, o \in DOMAIN heap : Deliver(Get(heap[o], n))
    /\ UNCHANGED <<heap, ic>>

Write ==
    /\ Step
    /\ \E n \in Keys, o \in DOMAIN heap, v \in Values : Becomes(Set(World, o, n, v))
    /\ UNCHANGED ic

\* Object.defineProperty(): what the descriptor does not say is undefined.
DefineProperty ==
    /\ Step
    /\ \E n \in Keys, o \in DOMAIN heap, v \in Values \cup Descriptors :
          heap' = [heap EXCEPT ![o] = Define(@, n, v)]
    /\ UNCHANGED <<ic, stack>>

\* An object literal, in place of one of the objects.
Literal ==
    /\ Step
    /\ \E o \in DOMAIN heap, n, m \in Keys, v, u \in Plain :
          heap' = [heap EXCEPT ![o] = Define(Define(<<>>, n, v), m, u)]
    /\ ~ \E f \in ToSet(stack) : f.k = "assign"
    /\ UNCHANGED <<ic, stack>>

\* Object.assign() takes the names first, and then reads and writes one by one.
Assign ==
    /\ Step
    /\ \E src, dst \in DOMAIN heap :
          stack' = Append(stack, Assigning(src, dst, [i \in DOMAIN heap[src] |-> heap[src][i].n]))
    /\ UNCHANGED <<heap, ic>>

AssignOne ==
    /\ stack # <<>> /\ Last(stack).k = "assign" /\ Last(stack).rest # <<>>
    /\ LET f == Last(stack)
           a == Get(heap[f.src], Head(f.rest))
           below == Front(stack)
       IN  Becomes(IF a.call THEN [World EXCEPT !.stack = Append(@, Getting)]
                   ELSE Set([heap |-> heap, stack |-> Append(below, [f EXCEPT !.rest = Tail(@)])],
                            f.dst, Head(f.rest), a.v))
    /\ UNCHANGED <<ic, steps>>
AssignEnd ==
    /\ stack # <<>> /\ Last(stack).k = "assign" /\ Last(stack).rest = <<>>
    /\ stack' = Front(stack)
    /\ UNCHANGED <<heap, ic, steps>>

\* A getter or setter returns; the assignment that called a getter writes its value.
Return ==
    /\ InControl /\ stack # <<>>
    /\ \E v \in Values :
          LET below == Front(stack)
              f == Last(below)
          IN  IF Last(stack).k = "setter" THEN stack' = below /\ UNCHANGED heap
              ELSE IF below # <<>> /\ f.k = "assign"
              THEN Becomes(Set([heap |-> heap, stack |-> Append(Front(below), [f EXCEPT !.rest = Tail(@)])],
                               f.dst, Head(f.rest), v))
              ELSE stack' = below /\ UNCHANGED heap
    /\ UNCHANGED <<ic, steps>>

\* A getter or setter throws, and nothing under way catches it.
ThrowOut ==
    /\ InControl /\ stack # <<>>
    /\ stack' = <<>>
    /\ UNCHANGED <<heap, ic, steps>>

ObjectsNext ==
    \/ ReadAt \/ ReadKey \/ Write \/ DefineProperty \/ Literal
    \/ Assign \/ AssignOne \/ AssignEnd \/ Return \/ ThrowOut

ObjectsSpec == ObjectsInit /\ [][ObjectsNext]_objectVars

----------------------------------------------------------------------------
\* A read that goes by the position kept at its place in the code answers what a full
\* lookup answers, for every object and however the objects, their shapes and their
\* accessors changed since the position was kept.  It rests on names being unique.
UniqueNames == \A o \in DOMAIN heap : \A i, j \in DOMAIN heap[o] : heap[o][i].n = heap[o][j].n => i = j
CachedReadIsLookup ==
    /\ UniqueNames
    /\ \A s \in DOMAIN KeyAt, o \in DOMAIN heap :
          Cached(heap[o], KeyAt[s], ic[s]) = Get(heap[o], KeyAt[s])
=============================================================================
