---------------------------- MODULE ScriptProofs ----------------------------
(***************************************************************************)
(* What holds of the script interpreter (src/payload/exec.rs) whatever the *)
(* script does: the cached positions of properties (Objects), and its sort *)
(* (TimSort): the stack of runs, that nothing is lost, and the order.      *)
(***************************************************************************)
EXTENDS TimSort, Objects, FiniteSetTheorems, SequenceTheorems, WellFoundedInduction, TLAPS

\* A set of naturals that is not empty has a least element.
LEMMA LeastNumber ==
    ASSUME NEW T, T \subseteq Nat, T # {}
    PROVE  \E x \in T : \A y \in T : x <= y
<1>1. PICK x \in T : \A y \in T : ~(y < x)
  <2>1. IsWellFoundedOn(OpToRel(<, Nat), Nat)
    BY NatLessThanWellFounded
  <2>2. \E x \in T : \A y \in T : <<y, x>> \notin OpToRel(<, Nat)
    BY <2>1, WFMin, Zenon
  <2> QED BY <2>2, Zenon DEF OpToRel
<1> QED BY <1>1

LEMMA MinIs ==
    ASSUME NEW T, T \subseteq Nat, T # {}
    PROVE  Min(T) \in T /\ \A y \in T : Min(T) <= y
  BY LeastNumber DEF Min

IsSeq(s) == \E S : s \in Seq(S)

\* What Append() adds comes last, and nothing else changes.
LEMMA Appended ==
    ASSUME NEW s, IsSeq(s), NEW e
    PROVE  /\ IsSeq(Append(s, e)) /\ Len(s) \in Nat
           /\ Len(Append(s, e)) = Len(s) + 1
           /\ \A p \in 1 .. Len(s) : Append(s, e)[p] = s[p]
           /\ Append(s, e)[Len(s) + 1] = e
           /\ DOMAIN s = 1 .. Len(s) /\ DOMAIN Append(s, e) = 1 .. Len(s) + 1
<1>1. PICK S : s \in Seq(S)
  BY DEF IsSeq
<1>2. s \in Seq(S \cup {e})
  BY <1>1
<1>3. Append(s, e) \in Seq(S \cup {e})
  BY <1>2
<1>4. IsSeq(Append(s, e))
  BY <1>3 DEF IsSeq
<1> QED BY <1>2, <1>4

----------------------------------------------------------------------------
(* Objects *)

\* A list of properties, no two of one name.
Shape(p) ==
    /\ IsSeq(p)
    /\ \A k \in DOMAIN p : p[k] = Prop(p[k].n, p[k].v)
    /\ \A k, l \in DOMAIN p : p[k].n = p[l].n => k = l

Heaped(h) ==
    /\ h = [o \in 1 .. NoObjects |-> h[o]]
    /\ \A o \in 1 .. NoObjects : Shape(h[o])

\* Where Find() finds a name.
LEMMA FindIs ==
    ASSUME NEW p, IsSeq(p), NEW n
    PROVE  \/ Find(p, n) = 0 /\ \A k \in DOMAIN p : p[k].n # n
           \/ Find(p, n) \in DOMAIN p /\ Find(p, n) # 0 /\ p[Find(p, n)].n = n
<1>1. DOMAIN p = 1 .. Len(p) /\ Len(p) \in Nat
  BY DEF IsSeq
<1>2. PICK I : I = {k \in 1 .. Len(p) : p[k].n = n}
  OBVIOUS
<1>3. Find(p, n) = IF I # {} THEN Min(I) ELSE 0
  BY <1>2 DEF Find, SelectInSeq
<1>4. CASE I = {}
  BY <1>1, <1>2, <1>3, <1>4
<1>5. CASE I # {}
  <2>1. I \subseteq Nat
    BY <1>1, <1>2
  <2>2. Min(I) \in I
    BY <1>5, <2>1, MinIs
  <2> QED BY <1>1, <1>2, <1>3, <1>5, <2>2
<1> QED BY <1>4, <1>5

\* A read by a position, whichever it is, answers what a lookup does.
LEMMA CachedIsGet ==
    ASSUME NEW p, Shape(p), NEW n, NEW at
    PROVE  Cached(p, n, at) = Get(p, n)
<1>1. CASE Place(p, n, at) = 0
  BY <1>1 DEF Cached
<1>2. CASE Place(p, n, at) # 0
  <2>1. Place(p, n, at) = Find(p, n) /\ Find(p, n) # 0
    <3>1. CASE Hit(p, n, at)
      <4>1. at \in DOMAIN p /\ p[at].n = n /\ Place(p, n, at) = at
        BY <3>1 DEF Hit, Place
      <4>2. Find(p, n) \in DOMAIN p /\ p[Find(p, n)].n = n
        BY <4>1, FindIs DEF Shape
      <4> QED BY <1>2, <4>1, <4>2 DEF Shape
    <3>2. CASE ~Hit(p, n, at)
      BY <1>2, <3>2 DEF Place
    <3> QED BY <3>1, <3>2
  <2>2. CASE IsAccessor(p[Find(p, n)].v)
    BY <2>1, <2>2 DEF Cached
  <2>3. CASE ~IsAccessor(p[Find(p, n)].v)
    BY <2>1, <2>3 DEF Cached, Get, AnswerOf
  <2> QED BY <2>2, <2>3
<1> QED BY <1>1, <1>2

LEMMA PropIs == ASSUME NEW n, NEW v PROVE Prop(n, v).n = n /\ Prop(n, v).v = v
  BY DEF Prop

\* define_raw() keeps names unique.
LEMMA DefineKeeps ==
    ASSUME NEW p, Shape(p), NEW n, NEW v
    PROVE  Shape(Define(p, n, v))
<1>1. IsSeq(p) /\ DOMAIN p = 1 .. Len(p) /\ Len(p) \in Nat
  BY DEF Shape, IsSeq
<1>2. CASE Find(p, n) = 0
  <2>1. PICK e : e = Prop(n, v)
    OBVIOUS
  <2>2. PICK q : q = Append(p, e)
    OBVIOUS
  <2>3. Define(p, n, v) = q
    BY <1>2, <2>1, <2>2 DEF Define
  <2>4. /\ IsSeq(q) /\ DOMAIN q = 1 .. Len(p) + 1 /\ q[Len(p) + 1] = e
        /\ \A k \in 1 .. Len(p) : q[k] = p[k]
    BY <1>1, <2>2, Appended
  <2>5. e.n = n /\ e = Prop(e.n, e.v)
    BY <2>1, PropIs
  <2>6. \A k \in 1 .. Len(p) : p[k].n # n
    BY <1>1, <1>2, FindIs
  <2>7. \A k \in DOMAIN q : k = Len(p) + 1 \/ k \in 1 .. Len(p)
    BY <1>1, <2>4
  <2>8. \A k \in DOMAIN q : q[k] = Prop(q[k].n, q[k].v)
    BY <1>1, <2>4, <2>5, <2>7 DEF Shape
  <2>9. \A k, l \in DOMAIN q : q[k].n = q[l].n => k = l
    BY <1>1, <2>4, <2>5, <2>6, <2>7 DEF Shape
  <2> QED BY <2>3, <2>4, <2>8, <2>9 DEF Shape
<1>3. CASE Find(p, n) # 0
  <2>1. PICK f \in DOMAIN p : f = Find(p, n) /\ p[f].n = n
    BY <1>1, <1>3, FindIs
  <2>2. PICK e : e = [p[f] EXCEPT !.v = v]
    OBVIOUS
  <2>3. e.n = n /\ e = Prop(e.n, e.v)
    <3>1. p[f] = [n |-> p[f].n, v |-> p[f].v]
      BY <2>1 DEF Shape, Prop
    <3>2. PICK r : r = [n |-> p[f].n, v |-> v]
      OBVIOUS
    <3>3. e = r
      BY <2>2, <3>1, <3>2
    <3>4. r.n = p[f].n /\ r = [n |-> r.n, v |-> r.v]
      BY <3>2
    <3> QED BY <2>1, <3>3, <3>4 DEF Prop
  <2>4. PICK q : q = [p EXCEPT ![f] = e]
    OBVIOUS
  <2>5. Define(p, n, v) = q
    BY <1>3, <2>1, <2>2, <2>4 DEF Define
  <2>6. /\ DOMAIN q = DOMAIN p /\ q[f] = e
        /\ \A k \in DOMAIN p : k # f => q[k] = p[k]
    BY <2>1, <2>4
  <2>7. IsSeq(q)
    <3>1. PICK S : p \in Seq(S)
      BY <1>1 DEF IsSeq
    <3>2. q \in Seq(S \cup {e})
      BY <2>1, <2>4, <3>1
    <3> QED BY <3>2 DEF IsSeq
  <2>8. \A k \in DOMAIN q : q[k] = Prop(q[k].n, q[k].v) /\ q[k].n = p[k].n
    BY <2>1, <2>3, <2>6 DEF Shape
  <2> QED BY <2>5, <2>6, <2>7, <2>8 DEF Shape
<1> QED BY <1>2, <1>3

LEMMA EmptyShape == Shape(<<>>)
<1>1. <<>> \in Seq({}) /\ DOMAIN <<>> = {}
  OBVIOUS
<1> QED BY <1>1 DEF Shape, IsSeq

\* One object changes.
LEMMA HeapedStays ==
    ASSUME NEW h, Heaped(h), NEW o \in DOMAIN h, NEW p, Shape(p)
    PROVE  Heaped([h EXCEPT ![o] = p])
<1>1. PICK g : g = [h EXCEPT ![o] = p]
  OBVIOUS
<1>2. DOMAIN h = 1 .. NoObjects
  BY DEF Heaped
<1>3. g = [c \in 1 .. NoObjects |-> g[c]] /\ \A c \in 1 .. NoObjects : g[c] = IF c = o THEN p ELSE h[c]
  BY <1>1, <1>2
<1>4. \A c \in 1 .. NoObjects : Shape(g[c])
  BY <1>3 DEF Heaped
<1> QED BY <1>1, <1>3, <1>4 DEF Heaped

LEMMA HeapedDefine ==
    ASSUME NEW h, Heaped(h), NEW o, NEW n, NEW v
    PROVE  Heaped([h EXCEPT ![o] = Define(@, n, v)])
<1>1. CASE o \in DOMAIN h
  <2>1. Shape(h[o])
    BY <1>1 DEF Heaped
  <2>2. Shape(Define(h[o], n, v))
    BY <2>1, DefineKeeps
  <2>3. PICK p : p = Define(h[o], n, v)
    OBVIOUS
  <2>4. Heaped([h EXCEPT ![o] = p])
    BY <1>1, <2>2, <2>3, HeapedStays
  <2> QED BY <2>3, <2>4
<1>2. CASE o \notin DOMAIN h
  <2>1. [h EXCEPT ![o] = Define(@, n, v)] = h
    BY <1>2 DEF Heaped
  <2> QED BY <2>1
<1> QED BY <1>1, <1>2

\* set(), wherever it is called.
LEMMA SetKeeps ==
    ASSUME NEW h, Heaped(h), NEW st, NEW o, NEW n, NEW v
    PROVE  Heaped(Set([heap |-> h, stack |-> st], o, n, v).heap)
<1>1. PICK w1 : w1 = [heap |-> h, stack |-> st]
  OBVIOUS
<1>2. w1.heap = h /\ w1.stack = st
  BY <1>1
<1>3. PICK g : g = [h EXCEPT ![o] = Define(@, n, v)]
  OBVIOUS
<1>4. Heaped(g)
  BY <1>3, HeapedDefine
<1>5. \/ Set(w1, o, n, v) = [w1 EXCEPT !.heap = g]
      \/ Set(w1, o, n, v) = [w1 EXCEPT !.stack = Append(@, Setting)]
      \/ Set(w1, o, n, v) = w1
  <2>1. [w1 EXCEPT !.heap[o] = Define(@, n, v)] = [w1 EXCEPT !.heap = g]
    BY <1>1, <1>2, <1>3
  <2> QED BY <2>1 DEF Set
<1>6. [w1 EXCEPT !.heap = g].heap = g /\ [w1 EXCEPT !.stack = Append(@, Setting)].heap = h
  BY <1>1, <1>2
<1> QED BY <1>1, <1>2, <1>4, <1>5, <1>6

LEMMA HeapedNext ==
    ASSUME Heaped(heap), [ObjectsNext]_objectVars
    PROVE  Heaped(heap')
<1>1. CASE Write
  <2>1. PICK n \in Keys, o \in DOMAIN heap, v \in Values : heap' = Set(World, o, n, v).heap
    BY <1>1 DEF Write, Becomes
  <2> QED BY <2>1, SetKeeps DEF World
<1>2. CASE DefineProperty
  <2>2. PICK n \in Keys, o \in DOMAIN heap, v \in Values \cup Descriptors :
           heap' = [heap EXCEPT ![o] = Define(@, n, v)]
    BY <1>2 DEF DefineProperty
  <2>3. Heaped([heap EXCEPT ![o] = Define(@, n, v)])
    BY HeapedDefine
  <2> QED BY <2>2, <2>3
<1>3. CASE Literal
  <2>2. PICK o \in DOMAIN heap, n \in Keys, m \in Keys, v \in Plain, u \in Plain :
           heap' = [heap EXCEPT ![o] = Define(Define(<<>>, n, v), m, u)]
    BY <1>3 DEF Literal
  <2>3. Shape(Define(Define(<<>>, n, v), m, u))
    BY EmptyShape, DefineKeeps
  <2>4. PICK p : p = Define(Define(<<>>, n, v), m, u)
    OBVIOUS
  <2> QED BY <2>2, <2>3, <2>4, HeapedStays
<1>4. CASE AssignOne
  <2>1. PICK st, o, n, v : heap' = heap \/ heap' = Set([heap |-> heap, stack |-> st], o, n, v).heap
    BY <1>4 DEF AssignOne, Becomes, World
  <2> QED BY <2>1, SetKeeps
<1>5. CASE Return
  <2>1. PICK st, o, n, v : heap' = heap \/ heap' = Set([heap |-> heap, stack |-> st], o, n, v).heap
    BY <1>5 DEF Return, Becomes
  <2> QED BY <2>1, SetKeeps
<1>6. CASE ReadAt \/ ReadKey \/ Assign \/ AssignEnd \/ ThrowOut \/ UNCHANGED objectVars
  BY <1>6 DEF ReadAt, ReadKey, Assign, AssignEnd, ThrowOut, objectVars
<1> QED BY <1>1, <1>2, <1>3, <1>4, <1>5, <1>6 DEF ObjectsNext

\* A read by the position kept at its place in the code, and any other position, answers
\* what a full lookup does: names stay unique, whatever is defined, assigned, replaced or
\* done by getters and setters meanwhile, for any number of objects, names and places
\* (plain_ic() and get() of src/payload/exec.rs).
THEOREM CachedReadIsLookupHolds == ObjectsSpec => []CachedReadIsLookup
<1>1. ObjectsInit => Heaped(heap)
  <2> SUFFICES ASSUME ObjectsInit PROVE Heaped(heap)
    OBVIOUS
  <2>1. heap = [o \in 1 .. NoObjects |-> <<>>]
    BY DEF ObjectsInit
  <2> QED BY <2>1, EmptyShape DEF Heaped
<1>2. Heaped(heap) /\ [ObjectsNext]_objectVars => Heaped(heap)'
  BY HeapedNext
<1>3. Heaped(heap) => CachedReadIsLookup
  <2> SUFFICES ASSUME Heaped(heap) PROVE CachedReadIsLookup
    OBVIOUS
  <2>1. \A o \in DOMAIN heap : Shape(heap[o])
    BY DEF Heaped
  <2>2. UniqueNames
    BY <2>1 DEF UniqueNames, Shape
  <2>3. \A s \in DOMAIN KeyAt, o \in DOMAIN heap :
           Cached(heap[o], KeyAt[s], ic[s]) = Get(heap[o], KeyAt[s])
    BY <2>1, CachedIsGet
  <2> QED BY <2>2, <2>3 DEF CachedReadIsLookup
<1> QED BY <1>1, <1>2, <1>3, PTL DEF ObjectsSpec

----------------------------------------------------------------------------
(* TimSort *)

\* At or above any number of elements there is a power of two, so min_run_length() is one.
LEMMA NIsSmall ==
    ASSUME input \in Inputs
    PROVE  N \in Nat /\ N <= MaxArray
<1>1. Items \in Seq(Nat \cup {Undef}) /\ Len(Items) <= MaxArray
  BY InputsAssumption DEF Items
<1>2. IsFiniteSet(1 .. Len(Items)) /\ Cardinality(1 .. Len(Items)) = Len(Items)
  <2>1. Len(Items) \in Nat
    BY <1>1
  <2>2. Cardinality(1 .. Len(Items)) = IF 1 > Len(Items) THEN 0 ELSE Len(Items) - 1 + 1
    BY <2>1, FS_Interval
  <2>3. IsFiniteSet(1 .. Len(Items))
    BY <2>1, FS_Interval
  <2> QED BY <2>1, <2>2, <2>3
<1>3. Elements \subseteq 1 .. Len(Items)
  BY <1>1 DEF Elements
<1>4. Cardinality(Elements) <= Len(Items) /\ IsFiniteSet(Elements)
  BY <1>2, <1>3, FS_Subset
<1>5. Cardinality(Elements) \in Nat
  BY <1>4, FS_CardinalityType
<1> QED BY <1>1, <1>4, <1>5 DEF N, MaxArray

LEMMA MinRunIs ==
    ASSUME N \in Nat, N <= MaxArray
    PROVE  MinRun \in Nat
<1>1. PICK T : T = {q \in Powers : N \div q < MinMerge}
  OBVIOUS
<1>2. MaxArray \in T
  <2>1. N \div 16777216 <= 1
    BY DEF MaxArray
  <2> QED BY <1>1, <2>1, BoundsAssumption DEF Powers, MaxArray
<1>3. Powers \subseteq Nat \ {0}
  BY DEF Powers, MaxArray
<1>4. Min(T) \in Powers
  BY <1>1, <1>2, <1>3, MinIs
<1>5. PICK p \in Nat \ {0} : p = Min(T)
  BY <1>3, <1>4
<1>6. N \div p \in Nat /\ N % p \in Nat
  BY <1>5
<1>7. MinRun = N \div p + (IF N % p > 0 THEN 1 ELSE 0)
  BY <1>1, <1>5 DEF MinRun
<1> QED BY <1>6, <1>7

\* Lengths fall faster than Fibonacci numbers on the first m runs.
Falling(rs, m) ==
    \A k \in 2 .. m : /\ k < 3 \/ rs[k - 2].len > rs[k - 1].len + rs[k].len
                      /\ rs[k - 1].len > rs[k].len
Run == [base : Nat, len : Nat]

\* What the loop of timsort() leaves on top when it stops.
LEMMA FallingToTop ==
    ASSUME NEW rs \in Seq(Run), NEW k \in Nat, k = Len(rs), Falling(rs, k - 2),
           k >= 2 => /\ k < 3 \/ rs[k - 2].len > rs[k - 1].len + rs[k].len
                     /\ k - 1 < 3 \/ rs[k - 3].len > rs[k - 2].len + rs[k - 1].len
                     /\ rs[k - 1].len > rs[k].len
    PROVE  Falling(rs, k)
<1> SUFFICES ASSUME NEW j \in 2 .. k
             PROVE  /\ j < 3 \/ rs[j - 2].len > rs[j - 1].len + rs[j].len
                    /\ rs[j - 1].len > rs[j].len
  BY DEF Falling
<1>1. \A c \in 1 .. k : rs[c].len \in Nat
  <2>1. \A c \in 1 .. k : rs[c] \in Run
    OBVIOUS
  <2> QED BY <2>1 DEF Run
<1>2. CASE j <= k - 2
  BY <1>2 DEF Falling
<1>3. CASE j = k
  BY <1>3
<1>4. CASE j = k - 1
  <2>1. k >= 3 /\ rs[k - 2].len > rs[k - 1].len + rs[k].len
    BY <1>4
  <2>2. rs[k - 2].len > rs[k - 1].len
    BY <1>1, <2>1
  <2>3. j - 1 = k - 2 /\ j - 2 = k - 3
    BY <1>4
  <2> QED BY <1>4, <2>1, <2>2, <2>3
<1> QED BY <1>2, <1>3, <1>4

LEMMA Parts ==
    ASSUME NEW s \in Seq(Run), NEW i \in 1 .. Len(s) - 1
    PROVE  /\ SubSeq(s, 1, i - 1) \in Seq(Run) /\ Len(SubSeq(s, 1, i - 1)) = i - 1
           /\ \A j \in 1 .. i - 1 : SubSeq(s, 1, i - 1)[j] = s[j]
           /\ SubSeq(s, i + 2, Len(s)) \in Seq(Run)
           /\ Len(SubSeq(s, i + 2, Len(s))) = Len(s) - i - 1
<1>1. Len(s) \in Nat /\ i \in Nat
  OBVIOUS
<1>2. \A j \in 1 .. i - 1 : s[j] \in Run
  OBVIOUS
<1>3. \A j \in i + 2 .. Len(s) : s[j] \in Run
  OBVIOUS
<1> QED BY <1>1, <1>2, <1>3, SubSeqProperties, Z3

LEMMA Joined ==
    ASSUME NEW s \in Seq(Run), NEW t \in Seq(Run)
    PROVE  /\ s \o t \in Seq(Run) /\ Len(s \o t) = Len(s) + Len(t)
           /\ \A j \in 1 .. Len(s) : (s \o t)[j] = s[j]
  OBVIOUS

\* merge_at() makes one run of two.
LEMMA MergedRuns ==
    ASSUME NEW rs \in Seq(Run), NEW i \in 1 .. Len(rs) - 1,
           NEW e \in Run, NEW new,
           new = SubSeq(rs, 1, i - 1) \o <<e>> \o SubSeq(rs, i + 2, Len(rs))
    PROVE  /\ new \in Seq(Run) /\ Len(new) = Len(rs) - 1
           /\ \A j \in 1 .. i - 1 : new[j] = rs[j]
<1> DEFINE a == SubSeq(rs, 1, i - 1)
           c == SubSeq(rs, i + 2, Len(rs))
           d == a \o <<e>>
<1>1. a \in Seq(Run) /\ Len(a) = i - 1 /\ \A j \in 1 .. i - 1 : a[j] = rs[j]
  BY Parts, Z3
<1>2. c \in Seq(Run) /\ Len(c) = Len(rs) - i - 1
  BY Parts, Z3
<1>3. <<e>> \in Seq(Run) /\ Len(<<e>>) = 1
  OBVIOUS
<1> HIDE DEF a, c
<1>4. d \in Seq(Run) /\ Len(d) = i /\ \A j \in 1 .. i - 1 : d[j] = a[j]
  BY <1>1, <1>3
<1>5. new = d \o c
  BY DEF a, c
<1> HIDE DEF d
<1>6. /\ d \o c \in Seq(Run) /\ Len(d \o c) = Len(d) + Len(c)
      /\ \A j \in 1 .. Len(d) : (d \o c)[j] = d[j]
  BY <1>2, <1>4, Joined, Zenon
<1>7. new \in Seq(Run) /\ Len(new) = Len(d) + Len(c) /\ \A j \in 1 .. Len(d) : new[j] = d[j]
  BY <1>5, <1>6, Zenon
<1>8. Len(rs) \in Nat /\ i \in Nat
  OBVIOUS
<1>9. Len(d) + Len(c) = Len(rs) - 1
  BY <1>2, <1>4, <1>8
<1>10. \A j \in 1 .. i - 1 : d[j] = rs[j] /\ j \in 1 .. Len(d)
  BY <1>1, <1>4, <1>8
<1> QED BY <1>7, <1>9, <1>10, Zenon

Merging == {"single", "gallopA", "gallopB"}

\* The stack of runs: where it falls, and where what has yet to be decided about its top
\* two is decided.
StackInv ==
    /\ input \in Inputs
    /\ runs \in Seq(Run)
    /\ low \in Nat /\ low <= N
    /\ pc = "run" => low < N
    /\ pc = "insert" => /\ start = [at |-> start.at, high |-> start.high]
                        /\ start.at \in Nat /\ start.high \in Nat
                        /\ low < start.at /\ start.at < start.high /\ start.high <= N
    /\ pc \in Merging => "back" \in DOMAIN merge /\ merge.back \in {"collapse", "final"}
    /\ pc \in {"run", "insert"} => Falling(runs, Len(runs))
    /\ pc = "collapse" \/ (pc \in Merging /\ merge.back = "collapse") =>
          Falling(runs, Len(runs) - 2)

\* A merge goes on or returns to the loop that began it.
Goes(b) ==
    \/ pc' = b
    \/ pc' \in Merging /\ "back" \in DOMAIN merge' /\ merge'.back = b

LEMMA TakenReturns ==
    ASSUME NEW m, "back" \in DOMAIN m, NEW run, NEW k
    PROVE  "back" \in DOMAIN Taken(m, run, k) /\ Taken(m, run, k).back = m.back
<1>1. PICK a, b, c, d : Taken(m, run, k) = [m EXCEPT !.dest = a, !.len = b, !.ct = c, !.cw = d]
  BY DEF Taken
<1> QED BY <1>1

LEMMA ProceedReturns ==
    ASSUME NEW m, "back" \in DOMAIN m, NEW v, NEW next \in Merging, Proceed(m, v, next)
    PROVE  Goes(m.back)
  BY DEF Proceed, EndMerge, Goes

LEMMA BeginReturns ==
    ASSUME NEW a, NEW n, NEW b, NEW k, NEW back, BeginMerge(a, n, b, k, back)
    PROVE  Goes(back)
<1>1. PICK m, v : m.back = back /\ "back" \in DOMAIN m /\ Proceed(Taken(m, InW(m), 1), v, "single")
  BY DEF BeginMerge
<1> QED BY <1>1, TakenReturns, ProceedReturns DEF Merging

LEMMA SingleReturns ==
    ASSUME "back" \in DOMAIN merge, Single
    PROVE  Goes(merge.back)
<1>1. PICK run, won, mg, m1, v, next :
         /\ m1 = [Taken(merge, run, 1) EXCEPT !.won = won, !.mg = mg]
         /\ Proceed(m1, v, next) /\ next \in Merging
  BY DEF Single, Merging
<1>2. "back" \in DOMAIN m1 /\ m1.back = merge.back
  BY <1>1, TakenReturns
<1> QED BY <1>1, <1>2, ProceedReturns

LEMMA GallopAReturns ==
    ASSUME "back" \in DOMAIN merge, GallopA
    PROVE  Goes(merge.back)
<1>1. PICK mg, k, won, m, m1, v, u :
         /\ m = [merge EXCEPT !.mg = mg]
         /\ m1 = [Taken(m, "A", k) EXCEPT !.won = won]
         /\ EndMerge(m1, v) \/ Proceed(Taken(m1, "B", 1), u, "gallopB")
  BY DEF GallopA
<1>2. "back" \in DOMAIN m /\ m.back = merge.back
  BY <1>1
<1>3. "back" \in DOMAIN m1 /\ m1.back = merge.back
  BY <1>1, <1>2, TakenReturns
<1>4. CASE EndMerge(m1, v)
  BY <1>3, <1>4 DEF EndMerge, Goes
<1>5. CASE Proceed(Taken(m1, "B", 1), u, "gallopB")
  BY <1>3, <1>5, TakenReturns, ProceedReturns DEF Merging
<1> QED BY <1>1, <1>4, <1>5

LEMMA GallopBReturns ==
    ASSUME "back" \in DOMAIN merge, GallopB
    PROVE  Goes(merge.back)
<1>1. PICK k, won, mg, m1, m2, v, u, next :
         /\ m1 = Taken(merge, "B", k)
         /\ m2 = [Taken(m1, "A", 1) EXCEPT !.won = won, !.mg = mg]
         /\ next \in Merging
         /\ EndMerge(m1, v) \/ Proceed(m2, u, next)
  BY DEF GallopB, Merging
<1>2. "back" \in DOMAIN m1 /\ m1.back = merge.back
  BY <1>1, TakenReturns
<1>3. "back" \in DOMAIN m2 /\ m2.back = merge.back
  BY <1>1, <1>2, TakenReturns
<1>4. CASE EndMerge(m1, v)
  BY <1>2, <1>4 DEF EndMerge, Goes
<1>5. CASE Proceed(m2, u, next)
  BY <1>1, <1>3, <1>5, ProceedReturns
<1> QED BY <1>1, <1>4, <1>5

\* A push leaves the stack falling but for its top, and a merge but for its top two.
LEMMA FallingKept ==
    ASSUME NEW rs \in Seq(Run), NEW new \in Seq(Run), NEW m \in Int,
           \A j \in 1 .. m : new[j] = rs[j], NEW n \in Int, m <= n, Falling(rs, n)
    PROVE  Falling(new, m)
  BY DEF Falling

LEMMA PushKeeps ==
    ASSUME StackInv, pc \in {"run", "insert"}, NEW len \in Nat, low + len <= N,
           PushRun(len), UNCHANGED input
    PROVE  StackInv'
<1>1. N' = N
  BY DEF N, Elements, Items
<1>2. PICK r : r = [base |-> low, len |-> len]
  OBVIOUS
<1>3. r \in Run
  BY <1>2 DEF Run, StackInv
<1>4. runs' = Append(runs, r) /\ low' = low + len /\ pc' = "collapse"
  BY <1>2 DEF PushRun
<1>5. runs \in Seq(Run) /\ Len(runs) \in Nat
  BY DEF StackInv
<1>6. /\ runs' \in Seq(Run) /\ Len(runs') = Len(runs) + 1
      /\ \A j \in 1 .. Len(runs) : runs'[j] = runs[j]
  BY <1>3, <1>4, <1>5
<1>7. Falling(runs', Len(runs') - 2)
  <2>1. Falling(runs, Len(runs))
    BY DEF StackInv
  <2>2. Len(runs) - 1 \in Int /\ Len(runs) \in Int /\ Len(runs) - 1 <= Len(runs)
    BY <1>5
  <2>3. \A j \in 1 .. Len(runs) - 1 : runs'[j] = runs[j]
    BY <1>5, <1>6
  <2>4. Falling(runs', Len(runs) - 1)
    BY <1>5, <1>6, <2>1, <2>2, <2>3, FallingKept
  <2>5. Len(runs') - 2 = Len(runs) - 1
    BY <1>5, <1>6
  <2> QED BY <2>4, <2>5
<1> QED BY <1>1, <1>4, <1>6, <1>7 DEF StackInv, Merging

LEMMA MergeKeeps ==
    ASSUME StackInv, NEW back \in {"collapse", "final"}, pc = back,
           NEW i \in 1 .. Len(runs) - 1, i >= Len(runs) - 2, MergeAt(i, back),
           UNCHANGED <<input, low>>
    PROVE  StackInv'
<1>1. N' = N
  BY DEF N, Elements, Items
<1>2. runs \in Seq(Run) /\ Len(runs) \in Nat
  BY DEF StackInv
<1>3. PICK e : e = [runs[i] EXCEPT !.len = @ + runs[i + 1].len]
  OBVIOUS
<1>4. e \in Run
  <2>1. runs[i] \in Run /\ runs[i + 1] \in Run
    BY <1>2
  <2> QED BY <1>3, <2>1 DEF Run
<1>5. runs' = SubSeq(runs, 1, i - 1) \o <<e>> \o SubSeq(runs, i + 2, Len(runs))
  BY <1>3 DEF MergeAt
<1>6. /\ runs' \in Seq(Run) /\ Len(runs') = Len(runs) - 1
      /\ \A j \in 1 .. i - 1 : runs'[j] = runs[j]
  BY <1>2, <1>4, <1>5, MergedRuns, Zenon
<1>7. Goes(back)
  <2>1. \/ pc' = back
        \/ \E a, n, b, k : BeginMerge(a, n, b, k, back)
    BY DEF MergeAt
  <2> QED BY <2>1, BeginReturns DEF Goes
<1>8. back = "collapse" => Falling(runs', Len(runs') - 2)
  <2> SUFFICES ASSUME back = "collapse" PROVE Falling(runs', Len(runs') - 2)
    OBVIOUS
  <2>1. Falling(runs, Len(runs) - 2)
    BY DEF StackInv
  <2>2. \A j \in 1 .. Len(runs) - 3 : runs'[j] = runs[j]
    BY <1>2, <1>6
  <2>3. Len(runs) - 3 \in Int /\ Len(runs) - 2 \in Int /\ Len(runs) - 3 <= Len(runs) - 2
    BY <1>2
  <2>4. Falling(runs', Len(runs) - 3)
    BY <1>2, <1>6, <2>1, <2>2, <2>3, FallingKept
  <2>5. Len(runs') - 2 = Len(runs) - 3
    BY <1>2, <1>6
  <2> QED BY <2>4, <2>5
<1>9. pc' = back \/ (pc' \in Merging /\ "back" \in DOMAIN merge' /\ merge'.back = back)
  BY <1>7 DEF Goes
<1> QED BY <1>1, <1>6, <1>8, <1>9 DEF StackInv, Merging

\* How long a run is, whatever comparisons answer.
LEMMA RunLengthIs ==
    ASSUME N \in Nat, low \in Nat, low + 1 < N, NEW less
    PROVE  RunLength(less) \in Nat /\ RunLength(less) >= 2 /\ low + RunLength(less) <= N
<1>1. PICK T : T = {i \in low + 2 .. N : i = N \/ less[i] # less[low + 1]}
  OBVIOUS
<1>2. N \in T /\ T \subseteq Nat
  BY <1>1
<1>3. Min(T) \in T
  BY <1>2, MinIs
<1>4. RunLength(less) = Min(T) - low
  BY <1>1 DEF RunLength
<1> QED BY <1>1, <1>3, <1>4

LEMMA MakeRunKeeps == ASSUME StackInv, MakeRun PROVE StackInv'
<1>1. N \in Nat /\ N <= MaxArray
  BY NIsSmall DEF StackInv
<1>2. PICK less, run, forced :
         /\ run = IF low + 1 = N THEN 1 ELSE RunLength(less)
         /\ forced = Min({MinRun, N - low})
         /\ IF run < forced
            THEN /\ pc' = "insert"
                 /\ start' = [at |-> low + run, high |-> low + forced]
                 /\ UNCHANGED <<low, runs>>
            ELSE PushRun(run)
  BY DEF MakeRun
<1>3. pc = "run" /\ low \in Nat /\ low < N /\ UNCHANGED <<input, merge>>
  BY DEF MakeRun, StackInv
<1>4. run \in Nat /\ run > 0 /\ low + run <= N
  BY <1>1, <1>2, <1>3, RunLengthIs
<1>5. forced \in Nat /\ low + forced <= N
  <2>1. {MinRun, N - low} \subseteq Nat
    BY <1>1, <1>3, MinRunIs
  <2>2. forced \in {MinRun, N - low} /\ \A y \in {MinRun, N - low} : forced <= y
    BY <1>2, <2>1, MinIs
  <2> QED BY <1>1, <1>3, <2>1, <2>2
<1>6. CASE run < forced
  <2>1. N' = N
    BY <1>3 DEF N, Elements, Items
  <2>2. /\ pc' = "insert" /\ low' = low /\ runs' = runs
        /\ start' = [at |-> low + run, high |-> low + forced]
    BY <1>2, <1>6
  <2>3. Falling(runs, Len(runs))
    BY <1>3 DEF StackInv
  <2> QED BY <1>1, <1>3, <1>4, <1>5, <1>6, <2>1, <2>2, <2>3 DEF StackInv, Merging
<1>7. CASE ~(run < forced)
  BY <1>2, <1>3, <1>4, <1>7, PushKeeps
<1> QED BY <1>6, <1>7

LEMMA InsertKeeps == ASSUME StackInv, Insert PROVE StackInv'
<1>1. N' = N /\ N \in Nat /\ pc = "insert" /\ UNCHANGED <<input, merge>>
  BY NIsSmall DEF StackInv, Insert, N, Elements, Items
<1>2. PICK at, high : /\ at = start.at /\ high = start.high
                      /\ at \in Nat /\ high \in Nat /\ low < at /\ at < high /\ high <= N
                      /\ start = [at |-> at, high |-> high] /\ low \in Nat
  BY <1>1 DEF StackInv
<1>3. CASE at + 1 = high
  <2>1. PushRun(high - low)
    BY <1>2, <1>3 DEF Insert
  <2>2. high - low \in Nat /\ low + (high - low) <= N
    BY <1>1, <1>2
  <2> QED BY <1>1, <2>1, <2>2, PushKeeps
<1>4. CASE at + 1 # high
  <2>1. start' = [at |-> at + 1, high |-> high] /\ UNCHANGED <<pc, low, runs>>
    BY <1>2, <1>4 DEF Insert
  <2> QED BY <1>1, <1>2, <1>4, <2>1 DEF StackInv, Merging
<1> QED BY <1>3, <1>4

LEMMA CollapseKeeps == ASSUME StackInv, Collapse PROVE StackInv'
<1>1. N' = N /\ N \in Nat /\ pc = "collapse" /\ UNCHANGED <<input, low>>
  BY NIsSmall DEF StackInv, Collapse, N, Elements, Items
<1>2. runs \in Seq(Run) /\ Len(runs) \in Nat /\ Falling(runs, Len(runs) - 2)
  BY <1>1 DEF StackInv
<1>3. PICK k \in Nat : k = Len(runs)
  BY <1>2
<1>4. CASE CollapseAt = 0
  <2>1. k >= 2 => RunInvariant(k) /\ RunInvariant(k - 1) /\ ~(runs[k - 1].len <= runs[k].len)
    <3> SUFFICES ASSUME k >= 2
                 PROVE  RunInvariant(k) /\ RunInvariant(k - 1) /\ ~(runs[k - 1].len <= runs[k].len)
      OBVIOUS
    <3>1. CASE ~RunInvariant(k)
      BY <1>3, <1>4, <3>1 DEF CollapseAt, RunInvariant
    <3>2. CASE ~RunInvariant(k - 1)
      BY <1>3, <1>4, <3>2 DEF CollapseAt, RunInvariant
    <3>3. CASE RunInvariant(k) /\ RunInvariant(k - 1)
      <4>1. CollapseAt = IF runs[k - 1].len <= runs[k].len THEN k - 1 ELSE 0
        BY <1>3, <3>3 DEF CollapseAt
      <4> QED BY <1>4, <3>3, <4>1
    <3> QED BY <3>1, <3>2, <3>3
  <2>2. k >= 2 => /\ k < 3 \/ runs[k - 2].len > runs[k - 1].len + runs[k].len
                  /\ k - 1 < 3 \/ runs[k - 3].len > runs[k - 2].len + runs[k - 1].len
                  /\ runs[k - 1].len > runs[k].len
    <3>1. k >= 2 => runs[k - 1] \in Run /\ runs[k] \in Run
      BY <1>2, <1>3
    <3>2. k >= 2 => runs[k - 1].len \in Nat /\ runs[k].len \in Nat
      BY <3>1 DEF Run
    <3>3. (k - 1) - 2 = k - 3 /\ (k - 1) - 1 = k - 2
      OBVIOUS
    <3>4. k >= 2 => RunInvariant(k) /\ RunInvariant(k - 1)
      BY <2>1
    <3>5. k >= 2 => k - 1 < 3 \/ runs[k - 3].len > runs[k - 2].len + runs[k - 1].len
      BY <3>3, <3>4 DEF RunInvariant
    <3>6. k >= 2 => k < 3 \/ runs[k - 2].len > runs[k - 1].len + runs[k].len
      BY <3>4 DEF RunInvariant
    <3> QED BY <2>1, <3>2, <3>5, <3>6
  <2>3. Falling(runs, k)
    BY <1>2, <1>3, <2>2, FallingToTop
  <2>4. pc' = (IF low = N THEN "final" ELSE "run") /\ runs' = runs
    BY <1>4 DEF Collapse
  <2>5. low \in Nat /\ low <= N
    BY DEF StackInv
  <2> QED BY <1>1, <1>2, <1>3, <2>3, <2>4, <2>5 DEF StackInv, Merging
<1>5. CASE CollapseAt # 0
  <2>1. k >= 2 /\ CollapseAt \in {k - 2, k - 1}
    BY <1>3, <1>5 DEF CollapseAt
  <2>2. PICK i \in 1 .. Len(runs) - 1 : i = CollapseAt /\ i >= Len(runs) - 2
    BY <1>3, <1>5, <2>1
  <2>3. MergeAt(i, "collapse")
    BY <1>5, <2>2 DEF Collapse
  <2> QED BY <1>1, <2>2, <2>3, MergeKeeps
<1> QED BY <1>4, <1>5

LEMMA FinalCollapseKeeps == ASSUME StackInv, FinalCollapse PROVE StackInv'
<1>1. N' = N /\ N \in Nat /\ pc = "final" /\ UNCHANGED <<input, low>>
  BY NIsSmall DEF StackInv, FinalCollapse, N, Elements, Items
<1>2. runs \in Seq(Run) /\ Len(runs) \in Nat
  BY <1>1 DEF StackInv
<1>3. CASE FinalAt = 0
  BY <1>1, <1>3 DEF FinalCollapse, StackInv, Merging
<1>4. CASE FinalAt # 0
  <2>1. Len(runs) >= 2 /\ FinalAt \in {Len(runs) - 2, Len(runs) - 1}
    BY <1>2, <1>4 DEF FinalAt
  <2>2. PICK i \in 1 .. Len(runs) - 1 : i = FinalAt /\ i >= Len(runs) - 2
    BY <1>2, <1>4, <2>1
  <2>3. MergeAt(i, "final")
    BY <1>4, <2>2 DEF FinalCollapse
  <2> QED BY <1>1, <2>2, <2>3, MergeKeeps
<1> QED BY <1>3, <1>4

LEMMA MergingOnly ==
    ASSUME Single \/ GallopA \/ GallopB
    PROVE  pc \in Merging /\ UNCHANGED <<input, arr, out, low, runs, touches>>
<1>1. pc \in Merging
  BY Zenon DEF Single, GallopA, GallopB, Merging
<1>2. UNCHANGED <<input, arr, out, low, runs, touches>>
  BY Zenon DEF Single, GallopA, GallopB
<1> QED BY <1>1, <1>2

LEMMA MergingKeeps == ASSUME StackInv, Single \/ GallopA \/ GallopB PROVE StackInv'
<1>1. pc \in Merging /\ UNCHANGED <<input, low, runs>>
  BY MergingOnly
<1>2. "back" \in DOMAIN merge /\ merge.back \in {"collapse", "final"}
  BY <1>1 DEF StackInv
<1>3. Goes(merge.back)
  BY <1>2, SingleReturns, GallopAReturns, GallopBReturns
<1>4. \/ pc' = merge.back
      \/ pc' \in Merging /\ "back" \in DOMAIN merge' /\ merge'.back = merge.back
  BY <1>3 DEF Goes
<1>5. merge.back = "collapse" => Falling(runs, Len(runs) - 2)
  BY <1>1 DEF StackInv
<1>6. N' = N
  BY <1>1 DEF N, Elements, Items
<1>7. input \in Inputs /\ runs \in Seq(Run) /\ low \in Nat /\ low <= N
  BY DEF StackInv
<1> QED BY <1>1, <1>2, <1>4, <1>5, <1>6, <1>7 DEF StackInv, Merging

LEMMA StackNext == ASSUME StackInv, [Next]_vars PROVE StackInv'
<1>1. CASE Throw \/ Finish
  <2>1. N' = N /\ pc' \in {"threw", "done"} /\ UNCHANGED <<input, low, runs>>
    BY <1>1 DEF Throw, Finish, N, Elements, Items
  <2> QED BY <2>1 DEF StackInv, Merging
<1>2. CASE Touch \/ Returned \/ UNCHANGED vars
  <2>1. N' = N /\ UNCHANGED <<input, pc, low, start, runs, merge>>
    BY <1>2 DEF Touch, Returned, vars, N, Elements, Items
  <2> QED BY <2>1 DEF StackInv, Merging
<1> QED BY <1>1, <1>2, MakeRunKeeps, InsertKeeps, CollapseKeeps, FinalCollapseKeeps,
           MergingKeeps DEF Next

LEMMA StackFallsNow == ASSUME StackInv PROVE StackFalls
<1> SUFFICES ASSUME pc = "run", NEW k \in 2 .. Len(runs)
             PROVE  RunInvariant(k) /\ runs[k - 1].len > runs[k].len
  BY DEF StackFalls
<1>1. Falling(runs, Len(runs))
  BY DEF StackInv
<1> QED BY <1>1 DEF Falling, RunInvariant

LEMMA InitStacks == ASSUME Init PROVE StackInv
<1>1. input \in Inputs /\ low = 0 /\ runs = <<>> /\ pc \in {"threw", "sorted", "run"}
  BY DEF Init
<1>2. N \in Nat /\ (pc = "run" => ~(N < 2))
  BY <1>1, NIsSmall DEF Init
<1>3. runs \in Seq(Run) /\ Len(runs) = 0
  BY <1>1
<1>4. Falling(runs, Len(runs))
  BY <1>3 DEF Falling
<1> QED BY <1>1, <1>2, <1>3, <1>4 DEF StackInv, Merging

\* Whenever the sort looks for its next run, the lengths on the whole stack fall faster
\* than Fibonacci numbers, although only the top of it is looked at after a push or a
\* merge; so for every array, whatever the comparison function answers (timsort() and
\* run_invariant() of src/payload/exec.rs).
THEOREM StackFallsHolds == Spec => []StackFalls
<1>1. Init => StackInv
  BY InitStacks
<1>2. StackInv /\ [Next]_vars => StackInv'
  BY StackNext
<1>3. StackInv => StackFalls
  BY StackFallsNow
<1> QED BY <1>1, <1>2, <1>3, PTL DEF Spec

----------------------------------------------------------------------------
(* Searches *)

Halves(before, lo, hi, k, f) ==
    f = [j \in 0 .. k |-> IF j = 0 THEN [l |-> lo, h |-> hi] ELSE Halved(before, f[j - 1])]

LEMMA SomethingHalves ==
    ASSUME NEW before, NEW lo, NEW hi, NEW k \in Nat
    PROVE  \E f : Halves(before, lo, hi, k, f)
<1> DEFINE T == {l \in Nat : ~ \E f : Halves(before, lo, hi, l, f)}
           Whole == [l |-> lo, h |-> hi]
<1>1. CASE T = {}
  BY <1>1
<1>2. CASE T # {}
  <2>1. PICK l \in T : \A m \in T : l <= m
    BY <1>2, LeastNumber
  <2>2. l # 0
    <3>1. Halves(before, lo, hi, 0, [j \in 0 .. 0 |-> Whole])
      BY DEF Halves
    <3> QED BY <2>1, <3>1
  <2>3. l \in Nat /\ l - 1 \in Nat /\ l - 1 \notin T
    BY <2>1, <2>2
  <2>4. PICK g : Halves(before, lo, hi, l - 1, g)
    BY <2>3
  <2>5. PICK last : last = Halved(before, g[l - 1])
    OBVIOUS
  <2>6. PICK f : f = [j \in 0 .. l |-> IF j = l THEN last ELSE g[j]]
    OBVIOUS
  <2> HIDE DEF Whole
  <2>7. \A j \in 0 .. l - 1 : g[j] = IF j = 0 THEN Whole ELSE Halved(before, g[j - 1])
    BY <2>4 DEF Halves, Whole
  <2>8. ASSUME NEW j \in 0 .. l
        PROVE  f[j] = IF j = 0 THEN Whole ELSE Halved(before, f[j - 1])
    <3>1. CASE j = l
      <4>1. f[l] = last /\ f[l - 1] = g[l - 1]
        BY <2>3, <2>6
      <4> QED BY <2>2, <2>5, <3>1, <4>1
    <3>2. CASE j # l
      <4>1. j \in 0 .. l - 1 /\ f[j] = g[j]
        BY <2>3, <2>6, <3>2
      <4>2. j # 0 => f[j - 1] = g[j - 1]
        BY <2>3, <2>6, <4>1
      <4> QED BY <2>7, <4>1, <4>2
    <3> QED BY <3>1, <3>2
  <2>9. f = [j \in 0 .. l |-> f[j]]
    BY <2>6
  <2>10. Halves(before, lo, hi, l, f)
    BY <2>8, <2>9 DEF Halves, Whole
  <2> QED BY <2>1, <2>10
<1> QED BY <1>1, <1>2

Within(s, lo, hi) ==
    /\ s = [l |-> s.l, h |-> s.h] /\ s.l \in Int /\ s.h \in Int
    /\ lo <= s.l /\ s.l <= s.h /\ s.h <= hi

LEMMA HalvedWithin ==
    ASSUME NEW before, NEW lo \in Int, NEW hi \in Int, NEW s, Within(s, lo, hi)
    PROVE  Within(Halved(before, s), lo, hi)
<1>1. PICK l \in Int, h \in Int : l = s.l /\ h = s.h /\ s = [l |-> l, h |-> h]
                                  /\ lo <= l /\ l <= h /\ h <= hi
  BY DEF Within
<1>2. CASE l >= h
  BY <1>1, <1>2 DEF Halved
<1>3. CASE l < h
  <2>1. PICK m \in Int : m = l + (h - l) \div 2 /\ l <= m /\ m < h
    BY <1>1, <1>3
  <2>2. Halved(before, s) = IF before[m] THEN [l |-> m + 1, h |-> h] ELSE [l |-> l, h |-> m]
    BY <1>1, <1>3, <2>1 DEF Halved
  <2>3. Within([l |-> m + 1, h |-> h], lo, hi) /\ Within([l |-> l, h |-> m], lo, hi)
    BY <1>1, <2>1 DEF Within
  <2> QED BY <2>2, <2>3
<1> QED BY <1>1, <1>2, <1>3

\* Whatever the answers, halving ends within its bounds.
LEMMA BisectIn ==
    ASSUME NEW before, NEW lo \in Int, NEW hi \in Int, lo <= hi
    PROVE  Bisect(before, lo, hi) \in lo .. hi
<1> DEFINE Whole == [l |-> lo, h |-> hi]
<1>1. PICK f : f = CHOOSE g : Halves(before, lo, hi, 25, g)
  OBVIOUS
<1>2. Halves(before, lo, hi, 25, f)
  BY <1>1, SomethingHalves
<1>3. Bisect(before, lo, hi) = f[25].h
  BY <1>1 DEF Bisect, Halves
<1>4. Within(Whole, lo, hi)
  BY DEF Within
<1> HIDE DEF Whole
<1>5. \A j \in 0 .. 25 : f[j] = IF j = 0 THEN Whole ELSE Halved(before, f[j - 1])
  BY <1>2 DEF Halves, Whole
<1> DEFINE T == {j \in 0 .. 25 : ~Within(f[j], lo, hi)}
<1>6. CASE T = {}
  <2>1. Within(f[25], lo, hi)
    BY <1>6
  <2> QED BY <1>3, <2>1 DEF Within
<1>7. CASE T # {}
  <2>1. T \subseteq Nat
    OBVIOUS
  <2>2. PICK j \in T : \A m \in T : j <= m
    BY <1>7, <2>1, LeastNumber, Zenon
  <2>3. j \in 0 .. 25 /\ ~Within(f[j], lo, hi)
    BY <2>2
  <2>4. j # 0
    BY <1>4, <1>5, <2>3
  <2>5. j - 1 \in 0 .. 25 /\ Within(f[j - 1], lo, hi)
    BY <2>2, <2>3, <2>4
  <2> QED BY <1>5, <2>3, <2>4, <2>5, HalvedWithin
<1> QED BY <1>6, <1>7

\* A search stops at the first stride that reaches max or an answer, so the stride before
\* it was below max.
\* A search stops at the first stride that reaches max or an answer: it went on at the one
\* before.
LEMMA StrideStops ==
    ASSUME NEW max \in Nat, 1 <= max, max <= MaxArray, NEW go
    PROVE  \E p \in Nat : /\ Stride(max, go) = 2 * p - 1 /\ 1 <= p /\ p <= max
                          /\ 2 * p - 1 >= max \/ ~go[2 * p - 1]
                          /\ p # 1 => p - 1 < max /\ go[p - 1]
<1>1. PICK S : S = {2 * p - 1 : p \in Powers}
  OBVIOUS
<1>2. PICK T : T = {o \in S : o >= max \/ ~go[o]}
  OBVIOUS
<1>3. Stride(max, go) = Min(T)
  BY <1>1, <1>2 DEF Stride
<1>4. \A p \in Powers : p \in Nat /\ 1 <= p /\ p <= MaxArray
  BY DEF Powers, MaxArray
<1>5. MaxArray \in Powers /\ MaxArray \in Nat /\ MaxArray >= 1
  BY DEF Powers, MaxArray
<1>6. 2 * MaxArray - 1 \in T /\ T \subseteq Nat
  BY <1>1, <1>2, <1>4, <1>5
<1>7. Min(T) \in T /\ \A o \in T : Min(T) <= o
  BY <1>6, MinIs
<1>8. PICK p \in Powers : Min(T) = 2 * p - 1
  BY <1>1, <1>2, <1>7
<1>9. p \in Nat /\ 1 <= p /\ (2 * p - 1 >= max \/ ~go[2 * p - 1])
  BY <1>2, <1>4, <1>7, <1>8
<1>10. CASE p = 1
  BY <1>3, <1>8, <1>9, <1>10
<1>11. CASE p # 1
  <2>1. PICK q \in Powers : p = 2 * q
    BY <1>8, <1>11 DEF Powers, MaxArray
  <2>2. 2 * q - 1 \in S /\ 2 * q - 1 < 2 * p - 1 /\ q \in Nat /\ 2 * q - 1 = p - 1
    BY <1>1, <1>4, <2>1
  <2>3. 2 * q - 1 \notin T
    BY <1>4, <1>7, <1>8, <2>2
  <2>4. p - 1 < max /\ go[p - 1]
    BY <1>2, <1>4, <2>2, <2>3
  <2>5. p <= max
    BY <1>9, <2>4
  <2> QED BY <1>3, <1>8, <1>9, <2>4, <2>5
<1> QED BY <1>10, <1>11

\* Whatever the answers, a search finds a place within the run.
LEMMA GallopIn ==
    ASSUME NEW before, NEW length \in Nat, 1 <= length, length <= MaxArray,
           NEW hint \in 0 .. length - 1
    PROVE  Gallop(before, length, hint) \in 0 .. length
<1>1. CASE before[hint]
  <2> DEFINE max == length - hint
             o == Stride(max, [x \in 1 .. max - 1 |-> before[hint + x]])
             cut == IF o > max THEN max ELSE o
             from == hint + (o - 1) \div 2 + 1
  <2>1. max \in Nat /\ 1 <= max /\ max <= MaxArray /\ hint \in Nat
    BY DEF MaxArray
  <2>2. PICK p \in Nat : o = 2 * p - 1 /\ 1 <= p /\ p <= max
    BY <2>1, StrideStops
  <2>3. Gallop(before, length, hint) = Bisect(before, from, hint + cut)
    BY <1>1 DEF Gallop
  <2> HIDE DEF o
  <2>4. from = hint + p /\ cut \in Nat /\ p <= cut /\ cut <= max
    BY <2>1, <2>2
  <2>5. from \in Int /\ hint + cut \in Int /\ from <= hint + cut
    BY <2>1, <2>4
  <2>6. Bisect(before, from, hint + cut) \in from .. hint + cut
    BY <2>5, BisectIn
  <2> QED BY <2>1, <2>3, <2>4, <2>6
<1>2. CASE ~before[hint]
  <2> DEFINE max == hint + 1
             o == Stride(max, [x \in 1 .. max - 1 |-> ~before[hint - x]])
             cut == IF o > max THEN max ELSE o
             to == hint - (o - 1) \div 2
  <2>1. max \in Nat /\ 1 <= max /\ max <= MaxArray /\ hint \in Nat
    BY DEF MaxArray
  <2>2. PICK p \in Nat : o = 2 * p - 1 /\ 1 <= p /\ p <= max
    BY <2>1, StrideStops
  <2>3. Gallop(before, length, hint) = Bisect(before, hint - cut + 1, to)
    BY <1>2 DEF Gallop
  <2> HIDE DEF o
  <2>4. to = hint - p + 1 /\ cut \in Nat /\ p <= cut /\ cut <= max
    BY <2>1, <2>2
  <2>5. hint - cut + 1 \in Int /\ to \in Int /\ hint - cut + 1 <= to
    BY <2>1, <2>4
  <2>6. Bisect(before, hint - cut + 1, to) \in hint - cut + 1 .. to
    BY <2>5, BisectIn
  <2> QED BY <2>1, <2>3, <2>4, <2>6
<1> QED BY <1>1, <1>2

----------------------------------------------------------------------------
(* The copy that is sorted *)

LEMMA ElementsAre ==
    ASSUME input \in Inputs
    PROVE  /\ Items \in Seq(Int) /\ Len(Items) \in Nat /\ N \in Nat /\ N <= MaxArray
           /\ Elements \subseteq 1 .. Len(Items) /\ IsFiniteSet(Elements) /\ N <= Len(Items)
<1>1. Items \in Seq(Nat \cup {Undef}) /\ Len(Items) <= MaxArray
  BY InputsAssumption DEF Items
<1>2. Len(Items) \in Nat /\ Items \in Seq(Int)
  BY <1>1 DEF Undef
<1>3. Elements \subseteq 1 .. Len(Items)
  BY <1>1 DEF Elements
<1>4. IsFiniteSet(1 .. Len(Items)) /\ Cardinality(1 .. Len(Items)) <= Len(Items)
  <2>1. 1 \in Int /\ Len(Items) \in Int
    BY <1>2
  <2>2. /\ IsFiniteSet(1 .. Len(Items))
        /\ Cardinality(1 .. Len(Items)) = IF 1 > Len(Items) THEN 0 ELSE Len(Items) - 1 + 1
    BY <2>1, FS_Interval
  <2> QED BY <1>2, <2>2
<1>5. IsFiniteSet(Elements) /\ N <= Cardinality(1 .. Len(Items))
  BY <1>3, <1>4, FS_Subset DEF N
<1>6. Cardinality(1 .. Len(Items)) \in Nat /\ N \in Nat
  BY <1>4, <1>5, FS_CardinalityType DEF N
<1>7. N <= MaxArray
  BY NIsSmall
<1> QED BY <1>2, <1>3, <1>4, <1>5, <1>6, <1>7

Rank(e) == Cardinality({d \in Elements : d < e})

LEMMA RanksAre ==
    ASSUME input \in Inputs
    PROVE  /\ \A e \in Elements : Rank(e) \in 0 .. N - 1
           /\ \A e, f \in Elements : e < f => Rank(e) # Rank(f)
<1>1. Elements \subseteq Nat /\ IsFiniteSet(Elements) /\ N \in Nat
  BY ElementsAre
<1> DEFINE Before(e) == {d \in Elements : d < e}
<1>2. ASSUME NEW e \in Elements
      PROVE  /\ IsFiniteSet(Before(e)) /\ Rank(e) \in Nat
             /\ Rank(e) <= N /\ Rank(e) # N
  <2>1. Before(e) \in SUBSET Elements /\ e \notin Before(e)
    BY <1>1
  <2>2. IsFiniteSet(Before(e)) /\ Rank(e) = Cardinality(Before(e))
    BY <1>1, <2>1, FS_Subset DEF Rank
  <2>3. Rank(e) \in Nat
    BY <2>2, FS_CardinalityType
  <2>4. Cardinality(Before(e)) <= Cardinality(Elements)
    BY <1>1, <2>1, FS_Subset
  <2>5. Cardinality(Before(e)) # Cardinality(Elements)
    BY <1>1, <2>1, FS_Subset
  <2> QED BY <2>2, <2>3, <2>4, <2>5 DEF N
<1>3. \A e \in Elements : Rank(e) \in 0 .. N - 1
  <2>1. \A e \in Elements : Rank(e) \in Nat /\ Rank(e) <= N /\ Rank(e) # N
    BY <1>2
  <2> QED BY <1>1, <2>1
<1>4. ASSUME NEW e \in Elements, NEW f \in Elements, e < f
      PROVE  Rank(e) # Rank(f)
  <2>1. Before(e) \subseteq Before(f)
    <3>1. \A d \in Elements : d < e => d < f
      BY <1>1, <1>4
    <3> QED BY <3>1
  <2>4. e \in Before(f) /\ e \notin Before(e)
    BY <1>1, <1>4
  <2>2. IsFiniteSet(Before(f))
    BY <1>2
  <2>3. Cardinality(Before(f)) # Cardinality(Before(e))
    BY <2>1, <2>4, <2>2, FS_Subset
  <2> QED BY <2>3 DEF Rank
<1> QED BY <1>3, <1>4

\* The copy, as it is first, is the elements.
LEMMA InOrderIs ==
    ASSUME input \in Inputs
    PROVE  /\ \A i \in 0 .. N - 1 : InOrder(i) \in Elements /\ Rank(InOrder(i)) = i
           /\ \A e \in Elements : \E i \in 0 .. N - 1 : InOrder(i) = e
<1>1. Elements \subseteq Nat /\ IsFiniteSet(Elements) /\ N \in Nat
  BY ElementsAre
<1>2. PICK f : f = [e \in Elements |-> Rank(e)]
  OBVIOUS
<1>3. f \in [Elements -> 0 .. N - 1] /\ \A e \in Elements : f[e] = Rank(e)
  BY <1>2, RanksAre
<1>4. \A d, e \in Elements : f[d] = f[e] => d = e
  BY <1>1, <1>3, RanksAre
<1>5. f \in Injection(Elements, 0 .. N - 1)
  BY <1>3, <1>4 DEF Injection, IsInjective
<1>6. IsFiniteSet(0 .. N - 1) /\ Cardinality(0 .. N - 1) = N
  <2>1. /\ IsFiniteSet(0 .. N - 1)
        /\ Cardinality(0 .. N - 1) = IF 0 > N - 1 THEN 0 ELSE (N - 1) - 0 + 1
    BY <1>1, FS_Interval
  <2> QED BY <1>1, <2>1
<1>7. f \in Surjection(Elements, 0 .. N - 1)
  BY <1>5, <1>6, FS_Injection DEF N
<1>8. \A i \in 0 .. N - 1 : \E e \in Elements : Rank(e) = i
  BY <1>3, <1>7 DEF Surjection
<1>9. ASSUME NEW i \in 0 .. N - 1
      PROVE  InOrder(i) \in Elements /\ Rank(InOrder(i)) = i
  BY <1>8 DEF InOrder, Rank
<1>10. ASSUME NEW e \in Elements
       PROVE  \E i \in 0 .. N - 1 : InOrder(i) = e
  <2>1. PICK i \in 0 .. N - 1 : i = Rank(e)
    BY RanksAre
  <2>2. InOrder(i) = e
    BY <1>3, <1>4, <1>9, <2>1
  <2> QED BY <2>2
<1> QED BY <1>9, <1>10

Held(v) == v \in [0 .. N - 1 -> Elements]
Complete(v) == Held(v) /\ \A e \in Elements : \E i \in 0 .. N - 1 : v[i] = e

----------------------------------------------------------------------------
(* Moving elements over the gap of a merge *)

\* What is left of a merge that fills the gap from its low end: n elements of tmp, from ct
\* on, and r of the copy, from cw on, which is where the gap ends.
LowLeft(tmp, dest, ct, cw, n, r, v) ==
    /\ n \in Nat /\ r \in Nat /\ dest \in Nat /\ ct \in Nat
    /\ cw = dest + n /\ cw + r <= N
    /\ \E size \in Nat : ct + n = size /\ tmp \in [0 .. size - 1 -> Elements]
    /\ Held(v)
    /\ \A e \in Elements : \/ \E i \in 0 .. N - 1 : (i < dest \/ i >= cw) /\ v[i] = e
                           \/ \E j \in ct .. ct + n - 1 : tmp[j] = e

\* The mirror image: the gap is filled from its high end, from the last of both.
HighLeft(tmp, dest, ct, cw, n, r, v) ==
    /\ n \in Nat /\ r \in Nat /\ dest \in Int /\ dest < N
    /\ ct = n - 1 /\ cw = dest - n /\ cw - r + 1 >= 0
    /\ \E size \in Nat : n <= size /\ tmp \in [0 .. size - 1 -> Elements]
    /\ Held(v)
    /\ \A e \in Elements : \/ \E i \in 0 .. N - 1 : (i <= cw \/ i > dest) /\ v[i] = e
                           \/ \E j \in 0 .. n - 1 : tmp[j] = e

LEMMA LowFromTmp ==
    ASSUME NEW tmp, NEW dest, NEW ct, NEW cw, NEW n, NEW r, NEW v, N \in Nat,
           LowLeft(tmp, dest, ct, cw, n, r, v), NEW k \in 0 .. n
    PROVE  LowLeft(tmp, dest + k, ct + k, cw, n - k, r, Moved(v, tmp, ct, dest, k))
<1>1. /\ n \in Nat /\ r \in Nat /\ dest \in Nat /\ ct \in Nat
      /\ cw = dest + n /\ cw + r <= N /\ k \in Nat /\ k <= n /\ Held(v)
  BY DEF LowLeft
<1>2. PICK size \in Nat : ct + n = size /\ tmp \in [0 .. size - 1 -> Elements]
  BY DEF LowLeft
<1>3. PICK u : u = Moved(v, tmp, ct, dest, k)
  OBVIOUS
<1>4. \A i \in 0 .. N - 1 : dest <= i /\ i < dest + k => ct + i - dest \in 0 .. size - 1
  BY <1>1, <1>2
<1>5. /\ Held(u)
      /\ \A i \in 0 .. N - 1 : dest <= i /\ i < dest + k => u[i] = tmp[ct + i - dest]
      /\ \A i \in 0 .. N - 1 : ~(dest <= i /\ i < dest + k) => u[i] = v[i]
  <2>1. \A i \in 0 .. N - 1 : dest <= i /\ i < dest + k => tmp[ct + i - dest] \in Elements
    BY <1>2, <1>4
  <2>2. DOMAIN v = 0 .. N - 1 /\ \A i \in 0 .. N - 1 : v[i] \in Elements
    BY <1>1 DEF Held
  <2>3. u = [i \in 0 .. N - 1 |-> IF dest <= i /\ i < dest + k THEN tmp[ct + i - dest] ELSE v[i]]
    BY <1>3, <2>2 DEF Moved
  <2> QED BY <2>1, <2>2, <2>3 DEF Held
<1>6. ASSUME NEW e \in Elements
      PROVE  \/ \E i \in 0 .. N - 1 : (i < dest + k \/ i >= cw) /\ u[i] = e
             \/ \E j \in ct + k .. (ct + k) + (n - k) - 1 : tmp[j] = e
  <2>1. CASE \E i \in 0 .. N - 1 : (i < dest \/ i >= cw) /\ v[i] = e
    <3>1. PICK i \in 0 .. N - 1 : (i < dest \/ i >= cw) /\ v[i] = e
      BY <2>1
    <3>2. u[i] = e /\ (i < dest + k \/ i >= cw)
      BY <1>1, <1>5, <3>1
    <3> QED BY <3>2
  <2>2. CASE \E j \in ct .. ct + n - 1 : tmp[j] = e
    <3>1. PICK j \in ct .. ct + n - 1 : tmp[j] = e
      BY <2>2
    <3>2. CASE j < ct + k
      <4>1. PICK i \in 0 .. N - 1 : i = dest + (j - ct) /\ dest <= i /\ i < dest + k /\ ct + i - dest = j
        BY <1>1, <3>1, <3>2
      <4> QED BY <1>5, <3>1, <4>1
    <3>3. CASE j >= ct + k
      BY <1>1, <3>1, <3>3
    <3> QED BY <1>1, <3>1, <3>2, <3>3
  <2> QED BY <2>1, <2>2 DEF LowLeft
<1>7. n - k \in Nat /\ dest + k \in Nat /\ ct + k \in Nat /\ cw = (dest + k) + (n - k)
      /\ (ct + k) + (n - k) = size
  BY <1>1, <1>2
<1> QED BY <1>1, <1>2, <1>3, <1>5, <1>6, <1>7 DEF LowLeft

LEMMA LowFromCopy ==
    ASSUME NEW tmp, NEW dest, NEW ct, NEW cw, NEW n, NEW r, NEW v, N \in Nat,
           LowLeft(tmp, dest, ct, cw, n, r, v), NEW k \in 0 .. r
    PROVE  LowLeft(tmp, dest + k, ct, cw + k, n, r - k, Moved(v, v, cw, dest, k))
<1>1. /\ n \in Nat /\ r \in Nat /\ dest \in Nat /\ ct \in Nat
      /\ cw = dest + n /\ cw + r <= N /\ k \in Nat /\ k <= r /\ Held(v)
  BY DEF LowLeft
<1>2. PICK size \in Nat : ct + n = size /\ tmp \in [0 .. size - 1 -> Elements]
  BY DEF LowLeft
<1>3. PICK u : u = Moved(v, v, cw, dest, k)
  OBVIOUS
<1>4. \A i \in 0 .. N - 1 : dest <= i /\ i < dest + k => cw + i - dest \in 0 .. N - 1
  BY <1>1
<1>5. /\ Held(u)
      /\ \A i \in 0 .. N - 1 : dest <= i /\ i < dest + k => u[i] = v[cw + i - dest]
      /\ \A i \in 0 .. N - 1 : ~(dest <= i /\ i < dest + k) => u[i] = v[i]
  <2>1. \A i \in 0 .. N - 1 : dest <= i /\ i < dest + k => v[cw + i - dest] \in Elements
    BY <1>1, <1>4 DEF Held
  <2>2. DOMAIN v = 0 .. N - 1 /\ \A i \in 0 .. N - 1 : v[i] \in Elements
    BY <1>1 DEF Held
  <2>3. u = [i \in 0 .. N - 1 |-> IF dest <= i /\ i < dest + k THEN v[cw + i - dest] ELSE v[i]]
    BY <1>3, <2>2 DEF Moved
  <2> QED BY <2>1, <2>2, <2>3 DEF Held
<1>6. ASSUME NEW e \in Elements
      PROVE  \/ \E i \in 0 .. N - 1 : (i < dest + k \/ i >= cw + k) /\ u[i] = e
             \/ \E j \in ct .. ct + n - 1 : tmp[j] = e
  <2>1. CASE \E i \in 0 .. N - 1 : (i < dest \/ i >= cw) /\ v[i] = e
    <3>1. PICK i \in 0 .. N - 1 : (i < dest \/ i >= cw) /\ v[i] = e
      BY <2>1
    <3>2. CASE i < dest \/ i >= cw + k
      BY <1>1, <1>5, <3>1, <3>2
    <3>3. CASE i >= cw /\ i < cw + k
      <4>1. PICK h \in 0 .. N - 1 : h = dest + (i - cw) /\ dest <= h /\ h < dest + k /\ cw + h - dest = i
        BY <1>1, <3>1, <3>3
      <4> QED BY <1>5, <3>1, <4>1
    <3> QED BY <1>1, <3>1, <3>2, <3>3
  <2>2. CASE \E j \in ct .. ct + n - 1 : tmp[j] = e
    BY <2>2
  <2> QED BY <2>1, <2>2 DEF LowLeft
<1>7. r - k \in Nat /\ dest + k \in Nat /\ cw + k = (dest + k) + n /\ (cw + k) + (r - k) <= N
  BY <1>1
<1> QED BY <1>1, <1>2, <1>3, <1>5, <1>6, <1>7 DEF LowLeft

LEMMA HighFromTmp ==
    ASSUME NEW tmp, NEW dest, NEW ct, NEW cw, NEW n, NEW r, NEW v, N \in Nat,
           HighLeft(tmp, dest, ct, cw, n, r, v), NEW k \in 0 .. n
    PROVE  HighLeft(tmp, dest - k, ct - k, cw, n - k, r,
                    Moved(v, tmp, ct - k + 1, dest - k + 1, k))
<1>1. /\ n \in Nat /\ r \in Nat /\ dest \in Int /\ dest < N /\ ct = n - 1
      /\ cw = dest - n /\ cw - r + 1 >= 0 /\ k \in Nat /\ k <= n /\ Held(v)
  BY DEF HighLeft
<1>2. PICK size \in Nat : n <= size /\ tmp \in [0 .. size - 1 -> Elements]
  BY DEF HighLeft
<1>3. PICK src \in Int, dst \in Int : src = ct - k + 1 /\ dst = dest - k + 1
  BY <1>1
<1>4. PICK u : u = Moved(v, tmp, src, dst, k)
  OBVIOUS
<1>5. \A i \in 0 .. N - 1 : dst <= i /\ i < dst + k => src + i - dst \in 0 .. size - 1
  BY <1>1, <1>2, <1>3
<1>6. /\ Held(u)
      /\ \A i \in 0 .. N - 1 : dst <= i /\ i < dst + k => u[i] = tmp[src + i - dst]
      /\ \A i \in 0 .. N - 1 : ~(dst <= i /\ i < dst + k) => u[i] = v[i]
  <2>1. \A i \in 0 .. N - 1 : dst <= i /\ i < dst + k => tmp[src + i - dst] \in Elements
    BY <1>2, <1>5
  <2>2. DOMAIN v = 0 .. N - 1 /\ \A i \in 0 .. N - 1 : v[i] \in Elements
    BY <1>1 DEF Held
  <2>3. u = [i \in 0 .. N - 1 |-> IF dst <= i /\ i < dst + k THEN tmp[src + i - dst] ELSE v[i]]
    BY <1>4, <2>2 DEF Moved
  <2> QED BY <2>1, <2>2, <2>3 DEF Held
<1>7. ASSUME NEW e \in Elements
      PROVE  \/ \E i \in 0 .. N - 1 : (i <= cw \/ i > dest - k) /\ u[i] = e
             \/ \E j \in 0 .. n - k - 1 : tmp[j] = e
  <2>1. CASE \E i \in 0 .. N - 1 : (i <= cw \/ i > dest) /\ v[i] = e
    <3>1. PICK i \in 0 .. N - 1 : (i <= cw \/ i > dest) /\ v[i] = e
      BY <2>1
    <3>2. u[i] = e /\ (i <= cw \/ i > dest - k)
      BY <1>1, <1>3, <1>6, <3>1
    <3> QED BY <3>2
  <2>2. CASE \E j \in 0 .. n - 1 : tmp[j] = e
    <3>1. PICK j \in 0 .. n - 1 : tmp[j] = e
      BY <2>2
    <3>2. CASE j >= n - k
      <4>1. PICK i \in 0 .. N - 1 : i = dst + (j - src) /\ dst <= i /\ i < dst + k /\ src + i - dst = j
        BY <1>1, <1>3, <3>1, <3>2
      <4>2. i > dest - k
        BY <1>1, <1>3, <4>1
      <4> QED BY <1>6, <3>1, <4>1, <4>2
    <3>3. CASE j < n - k
      BY <1>1, <3>1, <3>3
    <3> QED BY <1>1, <3>1, <3>2, <3>3
  <2> QED BY <2>1, <2>2 DEF HighLeft
<1>8. n - k \in Nat /\ dest - k \in Int /\ dest - k < N /\ ct - k = n - k - 1
      /\ cw = (dest - k) - (n - k) /\ n - k <= size
  BY <1>1, <1>2
<1> QED BY <1>1, <1>2, <1>3, <1>4, <1>6, <1>7, <1>8 DEF HighLeft

LEMMA HighFromCopy ==
    ASSUME NEW tmp, NEW dest, NEW ct, NEW cw, NEW n, NEW r, NEW v, N \in Nat,
           HighLeft(tmp, dest, ct, cw, n, r, v), NEW k \in 0 .. r
    PROVE  HighLeft(tmp, dest - k, ct, cw - k, n, r - k,
                    Moved(v, v, cw - k + 1, dest - k + 1, k))
<1>1. /\ n \in Nat /\ r \in Nat /\ dest \in Int /\ dest < N /\ ct = n - 1
      /\ cw = dest - n /\ cw - r + 1 >= 0 /\ k \in Nat /\ k <= r /\ Held(v)
  BY DEF HighLeft
<1>2. PICK size \in Nat : n <= size /\ tmp \in [0 .. size - 1 -> Elements]
  BY DEF HighLeft
<1>3. PICK src \in Int, dst \in Int : src = cw - k + 1 /\ dst = dest - k + 1
  BY <1>1
<1>4. PICK u : u = Moved(v, v, src, dst, k)
  OBVIOUS
<1>5. \A i \in 0 .. N - 1 : dst <= i /\ i < dst + k => src + i - dst \in 0 .. N - 1
  BY <1>1, <1>3
<1>6. /\ Held(u)
      /\ \A i \in 0 .. N - 1 : dst <= i /\ i < dst + k => u[i] = v[src + i - dst]
      /\ \A i \in 0 .. N - 1 : ~(dst <= i /\ i < dst + k) => u[i] = v[i]
  <2>1. \A i \in 0 .. N - 1 : dst <= i /\ i < dst + k => v[src + i - dst] \in Elements
    BY <1>1, <1>5 DEF Held
  <2>2. DOMAIN v = 0 .. N - 1 /\ \A i \in 0 .. N - 1 : v[i] \in Elements
    BY <1>1 DEF Held
  <2>3. u = [i \in 0 .. N - 1 |-> IF dst <= i /\ i < dst + k THEN v[src + i - dst] ELSE v[i]]
    BY <1>4, <2>2 DEF Moved
  <2> QED BY <2>1, <2>2, <2>3 DEF Held
<1>7. ASSUME NEW e \in Elements
      PROVE  \/ \E i \in 0 .. N - 1 : (i <= cw - k \/ i > dest - k) /\ u[i] = e
             \/ \E j \in 0 .. n - 1 : tmp[j] = e
  <2>1. CASE \E i \in 0 .. N - 1 : (i <= cw \/ i > dest) /\ v[i] = e
    <3>1. PICK i \in 0 .. N - 1 : (i <= cw \/ i > dest) /\ v[i] = e
      BY <2>1
    <3>2. CASE i <= cw - k \/ i > dest
      BY <1>1, <1>3, <1>6, <3>1, <3>2
    <3>3. CASE i > cw - k /\ i <= cw
      <4>1. PICK h \in 0 .. N - 1 : h = dst + (i - src) /\ dst <= h /\ h < dst + k /\ src + h - dst = i
        BY <1>1, <1>3, <3>1, <3>3
      <4>2. h > dest - k
        BY <1>1, <1>3, <4>1
      <4> QED BY <1>6, <3>1, <4>1, <4>2
    <3> QED BY <1>1, <3>1, <3>2, <3>3
  <2>2. CASE \E j \in 0 .. n - 1 : tmp[j] = e
    BY <2>2
  <2> QED BY <2>1, <2>2 DEF HighLeft
<1>8. r - k \in Nat /\ dest - k \in Int /\ dest - k < N
      /\ cw - k = (dest - k) - n /\ (cw - k) - (r - k) + 1 >= 0
  BY <1>1
<1> QED BY <1>1, <1>2, <1>3, <1>4, <1>6, <1>7, <1>8 DEF HighLeft

----------------------------------------------------------------------------
(* A merge under way *)

MergeState(m) ==
    /\ m = [side |-> m.side, back |-> m.back, tmp |-> m.tmp, dest |-> m.dest, ct |-> m.ct,
            cw |-> m.cw, len |-> m.len, won |-> m.won, mg |-> m.mg]
    /\ m.side \in {"low", "high"}
    /\ m.len \in [{"A", "B"} -> Nat] /\ m.won \in [{"A", "B"} -> Nat] /\ m.mg \in Nat \ {0}

\* Every element is somewhere.
Left(m, v) ==
    IF m.side = "low" THEN LowLeft(m.tmp, m.dest, m.ct, m.cw, m.len["A"], m.len["B"], v)
    ELSE HighLeft(m.tmp, m.dest, m.ct, m.cw, m.len["B"], m.len["A"], v)
Good(m, v) == MergeState(m) /\ Left(m, v)

LEMMA SidesAre ==
    ASSUME NEW m, MergeState(m)
    PROVE  \/ m.side = "low" /\ InTmp(m) = "A" /\ InW(m) = "B"
           \/ m.side = "high" /\ InTmp(m) = "B" /\ InW(m) = "A"
  BY DEF MergeState, InTmp, InW

LEMMA TakenIs ==
    ASSUME NEW m, MergeState(m), NEW run \in {"A", "B"}, NEW k \in 0 .. m.len[run],
           NEW t, t = Taken(m, run, k)
    PROVE  /\ MergeState(t)
           /\ t.side = m.side /\ t.back = m.back /\ t.tmp = m.tmp /\ t.won = m.won /\ t.mg = m.mg
           /\ t.len[run] = m.len[run] - k
           /\ \A x \in {"A", "B"} : x # run => t.len[x] = m.len[x]
           /\ t.dest = m.dest + (IF m.side = "low" THEN k ELSE 0 - k)
           /\ t.ct = IF run = InTmp(m) THEN m.ct + (IF m.side = "low" THEN k ELSE 0 - k) ELSE m.ct
           /\ t.cw = IF run = InW(m) THEN m.cw + (IF m.side = "low" THEN k ELSE 0 - k) ELSE m.cw
<1>1. PICK d : d = IF m.side = "low" THEN k ELSE 0 - k
  OBVIOUS
<1>2. PICK left : left = [m.len EXCEPT ![run] = @ - k]
  OBVIOUS
<1>3. PICK ct, cw, dest : /\ ct = IF run = InTmp(m) THEN m.ct + d ELSE m.ct
                          /\ cw = IF run = InW(m) THEN m.cw + d ELSE m.cw
                          /\ dest = m.dest + d
  OBVIOUS
<1>4. t = [m EXCEPT !.dest = dest, !.len = left, !.ct = ct, !.cw = cw]
  <2>1. t = [m EXCEPT !.dest = @ + d, !.len[run] = @ - k,
                      !.ct = IF run = InTmp(m) THEN @ + d ELSE @,
                      !.cw = IF run = InW(m) THEN @ + d ELSE @]
    BY <1>1, Zenon DEF Taken
  <2> QED BY <1>2, <1>3, <2>1
<1>5. /\ left \in [{"A", "B"} -> Nat] /\ left[run] = m.len[run] - k
      /\ \A x \in {"A", "B"} : x # run => left[x] = m.len[x]
  BY <1>2 DEF MergeState
<1>6. /\ t.side = m.side /\ t.back = m.back /\ t.tmp = m.tmp /\ t.won = m.won /\ t.mg = m.mg
      /\ t.len = left /\ t.ct = ct /\ t.cw = cw /\ t.dest = dest
      /\ t = [side |-> t.side, back |-> t.back, tmp |-> t.tmp, dest |-> t.dest, ct |-> t.ct,
              cw |-> t.cw, len |-> t.len, won |-> t.won, mg |-> t.mg]
  BY <1>4 DEF MergeState
<1>7. MergeState(t)
  BY <1>5, <1>6 DEF MergeState
<1> QED BY <1>1, <1>3, <1>5, <1>6, <1>7

\* Elements go to the gap, and none is lost.
LEMMA TakenGood ==
    ASSUME NEW m, NEW v, Good(m, v), N \in Nat, NEW run \in {"A", "B"}, NEW k \in 0 .. m.len[run]
    PROVE  Good(Taken(m, run, k), Filled(m, v, run, k))
<1>1. MergeState(m) /\ k \in Nat /\ m.len["A"] \in Nat /\ m.len["B"] \in Nat
  BY DEF Good, MergeState
<1>2. PICK t : t = Taken(m, run, k)
  OBVIOUS
<1>3. /\ MergeState(t) /\ t.side = m.side /\ t.tmp = m.tmp
      /\ t.len[run] = m.len[run] - k
      /\ \A x \in {"A", "B"} : x # run => t.len[x] = m.len[x]
      /\ t.dest = m.dest + (IF m.side = "low" THEN k ELSE 0 - k)
      /\ t.ct = IF run = InTmp(m) THEN m.ct + (IF m.side = "low" THEN k ELSE 0 - k) ELSE m.ct
      /\ t.cw = IF run = InW(m) THEN m.cw + (IF m.side = "low" THEN k ELSE 0 - k) ELSE m.cw
  BY <1>1, <1>2, TakenIs
<1>4. CASE m.side = "low" /\ run = "A"
  <2>1. LowLeft(m.tmp, m.dest + k, m.ct + k, m.cw, m.len["A"] - k, m.len["B"],
                Moved(v, m.tmp, m.ct, m.dest, k))
    BY <1>4, LowFromTmp DEF Good, Left
  <2>2. Filled(m, v, run, k) = Moved(v, m.tmp, m.ct, m.dest, k)
    BY <1>4 DEF Filled, Source, Cursor, InTmp
  <2> QED BY <1>2, <1>3, <1>4, <2>1, <2>2 DEF Good, Left, InTmp, InW
<1>5. CASE m.side = "low" /\ run = "B"
  <2>1. LowLeft(m.tmp, m.dest + k, m.ct, m.cw + k, m.len["A"], m.len["B"] - k,
                Moved(v, v, m.cw, m.dest, k))
    BY <1>5, LowFromCopy DEF Good, Left
  <2>2. Filled(m, v, run, k) = Moved(v, v, m.cw, m.dest, k)
    BY <1>5 DEF Filled, Source, Cursor, InTmp
  <2> QED BY <1>2, <1>3, <1>5, <2>1, <2>2 DEF Good, Left, InTmp, InW
<1>6. CASE m.side # "low" /\ run = "B"
  <2>1. HighLeft(m.tmp, m.dest - k, m.ct - k, m.cw, m.len["B"] - k, m.len["A"],
                 Moved(v, m.tmp, m.ct - k + 1, m.dest - k + 1, k))
    BY <1>6, HighFromTmp DEF Good, Left
  <2>2. Filled(m, v, run, k) = Moved(v, m.tmp, m.ct - k + 1, m.dest - k + 1, k)
    BY <1>6 DEF Filled, Source, Cursor, InTmp
  <2>3. m.dest \in Int /\ m.ct \in Int
    BY <1>1, <1>6 DEF Good, Left, HighLeft
  <2>4. t.dest = m.dest - k /\ t.ct = m.ct - k /\ t.cw = m.cw
    BY <1>1, <1>3, <1>6, <2>3 DEF InTmp, InW
  <2> QED BY <1>2, <1>3, <1>6, <2>1, <2>2, <2>4 DEF Good, Left
<1>7. CASE m.side # "low" /\ run = "A"
  <2>1. HighLeft(m.tmp, m.dest - k, m.ct, m.cw - k, m.len["B"], m.len["A"] - k,
                 Moved(v, v, m.cw - k + 1, m.dest - k + 1, k))
    BY <1>7, HighFromCopy DEF Good, Left
  <2>2. Filled(m, v, run, k) = Moved(v, v, m.cw - k + 1, m.dest - k + 1, k)
    BY <1>7 DEF Filled, Source, Cursor, InTmp
  <2>3. m.dest \in Int /\ m.cw \in Int
    BY <1>1, <1>7 DEF Good, Left, HighLeft
  <2>4. t.dest = m.dest - k /\ t.ct = m.ct /\ t.cw = m.cw - k
    BY <1>1, <1>3, <1>7, <2>3 DEF InTmp, InW
  <2> QED BY <1>2, <1>3, <1>7, <2>1, <2>2, <2>4 DEF Good, Left
<1> QED BY <1>4, <1>5, <1>6, <1>7

LEMMA LensAre ==
    ASSUME NEW m, NEW v, Good(m, v), N \in Nat
    PROVE  \A x \in {"A", "B"} : m.len[x] \in Nat /\ m.len[x] <= N
<1>1. m.len["A"] \in Nat /\ m.len["B"] \in Nat
  BY DEF Good, MergeState
<1>2. CASE m.side = "low"
  BY <1>1, <1>2 DEF Good, Left, LowLeft
<1>3. CASE m.side # "low"
  BY <1>1, <1>3 DEF Good, Left, HighLeft
<1> QED BY <1>1, <1>2, <1>3

\* How many elements a merge has left.
LensOf(m) == m.len["A"] + m.len["B"]

Rewon(m, won, mg) == [m EXCEPT !.won = won, !.mg = mg]

LEMMA TakenLess ==
    ASSUME NEW m, MergeState(m), NEW run \in {"A", "B"}, NEW k \in 0 .. m.len[run]
    PROVE  /\ Taken(m, run, k).back = m.back
           /\ LensOf(m) \in Nat /\ LensOf(Taken(m, run, k)) = LensOf(m) - k
<1>1. PICK t : t = Taken(m, run, k)
  OBVIOUS
<1>2. /\ m.len["A"] \in Nat /\ m.len["B"] \in Nat /\ t.back = m.back
      /\ t.len[run] = m.len[run] - k /\ \A x \in {"A", "B"} : x # run => t.len[x] = m.len[x]
  BY <1>1, TakenIs DEF MergeState
<1>3. k \in Nat
  BY <1>2
<1>4. CASE run = "A"
  BY <1>1, <1>2, <1>3, <1>4 DEF LensOf
<1>5. CASE run = "B"
  BY <1>1, <1>2, <1>3, <1>5 DEF LensOf
<1> QED BY <1>4, <1>5

\* What was won, and when to gallop, is not about where elements are.
LEMMA RewonGood ==
    ASSUME NEW m, NEW v, Good(m, v), NEW won \in [{"A", "B"} -> Nat], NEW mg \in Nat \ {0},
           NEW t, t = Rewon(m, won, mg)
    PROVE  /\ Good(t, v) /\ t.side = m.side /\ t.back = m.back /\ t.len = m.len
           /\ t.won = won /\ t.mg = mg
<1>1. MergeState(m)
  BY DEF Good
<1>2. /\ t.side = m.side /\ t.back = m.back /\ t.tmp = m.tmp /\ t.won = won /\ t.mg = mg
      /\ t.len = m.len /\ t.ct = m.ct /\ t.cw = m.cw /\ t.dest = m.dest
      /\ t = [side |-> t.side, back |-> t.back, tmp |-> t.tmp, dest |-> t.dest, ct |-> t.ct,
              cw |-> t.cw, len |-> t.len, won |-> t.won, mg |-> t.mg]
  BY <1>1 DEF MergeState, Rewon
<1>3. MergeState(t)
  BY <1>1, <1>2 DEF MergeState
<1>4. Left(t, v)
  BY <1>2 DEF Good, Left
<1> QED BY <1>2, <1>3, <1>4 DEF Good

\* With tmp empty the gap is closed.
LEMMA NoGapLeft ==
    ASSUME NEW m, NEW v, Good(m, v), N \in Nat, m.len[InTmp(m)] = 0
    PROVE  Complete(v)
<1>1. CASE m.side = "low"
  <2>1. m.len["A"] = 0 /\ LowLeft(m.tmp, m.dest, m.ct, m.cw, m.len["A"], m.len["B"], v)
    BY <1>1 DEF Good, Left, InTmp
  <2>2. /\ Held(v) /\ m.ct \in Nat /\ m.dest \in Nat /\ m.cw = m.dest + 0
        /\ \A e \in Elements : \/ \E i \in 0 .. N - 1 : (i < m.dest \/ i >= m.cw) /\ v[i] = e
                               \/ \E j \in m.ct .. m.ct + 0 - 1 : m.tmp[j] = e
    BY <2>1 DEF LowLeft
  <2>3. ~ \E j \in m.ct .. m.ct + 0 - 1 : TRUE
    BY <2>2
  <2> QED BY <2>2, <2>3 DEF Complete
<1>2. CASE m.side # "low"
  <2>1. m.len["B"] = 0 /\ HighLeft(m.tmp, m.dest, m.ct, m.cw, m.len["B"], m.len["A"], v)
    BY <1>2 DEF Good, Left, InTmp
  <2> QED BY <2>1 DEF HighLeft, Complete
<1> QED BY <1>1, <1>2

LEMMA OutcomeIs ==
    ASSUME NEW m, MergeState(m)
    PROVE  /\ Outcome(m) \in {"succeed", "copy", "go"}
           /\ Outcome(m) = "copy" => m.len[InTmp(m)] = 1
           /\ Outcome(m) = "go" => m.len["A"] > 0 /\ m.len["B"] > 0
<1>1. m.len["A"] \in Nat /\ m.len["B"] \in Nat
  BY DEF MergeState
<1>2. m.len[InW(m)] \in Nat /\ m.len[InTmp(m)] \in Nat
  BY <1>1, SidesAre
<1>3. CASE m.len[InW(m)] = 0
  <2>1. Outcome(m) = "succeed"
    BY <1>2, <1>3 DEF Outcome
  <2> QED BY <2>1
<1>4. CASE m.len[InW(m)] # 0 /\ m.len[InTmp(m)] = 1
  <2>1. Outcome(m) = "copy"
    BY <1>2, <1>4 DEF Outcome
  <2> QED BY <2>1, <1>4
<1>5. CASE m.len[InW(m)] # 0 /\ m.len[InTmp(m)] = 0
  <2>1. Outcome(m) = "succeed"
    BY <1>2, <1>5 DEF Outcome
  <2> QED BY <2>1
<1>6. CASE m.len[InW(m)] # 0 /\ m.len[InTmp(m)] # 0 /\ m.len[InTmp(m)] # 1
  <2>1. Outcome(m) = "go"
    BY <1>2, <1>6 DEF Outcome
  <2>2. m.len["A"] > 0 /\ m.len["B"] > 0
    BY <1>1, <1>6, SidesAre
  <2> QED BY <2>1, <2>2
<1> QED BY <1>3, <1>4, <1>5, <1>6

\* The copy is complete, or a merge is under way and its gap and tmp make up for it.
Apart(m, v) ==
    \/ m = NoMerge /\ Complete(v)
    \/ Good(m, v) /\ m.len["A"] > 0 /\ m.len["B"] > 0

LEMMA EndGood ==
    ASSUME NEW m, NEW v, Good(m, v), N \in Nat, Outcome(m) # "go", EndMerge(m, v)
    PROVE  Apart(merge', w') /\ merge' = NoMerge /\ pc' = m.back
<1>1. MergeState(m) /\ InTmp(m) \in {"A", "B"} /\ InW(m) \in {"A", "B"} /\ InTmp(m) # InW(m)
  BY SidesAre DEF Good
<1>2. m.len[InTmp(m)] \in Nat /\ m.len[InW(m)] \in Nat
  BY <1>1 DEF MergeState
<1>3. CASE Outcome(m) = "succeed"
  <2>1. PICK t : t = Taken(m, InTmp(m), m.len[InTmp(m)])
    OBVIOUS
  <2>2. w' = Filled(m, v, InTmp(m), m.len[InTmp(m)])
    BY <1>3 DEF EndMerge
  <2>3. m.len[InTmp(m)] \in 0 .. m.len[InTmp(m)]
    BY <1>2
  <2>4. Good(t, w')
    BY <1>1, <2>1, <2>2, <2>3, TakenGood
  <2>5. t.len[InTmp(m)] = 0 /\ t.side = m.side
    BY <1>1, <1>2, <2>1, <2>3, TakenIs
  <2>6. InTmp(t) = InTmp(m)
    BY <2>5 DEF InTmp
  <2>7. Complete(w')
    BY <2>4, <2>5, <2>6, NoGapLeft
  <2> QED BY <2>7 DEF EndMerge, Apart
<1>4. CASE Outcome(m) # "succeed"
  <2>1. m.len[InTmp(m)] = 1
    BY <1>1, <1>4, OutcomeIs
  <2>2. PICK r : r = m.len[InW(m)]
    OBVIOUS
  <2>3. PICK t, u : t = Taken(m, InW(m), r) /\ u = Filled(m, v, InW(m), r)
    OBVIOUS
  <2>4. r \in 0 .. m.len[InW(m)]
    BY <1>2, <2>2
  <2>5. Good(t, u)
    BY <1>1, <2>3, <2>4, TakenGood
  <2>6. t.side = m.side /\ t.len[InTmp(m)] = 1
    BY <1>1, <2>1, <2>3, <2>4, TakenIs
  <2>7. PICK z : z = Taken(t, InTmp(m), 1)
    OBVIOUS
  <2>8. w' = Filled(t, u, InTmp(m), 1)
    BY <1>4, <2>2, <2>3 DEF EndMerge
  <2>9. 1 \in 0 .. t.len[InTmp(m)] /\ MergeState(t)
    BY <2>5, <2>6 DEF Good
  <2>10. Good(z, w')
    BY <1>1, <2>5, <2>7, <2>8, <2>9, TakenGood
  <2>11. z.len[InTmp(m)] = 0 /\ z.side = m.side
    BY <1>1, <2>6, <2>7, <2>9, TakenIs
  <2>12. InTmp(z) = InTmp(m)
    BY <2>11 DEF InTmp
  <2>13. Complete(w')
    BY <2>10, <2>11, <2>12, NoGapLeft
  <2> QED BY <2>13 DEF EndMerge, Apart
<1> QED BY <1>3, <1>4

LEMMA ProceedGood ==
    ASSUME NEW m, NEW v, Good(m, v), N \in Nat, NEW next, Proceed(m, v, next)
    PROVE  /\ Apart(merge', w')
           /\ \/ pc' = m.back /\ merge' = NoMerge
              \/ pc' = next /\ merge' = m
<1>1. MergeState(m)
  BY DEF Good
<1>2. CASE Outcome(m) = "go"
  BY <1>1, <1>2, OutcomeIs DEF Proceed, Apart
<1>3. CASE Outcome(m) # "go"
  <2>1. EndMerge(m, v)
    BY <1>3 DEF Proceed
  <2> QED BY <1>3, <2>1, EndGood
<1> QED BY <1>2, <1>3

\* What a step of a merge comes to: it is over, or fewer than n elements are left of it.
Merges(b, n) ==
    /\ Apart(merge', w')
    /\ \/ pc' = b /\ merge' = NoMerge
       \/ pc' \in Merging /\ merge' # NoMerge /\ LensOf(merge') < n

LEMMA GoodIsMerge ==
    ASSUME NEW m, MergeState(m)
    PROVE  m # NoMerge
<1>1. m.side \in {"low", "high"}
  BY DEF MergeState
<1>2. NoMerge.side = "none"
  BY DEF NoMerge
<1> QED BY <1>1, <1>2

LEMMA ProceedMerges ==
    ASSUME NEW m, NEW v, Good(m, v), N \in Nat, NEW next \in Merging, Proceed(m, v, next),
           NEW n, LensOf(m) < n
    PROVE  Merges(m.back, n)
<1>1. m # NoMerge
  BY GoodIsMerge DEF Good
<1> QED BY <1>1, ProceedGood DEF Merges

\* A merge as it begins: nothing was moved yet, and tmp is a copy of one of the runs.
Begun(m, baseA, lenA, baseB, lenB, back) ==
    /\ Good(m, w) /\ m.back = back /\ m.len["A"] = lenA /\ m.len["B"] = lenB
    /\ \/ /\ m.side = "low" /\ m.dest = baseA /\ m.ct = 0 /\ m.cw = baseB
          /\ \A i \in 0 .. lenA - 1 : m.tmp[i] = w[baseA + i]
       \/ /\ m.side = "high" /\ m.dest = baseB + lenB - 1 /\ m.cw = baseB - 1
          /\ \A i \in 0 .. lenB - 1 : m.tmp[i] = w[baseB + i]
    /\ Proceed(Taken(m, InW(m), 1), Filled(m, w, InW(m), 1), "single")

LEMMA BeginGood ==
    ASSUME Complete(w), N \in Nat, minGallop \in Nat \ {0},
           NEW baseA \in Nat, NEW lenA \in Nat \ {0}, NEW lenB \in Nat \ {0}, NEW baseB \in Nat,
           baseA + lenA = baseB, baseB + lenB <= N,
           NEW back, BeginMerge(baseA, lenA, baseB, lenB, back)
    PROVE  \E m : Begun(m, baseA, lenA, baseB, lenB, back)
<1> DEFINE isLow == lenA <= lenB
           base == IF isLow THEN baseA ELSE baseB
           size == IF isLow THEN lenA ELSE lenB
           none == [A |-> 0, B |-> 0]
           left == [A |-> lenA, B |-> lenB]
           tmp == [i \in 0 .. size - 1 |-> w[base + i]]
           dest == IF isLow THEN baseA ELSE baseB + lenB - 1
           ct == IF isLow THEN 0 ELSE lenB - 1
           cw == IF isLow THEN baseB ELSE baseA + lenA - 1
           side == IF isLow THEN "low" ELSE "high"
           m == [side |-> side, back |-> back, tmp |-> tmp, dest |-> dest, ct |-> ct, cw |-> cw,
                 len |-> left, won |-> none, mg |-> minGallop]
<1>1. Proceed(Taken(m, InW(m), 1), Filled(m, w, InW(m), 1), "single")
  BY DEF BeginMerge
<1>2. /\ left \in [{"A", "B"} -> Nat] /\ left["A"] = lenA /\ left["B"] = lenB
      /\ none \in [{"A", "B"} -> Nat]
  OBVIOUS
<1>3. /\ size \in Nat /\ base \in Nat /\ base + size <= N
      /\ side \in {"low", "high"} /\ (side = "low" <=> isLow)
  OBVIOUS
<1>4. /\ tmp \in [0 .. size - 1 -> Elements]
      /\ \A i \in 0 .. size - 1 : tmp[i] = w[base + i]
      /\ Held(w) /\ \A e \in Elements : \E i \in 0 .. N - 1 : w[i] = e
  <2>1. \A i \in 0 .. size - 1 : base + i \in 0 .. N - 1
    BY <1>3
  <2>2. \A i \in 0 .. size - 1 : w[base + i] \in Elements
    BY <2>1 DEF Complete, Held
  <2> QED BY <2>2 DEF Complete
<1> HIDE DEF tmp, left, none, side
<1>5. /\ m.side = side /\ m.back = back /\ m.tmp = tmp /\ m.dest = dest /\ m.ct = ct
      /\ m.cw = cw /\ m.len = left /\ m.won = none /\ m.mg = minGallop
      /\ m = [side |-> m.side, back |-> m.back, tmp |-> m.tmp, dest |-> m.dest, ct |-> m.ct,
              cw |-> m.cw, len |-> m.len, won |-> m.won, mg |-> m.mg]
  OBVIOUS
<1> HIDE DEF m
<1>6. MergeState(m)
  BY <1>2, <1>3, <1>5 DEF MergeState
<1>7. ASSUME isLow PROVE Good(m, w)
  <2>1. LowLeft(tmp, baseA, 0, baseB, lenA, lenB, w)
    <3>1. ASSUME NEW e \in Elements
          PROVE  \/ \E i \in 0 .. N - 1 : (i < baseA \/ i >= baseB) /\ w[i] = e
                 \/ \E j \in 0 .. 0 + lenA - 1 : tmp[j] = e
      <4>1. PICK i \in 0 .. N - 1 : w[i] = e
        BY <1>4
      <4>2. CASE i < baseA \/ i >= baseB
        BY <4>1, <4>2
      <4>3. CASE baseA <= i /\ i < baseB
        <5>1. i - baseA \in 0 .. lenA - 1 /\ baseA + (i - baseA) = i
          BY <4>3
        <5>2. tmp[i - baseA] = e
          BY <1>4, <1>7, <4>1, <5>1
        <5> QED BY <5>1, <5>2
      <4> QED BY <4>1, <4>2, <4>3
    <3>2. baseB = baseA + lenA /\ size = lenA /\ 0 + lenA = lenA
      BY <1>7
    <3> QED BY <1>3, <1>4, <3>1, <3>2 DEF LowLeft
  <2> QED BY <1>2, <1>3, <1>5, <1>6, <1>7, <2>1 DEF Good, Left
<1>8. ASSUME ~isLow PROVE Good(m, w)
  <2>1. HighLeft(tmp, dest, ct, cw, lenB, lenA, w)
    <3>1. ASSUME NEW e \in Elements
          PROVE  \/ \E i \in 0 .. N - 1 : (i <= cw \/ i > dest) /\ w[i] = e
                 \/ \E j \in 0 .. lenB - 1 : tmp[j] = e
      <4>1. PICK i \in 0 .. N - 1 : w[i] = e
        BY <1>4
      <4>2. CASE i <= cw \/ i > dest
        BY <4>1, <4>2
      <4>3. CASE cw < i /\ i <= dest
        <5>1. i - baseB \in 0 .. lenB - 1 /\ baseB + (i - baseB) = i
          BY <1>8, <4>3
        <5>2. tmp[i - baseB] = e
          BY <1>4, <1>8, <4>1, <5>1
        <5> QED BY <5>1, <5>2
      <4> QED BY <1>8, <4>1, <4>2, <4>3
    <3>2. /\ dest \in Int /\ dest < N /\ ct = lenB - 1 /\ cw = dest - lenB /\ size = lenB
          /\ cw - lenA + 1 >= 0
      BY <1>8
    <3> QED BY <1>3, <1>4, <3>1, <3>2 DEF HighLeft
  <2> QED BY <1>2, <1>3, <1>5, <1>6, <1>8, <2>1 DEF Good, Left
<1>9. m.len["A"] = lenA /\ m.len["B"] = lenB
  BY <1>2, <1>5
<1>10. \/ /\ m.side = "low" /\ m.dest = baseA /\ m.ct = 0 /\ m.cw = baseB
          /\ \A i \in 0 .. lenA - 1 : m.tmp[i] = w[baseA + i]
       \/ /\ m.side = "high" /\ m.dest = baseB + lenB - 1 /\ m.cw = baseB - 1
          /\ \A i \in 0 .. lenB - 1 : m.tmp[i] = w[baseB + i]
  <2>1. CASE isLow
    BY <1>3, <1>4, <1>5, <2>1
  <2>2. CASE ~isLow
    <3>1. m.side = "high" /\ m.dest = baseB + lenB - 1 /\ m.cw = baseB - 1
      BY <1>3, <1>5, <2>2
    <3>2. \A i \in 0 .. lenB - 1 : m.tmp[i] = w[baseB + i]
      BY <1>4, <1>5, <2>2
    <3> QED BY <3>1, <3>2
  <2> QED BY <2>1, <2>2
<1>11. Good(m, w)
  BY <1>7, <1>8
<1>12. Begun(m, baseA, lenA, baseB, lenB, back)
  BY <1>1, <1>5, <1>9, <1>10, <1>11, Zenon DEF Begun
<1> QED BY <1>12

LEMMA BeginMerges ==
    ASSUME Complete(w), N \in Nat, minGallop \in Nat \ {0},
           NEW baseA \in Nat, NEW lenA \in Nat \ {0}, NEW lenB \in Nat \ {0}, NEW baseB \in Nat,
           baseA + lenA = baseB, baseB + lenB <= N,
           NEW back, BeginMerge(baseA, lenA, baseB, lenB, back)
    PROVE  Merges(back, N)
<1>0. PICK m : Begun(m, baseA, lenA, baseB, lenB, back)
  BY BeginGood, Zenon
<1>1. /\ Good(m, w) /\ m.back = back /\ m.len["A"] = lenA /\ m.len["B"] = lenB
      /\ Proceed(Taken(m, InW(m), 1), Filled(m, w, InW(m), 1), "single")
  BY <1>0, Zenon DEF Begun
<1>2. MergeState(m)
  BY <1>1 DEF Good
<1>3. InW(m) \in {"A", "B"} /\ 1 \in 0 .. m.len[InW(m)]
  BY <1>1, <1>2, SidesAre
<1>4. Good(Taken(m, InW(m), 1), Filled(m, w, InW(m), 1))
  BY <1>1, <1>3, TakenGood
<1>5. Taken(m, InW(m), 1).back = back /\ LensOf(Taken(m, InW(m), 1)) = LensOf(m) - 1
  BY <1>1, <1>2, <1>3, TakenLess
<1>6. LensOf(Taken(m, InW(m), 1)) < N
  BY <1>1, <1>5 DEF LensOf
<1> QED BY <1>1, <1>4, <1>5, <1>6, ProceedMerges DEF Merging

LEMMA NoneWon ==
    ASSUME NEW run \in {"A", "B"}, NEW k \in Nat
    PROVE  /\ [[A |-> 0, B |-> 0] EXCEPT ![run] = k] \in [{"A", "B"} -> Nat]
           /\ [A |-> 0, B |-> 0] \in [{"A", "B"} -> Nat]
  OBVIOUS

LEMMA SingleMerges ==
    ASSUME Good(merge, w), merge.len["A"] > 0, merge.len["B"] > 0, N \in Nat, Single
    PROVE  Merges(merge.back, LensOf(merge))
<1>1. PICK less : LET run == IF less[0] THEN InW(merge) ELSE InTmp(merge)
                      wins == merge.won[run] + 1
                      m1 == [Taken(merge, run, 1) EXCEPT
                               !.won = [[A |-> 0, B |-> 0] EXCEPT ![run] = wins],
                               !.mg = IF wins >= merge.mg THEN @ + 1 ELSE @]
                  IN  Proceed(m1, Filled(merge, w, run, 1),
                              IF wins >= merge.mg THEN "gallopA" ELSE "single")
  BY Zenon DEF Single
<1>2. PICK run : run = IF less[0] THEN InW(merge) ELSE InTmp(merge)
  OBVIOUS
<1>3. PICK wins, won, t : /\ wins = merge.won[run] + 1
                          /\ won = [[A |-> 0, B |-> 0] EXCEPT ![run] = wins]
                          /\ t = Taken(merge, run, 1)
  OBVIOUS
<1>4. PICK mg, next : /\ mg = IF wins >= merge.mg THEN t.mg + 1 ELSE t.mg
                      /\ next = IF wins >= merge.mg THEN "gallopA" ELSE "single"
  OBVIOUS
<1>5. PICK m1 : m1 = Rewon(t, won, mg)
  OBVIOUS
<1>6. Proceed(m1, Filled(merge, w, run, 1), next)
  <2>1. m1 = [t EXCEPT !.won = won, !.mg = IF wins >= merge.mg THEN @ + 1 ELSE @]
    BY <1>4, <1>5 DEF Rewon
  <2> QED BY <1>1, <1>2, <1>3, <1>4, <2>1
<1>7. /\ run \in {"A", "B"} /\ MergeState(merge) /\ 1 \in 0 .. merge.len[run]
      /\ wins \in Nat
  <2>1. /\ merge.len["A"] \in Nat /\ merge.len["B"] \in Nat /\ MergeState(merge)
        /\ merge.won["A"] \in Nat /\ merge.won["B"] \in Nat
    BY DEF Good, MergeState
  <2>2. run \in {"A", "B"}
    BY <1>2, <2>1, SidesAre
  <2> QED BY <1>3, <2>1, <2>2
<1>8. Good(t, Filled(merge, w, run, 1)) /\ t.back = merge.back /\ t.mg = merge.mg
  BY <1>3, <1>7, TakenGood, TakenIs
<1>9. won \in [{"A", "B"} -> Nat] /\ mg \in Nat \ {0} /\ next \in Merging
  <2>1. merge.mg \in Nat \ {0}
    BY <1>7 DEF MergeState
  <2> QED BY <1>3, <1>4, <1>7, <1>8, <2>1, NoneWon DEF Merging
<1>10. Good(m1, Filled(merge, w, run, 1)) /\ m1.back = merge.back /\ m1.len = t.len
  BY <1>5, <1>8, <1>9, RewonGood
<1>11. LensOf(m1) < LensOf(merge)
  BY <1>3, <1>7, <1>10, TakenLess DEF LensOf
<1> QED BY <1>6, <1>9, <1>10, <1>11, ProceedMerges

\* What a gallop through a run finds is within it.
LEMMA WonIn ==
    ASSUME NEW m, NEW v, Good(m, v), N \in Nat, N <= MaxArray, NEW run \in {"A", "B"},
           m.len[run] > 0, NEW f,
           NEW k, k = Won(m, m.len[run], Gallop(f, m.len[run], Hint(m, m.len[run])))
    PROVE  k \in 0 .. m.len[run]
<1>1. m.len[run] \in Nat /\ 1 <= m.len[run] /\ m.len[run] <= MaxArray
  <2>1. m.len[run] \in Nat /\ m.len[run] <= N
    BY LensAre
  <2> QED BY <2>1 DEF MaxArray
<1>2. Hint(m, m.len[run]) \in 0 .. m.len[run] - 1
  BY <1>1 DEF Hint
<1>3. Gallop(f, m.len[run], Hint(m, m.len[run])) \in 0 .. m.len[run]
  BY <1>1, <1>2, GallopIn
<1> QED BY <1>1, <1>3 DEF Won

LEMMA GallopAMerges ==
    ASSUME Good(merge, w), merge.len["A"] > 0, merge.len["B"] > 0, N \in Nat, N <= MaxArray,
           GallopA
    PROVE  Merges(merge.back, LensOf(merge)) /\ minGallop' \in Nat \ {0}
<1>1. PICK mg : mg = IF merge.mg - 1 > 1 THEN merge.mg - 1 ELSE 1
  OBVIOUS
<1>2. PICK m : m = [merge EXCEPT !.mg = mg]
  OBVIOUS
<1>3. mg \in Nat \ {0} /\ MergeState(merge) /\ merge.won \in [{"A", "B"} -> Nat]
  BY <1>1 DEF Good, MergeState
<1>4. Good(m, w) /\ m.len = merge.len /\ m.back = merge.back
  <2>1. m = Rewon(merge, merge.won, mg)
    BY <1>2, <1>3 DEF MergeState, Rewon
  <2> QED BY <1>3, <2>1, RewonGood
<1>5. PICK f, k, t, m1, v1 :
         /\ k = Won(m, m.len["A"], Gallop(f, m.len["A"], Hint(m, m.len["A"])))
         /\ t = Taken(m, "A", k) /\ m1 = [t EXCEPT !.won["A"] = k]
         /\ v1 = Filled(m, w, "A", k)
         /\ IF Outcome(m1) # "go" THEN EndMerge(m1, v1)
            ELSE Proceed(Taken(m1, "B", 1), Filled(m1, v1, "B", 1), "gallopB")
  BY <1>1, <1>2, ZenonT(30) DEF GallopA
<1>6. k \in 0 .. m.len["A"]
  BY <1>4, <1>5, WonIn
<1>7. Good(t, v1) /\ t.back = merge.back
  BY <1>4, <1>5, <1>6, TakenGood, TakenIs DEF Good
<1>8. Good(m1, v1) /\ m1.back = merge.back /\ m1.len = t.len
  <2>1. t.won \in [{"A", "B"} -> Nat] /\ t.mg \in Nat \ {0} /\ MergeState(t)
    BY <1>7 DEF Good, MergeState
  <2>2. PICK won : won = [t.won EXCEPT !["A"] = k]
    OBVIOUS
  <2>3. won \in [{"A", "B"} -> Nat]
    <3>1. m.len["A"] \in Nat
      BY <1>4 DEF Good, MergeState
    <3> QED BY <1>6, <2>1, <2>2, <3>1
  <2>4. m1 = Rewon(t, won, t.mg)
    <3>1. m1 = [t EXCEPT !.won = won]
      BY <1>5, <2>2
    <3> QED BY <2>1, <3>1 DEF MergeState, Rewon
  <2> QED BY <1>7, <2>1, <2>3, <2>4, RewonGood
<1>9. Merges(merge.back, LensOf(merge))
  <2>1. CASE Outcome(m1) # "go"
    BY <1>5, <1>8, <2>1, EndGood DEF Merges
  <2>2. CASE Outcome(m1) = "go"
    <3>1. MergeState(m1) /\ m1.len["B"] \in Nat /\ m1.len["B"] > 0
      BY <1>8, <2>2, OutcomeIs DEF Good, MergeState
    <3>2. /\ Good(Taken(m1, "B", 1), Filled(m1, v1, "B", 1))
          /\ Taken(m1, "B", 1).back = merge.back
      BY <1>8, <3>1, TakenGood, TakenIs
    <3>3. LensOf(Taken(m1, "B", 1)) < LensOf(merge)
      <4>1. LensOf(m) \in Nat /\ LensOf(t) = LensOf(m) - k /\ k \in Nat
        BY <1>4, <1>5, <1>6, TakenLess DEF Good, MergeState
      <4>2. LensOf(m1) = LensOf(t) /\ LensOf(m) = LensOf(merge)
        BY <1>4, <1>8 DEF LensOf
      <4>3. LensOf(Taken(m1, "B", 1)) = LensOf(m1) - 1
        BY <3>1, TakenLess
      <4> QED BY <4>1, <4>2, <4>3
    <3> QED BY <1>5, <2>2, <3>2, <3>3, ProceedMerges DEF Merging
  <2> QED BY <2>1, <2>2
<1>10. minGallop' = mg
  BY <1>1 DEF GallopA
<1> QED BY <1>3, <1>9, <1>10

LEMMA GallopBMerges ==
    ASSUME Good(merge, w), merge.len["A"] > 0, merge.len["B"] > 0, N \in Nat, N <= MaxArray,
           minGallop \in Nat \ {0}, GallopB
    PROVE  Merges(merge.back, LensOf(merge)) /\ minGallop' \in Nat \ {0}
<1>1. PICK f, k, again, m1, v1, m2 :
         /\ k = Won(merge, merge.len["B"], Gallop(f, merge.len["B"], Hint(merge, merge.len["B"])))
         /\ m1 = Taken(merge, "B", k) /\ v1 = Filled(merge, w, "B", k)
         /\ again = (k >= MinGallop \/ merge.won["A"] >= MinGallop)
         /\ m2 = [Taken(m1, "A", 1) EXCEPT
                    !.won = IF again THEN [@ EXCEPT !["B"] = k] ELSE [A |-> 0, B |-> 0],
                    !.mg = IF again THEN @ ELSE @ + 1]
         /\ IF Outcome(m1) # "go" THEN EndMerge(m1, v1) /\ UNCHANGED minGallop
            ELSE /\ Proceed(m2, Filled(m1, v1, "A", 1), IF again THEN "gallopA" ELSE "single")
                 /\ minGallop' = IF again \/ Outcome(m2) # "go" THEN minGallop ELSE m2.mg
  BY ZenonT(30) DEF GallopB
<1>2. MergeState(merge) /\ k \in 0 .. merge.len["B"]
  BY <1>1, WonIn DEF Good
<1>3. Good(m1, v1) /\ m1.back = merge.back
  BY <1>1, <1>2, TakenGood, TakenIs
<1>4. CASE Outcome(m1) # "go"
  BY <1>1, <1>3, <1>4, EndGood DEF Merges
<1>5. CASE Outcome(m1) = "go"
  <2>1. MergeState(m1) /\ m1.len["A"] \in Nat /\ m1.len["A"] > 0
    BY <1>3, <1>5, OutcomeIs DEF Good, MergeState
  <2>2. PICK t : t = Taken(m1, "A", 1)
    OBVIOUS
  <2>3. PICK won, mg : /\ won = IF again THEN [t.won EXCEPT !["B"] = k] ELSE [A |-> 0, B |-> 0]
                       /\ mg = IF again THEN t.mg ELSE t.mg + 1
    OBVIOUS
  <2>4. Good(t, Filled(m1, v1, "A", 1)) /\ t.back = merge.back
    BY <1>3, <2>1, <2>2, TakenGood, TakenIs
  <2>5. t.won \in [{"A", "B"} -> Nat] /\ t.mg \in Nat \ {0}
    BY <2>4 DEF Good, MergeState
  <2>6. won \in [{"A", "B"} -> Nat]
    <3>1. merge.len["B"] \in Nat
      BY <1>2 DEF MergeState
    <3>2. CASE again
      BY <1>2, <2>3, <2>5, <3>1, <3>2
    <3>3. CASE ~again
      BY <2>3, <3>3
    <3> QED BY <3>2, <3>3
  <2>7. mg \in Nat \ {0}
    BY <2>3, <2>5
  <2>8. m2 = Rewon(t, won, mg)
    <3>1. m2 = [t EXCEPT !.won = IF again THEN [@ EXCEPT !["B"] = k] ELSE [A |-> 0, B |-> 0],
                         !.mg = IF again THEN @ ELSE @ + 1]
      BY <1>1, <2>2
    <3> QED BY <2>3, <3>1 DEF Rewon
  <2>9. /\ Good(m2, Filled(m1, v1, "A", 1)) /\ m2.back = merge.back /\ m2.mg = mg
        /\ m2.len = t.len
    BY <2>4, <2>6, <2>7, <2>8, RewonGood
  <2>10. PICK next : next = IF again THEN "gallopA" ELSE "single"
    OBVIOUS
  <2>11. next \in Merging
    BY <2>10 DEF Merging
  <2>12. Proceed(m2, Filled(m1, v1, "A", 1), next)
    BY <1>1, <1>5, <2>10
  <2>13. Merges(merge.back, LensOf(merge))
    <3>1. LensOf(merge) \in Nat /\ LensOf(m1) = LensOf(merge) - k /\ k \in Nat
      BY <1>1, <1>2, TakenLess DEF MergeState
    <3>2. LensOf(m2) = LensOf(m1) - 1
      BY <2>1, <2>2, <2>9, TakenLess DEF LensOf
    <3>3. LensOf(m2) < LensOf(merge)
      BY <3>1, <3>2
    <3> QED BY <2>9, <2>11, <2>12, <3>3, ProceedMerges
  <2>14. minGallop' \in {minGallop, m2.mg}
    BY <1>1, <1>5
  <2> QED BY <2>7, <2>9, <2>13, <2>14
<1> QED BY <1>4, <1>5

----------------------------------------------------------------------------
(* The stack of runs and the copy *)

\* Runs lie side by side, up to top.
Tiled(rs, top) ==
    \A i \in 1 .. Len(rs) :
       /\ rs[i].len > 0
       /\ rs[i].base + rs[i].len = IF i = Len(rs) THEN top ELSE rs[i + 1].base

LEMMA PushTiles ==
    ASSUME NEW rs \in Seq(Run), NEW top \in Nat, Tiled(rs, top), NEW len \in Nat, len > 0,
           NEW new, new = Append(rs, [base |-> top, len |-> len])
    PROVE  Tiled(new, top + len)
<1>1. PICK r : r = [base |-> top, len |-> len]
  OBVIOUS
<1>2. r \in Run /\ r.base = top /\ r.len = len
  BY <1>1 DEF Run
<1>3. /\ Len(new) = Len(rs) + 1 /\ new[Len(rs) + 1] = r
      /\ \A i \in 1 .. Len(rs) : new[i] = rs[i]
  BY <1>1, <1>2
<1>4. Len(rs) \in Nat
  OBVIOUS
<1>5. ASSUME NEW i \in 1 .. Len(new)
      PROVE  /\ new[i].len > 0
             /\ new[i].base + new[i].len = IF i = Len(new) THEN top + len ELSE new[i + 1].base
  <2>1. CASE i = Len(rs) + 1
    BY <1>2, <1>3, <1>4, <2>1
  <2>2. CASE i = Len(rs)
    <3>1. i \in 1 .. Len(rs)
      BY <1>4, <2>2
    <3>2. rs[i].len > 0 /\ rs[i].base + rs[i].len = top
      BY <2>2, <3>1 DEF Tiled
    <3> QED BY <1>2, <1>3, <1>4, <2>2, <3>1, <3>2
  <2>3. CASE i < Len(rs)
    <3>1. i \in 1 .. Len(rs) /\ i + 1 \in 1 .. Len(rs) /\ i # Len(rs) /\ i # Len(new)
      BY <1>3, <1>4, <2>3
    <3>2. rs[i].len > 0 /\ rs[i].base + rs[i].len = rs[i + 1].base
      BY <3>1 DEF Tiled
    <3> QED BY <1>3, <3>1, <3>2
  <2> QED BY <1>3, <1>4, <2>1, <2>2, <2>3
<1> QED BY <1>5 DEF Tiled

Became(new, rs, i, e) ==
    /\ Len(new) = Len(rs) - 1 /\ new[i] = e
    /\ \A j \in 1 .. i - 1 : new[j] = rs[j]
    /\ \A j \in i + 1 .. Len(rs) - 1 : new[j] = rs[j + 1]
Spliced(rs, i, e) == SubSeq(rs, 1, i - 1) \o <<e>> \o SubSeq(rs, i + 2, Len(rs))

LEMMA JoinedAre ==
    ASSUME NEW s \in Seq(Run), NEW t \in Seq(Run)
    PROVE  /\ Len(s \o t) = Len(s) + Len(t)
           /\ \A j \in 1 .. Len(s) : (s \o t)[j] = s[j]
           /\ \A j \in Len(s) + 1 .. Len(s) + Len(t) : (s \o t)[j] = t[j - Len(s)]
  OBVIOUS

\* The runs after a merge: those below, the one that two became, those above.
LEMMA MergedAre ==
    ASSUME NEW rs \in Seq(Run), NEW i \in 1 .. Len(rs) - 1, NEW e \in Run, NEW new,
           new = Spliced(rs, i, e)
    PROVE  Became(new, rs, i, e)
<1> DEFINE a == SubSeq(rs, 1, i - 1)
           c == SubSeq(rs, i + 2, Len(rs))
           d == a \o <<e>>
<1>1. a \in Seq(Run) /\ Len(a) = i - 1 /\ \A j \in 1 .. i - 1 : a[j] = rs[j]
  BY Parts, Z3
<1>2. /\ c \in Seq(Run) /\ Len(c) = Len(rs) - i - 1
      /\ \A j \in 1 .. Len(rs) - i - 1 : c[j] = rs[j + i + 1]
  <2>1. c \in Seq(Run) /\ Len(c) = Len(rs) - i - 1
    BY Parts, Z3
  <2>2. Len(rs) \in Nat /\ i \in Nat
    OBVIOUS
  <2>3. \A j \in 1 .. Len(rs) - i - 1 : c[j] = rs[j + i + 1]
    OBVIOUS
  <2> QED BY <2>1, <2>3
<1> HIDE DEF a, c
<1>3. d \in Seq(Run) /\ Len(d) = i /\ d[i] = e /\ \A j \in 1 .. i - 1 : d[j] = a[j]
  BY <1>1
<1>4. new = d \o c
  BY DEF a, c, Spliced
<1> HIDE DEF d
<1>5. /\ Len(new) = Len(d) + Len(c)
      /\ \A j \in 1 .. Len(d) : new[j] = d[j]
      /\ \A j \in Len(d) + 1 .. Len(d) + Len(c) : new[j] = c[j - Len(d)]
  <2>1. /\ Len(d \o c) = Len(d) + Len(c)
        /\ \A j \in 1 .. Len(d) : (d \o c)[j] = d[j]
        /\ \A j \in Len(d) + 1 .. Len(d) + Len(c) : (d \o c)[j] = c[j - Len(d)]
    <3>1. d \in Seq(Run) /\ c \in Seq(Run)
      BY <1>2, <1>3
    <3> QED BY <3>1, JoinedAre, Zenon
  <2> QED BY <1>4, <2>1, Zenon
<1>6. Len(rs) \in Nat /\ i \in Nat
  OBVIOUS
<1>7. Len(new) = Len(rs) - 1 /\ new[i] = e
  BY <1>2, <1>3, <1>5, <1>6
<1>8. \A j \in 1 .. i - 1 : new[j] = rs[j]
  BY <1>1, <1>3, <1>5, <1>6
<1>9. ASSUME NEW j \in i + 1 .. Len(rs) - 1
      PROVE  new[j] = rs[j + 1]
  <2>1. new[j] = c[j - i]
    BY <1>2, <1>3, <1>5, <1>6, SMTT(20)
  <2>2. j - i \in 1 .. Len(rs) - i - 1 /\ (j - i) + i + 1 = j + 1
    BY <1>6
  <2> QED BY <1>2, <2>1, <2>2
<1> QED BY <1>7, <1>8, <1>9 DEF Became

LEMMA MergeTiles ==
    ASSUME NEW rs \in Seq(Run), NEW top \in Nat, Tiled(rs, top), NEW i \in 1 .. Len(rs) - 1,
           NEW e \in Run, e.base = rs[i].base, e.len = rs[i].len + rs[i + 1].len,
           NEW new, new = Spliced(rs, i, e)
    PROVE  Tiled(new, top)
<1>1. Len(rs) \in Nat /\ i \in Nat /\ i \in 1 .. Len(rs) /\ i + 1 \in 1 .. Len(rs)
  OBVIOUS
<1>2. rs[i] \in Run /\ rs[i + 1] \in Run
  BY <1>1
<1>3. /\ rs[i].len > 0 /\ rs[i].base + rs[i].len = rs[i + 1].base
      /\ rs[i + 1].len > 0
      /\ rs[i + 1].base + rs[i + 1].len = IF i + 1 = Len(rs) THEN top ELSE rs[i + 2].base
  BY <1>1 DEF Tiled
<1>4. e.len > 0 /\ e.base + e.len = rs[i + 1].base + rs[i + 1].len
  <2>1. /\ rs[i].base \in Nat /\ rs[i].len \in Nat
        /\ rs[i + 1].base \in Nat /\ rs[i + 1].len \in Nat
    BY <1>2 DEF Run
  <2> QED BY <1>3, <2>1
<1>5. /\ Len(new) = Len(rs) - 1 /\ new[i] = e
      /\ \A j \in 1 .. i - 1 : new[j] = rs[j]
      /\ \A j \in i + 1 .. Len(rs) - 1 : new[j] = rs[j + 1]
  <2>1. Became(new, rs, i, e)
    BY MergedAre, Zenon
  <2> QED BY <2>1 DEF Became
<1>6. ASSUME NEW j \in 1 .. Len(new)
      PROVE  /\ new[j].len > 0
             /\ new[j].base + new[j].len = IF j = Len(new) THEN top ELSE new[j + 1].base
  <2>1. CASE j < i - 1
    <3>1. /\ j \in 1 .. i - 1 /\ j + 1 \in 1 .. i - 1 /\ j \in 1 .. Len(rs) /\ j # Len(rs)
          /\ j # Len(new)
      BY <1>1, <1>5, <2>1
    <3>2. rs[j].len > 0 /\ rs[j].base + rs[j].len = rs[j + 1].base
      BY <3>1 DEF Tiled
    <3> QED BY <1>5, <3>1, <3>2
  <2>2. CASE j = i - 1
    <3>1. j \in 1 .. i - 1 /\ j + 1 = i /\ j \in 1 .. Len(rs) /\ j # Len(rs) /\ j # Len(new)
      BY <1>1, <1>5, <2>2
    <3>2. rs[j].len > 0 /\ rs[j].base + rs[j].len = rs[i].base
      BY <3>1 DEF Tiled
    <3> QED BY <1>4, <1>5, <3>1, <3>2
  <2>3. CASE j = i
    <3>1. CASE i + 1 = Len(rs)
      BY <1>1, <1>3, <1>4, <1>5, <2>3, <3>1
    <3>2. CASE i + 1 # Len(rs)
      <4>1. i + 1 \in i + 1 .. Len(rs) - 1 /\ i # Len(new) /\ (i + 1) + 1 = i + 2
        BY <1>1, <1>5, <3>2
      <4> QED BY <1>3, <1>4, <1>5, <2>3, <3>2, <4>1
    <3> QED BY <3>1, <3>2
  <2>4. CASE j > i
    <3>1. /\ j \in i + 1 .. Len(rs) - 1 /\ j + 1 \in 1 .. Len(rs) /\ (j + 1) + 1 = j + 2
          /\ (j = Len(new) <=> j + 1 = Len(rs))
      BY <1>1, <1>5, <2>4
    <3>2. /\ rs[j + 1].len > 0
          /\ rs[j + 1].base + rs[j + 1].len = IF j + 1 = Len(rs) THEN top ELSE rs[(j + 1) + 1].base
      BY <3>1 DEF Tiled
    <3>3. new[j] = rs[j + 1]
      BY <1>5, <3>1
    <3>4. CASE j + 1 = Len(rs)
      BY <3>1, <3>2, <3>3, <3>4
    <3>5. CASE j + 1 # Len(rs)
      <4>1. j + 1 \in i + 1 .. Len(rs) - 1
        BY <1>1, <3>1, <3>5
      <4>2. new[j + 1] = rs[(j + 1) + 1]
        BY <1>5, <4>1
      <4> QED BY <3>1, <3>2, <3>3, <3>5, <4>2
    <3> QED BY <3>4, <3>5
  <2> QED BY <1>1, <1>5, <2>1, <2>2, <2>3, <2>4
<1> QED BY <1>6 DEF Tiled

\* A merge begins within two runs that lie side by side, and at most one run is above them.
LEMMA MergeAtMerges ==
    ASSUME Complete(w), merge = NoMerge, N \in Nat, N <= MaxArray, minGallop \in Nat \ {0},
           runs \in Seq(Run), low \in Nat, low <= N, Tiled(runs, low),
           NEW i \in 1 .. Len(runs) - 1, i >= Len(runs) - 2, NEW back, MergeAt(i, back)
    PROVE  Merges(back, N) /\ Tiled(runs', low) /\ Len(runs') = Len(runs) - 1
<1>1. Len(runs) \in Nat /\ i \in 1 .. Len(runs) /\ i + 1 \in 1 .. Len(runs)
  OBVIOUS
<1>2. PICK a, b : a = runs[i] /\ b = runs[i + 1]
  OBVIOUS
<1>3. /\ a \in Run /\ b \in Run
      /\ a.base \in Nat /\ a.len \in Nat /\ b.base \in Nat /\ b.len \in Nat
  <2>1. a \in Run /\ b \in Run
    BY <1>1, <1>2
  <2> QED BY <2>1 DEF Run
<1>4. a.len > 0 /\ b.len > 0 /\ a.base + a.len = b.base /\ b.base + b.len <= low
  <2>1. /\ a.len > 0 /\ a.base + a.len = b.base /\ b.len > 0
        /\ b.base + b.len = IF i + 1 = Len(runs) THEN low ELSE runs[i + 2].base
    BY <1>1, <1>2 DEF Tiled
  <2>2. CASE i + 1 # Len(runs)
    <3>1. i + 2 = Len(runs) /\ i + 2 \in 1 .. Len(runs)
      BY <1>1, <2>2
    <3>2. runs[i + 2].base + runs[i + 2].len = low
      BY <3>1 DEF Tiled
    <3>3. runs[i + 2] \in Run
      BY <3>1
    <3>4. runs[i + 2].base \in Nat /\ runs[i + 2].len \in Nat
      BY <3>3 DEF Run
    <3> QED BY <2>1, <2>2, <3>2, <3>4
  <2> QED BY <2>1, <2>2
<1>5. Tiled(runs', low) /\ Len(runs') = Len(runs) - 1
  <2>1. PICK e : e = [a EXCEPT !.len = @ + b.len]
    OBVIOUS
  <2>2. e \in Run /\ e.base = a.base /\ e.len = a.len + b.len
    <3>1. PICK l : l = a.len + b.len
      OBVIOUS
    <3>2. l \in Nat /\ e = [a EXCEPT !.len = l]
      BY <1>3, <2>1, <3>1
    <3>3. a = [base |-> a.base, len |-> a.len]
      BY <1>3 DEF Run
    <3>4. e = [base |-> a.base, len |-> l]
      BY <3>2, <3>3
    <3> QED BY <1>3, <3>1, <3>2, <3>4 DEF Run
  <2>3. runs' = Spliced(runs, i, e)
    BY <1>2, <2>1 DEF MergeAt, Spliced
  <2>4. Became(runs', runs, i, e)
    BY <2>2, <2>3, MergedAre, Zenon
  <2>5. Len(runs') = Len(runs) - 1
    BY <2>4, Zenon DEF Became
  <2> QED BY <1>2, <2>2, <2>3, <2>5, MergeTiles
<1>6. PICK f, g, k, n :
         /\ k = Gallop(f, a.len, 0) /\ n = Gallop(g, b.len, b.len - 1)
         /\ IF k = a.len \/ n = 0 THEN pc' = back /\ UNCHANGED <<w, merge>>
            ELSE BeginMerge(a.base + k, a.len - k, b.base, n, back)
  BY <1>2, Zenon DEF MergeAt
<1>7. a.len <= MaxArray /\ b.len <= MaxArray
  BY <1>3, <1>4 DEF MaxArray
<1>8. k \in 0 .. a.len
  <2>1. 0 \in 0 .. a.len - 1 /\ 1 <= a.len
    BY <1>3, <1>4
  <2> QED BY <1>3, <1>6, <1>7, <2>1, GallopIn
<1>9. n \in 0 .. b.len
  <2>1. b.len - 1 \in 0 .. b.len - 1 /\ 1 <= b.len
    BY <1>3, <1>4, SMTT(20)
  <2> QED BY <1>3, <1>6, <1>7, <2>1, GallopIn
<1>10. CASE k = a.len \/ n = 0
  <2>1. pc' = back /\ w' = w /\ merge' = NoMerge
    BY <1>6, <1>10
  <2>2. Complete(w')
    BY <2>1
  <2> QED BY <1>5, <2>1, <2>2 DEF Merges, Apart
<1>11. CASE k # a.len /\ n # 0
  <2>1. BeginMerge(a.base + k, a.len - k, b.base, n, back)
    BY <1>6, <1>11
  <2>2. /\ a.base + k \in Nat /\ a.len - k \in Nat \ {0} /\ n \in Nat \ {0}
        /\ (a.base + k) + (a.len - k) = b.base /\ b.base + n <= N
    <3>1. PICK la \in Nat, lb \in Nat, ba \in Nat, bb \in Nat :
             la = a.len /\ lb = b.len /\ ba = a.base /\ bb = b.base
      BY <1>3
    <3>2. k \in 0 .. la /\ k # la /\ n \in 0 .. lb /\ n # 0 /\ ba + la = bb /\ bb + lb <= low
      BY <1>4, <1>8, <1>9, <1>11, <3>1
    <3>3. ba + k \in Nat /\ la - k \in Nat \ {0} /\ n \in Nat \ {0}
      BY <3>2
    <3>4. (ba + k) + (la - k) = bb /\ bb + n <= N
      BY <3>2
    <3> QED BY <3>1, <3>3, <3>4
  <2> QED BY <1>3, <1>5, <2>1, <2>2, BeginMerges
<1> QED BY <1>10, <1>11

\* Reversing a part of the copy keeps it complete.
LEMMA Reversed ==
    ASSUME NEW v, Complete(v), N \in Nat, NEW lo \in Nat, NEW n \in Nat, lo + n <= N,
           NEW u, u = [i \in DOMAIN v |-> IF lo <= i /\ i < lo + n THEN v[2 * lo + n - 1 - i]
                                          ELSE v[i]]
    PROVE  Complete(u)
<1>1. /\ v \in [0 .. N - 1 -> Elements]
      /\ \A e \in Elements : \E i \in 0 .. N - 1 : v[i] = e
  BY DEF Complete, Held
<1>2. /\ DOMAIN u = 0 .. N - 1 /\ u = [i \in 0 .. N - 1 |-> u[i]]
      /\ \A i \in 0 .. N - 1 : u[i] = IF lo <= i /\ i < lo + n THEN v[2 * lo + n - 1 - i] ELSE v[i]
  BY <1>1
<1>3. ASSUME NEW i \in 0 .. N - 1, lo <= i, i < lo + n
      PROVE  /\ 2 * lo + n - 1 - i \in 0 .. N - 1
             /\ lo <= 2 * lo + n - 1 - i /\ 2 * lo + n - 1 - i < lo + n
             /\ 2 * lo + n - 1 - (2 * lo + n - 1 - i) = i
  BY <1>3
<1>4. ASSUME NEW i \in 0 .. N - 1
      PROVE  u[i] \in Elements
  BY <1>1, <1>2, <1>3
<1>5. ASSUME NEW e \in Elements
      PROVE  \E i \in 0 .. N - 1 : u[i] = e
  <2>1. PICK i \in 0 .. N - 1 : v[i] = e
    BY <1>1
  <2>2. CASE lo <= i /\ i < lo + n
    <3>1. PICK j \in 0 .. N - 1 : /\ j = 2 * lo + n - 1 - i /\ lo <= j /\ j < lo + n
                                  /\ 2 * lo + n - 1 - j = i
      BY <1>3, <2>2
    <3>2. u[j] = v[2 * lo + n - 1 - j]
      BY <1>2, <3>1
    <3> QED BY <2>1, <3>1, <3>2
  <2>3. CASE ~(lo <= i /\ i < lo + n)
    <3>1. u[i] = v[i]
      BY <1>2, <2>3
    <3> QED BY <2>1, <3>1
  <2> QED BY <2>2, <2>3
<1> QED BY <1>2, <1>4, <1>5 DEF Complete, Held

\* So does moving one element down past others.
LEMMA Rotated ==
    ASSUME NEW v, Complete(v), N \in Nat, NEW left \in Nat, NEW at \in Nat, left <= at, at < N,
           NEW u, u = [Moved(v, v, left, left + 1, at - left) EXCEPT ![left] = v[at]]
    PROVE  Complete(u)
<1>1. /\ v \in [0 .. N - 1 -> Elements]
      /\ \A e \in Elements : \E i \in 0 .. N - 1 : v[i] = e
  BY DEF Complete, Held
<1>2. PICK f : f = Moved(v, v, left, left + 1, at - left)
  OBVIOUS
<1>3. f = [i \in 0 .. N - 1 |-> IF left + 1 <= i /\ i < left + 1 + (at - left)
                                THEN v[left + i - (left + 1)] ELSE v[i]]
  BY <1>1, <1>2 DEF Moved
<1>4. left \in 0 .. N - 1 /\ u = [f EXCEPT ![left] = v[at]]
  BY <1>2
<1>5. /\ u = [i \in 0 .. N - 1 |-> u[i]] /\ u[left] = v[at]
      /\ \A i \in 0 .. N - 1 : i # left =>
            u[i] = IF left + 1 <= i /\ i < left + 1 + (at - left)
                   THEN v[left + i - (left + 1)] ELSE v[i]
  BY <1>3, <1>4
<1>6. ASSUME NEW i \in 0 .. N - 1, i # left
      PROVE  u[i] = IF left < i /\ i <= at THEN v[i - 1] ELSE v[i]
  <2>1. CASE left < i /\ i <= at
    <3>1. left + 1 <= i /\ i < left + 1 + (at - left) /\ left + i - (left + 1) = i - 1
      BY <2>1
    <3> QED BY <1>5, <1>6, <2>1, <3>1
  <2>2. CASE ~(left < i /\ i <= at)
    <3>1. ~(left + 1 <= i /\ i < left + 1 + (at - left))
      BY <2>2
    <3> QED BY <1>5, <1>6, <2>2, <3>1
  <2> QED BY <2>1, <2>2
<1>7. ASSUME NEW i \in 0 .. N - 1
      PROVE  u[i] \in Elements
  <2>1. CASE i = left
    BY <1>1, <1>5, <2>1
  <2>2. CASE i # left /\ left < i /\ i <= at
    <3>1. i - 1 \in 0 .. N - 1
      BY <2>2
    <3> QED BY <1>1, <1>6, <2>2, <3>1
  <2>3. CASE i # left /\ ~(left < i /\ i <= at)
    BY <1>1, <1>6, <2>3
  <2> QED BY <2>1, <2>2, <2>3
<1>8. ASSUME NEW e \in Elements
      PROVE  \E i \in 0 .. N - 1 : u[i] = e
  <2>1. PICK i \in 0 .. N - 1 : v[i] = e
    BY <1>1
  <2>2. CASE i = at
    BY <1>4, <1>5, <2>1, <2>2
  <2>3. CASE left <= i /\ i < at
    <3>1. PICK j \in 0 .. N - 1 : j = i + 1 /\ j # left /\ left < j /\ j <= at /\ j - 1 = i
      BY <2>3
    <3>2. u[j] = v[i]
      BY <1>6, <3>1
    <3> QED BY <2>1, <3>2
  <2>4. CASE i # at /\ ~(left <= i /\ i < at)
    <3>1. i # left /\ ~(left < i /\ i <= at)
      BY <2>4
    <3>2. u[i] = v[i]
      BY <1>6, <3>1
    <3> QED BY <2>1, <3>2
  <2> QED BY <2>2, <2>3, <2>4
<1> QED BY <1>5, <1>7, <1>8 DEF Complete, Held

----------------------------------------------------------------------------
(* Every step of the sort *)

SortInv ==
    /\ StackInv
    /\ pc \in {"run", "insert", "collapse", "final", "sorted", "done", "threw"} \cup Merging
    /\ Apart(merge, w)
    /\ pc \in Merging => merge # NoMerge
    /\ pc \notin Merging \cup {"threw"} => merge = NoMerge
    /\ Tiled(runs, low)
    /\ minGallop \in Nat \ {0}
    /\ touches \in 0 .. MaxTouches
    /\ arr \in Seq(Int)
    /\ ResultIsComplete

\* What a step of timsort() comes to, StackInv apart.
Steps ==
    /\ pc' \in {"run", "insert", "collapse", "final", "sorted"} \cup Merging
    /\ Apart(merge', w')
    /\ pc' \in Merging => merge' # NoMerge
    /\ pc' \notin Merging => merge' = NoMerge
    /\ Tiled(runs', low')
    /\ minGallop' \in Nat \ {0}
    /\ UNCHANGED <<input, arr, out, touches>>

LEMMA NoMergeComplete ==
    ASSUME NEW v, Apart(NoMerge, v)
    PROVE  Complete(v)
<1>1. ~Good(NoMerge, v)
  BY GoodIsMerge DEF Good
<1> QED BY <1>1 DEF Apart

LEMMA PushSteps ==
    ASSUME SortInv, NEW len \in Nat, len > 0, PushRun(len), Complete(w'), merge = NoMerge,
           UNCHANGED <<input, arr, out, merge, minGallop, touches>>
    PROVE  Steps
<1>1. runs \in Seq(Run) /\ low \in Nat /\ Tiled(runs, low) /\ minGallop \in Nat \ {0}
  BY DEF SortInv, StackInv
<1>2. runs' = Append(runs, [base |-> low, len |-> len]) /\ low' = low + len /\ pc' = "collapse"
  BY DEF PushRun
<1>3. Tiled(runs', low')
  BY <1>1, <1>2, PushTiles
<1> QED BY <1>1, <1>2, <1>3 DEF Steps, Apart, Merging

LEMMA MakeRunSteps == ASSUME SortInv, MakeRun PROVE Steps
<1>1. /\ input \in Inputs /\ N \in Nat /\ N <= MaxArray /\ pc = "run" /\ low \in Nat /\ low < N
      /\ merge = NoMerge /\ Complete(w) /\ Tiled(runs, low) /\ minGallop \in Nat \ {0}
  BY NIsSmall, NoMergeComplete DEF SortInv, StackInv, MakeRun, Merging
<1>2. PICK less, run :
         /\ run = IF low + 1 = N THEN 1 ELSE RunLength(less)
         /\ w' = IF run > 1 /\ less[low + 1]
                 THEN [i \in DOMAIN w |-> IF low <= i /\ i < low + run
                                          THEN w[2 * low + run - 1 - i] ELSE w[i]]
                 ELSE w
         /\ \/ pc' = "insert" /\ UNCHANGED <<low, runs>>
            \/ PushRun(run)
  BY DEF MakeRun
<1>3. UNCHANGED <<input, arr, out, merge, minGallop, touches>>
  BY DEF MakeRun
<1>4. run \in Nat /\ run > 0 /\ low + run <= N
  BY <1>1, <1>2, RunLengthIs
<1>5. Complete(w')
  <2>1. CASE run > 1 /\ less[low + 1]
    <3>1. w' = [i \in DOMAIN w |-> IF low <= i /\ i < low + run
                                   THEN w[2 * low + run - 1 - i] ELSE w[i]]
      BY <1>2, <2>1
    <3> QED BY <1>1, <1>4, <3>1, Reversed
  <2>2. CASE ~(run > 1 /\ less[low + 1])
    <3>1. w' = w
      BY <1>2, <2>2
    <3> QED BY <1>1, <3>1
  <2> QED BY <2>1, <2>2
<1>6. CASE pc' = "insert" /\ UNCHANGED <<low, runs>>
  BY <1>1, <1>3, <1>5, <1>6 DEF Steps, Apart, Merging
<1>7. CASE PushRun(run)
  BY <1>1, <1>3, <1>4, <1>5, <1>7, PushSteps
<1> QED BY <1>2, <1>6, <1>7

LEMMA InsertSteps == ASSUME SortInv, Insert PROVE Steps
<1>1. /\ N \in Nat /\ N <= MaxArray /\ pc = "insert" /\ low \in Nat
      /\ merge = NoMerge /\ Complete(w) /\ Tiled(runs, low) /\ minGallop \in Nat \ {0}
  BY NIsSmall, NoMergeComplete DEF SortInv, StackInv, Insert, Merging
<1>2. PICK at \in Nat, high \in Nat : /\ at = start.at /\ high = start.high
                                      /\ low < at /\ at < high /\ high <= N
  BY <1>1 DEF SortInv, StackInv
<1>3. UNCHANGED <<input, arr, out, merge, minGallop, touches>>
  BY DEF Insert
<1>4. PICK before, left : /\ left = Bisect(before, low, at)
                          /\ w' = [Moved(w, w, left, left + 1, at - left) EXCEPT ![left] = w[at]]
  BY <1>2 DEF Insert
<1>5. left \in low .. at
  BY <1>1, <1>2, <1>4, BisectIn
<1>6. Complete(w')
  <2>1. left \in Nat /\ left <= at /\ at < N
    BY <1>1, <1>2, <1>5
  <2> QED BY <1>1, <1>4, <2>1, Rotated
<1>7. \/ PushRun(high - low)
      \/ UNCHANGED <<pc, low, runs>>
  BY <1>2 DEF Insert
<1>8. CASE PushRun(high - low)
  <2>1. high - low \in Nat /\ high - low > 0
    BY <1>1, <1>2
  <2> QED BY <1>1, <1>3, <1>6, <1>8, <2>1, PushSteps
<1>9. CASE UNCHANGED <<pc, low, runs>>
  BY <1>1, <1>3, <1>6, <1>9 DEF Steps, Apart, Merging
<1> QED BY <1>7, <1>8, <1>9

LEMMA CollapseSteps == ASSUME SortInv, Collapse \/ FinalCollapse PROVE Steps
<1>1. /\ N \in Nat /\ N <= MaxArray /\ low \in Nat /\ low <= N /\ runs \in Seq(Run)
      /\ merge = NoMerge /\ Complete(w) /\ Tiled(runs, low) /\ minGallop \in Nat \ {0}
  BY NIsSmall, NoMergeComplete DEF SortInv, StackInv, Collapse, FinalCollapse, Merging
<1>2. UNCHANGED <<input, arr, out, low, minGallop, touches>>
  BY DEF Collapse, FinalCollapse
<1>3. \/ pc' \in {"final", "run", "sorted"} /\ UNCHANGED <<w, merge, runs>>
      \/ \E i \in 1 .. Len(runs) - 1, back \in {"collapse", "final"} :
            i >= Len(runs) - 2 /\ MergeAt(i, back)
  <2>1. CASE Collapse /\ CollapseAt # 0
    <3>1. CollapseAt \in 1 .. Len(runs) - 1 /\ CollapseAt >= Len(runs) - 2
      BY <1>1, <2>1 DEF CollapseAt, RunInvariant
    <3> QED BY <2>1, <3>1 DEF Collapse
  <2>2. CASE FinalCollapse /\ FinalAt # 0
    <3>1. FinalAt \in 1 .. Len(runs) - 1 /\ FinalAt >= Len(runs) - 2
      BY <1>1, <2>2 DEF FinalAt
    <3> QED BY <2>2, <3>1 DEF FinalCollapse
  <2>3. CASE Collapse /\ CollapseAt = 0
    BY <2>3 DEF Collapse
  <2>4. CASE FinalCollapse /\ FinalAt = 0
    BY <2>4 DEF FinalCollapse
  <2> QED BY <2>1, <2>2, <2>3, <2>4
<1>4. CASE pc' \in {"final", "run", "sorted"} /\ UNCHANGED <<w, merge, runs>>
  BY <1>1, <1>2, <1>4 DEF Steps, Apart, Merging
<1>5. ASSUME NEW i \in 1 .. Len(runs) - 1, NEW back \in {"collapse", "final"},
             i >= Len(runs) - 2, MergeAt(i, back)
      PROVE  Steps
  <2>1. Merges(back, N) /\ Tiled(runs', low)
    BY <1>1, <1>5, MergeAtMerges
  <2> QED BY <1>1, <1>2, <2>1 DEF Merges, Steps, Merging
<1> QED BY <1>3, <1>4, <1>5

LEMMA MergingSteps == ASSUME SortInv, Single \/ GallopA \/ GallopB PROVE Steps
<1>1. /\ N \in Nat /\ N <= MaxArray /\ Tiled(runs, low) /\ minGallop \in Nat \ {0}
      /\ pc \in Merging /\ merge.back \in {"collapse", "final"}
  BY NIsSmall, MergingOnly DEF SortInv, StackInv
<1>2. Good(merge, w) /\ merge.len["A"] > 0 /\ merge.len["B"] > 0
  BY <1>1 DEF SortInv, Apart
<1>3. UNCHANGED <<input, arr, out, low, runs, touches>>
  BY MergingOnly
<1>4. Merges(merge.back, LensOf(merge)) /\ minGallop' \in Nat \ {0}
  <2>1. CASE Single
    BY <1>1, <1>2, <2>1, SingleMerges DEF Single
  <2>2. CASE GallopA
    BY <1>1, <1>2, <2>2, GallopAMerges
  <2>3. CASE GallopB
    BY <1>1, <1>2, <2>3, GallopBMerges
  <2> QED BY <2>1, <2>2, <2>3
<1> QED BY <1>1, <1>3, <1>4 DEF Merges, Steps, Merging

LEMMA StepsKeep ==
    ASSUME SortInv, StackInv', Steps
    PROVE  SortInv'
<1>1. Elements' = Elements /\ N' = N
  BY DEF Steps, Elements, N, Items
<1>2. Apart(merge, w)'
  BY <1>1 DEF Steps, Apart, Good, Complete, Held, MergeState, Left, LowLeft, HighLeft
<1>3. pc' # "done" /\ pc' # "threw"
  BY DEF Steps, Merging
<1>4. ResultIsComplete'
  BY <1>3 DEF ResultIsComplete
<1>5. arr' \in Seq(Int) /\ touches' \in 0 .. MaxTouches
  BY DEF Steps, SortInv
<1> QED BY <1>2, <1>3, <1>4, <1>5 DEF SortInv, Steps

\* What sort() writes back.
LEMMA FinishKeeps == ASSUME SortInv, Finish PROVE ResultIsComplete' /\ arr' \in Seq(Int)
<1>1. /\ input \in Inputs /\ merge = NoMerge /\ Complete(w) /\ arr \in Seq(Int)
  BY NoMergeComplete DEF SortInv, StackInv, Finish, Merging
<1>2. /\ Len(Items) \in Nat /\ N \in Nat /\ N <= Len(Items)
      /\ \A e \in Elements : e \in Int
  BY <1>1, ElementsAre
<1>3. PICK work : work = [i \in 1 .. Len(Items) |-> IF i <= N THEN w[i - 1] ELSE Undef]
  OBVIOUS
<1>4. /\ arr' = IF input.copy THEN arr ELSE WriteBack(arr, work)
      /\ out' = IF input.copy THEN work ELSE arr'
  BY <1>3 DEF Finish
<1>5. Elements' = Elements /\ N' = N /\ Items' = Items
  BY DEF Finish, Elements, N, Items
<1>6. ASSUME NEW i \in 1 .. N
      PROVE  work[i] = w[i - 1] /\ work[i] \in Elements
  <2>1. i - 1 \in 0 .. N - 1 /\ i \in 1 .. Len(Items)
    BY <1>2
  <2>2. w[i - 1] \in Elements
    BY <1>1, <2>1 DEF Complete, Held
  <2> QED BY <1>3, <2>1, <2>2
<1>7. ASSUME NEW e \in Elements
      PROVE  \E i \in 1 .. N : work[i] = e
  <2>1. PICK i \in 0 .. N - 1 : w[i] = e
    BY <1>1 DEF Complete
  <2>2. i + 1 \in 1 .. N /\ (i + 1) - 1 = i
    BY <1>2
  <2> QED BY <1>6, <2>1, <2>2
<1>8. \A i \in N + 1 .. Len(Items) : work[i] = Undef
  BY <1>2, <1>3
<1>9. work \in Seq(Int) /\ Len(work) = Len(Items)
  <2>1. \A i \in 1 .. Len(Items) : work[i] \in Int
    <3>1. ASSUME NEW i \in 1 .. Len(Items)
          PROVE  work[i] \in Int
      <4>1. CASE i <= N
        BY <1>2, <1>6, <4>1
      <4>2. CASE ~(i <= N)
        BY <1>3, <4>2 DEF Undef
      <4> QED BY <4>1, <4>2
    <3> QED BY <3>1
  <2>2. work \in [1 .. Len(Items) -> Int]
    BY <1>3, <2>1
  <2> QED BY <1>2, <2>2
<1>10. CASE input.copy
  <2>1. out' = work /\ arr' = arr
    BY <1>4, <1>10
  <2>2. {work[i] : i \in 1 .. N} = Elements
    BY <1>6, <1>7
  <2> QED BY <1>1, <1>2, <1>5, <1>8, <1>9, <2>1, <2>2 DEF ResultIsComplete
<1>11. CASE ~input.copy
  <2>1. PICK n : n = Max({Len(arr), Len(work)})
    OBVIOUS
  <2>2. n \in Nat /\ Len(work) <= n /\ Len(arr) <= n /\ n \in {Len(arr), Len(work)}
    <3>1. Len(arr) \in Nat /\ Len(work) \in Nat
      BY <1>1, <1>9
    <3>2. \E x \in {Len(arr), Len(work)} : \A y \in {Len(arr), Len(work)} : x >= y
      BY <3>1
    <3> QED BY <2>1, <3>1, <3>2 DEF Max
  <2>3. PICK back : back = [i \in 1 .. n |-> IF i <= Len(work) THEN work[i] ELSE arr[i]]
    OBVIOUS
  <2>4. out' = back /\ arr' = back
    BY <1>4, <1>11, <2>1, <2>3 DEF WriteBack
  <2>5. back \in Seq(Int) /\ Len(back) = n
    <3>1. ASSUME NEW i \in 1 .. n
          PROVE  back[i] \in Int
      <4>1. CASE i <= Len(work)
        BY <1>9, <2>2, <2>3, <4>1
      <4>2. CASE ~(i <= Len(work))
        BY <1>1, <1>9, <2>2, <2>3, <4>2
      <4> QED BY <4>1, <4>2
    <3>2. back \in [1 .. n -> Int]
      BY <2>3, <3>1
    <3> QED BY <2>2, <3>2
  <2>6. \A i \in 1 .. Len(Items) : back[i] = work[i]
    BY <1>2, <1>9, <2>2, <2>3
  <2>7. \A i \in 1 .. N : back[i] = work[i]
    BY <1>2, <2>6
  <2>8. {back[i] : i \in 1 .. N} = Elements
    BY <1>6, <1>7, <2>7
  <2>9. \A i \in N + 1 .. Len(Items) : back[i] = Undef
    BY <1>2, <1>8, <2>6
  <2> QED BY <1>2, <1>5, <1>9, <2>2, <2>4, <2>5, <2>8, <2>9 DEF ResultIsComplete
<1> QED BY <1>10, <1>11

LEMMA SortNext == ASSUME SortInv, [Next]_vars PROVE SortInv'
<1>1. StackInv'
  BY StackNext DEF SortInv
<1>2. CASE MakeRun \/ Insert \/ Collapse \/ FinalCollapse \/ Single \/ GallopA \/ GallopB
  BY <1>1, <1>2, StepsKeep, MakeRunSteps, InsertSteps, CollapseSteps, MergingSteps
<1>3. CASE Throw \/ Touch \/ Finish \/ Returned \/ UNCHANGED vars
  <2>1. UNCHANGED <<input, w, low, runs, merge, minGallop>>
    BY <1>3 DEF Throw, Touch, Finish, Returned, vars
  <2>2. Elements' = Elements /\ N' = N /\ Items' = Items
    BY <2>1 DEF Elements, N, Items
  <2>3. Apart(merge, w)'
    BY <2>1, <2>2
       DEF SortInv, Apart, Good, Complete, Held, MergeState, Left, LowLeft, HighLeft
  <2>4. Tiled(runs, low)' /\ minGallop' \in Nat \ {0}
    BY <2>1 DEF SortInv
  <2>5. \/ pc' = "threw"
        \/ pc' = "done" /\ merge = NoMerge
        \/ pc' = pc
    BY <1>3 DEF Throw, Touch, Finish, Returned, vars, SortInv, Merging
  <2>6. /\ pc' \in {"run", "insert", "collapse", "final", "sorted", "done", "threw"} \cup Merging
        /\ pc' \in Merging => merge' # NoMerge
        /\ pc' \notin Merging \cup {"threw"} => merge' = NoMerge
    BY <2>1, <2>5 DEF SortInv, Merging
  <2>7. touches' \in 0 .. MaxTouches
    <3>1. touches \in Nat /\ touches <= MaxTouches /\ MaxTouches \in Nat
      BY BoundsAssumption DEF SortInv
    <3>2. touches' = touches \/ (touches < MaxTouches /\ touches' = touches + 1)
      BY <1>3 DEF Throw, Touch, Finish, Returned, vars
    <3> QED BY <3>1, <3>2
  <2>8. ResultIsComplete' /\ arr' \in Seq(Int)
    <3>1. CASE Finish
      BY <3>1, FinishKeeps
    <3>2. CASE Touch
      <4>1. arr \in Seq(Int) /\ Extra \in Int
        BY DEF SortInv, Extra
      <4>2. arr' \in {Append(arr, Extra), SubSeq(arr, 1, Len(arr) - 1)}
        BY <3>2 DEF Touch
      <4>3. SubSeq(arr, 1, Len(arr) - 1) \in Seq(Int)
        BY <4>1
      <4>4. pc' # "done"
        BY <3>2 DEF Touch, Comparing
      <4> QED BY <4>1, <4>2, <4>3, <4>4, SMTT(20) DEF ResultIsComplete
    <3>3. CASE Throw
      BY <3>3 DEF Throw, SortInv, ResultIsComplete
    <3>4. CASE Returned \/ UNCHANGED vars
      <4>1. UNCHANGED <<pc, out, arr>>
        BY <3>4 DEF Returned, vars
      <4> QED BY <2>2, <4>1 DEF SortInv, ResultIsComplete
    <3> QED BY <1>3, <3>1, <3>2, <3>3, <3>4
  <2> QED BY <1>1, <2>3, <2>4, <2>6, <2>7, <2>8 DEF SortInv
<1> QED BY <1>2, <1>3 DEF Next

\* Indices stay within the copy and the gap is what is left of tmp.
LEMMA GoodTypes ==
    ASSUME Good(merge, w), merge.len["A"] > 0, merge.len["B"] > 0, N \in Nat
    PROVE  /\ merge.side # "none" /\ merge.mg > 0
           /\ \A run \in {"A", "B"} :
                 First(merge, run) .. First(merge, run) + merge.len[run] - 1
                    \subseteq DOMAIN Source(merge, w, run)
<1>1. /\ MergeState(merge) /\ merge.len["A"] \in Nat /\ merge.len["B"] \in Nat
      /\ merge.side \in {"low", "high"} /\ merge.mg > 0
  BY DEF Good, MergeState
<1>2. CASE merge.side = "low"
  <2>1. LowLeft(merge.tmp, merge.dest, merge.ct, merge.cw, merge.len["A"], merge.len["B"], w)
    BY <1>2 DEF Good, Left
  <2>2. PICK size \in Nat : merge.ct + merge.len["A"] = size /\ DOMAIN merge.tmp = 0 .. size - 1
    BY <2>1 DEF LowLeft
  <2>3. /\ merge.ct \in Nat /\ merge.cw \in Nat /\ merge.cw + merge.len["B"] <= N
        /\ DOMAIN w = 0 .. N - 1
    BY <1>1, <2>1 DEF LowLeft, Held
  <2>4. First(merge, "A") = merge.ct /\ Source(merge, w, "A") = merge.tmp
    BY <1>2 DEF First, Source, Cursor, InTmp
  <2>5. First(merge, "B") = merge.cw /\ Source(merge, w, "B") = w
    BY <1>2 DEF First, Source, Cursor, InTmp
  <2>6. merge.ct .. merge.ct + merge.len["A"] - 1 \subseteq DOMAIN merge.tmp
    BY <1>1, <2>2, <2>3
  <2>7. merge.cw .. merge.cw + merge.len["B"] - 1 \subseteq DOMAIN w
    BY <1>1, <2>3
  <2> QED BY <1>1, <2>4, <2>5, <2>6, <2>7
<1>3. CASE merge.side = "high"
  <2>1. HighLeft(merge.tmp, merge.dest, merge.ct, merge.cw, merge.len["B"], merge.len["A"], w)
    BY <1>3 DEF Good, Left
  <2>2. PICK size \in Nat : merge.len["B"] <= size /\ DOMAIN merge.tmp = 0 .. size - 1
    BY <2>1 DEF HighLeft
  <2>3. /\ merge.ct = merge.len["B"] - 1 /\ merge.cw \in Int /\ merge.cw < N
        /\ merge.cw - merge.len["A"] + 1 >= 0 /\ DOMAIN w = 0 .. N - 1
    BY <1>1, <2>1 DEF HighLeft, Held
  <2>4. First(merge, "B") = 0 /\ Source(merge, w, "B") = merge.tmp
    <3>1. First(merge, "B") = merge.ct - merge.len["B"] + 1
      BY <1>3 DEF First, Cursor, InTmp
    <3>2. merge.ct - merge.len["B"] + 1 = 0
      BY <1>1, <2>3
    <3> QED BY <1>3, <3>1, <3>2 DEF Source, InTmp
  <2>5. First(merge, "A") = merge.cw - merge.len["A"] + 1 /\ Source(merge, w, "A") = w
    BY <1>3 DEF First, Source, Cursor, InTmp
  <2>6. 0 .. 0 + merge.len["B"] - 1 \subseteq DOMAIN merge.tmp
    BY <1>1, <2>2
  <2>7. merge.cw - merge.len["A"] + 1 .. (merge.cw - merge.len["A"] + 1) + merge.len["A"] - 1
           \subseteq DOMAIN w
    BY <1>1, <2>3
  <2> QED BY <1>1, <2>4, <2>5, <2>6, <2>7
<1> QED BY <1>1, <1>2, <1>3

LEMMA CountUp ==
    ASSUME NEW a \in Int, NEW n \in Nat
    PROVE  Cardinality(a .. a + n - 1) = n
<1>1. Cardinality(a .. a + n - 1) = IF a > a + n - 1 THEN 0 ELSE (a + n - 1) - a + 1
  BY FS_Interval
<1> QED BY <1>1

LEMMA GoodLosesNothing ==
    ASSUME Good(merge, w), merge.len["A"] > 0, merge.len["B"] > 0, N \in Nat
    PROVE  NothingLost
<1>1. /\ MergeState(merge) /\ merge.len["A"] \in Nat /\ merge.len["B"] \in Nat
      /\ merge.side \in {"low", "high"}
  BY DEF Good, MergeState
<1>2. CASE merge.side = "low"
  <2> DEFINE n == merge.len["A"]
  <2>1. LowLeft(merge.tmp, merge.dest, merge.ct, merge.cw, n, merge.len["B"], w)
    BY <1>2 DEF Good, Left
  <2>2. /\ merge.dest \in Nat /\ merge.ct \in Nat /\ merge.cw = merge.dest + n
        /\ w \in [0 .. N - 1 -> Elements]
        /\ \A e \in Elements :
              \/ \E i \in 0 .. N - 1 : (i < merge.dest \/ i >= merge.cw) /\ w[i] = e
              \/ \E j \in merge.ct .. merge.ct + n - 1 : merge.tmp[j] = e
    BY <2>1 DEF LowLeft, Held
  <2>3. \A j \in merge.ct .. merge.ct + n - 1 : merge.tmp[j] \in Elements
    BY <1>1, <2>1 DEF LowLeft
  <2>4. Gap = merge.dest .. merge.dest + n - 1 /\ First(merge, InTmp(merge)) = merge.ct
    BY <1>2 DEF Gap, InTmp, First, Cursor
  <2>5. Cardinality(Gap) = n
    <3>1. merge.dest \in Int /\ n \in Nat
      BY <1>1, <2>2
    <3>2. Cardinality(merge.dest .. merge.dest + n - 1) = n
      BY <3>1, CountUp, Zenon
    <3> QED BY <2>4, <3>2
  <2>6. \A i \in 0 .. N - 1 : i \notin Gap <=> (i < merge.dest \/ i >= merge.cw)
    BY <1>1, <2>2, <2>4
  <2>7. ASSUME NEW e \in Elements
        PROVE  \/ \E i \in DOMAIN w \ Gap : w[i] = e
               \/ \E j \in 1 .. n : merge.tmp[merge.ct + j - 1] = e
    <3>1. CASE \E i \in 0 .. N - 1 : (i < merge.dest \/ i >= merge.cw) /\ w[i] = e
      BY <2>2, <2>6, <3>1
    <3>2. CASE \E j \in merge.ct .. merge.ct + n - 1 : merge.tmp[j] = e
      <4>1. PICK j \in merge.ct .. merge.ct + n - 1 : merge.tmp[j] = e
        BY <3>2
      <4>2. j - merge.ct + 1 \in 1 .. n /\ merge.ct + (j - merge.ct + 1) - 1 = j
        BY <1>1, <2>2, SMTT(20)
      <4> QED BY <4>1, <4>2
    <3> QED BY <2>2, <3>1, <3>2
  <2>8. \A j \in 1 .. n : merge.tmp[merge.ct + j - 1] \in Elements
    <3>1. \A j \in 1 .. n : merge.ct + j - 1 \in merge.ct .. merge.ct + n - 1
      BY <1>1, <2>2
    <3> QED BY <2>3, <3>1
  <2>9. \A i \in DOMAIN w \ Gap : w[i] \in Elements
    BY <2>2
  <2>10. Elements = {w[i] : i \in DOMAIN w \ Gap} \cup {merge.tmp[merge.ct + j - 1] : j \in 1 .. n}
    BY <2>7, <2>8, <2>9
  <2> QED BY <2>4, <2>5, <2>10 DEF NothingLost
<1>3. CASE merge.side = "high"
  <2> DEFINE n == merge.len["B"]
  <2>1. HighLeft(merge.tmp, merge.dest, merge.ct, merge.cw, n, merge.len["A"], w)
    BY <1>3 DEF Good, Left
  <2>2. /\ merge.dest \in Int /\ merge.ct = n - 1 /\ merge.cw = merge.dest - n
        /\ w \in [0 .. N - 1 -> Elements]
        /\ \A e \in Elements :
              \/ \E i \in 0 .. N - 1 : (i <= merge.cw \/ i > merge.dest) /\ w[i] = e
              \/ \E j \in 0 .. n - 1 : merge.tmp[j] = e
    BY <2>1 DEF HighLeft, Held
  <2>3. \A j \in 0 .. n - 1 : merge.tmp[j] \in Elements
    BY <1>1, <2>1 DEF HighLeft
  <2>4. Gap = merge.dest - n + 1 .. merge.dest /\ First(merge, InTmp(merge)) = 0
    <3>1. First(merge, InTmp(merge)) = merge.ct - n + 1
      BY <1>3 DEF InTmp, First, Cursor
    <3> QED BY <1>1, <1>3, <2>2, <3>1 DEF Gap, InTmp
  <2>5. Cardinality(Gap) = n
    <3>1. merge.dest = (merge.dest - n + 1) + n - 1 /\ merge.dest - n + 1 \in Int
      BY <1>1, <2>2
    <3> QED BY <1>1, <2>4, <3>1, CountUp
  <2>6. \A i \in 0 .. N - 1 : i \notin Gap <=> (i <= merge.cw \/ i > merge.dest)
    BY <1>1, <2>2, <2>4
  <2>7. ASSUME NEW e \in Elements
        PROVE  \/ \E i \in DOMAIN w \ Gap : w[i] = e
               \/ \E j \in 1 .. n : merge.tmp[0 + j - 1] = e
    <3>1. CASE \E i \in 0 .. N - 1 : (i <= merge.cw \/ i > merge.dest) /\ w[i] = e
      BY <2>2, <2>6, <3>1
    <3>2. CASE \E j \in 0 .. n - 1 : merge.tmp[j] = e
      <4>1. PICK j \in 0 .. n - 1 : merge.tmp[j] = e
        BY <3>2
      <4>2. j + 1 \in 1 .. n /\ 0 + (j + 1) - 1 = j
        BY <1>1
      <4> QED BY <4>1, <4>2
    <3> QED BY <2>2, <3>1, <3>2
  <2>8. \A j \in 1 .. n : merge.tmp[0 + j - 1] \in Elements
    <3>1. \A j \in 1 .. n : 0 + j - 1 \in 0 .. n - 1
      BY <1>1
    <3> QED BY <2>3, <3>1
  <2>9. \A i \in DOMAIN w \ Gap : w[i] \in Elements
    BY <2>2
  <2>10. Elements = {w[i] : i \in DOMAIN w \ Gap} \cup {merge.tmp[0 + j - 1] : j \in 1 .. n}
    BY <2>7, <2>8, <2>9
  <2> QED BY <2>4, <2>5, <2>10 DEF NothingLost
<1> QED BY <1>1, <1>2, <1>3

LEMMA SortSafe == ASSUME SortInv PROVE TypeOK /\ NothingLost /\ ResultIsComplete
<1>1. N \in Nat /\ low \in Nat /\ low <= N /\ runs \in Seq(Run)
  BY NIsSmall DEF SortInv, StackInv
<1>2. /\ low \in 0 .. N
      /\ pc = "insert" => low < start.at /\ start.at < start.high /\ start.high <= N
      /\ \A i \in DOMAIN runs :
            /\ runs[i].len > 0
            /\ runs[i].base + runs[i].len = IF i = Len(runs) THEN low ELSE runs[i + 1].base
      /\ minGallop > 0 /\ touches \in 0 .. MaxTouches
      /\ pc \in {"run", "insert", "collapse", "final", "single", "gallopA", "gallopB",
                 "sorted", "done", "threw"}
      /\ ResultIsComplete
  <2>1. DOMAIN runs = 1 .. Len(runs)
    BY <1>1
  <2>2. \A i \in DOMAIN runs :
            /\ runs[i].len > 0
            /\ runs[i].base + runs[i].len = IF i = Len(runs) THEN low ELSE runs[i + 1].base
    BY <2>1 DEF SortInv, Tiled
  <2>3. pc = "insert" => low < start.at /\ start.at < start.high /\ start.high <= N
    BY DEF SortInv, StackInv
  <2> QED BY <1>1, <2>2, <2>3 DEF SortInv, Merging
<1>3. CASE merge = NoMerge /\ Complete(w)
  <2>1. merge.side = "none"
    BY <1>3 DEF NoMerge
  <2>2. w \in [0 .. N - 1 -> Elements] /\ \A e \in Elements : \E i \in 0 .. N - 1 : w[i] = e
    BY <1>3 DEF Complete, Held
  <2>3. Gap = {} /\ Cardinality(Gap) = 0
    BY <2>1, FS_EmptySet DEF Gap
  <2>4. 1 .. Cardinality(Gap) = {}
    BY <2>3
  <2>5. Elements = {w[i] : i \in DOMAIN w \ Gap}
    BY <2>2, <2>3
  <2>6. {merge.tmp[First(merge, InTmp(merge)) + j - 1] : j \in 1 .. Cardinality(Gap)} = {}
    BY <2>4
  <2>7. NothingLost
    BY <2>5, <2>6, Zenon DEF NothingLost
  <2> QED BY <1>2, <2>1, <2>2, <2>7 DEF TypeOK
<1>4. CASE Good(merge, w) /\ merge.len["A"] > 0 /\ merge.len["B"] > 0
  <2>1. w \in [0 .. N - 1 -> Elements]
    BY <1>4 DEF Good, Left, LowLeft, HighLeft, Held
  <2> QED BY <1>1, <1>2, <1>4, <2>1, GoodTypes, GoodLosesNothing DEF TypeOK
<1> QED BY <1>3, <1>4 DEF SortInv, Apart

LEMMA InitSorts == ASSUME Init PROVE SortInv
<1>1. StackInv
  BY InitStacks
<1>2. /\ w = [i \in 0 .. N - 1 |-> InOrder(i)] /\ merge = NoMerge
      /\ pc \in {"threw", "sorted", "run"} /\ runs = <<>>
      /\ minGallop = MinGallop /\ touches = 0 /\ input \in Inputs
  BY DEF Init
<1>3. Complete(w)
  BY <1>2, InOrderIs DEF Complete, Held
<1>4. arr \in Seq(Int)
  <2>1. Items \in Seq(Int) /\ Len(Items) \in Nat
    BY <1>2, ElementsAre
  <2>2. arr = [e \in 1 .. Len(Items) |-> IF Items[e] = Undef THEN Undef ELSE e]
    BY <2>1 DEF Init
  <2>3. arr \in [1 .. Len(Items) -> Int]
    BY <2>1, <2>2 DEF Undef
  <2> QED BY <2>1, <2>3
<1>5. Tiled(runs, low)
  BY <1>2 DEF Tiled
<1> QED BY <1>1, <1>2, <1>3, <1>4, <1>5, BoundsAssumption
        DEF SortInv, Apart, Merging, ResultIsComplete

\* No comparison function, contradicting itself, throwing or changing the array's length,
\* can make sort() or toSorted() read out of range, overwrite an element that was not yet
\* moved, or return anything but the elements it was given (timsort(), merge_low() and
\* merge_high() of src/payload/exec.rs).
THEOREM NothingLostHolds == Spec => [](TypeOK /\ NothingLost /\ ResultIsComplete)
<1>1. Init => SortInv
  BY InitSorts
<1>2. SortInv /\ [Next]_vars => SortInv'
  BY SortNext
<1>3. SortInv => TypeOK /\ NothingLost /\ ResultIsComplete
  BY SortSafe
<1> QED BY <1>1, <1>2, <1>3, PTL DEF Spec

----------------------------------------------------------------------------
(* The order of the elements *)

LEMMA PrecedesIs ==
    ASSUME input \in Inputs
    PROVE  /\ Elements \subseteq Nat
           /\ \A x \in Elements : Items[x] \in Int
           /\ \A x, y, z \in Elements : Precedes(x, y) /\ Precedes(y, z) => Precedes(x, z)
<1>1. Items \in Seq(Int) /\ Len(Items) \in Nat /\ Elements \subseteq 1 .. Len(Items)
  BY ElementsAre
<1>2. Elements \subseteq Nat
  BY <1>1
<1>3. \A x \in Elements : Items[x] \in Int
  BY <1>1
<1>4. ASSUME NEW x \in Elements, NEW y \in Elements, NEW z \in Elements,
             Precedes(x, y), Precedes(y, z)
      PROVE  Precedes(x, z)
  <2>1. x \in Nat /\ y \in Nat /\ z \in Nat
    BY <1>2
  <2>2. Items[x] \in Int /\ Items[y] \in Int /\ Items[z] \in Int
    BY <1>3
  <2> QED BY <1>4, <2>1, <2>2 DEF Precedes
<1> QED BY <1>2, <1>3, <1>4

\* From a to b, b excluded, a copy is sorted and equals are in the order of the array.
Ascends(v, a, b) == \A i, j \in 0 .. N - 1 : a <= i /\ i < j /\ j < b => Precedes(v[i], v[j])

\* It is enough that neighbours are.
LEMMA NeighboursAscend ==
    ASSUME input \in Inputs, NEW v, Held(v), NEW a \in Nat, NEW b \in Nat, b <= N,
           \A i \in a .. b - 2 : Precedes(v[i], v[i + 1])
    PROVE  Ascends(v, a, b)
<1>1. N \in Nat /\ \A i \in 0 .. N - 1 : v[i] \in Elements
  BY ElementsAre DEF Held
<1> SUFFICES ASSUME NEW i \in 0 .. N - 1, NEW l \in 0 .. N - 1, a <= i, i < l, l < b
             PROVE  Precedes(v[i], v[l])
  BY DEF Ascends
<1> DEFINE T == {j \in i + 1 .. b - 1 : ~Precedes(v[i], v[j])}
<1>2. CASE T = {}
  BY <1>1, <1>2
<1>3. CASE T # {}
  <2>1. T \subseteq Nat
    BY <1>1
  <2>2. PICK j \in T : \A k \in T : j <= k
    BY <1>3, <2>1, LeastNumber, Zenon
  <2>3. j \in i + 1 .. b - 1 /\ ~Precedes(v[i], v[j])
    BY <2>2
  <2>4. CASE j = i + 1
    <3>1. i \in a .. b - 2
      BY <1>1
    <3> QED BY <2>3, <2>4, <3>1
  <2>5. CASE j # i + 1
    <3>1. j - 1 \in i + 1 .. b - 1 /\ j - 1 \in a .. b - 2 /\ (j - 1) + 1 = j /\ ~(j <= j - 1)
      BY <1>1, <2>3, <2>5
    <3>2. Precedes(v[i], v[j - 1])
      BY <2>2, <3>1
    <3>3. Precedes(v[j - 1], v[j])
      <4>1. Precedes(v[j - 1], v[(j - 1) + 1])
        BY <3>1
      <4> QED BY <3>1, <4>1
    <3>4. v[i] \in Elements /\ v[j - 1] \in Elements /\ v[j] \in Elements
      <4>1. j - 1 \in 0 .. N - 1 /\ j \in 0 .. N - 1
        BY <1>1, <2>3, <3>1
      <4> QED BY <1>1, <4>1
    <3> QED BY <2>3, <3>2, <3>3, <3>4, PrecedesIs
  <2> QED BY <2>4, <2>5
<1> QED BY <1>2, <1>3

----------------------------------------------------------------------------
(* What searches find when answers agree with one another *)

\* Answers that are TRUE up to a place and FALSE from there on.
Splits(before, lo, hi, k) ==
    /\ \A i \in lo .. k - 1 : before[i]
    /\ \A i \in k .. hi - 1 : ~before[i]

Descends(before, lo, hi) == \A i, j \in lo .. hi - 1 : i < j /\ before[j] => before[i]

Narrows(before, s, lo, hi) ==
    /\ Within(s, lo, hi)
    /\ \A i \in lo .. s.l - 1 : before[i]
    /\ \A i \in s.h .. hi - 1 : ~before[i]

LEMMA HalvedNarrows ==
    ASSUME NEW before, NEW lo \in Int, NEW hi \in Int, NEW s, Narrows(before, s, lo, hi),
           Descends(before, lo, hi), NEW t, t = Halved(before, s)
    PROVE  Narrows(before, t, lo, hi) /\ 2 * (t.h - t.l) <= s.h - s.l
<1>1. PICK l \in Int, h \in Int : /\ l = s.l /\ h = s.h /\ s = [l |-> l, h |-> h]
                                  /\ lo <= l /\ l <= h /\ h <= hi
  BY DEF Narrows, Within
<1>2. /\ \A i \in lo .. l - 1 : before[i]
      /\ \A i \in h .. hi - 1 : ~before[i]
  BY <1>1 DEF Narrows
<1>3. CASE l >= h
  <2>1. t = s
    BY <1>1, <1>3 DEF Halved
  <2> QED BY <1>1, <1>3, <2>1
<1>4. CASE l < h
  <2>1. PICK m \in Int : /\ m = l + (h - l) \div 2 /\ l <= m /\ m < h
                         /\ 2 * (m - l) <= h - l /\ 2 * (h - (m + 1)) <= h - l
    BY <1>1, <1>4
  <2>2. t = IF before[m] THEN [l |-> m + 1, h |-> h] ELSE [l |-> l, h |-> m]
    BY <1>1, <1>4, <2>1 DEF Halved
  <2>3. CASE before[m]
    <3>1. t = [l |-> m + 1, h |-> h] /\ t.l = m + 1 /\ t.h = h
      BY <2>2, <2>3
    <3>2. \A i \in lo .. m : before[i]
      <4>1. \A i \in lo .. m : i \in lo .. hi - 1 /\ m \in lo .. hi - 1 /\ (i < m \/ i = m)
        BY <1>1, <2>1
      <4> QED BY <2>3, <4>1 DEF Descends
    <3>3. Within(t, lo, hi)
      BY <1>1, <2>1, <3>1 DEF Within
    <3>4. \A i \in lo .. t.l - 1 : before[i]
      BY <2>1, <3>1, <3>2
    <3> QED BY <1>1, <1>2, <2>1, <3>1, <3>3, <3>4 DEF Narrows
  <2>4. CASE ~before[m]
    <3>1. t = [l |-> l, h |-> m] /\ t.l = l /\ t.h = m
      BY <2>2, <2>4
    <3>2. \A i \in m .. hi - 1 : ~before[i]
      <4>1. \A i \in m .. hi - 1 : i \in lo .. hi - 1 /\ m \in lo .. hi - 1 /\ (m < i \/ i = m)
        BY <1>1, <2>1
      <4> QED BY <2>4, <4>1 DEF Descends
    <3>3. Within(t, lo, hi)
      BY <1>1, <2>1, <3>1 DEF Within
    <3> QED BY <1>1, <1>2, <2>1, <3>1, <3>2, <3>3 DEF Narrows
  <2> QED BY <2>3, <2>4
<1> QED BY <1>1, <1>3, <1>4

\* Halving finds the place where the answers change: 25 times are enough for MAX_ARRAY.
LEMMA BisectSplits ==
    ASSUME NEW before, NEW lo \in Int, NEW hi \in Int, lo <= hi, hi - lo <= MaxArray,
           Descends(before, lo, hi)
    PROVE  /\ Bisect(before, lo, hi) \in lo .. hi
           /\ Splits(before, lo, hi, Bisect(before, lo, hi))
<1> DEFINE Whole == [l |-> lo, h |-> hi]
<1>1. PICK f : f = CHOOSE g : Halves(before, lo, hi, 25, g)
  OBVIOUS
<1>2. Halves(before, lo, hi, 25, f)
  BY <1>1, SomethingHalves
<1>3. Bisect(before, lo, hi) = f[25].h
  BY <1>1 DEF Bisect, Halves
<1>4. Narrows(before, Whole, lo, hi) /\ Whole.h - Whole.l <= MaxArray
  BY DEF Narrows, Within
<1> HIDE DEF Whole
<1>5. \A j \in 0 .. 25 : f[j] = IF j = 0 THEN Whole ELSE Halved(before, f[j - 1])
  BY <1>2 DEF Halves, Whole
<1> DEFINE T == {j \in 0 .. 25 : ~Narrows(before, f[j], lo, hi)}
<1>6. \A j \in 0 .. 25 : Narrows(before, f[j], lo, hi)
  <2> SUFFICES ASSUME T # {} PROVE FALSE
    OBVIOUS
  <2>1. T \subseteq Nat
    OBVIOUS
  <2>2. PICK j \in T : \A m \in T : j <= m
    BY <2>1, LeastNumber, Zenon
  <2>3. j \in 0 .. 25 /\ ~Narrows(before, f[j], lo, hi)
    BY <2>2
  <2>4. j # 0
    BY <1>4, <1>5, <2>3
  <2>5. j - 1 \in 0 .. 25 /\ Narrows(before, f[j - 1], lo, hi)
    BY <2>2, <2>3, <2>4
  <2>6. f[j] = Halved(before, f[j - 1])
    BY <1>5, <2>3, <2>4
  <2> QED BY <2>3, <2>5, <2>6, HalvedNarrows
<1> DEFINE d(j) == f[j].h - f[j].l
<1>7. \A j \in 0 .. 24 : d(j) \in Int /\ d(j + 1) \in Int /\ 2 * d(j + 1) <= d(j)
  <2> SUFFICES ASSUME NEW j \in 0 .. 24
               PROVE  d(j) \in Int /\ d(j + 1) \in Int /\ 2 * d(j + 1) <= d(j)
    OBVIOUS
  <2>1. j \in 0 .. 25 /\ j + 1 \in 0 .. 25 /\ j + 1 # 0 /\ (j + 1) - 1 = j
    OBVIOUS
  <2>2. f[j + 1] = Halved(before, f[j])
    BY <1>5, <2>1
  <2>3. Narrows(before, f[j], lo, hi) /\ Narrows(before, f[j + 1], lo, hi)
    BY <1>6, <2>1
  <2>4. 2 * (f[j + 1].h - f[j + 1].l) <= f[j].h - f[j].l
    BY <2>2, <2>3, HalvedNarrows
  <2> QED BY <2>3, <2>4 DEF Narrows, Within
<1>8. d(0) <= 16777216
  BY <1>4, <1>5 DEF MaxArray
<1> HIDE DEF d
<1>9. d(8) <= 65536
  BY <1>7, <1>8
<1>10. d(16) <= 256
  BY <1>7, <1>9
<1>11. d(24) <= 1
  BY <1>7, <1>10
<1>12. d(25) <= 0
  BY <1>7, <1>11
<1>13. Narrows(before, f[25], lo, hi)
  BY <1>6
<1>14. f[25].l = f[25].h
  BY <1>12, <1>13 DEF d, Narrows, Within
<1> QED BY <1>3, <1>13, <1>14 DEF Narrows, Within, Splits

\* A search finds the place where the answers change.
LEMMA GallopSplits ==
    ASSUME NEW before, NEW length \in Nat, 1 <= length, length <= MaxArray,
           NEW hint \in 0 .. length - 1, Descends(before, 0, length)
    PROVE  /\ Gallop(before, length, hint) \in 0 .. length
           /\ Splits(before, 0, length, Gallop(before, length, hint))
<1>1. hint \in Nat /\ hint < length
  OBVIOUS
<1>2. CASE before[hint]
  <2> DEFINE max == length - hint
             go == [x \in 1 .. max - 1 |-> before[hint + x]]
             o == Stride(max, go)
             cut == IF o > max THEN max ELSE o
             from == hint + (o - 1) \div 2 + 1
  <2>1. max \in Nat /\ 1 <= max /\ max <= MaxArray
    BY DEF MaxArray
  <2>2. PICK p \in Nat : /\ o = 2 * p - 1 /\ 1 <= p /\ p <= max
                         /\ 2 * p - 1 >= max \/ ~go[2 * p - 1]
                         /\ p # 1 => p - 1 < max /\ go[p - 1]
    BY <2>1, StrideStops
  <2>3. Gallop(before, length, hint) = Bisect(before, from, hint + cut)
    BY <1>2 DEF Gallop
  <2>4. \A x \in 1 .. max - 1 : go[x] = before[hint + x]
    OBVIOUS
  <2> HIDE DEF o, go
  <2>5. from = hint + p /\ cut \in Nat /\ p <= cut /\ cut <= max
    BY <2>1, <2>2
  <2>6. before[hint + p - 1]
    <3>1. CASE p = 1
      BY <1>1, <1>2, <3>1
    <3>2. CASE p # 1
      <4>1. p - 1 \in 1 .. max - 1 /\ hint + (p - 1) = hint + p - 1
        BY <1>1, <2>1, <2>2, <3>2
      <4>2. before[hint + (p - 1)]
        BY <2>2, <2>4, <3>2, <4>1
      <4> QED BY <4>1, <4>2
    <3> QED BY <3>1, <3>2
  <2>7. hint + cut = length \/ (hint + cut < length /\ ~before[hint + cut])
    <3>1. CASE 2 * p - 1 >= max
      BY <1>1, <2>1, <2>2, <3>1
    <3>2. CASE 2 * p - 1 < max
      <4>1. 2 * p - 1 \in 1 .. max - 1 /\ cut = 2 * p - 1
        BY <2>1, <2>2, <3>2
      <4>2. ~before[hint + (2 * p - 1)]
        BY <2>1, <2>2, <2>4, <3>2, <4>1
      <4>3. hint + (2 * p - 1) < length
        BY <1>1, <4>1
      <4>4. hint + cut = hint + (2 * p - 1)
        BY <4>1
      <4> HIDE DEF cut
      <4> QED BY <4>2, <4>3, <4>4
    <3> QED BY <2>1, <2>2, <3>1, <3>2
  <2> DEFINE to == hint + cut
  <2> HIDE DEF from, cut
  <2>8. /\ from \in Int /\ to \in Int /\ from <= to /\ to - from <= MaxArray
        /\ 0 < from /\ to <= length
    BY <1>1, <2>1, <2>2, <2>5 DEF MaxArray
  <2>9. Descends(before, from, to)
    <3>1. \A i \in from .. to - 1 : i \in 0 .. length - 1
      BY <2>8
    <3> QED BY <3>1 DEF Descends
  <2>10. PICK k : k = Bisect(before, from, to)
    OBVIOUS
  <2>11. k \in from .. to /\ Splits(before, from, to, k)
    BY <2>8, <2>9, <2>10, BisectSplits
  <2>12. ASSUME NEW i \in 0 .. k - 1 PROVE before[i]
    <3>1. CASE i >= from
      <4>1. i \in from .. k - 1
        BY <2>8, <2>11, <3>1
      <4> QED BY <2>11, <4>1 DEF Splits
    <3>2. CASE i < from
      <4>1. i = hint + p - 1 \/ i < hint + p - 1
        BY <1>1, <2>5, <3>2
      <4>2. i \in 0 .. length - 1 /\ hint + p - 1 \in 0 .. length - 1
        BY <1>1, <2>1, <2>2, <2>5, <2>8, <3>2
      <4> QED BY <2>6, <4>1, <4>2 DEF Descends
    <3> QED BY <2>8, <3>1, <3>2
  <2>13. ASSUME NEW i \in k .. length - 1 PROVE ~before[i]
    <3>1. CASE i < to
      <4>1. i \in k .. to - 1
        BY <2>8, <2>11, <3>1
      <4> QED BY <2>11, <4>1 DEF Splits
    <3>2. CASE i >= to
      <4>1. to \in 0 .. length - 1 /\ i \in 0 .. length - 1 /\ (i = to \/ to < i) /\ ~before[to]
        BY <2>7, <2>8, <2>11, <3>2
      <4> QED BY <4>1 DEF Descends
    <3> QED BY <2>8, <3>1, <3>2
  <2>14. k \in 0 .. length
    BY <2>8, <2>11
  <2> QED BY <2>3, <2>10, <2>12, <2>13, <2>14 DEF Splits
<1>3. CASE ~before[hint]
  <2> DEFINE max == hint + 1
             go == [x \in 1 .. max - 1 |-> ~before[hint - x]]
             o == Stride(max, go)
             cut == IF o > max THEN max ELSE o
             to == hint - (o - 1) \div 2
             from == hint - cut + 1
  <2>1. max \in Nat /\ 1 <= max /\ max <= MaxArray
    BY DEF MaxArray
  <2>2. PICK p \in Nat : /\ o = 2 * p - 1 /\ 1 <= p /\ p <= max
                         /\ 2 * p - 1 >= max \/ ~go[2 * p - 1]
                         /\ p # 1 => p - 1 < max /\ go[p - 1]
    BY <2>1, StrideStops
  <2>3. Gallop(before, length, hint) = Bisect(before, from, to)
    BY <1>3 DEF Gallop
  <2>4. \A x \in 1 .. max - 1 : go[x] <=> ~before[hint - x]
    OBVIOUS
  <2> HIDE DEF o, go
  <2>5. to = hint - p + 1 /\ cut \in Nat /\ p <= cut /\ cut <= max
    BY <2>1, <2>2
  <2>6. ~before[to]
    <3>1. CASE p = 1
      <4>1. to = hint
        BY <1>1, <2>5, <3>1
      <4> QED BY <1>3, <4>1
    <3>2. CASE p # 1
      <4>1. p - 1 \in 1 .. max - 1 /\ hint - (p - 1) = to
        BY <1>1, <2>1, <2>2, <2>5, <3>2
      <4>2. ~before[hint - (p - 1)]
        BY <2>2, <2>4, <3>2, <4>1
      <4> QED BY <4>1, <4>2
    <3> QED BY <3>1, <3>2
  <2>7. from = 0 \/ (from > 0 /\ before[from - 1])
    <3>1. CASE 2 * p - 1 >= max
      BY <1>1, <2>1, <2>2, <3>1
    <3>2. CASE 2 * p - 1 < max
      <4>1. 2 * p - 1 \in 1 .. max - 1 /\ cut = 2 * p - 1 /\ hint - (2 * p - 1) = from - 1
        BY <1>1, <2>1, <2>2, <3>2
      <4>2. before[hint - (2 * p - 1)]
        BY <2>1, <2>2, <2>4, <3>2, <4>1
      <4>3. hint - (2 * p - 1) >= 0
        BY <1>1, <4>1
      <4> HIDE DEF from, cut
      <4>4. from - 1 \in Nat /\ from - 1 = hint - (2 * p - 1) /\ from \in Int
        <5>1. from = hint - cut + 1 /\ cut \in Int
          BY <4>1 DEF from
        <5> QED BY <1>1, <4>1, <4>3, <5>1
      <4>5. before[from - 1]
        BY <4>2, <4>4
      <4> QED BY <4>4, <4>5
    <3> QED BY <2>1, <2>2, <3>1, <3>2
  <2>8. /\ from \in Int /\ to \in Int /\ from <= to /\ to - from <= MaxArray
        /\ 0 <= from /\ to < length
    BY <1>1, <2>1, <2>2, <2>5 DEF MaxArray
  <2> HIDE DEF from, to, cut
  <2>9. Descends(before, from, to)
    <3>1. \A i \in from .. to - 1 : i \in 0 .. length - 1
      BY <2>8
    <3> QED BY <3>1 DEF Descends
  <2>10. PICK k : k = Bisect(before, from, to)
    OBVIOUS
  <2>11. k \in from .. to /\ Splits(before, from, to, k)
    BY <2>8, <2>9, <2>10, BisectSplits
  <2>12. ASSUME NEW i \in 0 .. k - 1 PROVE before[i]
    <3>1. CASE i >= from
      <4>1. i \in from .. k - 1
        BY <2>8, <2>11, <3>1
      <4> QED BY <2>11, <4>1 DEF Splits
    <3>2. CASE i < from
      <4>1. /\ i = from - 1 \/ i < from - 1
            /\ i \in 0 .. length - 1 /\ from - 1 \in 0 .. length - 1 /\ before[from - 1]
        BY <2>7, <2>8, <2>11, <3>2
      <4> QED BY <4>1 DEF Descends
    <3> QED BY <2>8, <3>1, <3>2
  <2>13. ASSUME NEW i \in k .. length - 1 PROVE ~before[i]
    <3>1. CASE i < to
      <4>1. i \in k .. to - 1
        BY <2>8, <2>11, <3>1
      <4> QED BY <2>11, <4>1 DEF Splits
    <3>2. CASE i >= to
      <4>1. to \in 0 .. length - 1 /\ i \in 0 .. length - 1 /\ (i = to \/ to < i)
        BY <2>8, <2>11, <3>2
      <4> QED BY <2>6, <4>1 DEF Descends
    <3> QED BY <2>8, <3>1, <3>2
  <2>14. k \in 0 .. length
    BY <2>8, <2>11
  <2> QED BY <2>3, <2>10, <2>12, <2>13, <2>14 DEF Splits
<1> QED BY <1>2, <1>3

----------------------------------------------------------------------------
(* What moves and what stays *)

\* Before p, and from p on, the copy has the elements that the array has there; and from p
\* on they are where they were.
Cut(v, p) == \A i, j \in 0 .. N - 1 : i < p /\ p <= j => v[i] < v[j]
Untouched(v, p) == \A i, j \in 0 .. N - 1 : i < j /\ p <= j => v[i] < v[j]

\* u is v but for the order of the elements from s to e, e excluded.
Shuffles(u, v, s, e) ==
    /\ Held(u) /\ Held(v)
    /\ \A i \in 0 .. N - 1 : i < s \/ e <= i => u[i] = v[i]
    /\ \A i \in 0 .. N - 1 : s <= i /\ i < e =>
          \E j \in 0 .. N - 1 : s <= j /\ j < e /\ u[i] = v[j]

LEMMA ShufflesCompose ==
    ASSUME NEW u, NEW v, NEW z, NEW s \in Int, NEW e \in Int,
           Shuffles(u, v, s, e), Shuffles(v, z, s, e)
    PROVE  Shuffles(u, z, s, e)
<1>1. ASSUME NEW i \in 0 .. N - 1, s <= i, i < e
      PROVE  \E j \in 0 .. N - 1 : s <= j /\ j < e /\ u[i] = z[j]
  <2>1. PICK x \in 0 .. N - 1 : s <= x /\ x < e /\ u[i] = v[x]
    BY <1>1 DEF Shuffles
  <2>2. PICK y \in 0 .. N - 1 : s <= y /\ y < e /\ v[x] = z[y]
    BY <2>1 DEF Shuffles
  <2> QED BY <2>1, <2>2
<1>2. \A i \in 0 .. N - 1 : i < s \/ e <= i => u[i] = z[i]
  BY DEF Shuffles
<1> QED BY <1>1, <1>2 DEF Shuffles

LEMMA ShufflesKeep ==
    ASSUME NEW u, NEW v, NEW s \in Int, NEW e \in Int, Shuffles(u, v, s, e), N \in Nat
    PROVE  /\ \A p \in Int : (p <= s \/ e <= p) /\ Cut(v, p) => Cut(u, p)
           /\ \A p \in Int : e <= p /\ Untouched(v, p) => Untouched(u, p)
           /\ \A a, b \in Int : (b <= s \/ e <= a) /\ Ascends(v, a, b) => Ascends(u, a, b)
<1>1. \A i \in 0 .. N - 1 : \E a \in 0 .. N - 1 :
         u[i] = v[a] /\ (a = i \/ (s <= i /\ i < e /\ s <= a /\ a < e))
  BY DEF Shuffles
<1>2. ASSUME NEW p \in Int, p <= s \/ e <= p, Cut(v, p), NEW i \in 0 .. N - 1,
             NEW j \in 0 .. N - 1, i < p, p <= j
      PROVE  u[i] < u[j]
  <2>1. PICK a \in 0 .. N - 1 :
           u[i] = v[a] /\ (a = i \/ (s <= i /\ i < e /\ s <= a /\ a < e))
    BY <1>1
  <2>2. PICK b \in 0 .. N - 1 :
           u[j] = v[b] /\ (b = j \/ (s <= j /\ j < e /\ s <= b /\ b < e))
    BY <1>1
  <2>3. a < p /\ p <= b
    BY <1>2, <2>1, <2>2
  <2> QED BY <1>2, <2>1, <2>2, <2>3 DEF Cut
<1>3. ASSUME NEW p \in Int, e <= p, Untouched(v, p), NEW i \in 0 .. N - 1,
             NEW j \in 0 .. N - 1, i < j, p <= j
      PROVE  u[i] < u[j]
  <2>1. PICK a \in 0 .. N - 1 :
           u[i] = v[a] /\ (a = i \/ (s <= i /\ i < e /\ s <= a /\ a < e))
    BY <1>1
  <2>2. u[j] = v[j] /\ a < j
    BY <1>3, <2>1 DEF Shuffles
  <2> QED BY <1>3, <2>1, <2>2 DEF Untouched
<1>4. ASSUME NEW a \in Int, NEW b \in Int, b <= s \/ e <= a, Ascends(v, a, b)
      PROVE  Ascends(u, a, b)
  BY <1>4 DEF Ascends, Shuffles
<1> QED BY <1>2, <1>3, <1>4 DEF Cut, Untouched

\* The elements from a to b and those from b to c change places.
Swapped(v, a, b, c) ==
    [i \in 0 .. N - 1 |-> IF a <= i /\ i < a + (c - b) THEN v[b + (i - a)]
                          ELSE IF a + (c - b) <= i /\ i < c THEN v[i - (c - b)] ELSE v[i]]

Placed(u, v, i, a, b, c) ==
    \E x \in 0 .. N - 1 :
       /\ u[i] = v[x]
       /\ \/ (i < a \/ c <= i) /\ x = i
          \/ a <= i /\ i < a + (c - b) /\ b <= x /\ x < c /\ x = b + (i - a)
          \/ a + (c - b) <= i /\ i < c /\ a <= x /\ x < b /\ x = i - (c - b)

LEMMA SwappedIs ==
    ASSUME NEW v, Held(v), N \in Nat, NEW a \in Nat, NEW b \in Nat, NEW c \in Nat,
           a <= b, b <= c, c <= N, NEW u, u = Swapped(v, a, b, c)
    PROVE  Held(u) /\ \A i \in 0 .. N - 1 : Placed(u, v, i, a, b, c)
<1>1. DOMAIN u = 0 .. N - 1 /\ u = [i \in 0 .. N - 1 |-> u[i]]
  BY DEF Swapped
<1>2. ASSUME NEW i \in 0 .. N - 1
      PROVE  Placed(u, v, i, a, b, c)
  <2>1. CASE i < a \/ c <= i
    <3>1. u[i] = v[i]
      BY <2>1 DEF Swapped
    <3> QED BY <2>1, <3>1 DEF Placed
  <2>2. CASE a <= i /\ i < a + (c - b)
    <3>1. u[i] = v[b + (i - a)]
      BY <2>2 DEF Swapped
    <3>2. b + (i - a) \in 0 .. N - 1 /\ b <= b + (i - a) /\ b + (i - a) < c
      BY <2>2
    <3> QED BY <2>2, <3>1, <3>2 DEF Placed
  <2>3. CASE a + (c - b) <= i /\ i < c
    <3>1. u[i] = v[i - (c - b)]
      BY <2>3 DEF Swapped
    <3>2. i - (c - b) \in 0 .. N - 1 /\ a <= i - (c - b) /\ i - (c - b) < b
      BY <2>3
    <3> QED BY <2>3, <3>1, <3>2 DEF Placed
  <2> QED BY <2>1, <2>2, <2>3
<1>3. \A i \in 0 .. N - 1 : u[i] \in Elements
  BY <1>2 DEF Held, Placed
<1> QED BY <1>1, <1>2, <1>3 DEF Held

LEMMA SwappedShuffles ==
    ASSUME NEW v, Held(v), N \in Nat, NEW a \in Nat, NEW b \in Nat, NEW c \in Nat,
           a <= b, b <= c, c <= N, NEW s \in Int, NEW e \in Int, s <= a, c <= e
    PROVE  Shuffles(Swapped(v, a, b, c), v, s, e)
<1>1. PICK u : u = Swapped(v, a, b, c)
  OBVIOUS
<1>2. /\ Held(u)
      /\ \A i \in 0 .. N - 1 : \E x \in 0 .. N - 1 :
            u[i] = v[x] /\ (x = i \/ (a <= i /\ i < c /\ a <= x /\ x < c))
  <2>1. Held(u) /\ \A i \in 0 .. N - 1 : Placed(u, v, i, a, b, c)
    BY <1>1, SwappedIs
  <2> QED BY <2>1 DEF Placed
<1>3. ASSUME NEW i \in 0 .. N - 1
      PROVE  /\ i < s \/ e <= i => u[i] = v[i]
             /\ s <= i /\ i < e => \E j \in 0 .. N - 1 : s <= j /\ j < e /\ u[i] = v[j]
  <2>1. PICK x \in 0 .. N - 1 :
           u[i] = v[x] /\ (x = i \/ (a <= i /\ i < c /\ a <= x /\ x < c))
    BY <1>2
  <2> QED BY <2>1
<1> QED BY <1>1, <1>2, <1>3 DEF Shuffles

----------------------------------------------------------------------------
(* A merge, as if there were no gap *)

\* Within s .. e - 1 a run A, up to mid, and a run B are merged.  What is left of them is
\* lo .. mid - 1 and mid .. hi - 1: the rest is where it belongs.
MergeOrder(u, s, lo, mid, hi, e) ==
    /\ s \in Nat /\ lo \in Nat /\ mid \in Nat /\ hi \in Nat /\ e \in Nat
    /\ s <= lo /\ lo <= mid /\ mid <= hi /\ hi <= e /\ e <= N
    /\ Held(u)
    /\ Ascends(u, s, mid) /\ Ascends(u, mid, e)
    /\ \A i, j \in 0 .. N - 1 :
          s <= i /\ i < mid /\ mid <= j /\ j < e =>
             /\ i < lo \/ hi <= j => Precedes(u[i], u[j])
             /\ lo <= i /\ j < hi => u[i] < u[j]

\* With one of the runs used up, all is sorted.
LEMMA OrderEnds ==
    ASSUME NEW u, NEW s, NEW lo, NEW mid, NEW hi, NEW e, MergeOrder(u, s, lo, mid, hi, e),
           N \in Nat, lo = mid \/ mid = hi
    PROVE  Ascends(u, s, e)
  BY DEF MergeOrder, Ascends

\* The k first elements of A, if they precede all of B, and so on.
LEMMA FirstOfA ==
    ASSUME NEW u, NEW s, NEW lo, NEW mid, NEW hi, NEW e, MergeOrder(u, s, lo, mid, hi, e),
           N \in Nat, NEW k \in Nat, lo + k <= mid,
           \A i, j \in 0 .. N - 1 :
              lo <= i /\ i < lo + k /\ mid <= j /\ j < hi => Precedes(u[i], u[j])
    PROVE  MergeOrder(u, s, lo + k, mid, hi, e)
  BY DEF MergeOrder

LEMMA LastOfB ==
    ASSUME NEW u, NEW s, NEW lo, NEW mid, NEW hi, NEW e, MergeOrder(u, s, lo, mid, hi, e),
           N \in Nat, NEW k \in Nat, mid <= hi - k,
           \A i, j \in 0 .. N - 1 :
              lo <= i /\ i < mid /\ hi - k <= j /\ j < hi => Precedes(u[i], u[j])
    PROVE  MergeOrder(u, s, lo, mid, hi - k, e)
  BY DEF MergeOrder

LEMMA FirstOfB ==
    ASSUME NEW u, NEW s, NEW lo, NEW mid, NEW hi, NEW e, MergeOrder(u, s, lo, mid, hi, e),
           N \in Nat, NEW k \in Nat, mid + k <= hi,
           \A i, j \in 0 .. N - 1 :
              lo <= i /\ i < mid /\ mid <= j /\ j < mid + k => Precedes(u[j], u[i])
    PROVE  /\ MergeOrder(Swapped(u, lo, mid, mid + k), s, lo + k, mid + k, hi, e)
           /\ Shuffles(Swapped(u, lo, mid, mid + k), u, s, e)
<1>1. /\ s \in Nat /\ lo \in Nat /\ mid \in Nat /\ hi \in Nat /\ e \in Nat
      /\ s <= lo /\ lo <= mid /\ mid <= hi /\ hi <= e /\ e <= N /\ Held(u)
  BY DEF MergeOrder
<1>2. PICK v : v = Swapped(u, lo, mid, mid + k)
  OBVIOUS
<1>3. /\ Held(v)
      /\ \A i \in 0 .. N - 1 : \E x \in 0 .. N - 1 :
            /\ v[i] = u[x]
            /\ \/ (i < lo \/ mid + k <= i) /\ x = i
               \/ lo <= i /\ i < lo + k /\ mid <= x /\ x < mid + k /\ x = mid + (i - lo)
               \/ lo + k <= i /\ i < mid + k /\ lo <= x /\ x < mid /\ x = i - k
  <2>1. mid + k \in Nat /\ mid <= mid + k /\ mid + k <= N /\ (mid + k) - mid = k
    BY <1>1
  <2>2. Held(v) /\ \A i \in 0 .. N - 1 : Placed(v, u, i, lo, mid, mid + k)
    BY <1>1, <1>2, <2>1, SwappedIs
  <2> QED BY <2>1, <2>2 DEF Placed
<1>4. ASSUME NEW i \in 0 .. N - 1, NEW j \in 0 .. N - 1, i < j
      PROVE  /\ s <= i /\ j < mid + k => Precedes(v[i], v[j])
             /\ mid + k <= i /\ j < e => Precedes(v[i], v[j])
             /\ s <= i /\ i < mid + k /\ mid + k <= j /\ j < e =>
                   /\ i < lo + k \/ hi <= j => Precedes(v[i], v[j])
                   /\ lo + k <= i /\ j < hi => v[i] < v[j]
  <2>1. PICK x \in 0 .. N - 1 :
            /\ v[i] = u[x]
            /\ \/ (i < lo \/ mid + k <= i) /\ x = i
               \/ lo <= i /\ i < lo + k /\ mid <= x /\ x < mid + k /\ x = mid + (i - lo)
               \/ lo + k <= i /\ i < mid + k /\ lo <= x /\ x < mid /\ x = i - k
    BY <1>3
  <2>2. PICK y \in 0 .. N - 1 :
            /\ v[j] = u[y]
            /\ \/ (j < lo \/ mid + k <= j) /\ y = j
               \/ lo <= j /\ j < lo + k /\ mid <= y /\ y < mid + k /\ y = mid + (j - lo)
               \/ lo + k <= j /\ j < mid + k /\ lo <= y /\ y < mid /\ y = j - k
    BY <1>3
  <2>3. /\ s <= x /\ x < y /\ y < mid => Precedes(u[x], u[y])
        /\ mid <= x /\ x < y /\ y < e => Precedes(u[x], u[y])
        /\ s <= x /\ x < mid /\ mid <= y /\ y < e =>
             /\ x < lo \/ hi <= y => Precedes(u[x], u[y])
             /\ lo <= x /\ y < hi => u[x] < u[y]
        /\ lo <= y /\ y < mid /\ mid <= x /\ x < mid + k => Precedes(u[x], u[y])
    BY DEF MergeOrder, Ascends
  <2> QED BY <1>1, <1>4, <2>1, <2>2, <2>3
<1>5. MergeOrder(v, s, lo + k, mid + k, hi, e)
  <2>1. Ascends(v, s, mid + k) /\ Ascends(v, mid + k, e)
    BY <1>4 DEF Ascends
  <2>2. \A i, j \in 0 .. N - 1 :
          s <= i /\ i < mid + k /\ mid + k <= j /\ j < e =>
             /\ i < lo + k \/ hi <= j => Precedes(v[i], v[j])
             /\ lo + k <= i /\ j < hi => v[i] < v[j]
    BY <1>1, <1>4
  <2> QED BY <1>1, <1>3, <2>1, <2>2 DEF MergeOrder
<1>6. Shuffles(v, u, s, e)
  <2>1. mid + k \in Nat /\ mid <= mid + k /\ mid + k <= N /\ mid + k <= e
    BY <1>1
  <2> QED BY <1>1, <1>2, <2>1, SwappedShuffles
<1> QED BY <1>2, <1>5, <1>6

LEMMA LastOfA ==
    ASSUME NEW u, NEW s, NEW lo, NEW mid, NEW hi, NEW e, MergeOrder(u, s, lo, mid, hi, e),
           N \in Nat, NEW k \in Nat, lo <= mid - k,
           \A i, j \in 0 .. N - 1 :
              mid - k <= i /\ i < mid /\ mid <= j /\ j < hi => Precedes(u[j], u[i])
    PROVE  /\ MergeOrder(Swapped(u, mid - k, mid, hi), s, lo, mid - k, hi - k, e)
           /\ Shuffles(Swapped(u, mid - k, mid, hi), u, s, e)
<1>1. /\ s \in Nat /\ lo \in Nat /\ mid \in Nat /\ hi \in Nat /\ e \in Nat
      /\ s <= lo /\ lo <= mid /\ mid <= hi /\ hi <= e /\ e <= N /\ Held(u)
  BY DEF MergeOrder
<1>2. PICK v : v = Swapped(u, mid - k, mid, hi)
  OBVIOUS
<1>3. /\ Held(v)
      /\ \A i \in 0 .. N - 1 : \E x \in 0 .. N - 1 :
            /\ v[i] = u[x]
            /\ \/ (i < mid - k \/ hi <= i) /\ x = i
               \/ mid - k <= i /\ i < hi - k /\ mid <= x /\ x < hi /\ x = i + k
               \/ hi - k <= i /\ i < hi /\ mid - k <= x /\ x < mid /\ x = i - (hi - mid)
  <2>1. mid - k \in Nat /\ mid - k <= mid /\ hi <= N
    BY <1>1
  <2>2. Held(v) /\ \A i \in 0 .. N - 1 : Placed(v, u, i, mid - k, mid, hi)
    BY <1>1, <1>2, <2>1, SwappedIs
  <2> QED BY <1>1, <2>2 DEF Placed
<1>4. ASSUME NEW i \in 0 .. N - 1, NEW j \in 0 .. N - 1, i < j
      PROVE  /\ s <= i /\ j < mid - k => Precedes(v[i], v[j])
             /\ mid - k <= i /\ j < e => Precedes(v[i], v[j])
             /\ s <= i /\ i < mid - k /\ mid - k <= j /\ j < e =>
                   /\ i < lo \/ hi - k <= j => Precedes(v[i], v[j])
                   /\ lo <= i /\ j < hi - k => v[i] < v[j]
  <2>1. PICK x \in 0 .. N - 1 :
            /\ v[i] = u[x]
            /\ \/ (i < mid - k \/ hi <= i) /\ x = i
               \/ mid - k <= i /\ i < hi - k /\ mid <= x /\ x < hi /\ x = i + k
               \/ hi - k <= i /\ i < hi /\ mid - k <= x /\ x < mid /\ x = i - (hi - mid)
    BY <1>3
  <2>2. PICK y \in 0 .. N - 1 :
            /\ v[j] = u[y]
            /\ \/ (j < mid - k \/ hi <= j) /\ y = j
               \/ mid - k <= j /\ j < hi - k /\ mid <= y /\ y < hi /\ y = j + k
               \/ hi - k <= j /\ j < hi /\ mid - k <= y /\ y < mid /\ y = j - (hi - mid)
    BY <1>3
  <2>3. /\ s <= x /\ x < y /\ y < mid => Precedes(u[x], u[y])
        /\ mid <= x /\ x < y /\ y < e => Precedes(u[x], u[y])
        /\ s <= x /\ x < mid /\ mid <= y /\ y < e =>
             /\ x < lo \/ hi <= y => Precedes(u[x], u[y])
             /\ lo <= x /\ y < hi => u[x] < u[y]
        /\ mid - k <= y /\ y < mid /\ mid <= x /\ x < hi => Precedes(u[x], u[y])
    BY DEF MergeOrder, Ascends
  <2> QED BY <1>1, <1>4, <2>1, <2>2, <2>3
<1>5. MergeOrder(v, s, lo, mid - k, hi - k, e)
  <2>1. Ascends(v, s, mid - k) /\ Ascends(v, mid - k, e)
    BY <1>4 DEF Ascends
  <2>2. \A i, j \in 0 .. N - 1 :
          s <= i /\ i < mid - k /\ mid - k <= j /\ j < e =>
             /\ i < lo \/ hi - k <= j => Precedes(v[i], v[j])
             /\ lo <= i /\ j < hi - k => v[i] < v[j]
    BY <1>1, <1>4
  <2> QED BY <1>1, <1>3, <2>1, <2>2 DEF MergeOrder
<1>6. Shuffles(v, u, s, e)
  <2>1. mid - k \in Nat /\ mid - k <= mid /\ hi <= N /\ s <= mid - k
    BY <1>1
  <2> QED BY <1>1, <1>2, <2>1, SwappedShuffles
<1> QED BY <1>2, <1>5, <1>6

\* The copy with the gap filled by what is left of tmp.
LowView(tmp, dest, ct, cw, v) ==
    [i \in 0 .. N - 1 |-> IF dest <= i /\ i < cw THEN tmp[ct + (i - dest)] ELSE v[i]]
HighView(tmp, dest, cw, v) ==
    [i \in 0 .. N - 1 |-> IF cw < i /\ i <= dest THEN tmp[i - cw - 1] ELSE v[i]]
View(m, v) ==
    IF m.side = "low" THEN LowView(m.tmp, m.dest, m.ct, m.cw, v)
    ELSE IF m.side = "high" THEN HighView(m.tmp, m.dest, m.cw, v) ELSE v

LEMMA SameFunction ==
    ASSUME NEW S, NEW f, NEW g, f = [i \in S |-> f[i]], g = [i \in S |-> g[i]],
           \A i \in S : f[i] = g[i]
    PROVE  f = g
  OBVIOUS

LEMMA LowViewOfTmp ==
    ASSUME NEW tmp, NEW dest, NEW ct, NEW cw, NEW n, NEW r, NEW v, N \in Nat,
           LowLeft(tmp, dest, ct, cw, n, r, v), NEW k \in 0 .. n
    PROVE  /\ Held(LowView(tmp, dest, ct, cw, v))
           /\ LowView(tmp, dest + k, ct + k, cw, Moved(v, tmp, ct, dest, k)) =
                 LowView(tmp, dest, ct, cw, v)
<1>1. /\ n \in Nat /\ r \in Nat /\ dest \in Nat /\ ct \in Nat
      /\ cw = dest + n /\ cw + r <= N /\ k \in Nat /\ k <= n /\ Held(v)
  BY DEF LowLeft
<1>2. PICK size \in Nat : ct + n = size /\ tmp \in [0 .. size - 1 -> Elements]
  BY DEF LowLeft
<1>3. PICK u : u = Moved(v, tmp, ct, dest, k)
  OBVIOUS
<1>4. u = [i \in 0 .. N - 1 |-> IF dest <= i /\ i < dest + k THEN tmp[ct + i - dest] ELSE v[i]]
  BY <1>1, <1>3 DEF Moved, Held
<1>5. ASSUME NEW i \in 0 .. N - 1
      PROVE  (IF dest + k <= i /\ i < cw THEN tmp[ct + k + (i - (dest + k))] ELSE u[i]) =
                (IF dest <= i /\ i < cw THEN tmp[ct + (i - dest)] ELSE v[i])
  <2>1. ct + k + (i - (dest + k)) = ct + (i - dest) /\ ct + i - dest = ct + (i - dest)
    BY <1>1
  <2>2. u[i] = IF dest <= i /\ i < dest + k THEN tmp[ct + i - dest] ELSE v[i]
    BY <1>4
  <2> QED BY <1>1, <2>1, <2>2
<1>6. ASSUME NEW i \in 0 .. N - 1
      PROVE  (IF dest <= i /\ i < cw THEN tmp[ct + (i - dest)] ELSE v[i]) \in Elements
  <2>1. dest <= i /\ i < cw => ct + (i - dest) \in 0 .. size - 1
    BY <1>1, <1>2
  <2> QED BY <1>1, <1>2, <2>1 DEF Held
<1> QED BY <1>3, <1>5, <1>6 DEF LowView, Held

LEMMA LowViewOfCopy ==
    ASSUME NEW tmp, NEW dest, NEW ct, NEW cw, NEW n, NEW r, NEW v, N \in Nat,
           LowLeft(tmp, dest, ct, cw, n, r, v), NEW k \in 0 .. r
    PROVE  LowView(tmp, dest + k, ct, cw + k, Moved(v, v, cw, dest, k)) =
              Swapped(LowView(tmp, dest, ct, cw, v), dest, cw, cw + k)
<1>1. /\ n \in Nat /\ r \in Nat /\ dest \in Nat /\ ct \in Nat
      /\ cw = dest + n /\ cw + r <= N /\ k \in Nat /\ k <= r /\ Held(v)
  BY DEF LowLeft
<1>2. PICK u : u = Moved(v, v, cw, dest, k)
  OBVIOUS
<1>3. u = [i \in 0 .. N - 1 |-> IF dest <= i /\ i < dest + k THEN v[cw + i - dest] ELSE v[i]]
  BY <1>1, <1>2 DEF Moved, Held
<1>4. PICK z : z = LowView(tmp, dest, ct, cw, v)
  OBVIOUS
<1>5. \A i \in 0 .. N - 1 :
         z[i] = IF dest <= i /\ i < cw THEN tmp[ct + (i - dest)] ELSE v[i]
  BY <1>4 DEF LowView
<1>6. ASSUME NEW i \in 0 .. N - 1
      PROVE  (IF dest + k <= i /\ i < cw + k THEN tmp[ct + (i - (dest + k))] ELSE u[i]) =
                (IF dest <= i /\ i < dest + (cw + k - cw) THEN z[cw + (i - dest)]
                 ELSE IF dest + (cw + k - cw) <= i /\ i < cw + k THEN z[i - (cw + k - cw)]
                 ELSE z[i])
  <2>1. cw + k - cw = k
    BY <1>1
  <2>2. u[i] = IF dest <= i /\ i < dest + k THEN v[cw + i - dest] ELSE v[i]
    BY <1>3
  <2>3. CASE dest <= i /\ i < dest + k
    <3>1. cw + i - dest = cw + (i - dest) /\ cw + (i - dest) \in 0 .. N - 1 /\ ~(cw + (i - dest) < cw)
      BY <1>1, <2>3
    <3>2. z[cw + (i - dest)] = v[cw + (i - dest)]
      BY <1>5, <3>1
    <3> QED BY <1>1, <2>1, <2>2, <2>3, <3>1, <3>2
  <2>4. CASE dest + k <= i /\ i < cw + k
    <3>1. /\ i - k \in 0 .. N - 1 /\ dest <= i - k /\ i - k < cw
          /\ ct + (i - k - dest) = ct + (i - (dest + k))
      BY <1>1, <2>4
    <3>2. z[i - k] = tmp[ct + (i - k - dest)]
      BY <1>5, <3>1
    <3> QED BY <1>1, <2>1, <2>4, <3>1, <3>2
  <2>5. CASE i < dest \/ cw + k <= i
    <3>1. z[i] = v[i] /\ u[i] = v[i]
      BY <1>1, <1>5, <2>2, <2>5
    <3> QED BY <1>1, <2>1, <2>5, <3>1
  <2> QED BY <1>1, <2>3, <2>4, <2>5
<1>7. LowView(tmp, dest + k, ct, cw + k, u) = Swapped(z, dest, cw, cw + k)
  <2>1. PICK f, g : f = LowView(tmp, dest + k, ct, cw + k, u) /\ g = Swapped(z, dest, cw, cw + k)
    OBVIOUS
  <2>2. f = [i \in 0 .. N - 1 |-> f[i]] /\ g = [i \in 0 .. N - 1 |-> g[i]]
    BY <2>1 DEF LowView, Swapped
  <2>3. ASSUME NEW i \in 0 .. N - 1 PROVE f[i] = g[i]
    <3>1. f[i] = IF dest + k <= i /\ i < cw + k THEN tmp[ct + (i - (dest + k))] ELSE u[i]
      BY <2>1 DEF LowView
    <3>2. g[i] = IF dest <= i /\ i < dest + (cw + k - cw) THEN z[cw + (i - dest)]
                 ELSE IF dest + (cw + k - cw) <= i /\ i < cw + k THEN z[i - (cw + k - cw)]
                 ELSE z[i]
      BY <1>1, <2>1 DEF Swapped
    <3> QED BY <1>6, <3>1, <3>2
  <2>4. f = g
    BY <2>2, <2>3, SameFunction
  <2> QED BY <2>1, <2>4
<1> QED BY <1>2, <1>4, <1>7

LEMMA HighViewOfTmp ==
    ASSUME NEW tmp, NEW dest, NEW ct, NEW cw, NEW n, NEW r, NEW v, N \in Nat,
           HighLeft(tmp, dest, ct, cw, n, r, v), NEW k \in 0 .. n
    PROVE  /\ Held(HighView(tmp, dest, cw, v))
           /\ HighView(tmp, dest - k, cw, Moved(v, tmp, ct - k + 1, dest - k + 1, k)) =
                 HighView(tmp, dest, cw, v)
<1>1. /\ n \in Nat /\ r \in Nat /\ dest \in Int /\ dest < N /\ ct = n - 1 /\ cw = dest - n
      /\ cw - r + 1 >= 0 /\ k \in Nat /\ k <= n /\ Held(v)
  BY DEF HighLeft
<1>2. PICK size \in Nat : n <= size /\ tmp \in [0 .. size - 1 -> Elements]
  BY DEF HighLeft
<1>3. PICK u : u = Moved(v, tmp, ct - k + 1, dest - k + 1, k)
  OBVIOUS
<1>4. u = [i \in 0 .. N - 1 |-> IF dest - k + 1 <= i /\ i < dest - k + 1 + k
                                THEN tmp[ct - k + 1 + i - (dest - k + 1)] ELSE v[i]]
  BY <1>1, <1>3 DEF Moved, Held
<1>5. ASSUME NEW i \in 0 .. N - 1
      PROVE  (IF cw < i /\ i <= dest - k THEN tmp[i - cw - 1] ELSE u[i]) =
                (IF cw < i /\ i <= dest THEN tmp[i - cw - 1] ELSE v[i])
  <2>1. ct - k + 1 + i - (dest - k + 1) = i - cw - 1
    BY <1>1
  <2>2. u[i] = IF dest - k + 1 <= i /\ i < dest - k + 1 + k THEN tmp[i - cw - 1] ELSE v[i]
    BY <1>4, <2>1
  <2> QED BY <1>1, <2>2
<1>6. ASSUME NEW i \in 0 .. N - 1
      PROVE  (IF cw < i /\ i <= dest THEN tmp[i - cw - 1] ELSE v[i]) \in Elements
  <2>1. cw < i /\ i <= dest => i - cw - 1 \in 0 .. size - 1
    BY <1>1, <1>2
  <2> QED BY <1>1, <1>2, <2>1 DEF Held
<1> QED BY <1>3, <1>5, <1>6 DEF HighView, Held

LEMMA HighViewOfCopy ==
    ASSUME NEW tmp, NEW dest, NEW ct, NEW cw, NEW n, NEW r, NEW v, N \in Nat,
           HighLeft(tmp, dest, ct, cw, n, r, v), NEW k \in 0 .. r
    PROVE  HighView(tmp, dest - k, cw - k, Moved(v, v, cw - k + 1, dest - k + 1, k)) =
              Swapped(HighView(tmp, dest, cw, v), (cw + 1) - k, cw + 1, dest + 1)
<1>1. /\ n \in Nat /\ r \in Nat /\ dest \in Int /\ dest < N /\ ct = n - 1 /\ cw = dest - n
      /\ cw - r + 1 >= 0 /\ k \in Nat /\ k <= r /\ Held(v)
  BY DEF HighLeft
<1>2. PICK u : u = Moved(v, v, cw - k + 1, dest - k + 1, k)
  OBVIOUS
<1>3. u = [i \in 0 .. N - 1 |-> IF dest - k + 1 <= i /\ i < dest - k + 1 + k
                                THEN v[cw - k + 1 + i - (dest - k + 1)] ELSE v[i]]
  BY <1>1, <1>2 DEF Moved, Held
<1>4. PICK z : z = HighView(tmp, dest, cw, v)
  OBVIOUS
<1>5. \A i \in 0 .. N - 1 : z[i] = IF cw < i /\ i <= dest THEN tmp[i - cw - 1] ELSE v[i]
  BY <1>4 DEF HighView
<1> DEFINE a == (cw + 1) - k
           d == dest + 1 - (cw + 1)
<1>6. ASSUME NEW i \in 0 .. N - 1
      PROVE  (IF cw - k < i /\ i <= dest - k THEN tmp[i - (cw - k) - 1] ELSE u[i]) =
                (IF a <= i /\ i < a + d THEN z[cw + 1 + (i - a)]
                 ELSE IF a + d <= i /\ i < dest + 1 THEN z[i - d] ELSE z[i])
  <2>1. d = n /\ a + d = dest + 1 - k /\ cw + 1 + (i - a) = i + k
    BY <1>1
  <2>2. cw - k + 1 + i - (dest - k + 1) = i - n
    BY <1>1
  <2>3. u[i] = IF dest - k + 1 <= i /\ i < dest - k + 1 + k THEN v[i - n] ELSE v[i]
    BY <1>3, <2>2
  <2> HIDE DEF a, d
  <2>4. a = (cw + 1) - k
    BY DEF a
  <2>5. CASE cw - k < i /\ i <= dest - k
    <3>1. PICK j \in 0 .. N - 1 : /\ j = i + k /\ cw < j /\ j <= dest
                                  /\ j - cw - 1 = i - (cw - k) - 1
      BY <1>1, <2>5
    <3>2. z[j] = tmp[j - cw - 1]
      BY <1>5, <3>1
    <3>3. a <= i /\ i < a + d
      BY <1>1, <2>1, <2>4, <2>5
    <3>4. z[cw + 1 + (i - a)] = tmp[i - (cw - k) - 1]
      BY <2>1, <3>1, <3>2, Zenon
    <3> QED BY <2>5, <3>3, <3>4
  <2>6. CASE dest - k < i /\ i <= dest
    <3>1. i - n \in 0 .. N - 1 /\ ~(cw < i - n)
      BY <1>1, <2>6
    <3>2. z[i - n] = v[i - n]
      BY <1>5, <3>1
    <3>3. ~(i < a + d) /\ a + d <= i /\ i < dest + 1
      BY <1>1, <2>1, <2>6
    <3>4. u[i] = v[i - n]
      BY <1>1, <2>3, <2>6
    <3> QED BY <1>1, <2>1, <2>6, <3>2, <3>3, <3>4
  <2>7. CASE i <= cw - k \/ dest < i
    <3>1. z[i] = v[i] /\ u[i] = v[i]
      BY <1>1, <1>5, <2>3, <2>7
    <3>2. ~(a <= i /\ i < a + d) /\ ~(a + d <= i /\ i < dest + 1)
      BY <1>1, <2>1, <2>4, <2>7
    <3> QED BY <1>1, <2>7, <3>1, <3>2
  <2> QED BY <1>1, <2>5, <2>6, <2>7
<1> HIDE DEF a
<1>7. HighView(tmp, dest - k, cw - k, u) = Swapped(z, a, cw + 1, dest + 1)
  <2>1. PICK f, g : /\ f = HighView(tmp, dest - k, cw - k, u)
                    /\ g = Swapped(z, a, cw + 1, dest + 1)
    OBVIOUS
  <2>2. f = [i \in 0 .. N - 1 |-> f[i]] /\ g = [i \in 0 .. N - 1 |-> g[i]]
    BY <2>1 DEF HighView, Swapped
  <2>3. ASSUME NEW i \in 0 .. N - 1 PROVE f[i] = g[i]
    <3>1. f[i] = IF cw - k < i /\ i <= dest - k THEN tmp[i - (cw - k) - 1] ELSE u[i]
      BY <2>1 DEF HighView
    <3>2. g[i] = IF a <= i /\ i < a + d THEN z[cw + 1 + (i - a)]
                 ELSE IF a + d <= i /\ i < dest + 1 THEN z[i - d] ELSE z[i]
      BY <1>1, <2>1 DEF Swapped
    <3> QED BY <1>6, <3>1, <3>2
  <2>4. f = g
    BY <2>2, <2>3, SameFunction
  <2> QED BY <2>1, <2>4
<1> QED BY <1>2, <1>4, <1>7 DEF a

----------------------------------------------------------------------------
(* The order in a merge under way *)

\* Where what is left of the two runs begins and ends.
Lo(m) == IF m.side = "low" THEN m.dest ELSE m.cw - m.len["A"] + 1
Mid(m) == IF m.side = "low" THEN m.cw ELSE m.cw + 1
Hi(m) == IF m.side = "low" THEN m.cw + m.len["B"] ELSE m.dest + 1

LEMMA BoundsAre ==
    ASSUME NEW m, NEW v, Good(m, v), N \in Nat
    PROVE  /\ Lo(m) \in Nat /\ Mid(m) \in Nat /\ Hi(m) \in Nat
           /\ m.len["A"] \in Nat /\ m.len["B"] \in Nat
           /\ Mid(m) = Lo(m) + m.len["A"] /\ Hi(m) = Mid(m) + m.len["B"] /\ Hi(m) <= N
           /\ Held(View(m, v))
<1>1. m.len["A"] \in Nat /\ m.len["B"] \in Nat /\ m.side \in {"low", "high"}
  BY DEF Good, MergeState
<1>2. CASE m.side = "low"
  <2>1. LowLeft(m.tmp, m.dest, m.ct, m.cw, m.len["A"], m.len["B"], v)
    BY <1>2 DEF Good, Left
  <2>2. 0 \in 0 .. m.len["A"]
    BY <1>1
  <2>3. Held(LowView(m.tmp, m.dest, m.ct, m.cw, v))
    BY <2>1, <2>2, LowViewOfTmp
  <2> QED BY <1>1, <1>2, <2>1, <2>3, SMTT(20) DEF LowLeft, Lo, Mid, Hi, View
<1>3. CASE m.side = "high"
  <2>1. HighLeft(m.tmp, m.dest, m.ct, m.cw, m.len["B"], m.len["A"], v)
    BY <1>3 DEF Good, Left
  <2>2. 0 \in 0 .. m.len["B"]
    BY <1>1
  <2>3. Held(HighView(m.tmp, m.dest, m.cw, v))
    BY <2>1, <2>2, HighViewOfTmp
  <2>4. /\ m.dest \in Int /\ m.dest < N /\ m.cw = m.dest - m.len["B"] /\ m.cw - m.len["A"] + 1 >= 0
    BY <2>1 DEF HighLeft
  <2>5. Lo(m) = m.cw - m.len["A"] + 1 /\ Mid(m) = m.cw + 1 /\ Hi(m) = m.dest + 1
    BY <1>3 DEF Lo, Mid, Hi
  <2>6. View(m, v) = HighView(m.tmp, m.dest, m.cw, v)
    BY <1>3 DEF View
  <2> QED BY <1>1, <2>3, <2>4, <2>5, <2>6
<1> QED BY <1>1, <1>2, <1>3

\* k elements of a run go to the gap: where everything is then, the gap filled.
LEMMA TakenView ==
    ASSUME NEW m, NEW v, Good(m, v), N \in Nat, NEW run \in {"A", "B"}, NEW k \in 0 .. m.len[run],
           NEW t, t = Taken(m, run, k), NEW x, x = Filled(m, v, run, k), NEW u, u = View(m, v)
    PROVE  /\ Good(t, x) /\ t.side = m.side /\ t.back = m.back
           /\ m.side = "low" /\ run = "A" =>
                 View(t, x) = u /\ Lo(t) = Lo(m) + k /\ Mid(t) = Mid(m) /\ Hi(t) = Hi(m)
           /\ m.side = "low" /\ run = "B" =>
                 /\ View(t, x) = Swapped(u, Lo(m), Mid(m), Mid(m) + k)
                 /\ Lo(t) = Lo(m) + k /\ Mid(t) = Mid(m) + k /\ Hi(t) = Hi(m)
           /\ m.side = "high" /\ run = "A" =>
                 /\ View(t, x) = Swapped(u, Mid(m) - k, Mid(m), Hi(m))
                 /\ Lo(t) = Lo(m) /\ Mid(t) = Mid(m) - k /\ Hi(t) = Hi(m) - k
           /\ m.side = "high" /\ run = "B" =>
                 View(t, x) = u /\ Lo(t) = Lo(m) /\ Mid(t) = Mid(m) /\ Hi(t) = Hi(m) - k
<1>1. MergeState(m) /\ k \in Nat /\ m.len["A"] \in Nat /\ m.len["B"] \in Nat
  BY DEF Good, MergeState
<1>2. Good(t, x)
  BY TakenGood
<1>3. /\ MergeState(t) /\ t.side = m.side /\ t.tmp = m.tmp /\ t.back = m.back
      /\ t.len[run] = m.len[run] - k
      /\ \A y \in {"A", "B"} : y # run => t.len[y] = m.len[y]
      /\ t.dest = m.dest + (IF m.side = "low" THEN k ELSE 0 - k)
      /\ t.ct = IF run = InTmp(m) THEN m.ct + (IF m.side = "low" THEN k ELSE 0 - k) ELSE m.ct
      /\ t.cw = IF run = InW(m) THEN m.cw + (IF m.side = "low" THEN k ELSE 0 - k) ELSE m.cw
  BY <1>1, TakenIs
<1>4. ASSUME m.side = "low"
      PROVE  /\ LowLeft(m.tmp, m.dest, m.ct, m.cw, m.len["A"], m.len["B"], v)
             /\ m.dest \in Nat /\ m.cw \in Nat /\ m.ct \in Nat /\ InTmp(m) = "A" /\ InW(m) = "B"
  BY <1>1, <1>4 DEF Good, Left, LowLeft, InTmp, InW
<1>5. ASSUME m.side = "high"
      PROVE  /\ HighLeft(m.tmp, m.dest, m.ct, m.cw, m.len["B"], m.len["A"], v)
             /\ m.dest \in Int /\ m.cw \in Int /\ m.ct \in Int /\ InTmp(m) = "B" /\ InW(m) = "A"
  BY <1>1, <1>5 DEF Good, Left, HighLeft, InTmp, InW
<1>6. ASSUME m.side = "low", run = "A"
      PROVE  View(t, x) = u /\ Lo(t) = Lo(m) + k /\ Mid(t) = Mid(m) /\ Hi(t) = Hi(m)
  <2>1. x = Moved(v, m.tmp, m.ct, m.dest, k)
    BY <1>4, <1>6 DEF Filled, Source, Cursor
  <2>2. LowView(m.tmp, m.dest + k, m.ct + k, m.cw, x) = LowView(m.tmp, m.dest, m.ct, m.cw, v)
    BY <1>4, <1>6, <2>1, LowViewOfTmp
  <2>3. t.dest = m.dest + k /\ t.ct = m.ct + k /\ t.cw = m.cw /\ t.len["B"] = m.len["B"]
    BY <1>3, <1>4, <1>6
  <2> QED BY <1>3, <1>6, <2>2, <2>3 DEF View, Lo, Mid, Hi
<1>7. ASSUME m.side = "low", run = "B"
      PROVE  /\ View(t, x) = Swapped(u, Lo(m), Mid(m), Mid(m) + k)
             /\ Lo(t) = Lo(m) + k /\ Mid(t) = Mid(m) + k /\ Hi(t) = Hi(m)
  <2>1. x = Moved(v, v, m.cw, m.dest, k)
    BY <1>4, <1>7 DEF Filled, Source, Cursor
  <2>2. LowView(m.tmp, m.dest + k, m.ct, m.cw + k, x) =
           Swapped(LowView(m.tmp, m.dest, m.ct, m.cw, v), m.dest, m.cw, m.cw + k)
    BY <1>4, <1>7, <2>1, LowViewOfCopy
  <2>3. t.dest = m.dest + k /\ t.ct = m.ct /\ t.cw = m.cw + k /\ t.len["B"] = m.len["B"] - k
    BY <1>3, <1>4, <1>7
  <2>4. t.cw + t.len["B"] = m.cw + m.len["B"]
    BY <1>1, <1>4, <1>7, <2>3
  <2> QED BY <1>3, <1>7, <2>2, <2>3, <2>4 DEF View, Lo, Mid, Hi
<1>8. ASSUME m.side = "high", run = "A"
      PROVE  /\ View(t, x) = Swapped(u, Mid(m) - k, Mid(m), Hi(m))
             /\ Lo(t) = Lo(m) /\ Mid(t) = Mid(m) - k /\ Hi(t) = Hi(m) - k
  <2>1. x = Moved(v, v, m.cw - k + 1, m.dest - k + 1, k)
    BY <1>5, <1>8 DEF Filled, Source, Cursor
  <2>2. HighView(m.tmp, m.dest - k, m.cw - k, x) =
           Swapped(HighView(m.tmp, m.dest, m.cw, v), (m.cw + 1) - k, m.cw + 1, m.dest + 1)
    BY <1>5, <1>8, <2>1, HighViewOfCopy
  <2>3. t.dest = m.dest - k /\ t.cw = m.cw - k /\ t.len["A"] = m.len["A"] - k
    BY <1>1, <1>3, <1>5, <1>8
  <2>4. /\ t.cw - t.len["A"] + 1 = m.cw - m.len["A"] + 1
        /\ t.cw + 1 = (m.cw + 1) - k /\ t.dest + 1 = (m.dest + 1) - k
    BY <1>1, <1>5, <1>8, <2>3
  <2>5. /\ View(t, x) = HighView(m.tmp, m.dest - k, m.cw - k, x)
        /\ u = HighView(m.tmp, m.dest, m.cw, v)
    BY <1>3, <1>8, <2>3 DEF View
  <2>6. /\ Lo(m) = m.cw - m.len["A"] + 1 /\ Mid(m) = m.cw + 1 /\ Hi(m) = m.dest + 1
        /\ Lo(t) = t.cw - t.len["A"] + 1 /\ Mid(t) = t.cw + 1 /\ Hi(t) = t.dest + 1
    BY <1>3, <1>8 DEF Lo, Mid, Hi
  <2> QED BY <2>2, <2>4, <2>5, <2>6, Zenon
<1>9. ASSUME m.side = "high", run = "B"
      PROVE  View(t, x) = u /\ Lo(t) = Lo(m) /\ Mid(t) = Mid(m) /\ Hi(t) = Hi(m) - k
  <2>1. x = Moved(v, m.tmp, m.ct - k + 1, m.dest - k + 1, k)
    BY <1>5, <1>9 DEF Filled, Source, Cursor
  <2>2. HighView(m.tmp, m.dest - k, m.cw, x) = HighView(m.tmp, m.dest, m.cw, v)
    BY <1>5, <1>9, <2>1, HighViewOfTmp
  <2>3. t.dest = m.dest - k /\ t.cw = m.cw /\ t.len["A"] = m.len["A"]
    BY <1>1, <1>3, <1>5, <1>9
  <2>4. t.dest + 1 = (m.dest + 1) - k
    BY <1>1, <1>5, <1>9, <2>3
  <2>5. /\ View(t, x) = HighView(m.tmp, m.dest - k, m.cw, x)
        /\ u = HighView(m.tmp, m.dest, m.cw, v)
    BY <1>3, <1>9, <2>3 DEF View
  <2>6. /\ Lo(m) = m.cw - m.len["A"] + 1 /\ Mid(m) = m.cw + 1 /\ Hi(m) = m.dest + 1
        /\ Lo(t) = t.cw - t.len["A"] + 1 /\ Mid(t) = t.cw + 1 /\ Hi(t) = t.dest + 1
    BY <1>3, <1>9 DEF Lo, Mid, Hi
  <2> QED BY <2>2, <2>3, <2>4, <2>5, <2>6, Zenon
<1> QED BY <1>2, <1>3, <1>6, <1>7, <1>8, <1>9

\* What the searches before a merge saw to: the last of A follows all of B, or the first of
\* B precedes all of A.
Leads(side, u, lo, mid, hi) ==
    IF side = "low"
    THEN \A j \in 0 .. N - 1 : lo < mid /\ mid <= j /\ j < hi => Precedes(u[j], u[mid - 1])
    ELSE \A i \in 0 .. N - 1 : mid < hi /\ lo <= i /\ i < mid => Precedes(u[mid], u[i])

Ordered(m, v, s, e) ==
    /\ Good(m, v)
    /\ MergeOrder(View(m, v), s, Lo(m), Mid(m), Hi(m), e)
    /\ Leads(m.side, View(m, v), Lo(m), Mid(m), Hi(m))

\* The next k elements of a run go before, or after, all that is left of the other.
Fits(m, u, run, k) ==
    \A i, j \in 0 .. N - 1 :
       Lo(m) <= i /\ i < Mid(m) /\ Mid(m) <= j /\ j < Hi(m) =>
          /\ m.side = "low" /\ run = "A" /\ i < Lo(m) + k => Precedes(u[i], u[j])
          /\ m.side = "low" /\ run = "B" /\ j < Mid(m) + k => Precedes(u[j], u[i])
          /\ m.side = "high" /\ run = "A" /\ Mid(m) - k <= i => Precedes(u[j], u[i])
          /\ m.side = "high" /\ run = "B" /\ Hi(m) - k <= j => Precedes(u[i], u[j])

LEMMA TakenOrdered ==
    ASSUME NEW m, NEW v, NEW s, NEW e, Ordered(m, v, s, e), N \in Nat, NEW run \in {"A", "B"},
           NEW k \in 0 .. m.len[run], Fits(m, View(m, v), run, k),
           NEW t, t = Taken(m, run, k), NEW x, x = Filled(m, v, run, k)
    PROVE  /\ Ordered(t, x, s, e) /\ Shuffles(View(t, x), View(m, v), s, e)
           /\ t.back = m.back
<1>1. PICK u : u = View(m, v)
  OBVIOUS
<1>2. PICK lo, mid, hi : lo = Lo(m) /\ mid = Mid(m) /\ hi = Hi(m)
  OBVIOUS
<1>3. /\ Good(m, v) /\ MergeOrder(u, s, lo, mid, hi, e) /\ Leads(m.side, u, lo, mid, hi)
      /\ Held(u) /\ k \in Nat /\ m.side \in {"low", "high"} /\ s \in Int /\ e \in Int
      /\ lo \in Nat /\ mid \in Nat /\ hi \in Nat /\ lo <= mid /\ mid <= hi /\ hi <= N
  BY <1>1, <1>2 DEF Ordered, MergeOrder, Good, MergeState
<1>4. /\ m.len["A"] \in Nat /\ m.len["B"] \in Nat
      /\ mid = lo + m.len["A"] /\ hi = mid + m.len["B"]
  BY <1>2, <1>3, BoundsAre
<1>5. /\ Good(t, x) /\ t.side = m.side /\ t.back = m.back
      /\ m.side = "low" /\ run = "A" =>
            View(t, x) = u /\ Lo(t) = lo + k /\ Mid(t) = mid /\ Hi(t) = hi
      /\ m.side = "low" /\ run = "B" =>
            /\ View(t, x) = Swapped(u, lo, mid, mid + k)
            /\ Lo(t) = lo + k /\ Mid(t) = mid + k /\ Hi(t) = hi
      /\ m.side = "high" /\ run = "A" =>
            /\ View(t, x) = Swapped(u, mid - k, mid, hi)
            /\ Lo(t) = lo /\ Mid(t) = mid - k /\ Hi(t) = hi - k
      /\ m.side = "high" /\ run = "B" =>
            View(t, x) = u /\ Lo(t) = lo /\ Mid(t) = mid /\ Hi(t) = hi - k
  BY <1>1, <1>2, <1>3, TakenView
<1>6. Shuffles(u, u, s, e)
  BY <1>3 DEF Shuffles
<1>7. \A i, j \in 0 .. N - 1 :
         lo <= i /\ i < mid /\ mid <= j /\ j < hi =>
            /\ m.side = "low" /\ run = "A" /\ i < lo + k => Precedes(u[i], u[j])
            /\ m.side = "low" /\ run = "B" /\ j < mid + k => Precedes(u[j], u[i])
            /\ m.side = "high" /\ run = "A" /\ mid - k <= i => Precedes(u[j], u[i])
            /\ m.side = "high" /\ run = "B" /\ hi - k <= j => Precedes(u[i], u[j])
  BY <1>1, <1>2 DEF Fits
<1>8. CASE m.side = "low" /\ run = "A"
  <2>1. lo + k <= mid
    BY <1>3, <1>4, <1>8
  <2>2. MergeOrder(u, s, lo + k, mid, hi, e)
    <3>1. \A i, j \in 0 .. N - 1 :
              lo <= i /\ i < lo + k /\ mid <= j /\ j < hi => Precedes(u[i], u[j])
      BY <1>3, <1>7, <1>8, <2>1
    <3> QED BY <1>3, <2>1, <3>1, FirstOfA
  <2>3. Leads(m.side, u, lo + k, mid, hi)
    BY <1>3, <1>8, <2>1 DEF Leads
  <2> QED BY <1>1, <1>5, <1>6, <1>8, <2>2, <2>3 DEF Ordered
<1>9. CASE m.side = "low" /\ run = "B"
  <2>1. mid + k <= hi
    BY <1>3, <1>4, <1>9
  <2>2. PICK y : y = Swapped(u, lo, mid, mid + k)
    OBVIOUS
  <2>3. MergeOrder(y, s, lo + k, mid + k, hi, e) /\ Shuffles(y, u, s, e)
    <3>1. \A i, j \in 0 .. N - 1 :
              lo <= i /\ i < mid /\ mid <= j /\ j < mid + k => Precedes(u[j], u[i])
      BY <1>3, <1>7, <1>9, <2>1
    <3> QED BY <1>3, <2>1, <2>2, <3>1, FirstOfB
  <2>4. Leads(m.side, y, lo + k, mid + k, hi)
    <3> SUFFICES ASSUME NEW j \in 0 .. N - 1, lo + k < mid + k, mid + k <= j, j < hi
                 PROVE  Precedes(y[j], y[mid + k - 1])
      BY <1>3, <1>9 DEF Leads
    <3>1. y[j] = u[j]
      BY <1>3, <2>2 DEF Swapped
    <3>2. y[mid + k - 1] = u[mid - 1]
      <4>1. PICK i \in 0 .. N - 1 : i = mid + k - 1 /\ lo + (mid + k - mid) <= i /\ i < mid + k
                                    /\ i - (mid + k - mid) = mid - 1
        BY <1>3, <2>1
      <4>2. y[i] = u[i - (mid + k - mid)]
        BY <1>3, <2>2, <4>1 DEF Swapped
      <4> QED BY <4>1, <4>2
    <3> QED BY <1>3, <1>9, <3>1, <3>2 DEF Leads
  <2> QED BY <1>1, <1>5, <1>9, <2>2, <2>3, <2>4 DEF Ordered
<1>10. CASE m.side = "high" /\ run = "A"
  <2>1. lo <= mid - k
    BY <1>3, <1>4, <1>10
  <2>2. PICK y : y = Swapped(u, mid - k, mid, hi)
    OBVIOUS
  <2>3. MergeOrder(y, s, lo, mid - k, hi - k, e) /\ Shuffles(y, u, s, e)
    <3>1. \A i, j \in 0 .. N - 1 :
              mid - k <= i /\ i < mid /\ mid <= j /\ j < hi => Precedes(u[j], u[i])
      BY <1>3, <1>7, <1>10, <2>1
    <3> QED BY <1>3, <2>1, <2>2, <3>1, LastOfA
  <2>4. Leads(m.side, y, lo, mid - k, hi - k)
    <3> SUFFICES ASSUME NEW i \in 0 .. N - 1, mid - k < hi - k, lo <= i, i < mid - k
                 PROVE  Precedes(y[mid - k], y[i])
      BY <1>10 DEF Leads
    <3>1. y[i] = u[i]
      BY <1>3, <2>2 DEF Swapped
    <3>2. y[mid - k] = u[mid]
      <4>1. PICK j \in 0 .. N - 1 : /\ j = mid - k /\ mid - k <= j /\ j < mid - k + (hi - mid)
                                    /\ mid + (j - (mid - k)) = mid
        BY <1>3, <2>1
      <4>2. y[j] = u[mid + (j - (mid - k))]
        BY <1>3, <2>2, <4>1 DEF Swapped
      <4> QED BY <4>1, <4>2
    <3> QED BY <1>3, <1>10, <3>1, <3>2 DEF Leads
  <2> QED BY <1>1, <1>5, <1>10, <2>2, <2>3, <2>4 DEF Ordered
<1>11. CASE m.side = "high" /\ run = "B"
  <2>1. mid <= hi - k
    BY <1>3, <1>4, <1>11
  <2>2. MergeOrder(u, s, lo, mid, hi - k, e)
    <3>1. \A i, j \in 0 .. N - 1 :
              lo <= i /\ i < mid /\ hi - k <= j /\ j < hi => Precedes(u[i], u[j])
      BY <1>3, <1>7, <1>11, <2>1
    <3> QED BY <1>3, <2>1, <3>1, LastOfB
  <2>3. Leads(m.side, u, lo, mid, hi - k)
    BY <1>3, <1>11, <2>1 DEF Leads
  <2> QED BY <1>1, <1>5, <1>6, <1>11, <2>2, <2>3 DEF Ordered
<1> QED BY <1>3, <1>8, <1>9, <1>10, <1>11

LEMMA ViewClosed ==
    ASSUME NEW m, NEW v, Good(m, v), N \in Nat, m.len[InTmp(m)] = 0
    PROVE  View(m, v) = v
<1>1. v = [i \in 0 .. N - 1 |-> v[i]]
  BY DEF Good, Left, LowLeft, HighLeft, Held
<1>2. CASE m.side = "low"
  <2>1. m.dest \in Nat /\ m.cw = m.dest + 0
    BY <1>2 DEF Good, Left, LowLeft, InTmp
  <2>2. \A i \in 0 .. N - 1 : ~(m.dest <= i /\ i < m.cw)
    BY <2>1
  <2>3. LowView(m.tmp, m.dest, m.ct, m.cw, v) = [i \in 0 .. N - 1 |-> v[i]]
    BY <2>2 DEF LowView
  <2> QED BY <1>1, <1>2, <2>3 DEF View
<1>3. CASE m.side = "high"
  <2>1. m.dest \in Int /\ m.cw = m.dest - 0
    BY <1>3 DEF Good, Left, HighLeft, InTmp
  <2>2. \A i \in 0 .. N - 1 : ~(m.cw < i /\ i <= m.dest)
    BY <2>1
  <2>3. HighView(m.tmp, m.dest, m.cw, v) = [i \in 0 .. N - 1 |-> v[i]]
    BY <2>2 DEF HighView
  <2> QED BY <1>1, <1>3, <2>3 DEF View
<1> QED BY <1>2, <1>3 DEF Good, MergeState

\* What a step comes to that merges within s .. e - 1, u being the copy before.
Orders(u, s, e, back) ==
    /\ Shuffles(View(merge', w'), u, s, e)
    /\ \/ merge' = NoMerge /\ pc' = back /\ Ascends(w', s, e)
       \/ merge' # NoMerge /\ merge'.back = back /\ Ordered(merge', w', s, e)

LEMMA EndOrders ==
    ASSUME NEW m, NEW v, NEW s, NEW e, Ordered(m, v, s, e), N \in Nat, Outcome(m) # "go",
           EndMerge(m, v), NEW u, Shuffles(View(m, v), u, s, e)
    PROVE  Orders(u, s, e, m.back)
<1>1. /\ MergeState(m) /\ Good(m, v) /\ InTmp(m) \in {"A", "B"} /\ InW(m) \in {"A", "B"}
      /\ m.len["A"] \in Nat /\ m.len["B"] \in Nat /\ s \in Int /\ e \in Int
  BY SidesAre DEF Ordered, Good, MergeState, MergeOrder
<1>2. /\ Lo(m) \in Nat /\ Mid(m) \in Nat /\ Hi(m) \in Nat
      /\ Mid(m) = Lo(m) + m.len["A"] /\ Hi(m) = Mid(m) + m.len["B"]
  BY <1>1, BoundsAre
<1>3. ASSUME NEW t, NEW x, Ordered(t, x, s, e), t.len[InTmp(t)] = 0,
             t.len["A"] = 0 \/ t.len["B"] = 0, w' = x, Shuffles(View(t, x), u, s, e)
      PROVE  Orders(u, s, e, m.back)
  <2>1. View(t, x) = x
    BY <1>3, ViewClosed DEF Ordered
  <2>2. /\ Lo(t) \in Nat /\ Mid(t) \in Nat /\ t.len["A"] \in Nat /\ t.len["B"] \in Nat
        /\ Mid(t) = Lo(t) + t.len["A"] /\ Hi(t) = Mid(t) + t.len["B"]
    BY <1>3, BoundsAre DEF Ordered
  <2>3. Lo(t) = Mid(t) \/ Mid(t) = Hi(t)
    BY <1>3, <2>2
  <2>4. Ascends(x, s, e)
    BY <1>3, <2>1, <2>3, OrderEnds DEF Ordered
  <2>5. merge' = NoMerge /\ pc' = m.back
    BY DEF EndMerge
  <2>6. View(merge', w') = x
    BY <1>3, <2>5 DEF View, NoMerge
  <2> QED BY <1>3, <2>1, <2>4, <2>5, <2>6 DEF Orders
<1>4. CASE Outcome(m) = "succeed"
  <2>1. PICK run, k, t, x : /\ run = InTmp(m) /\ k = m.len[run]
                            /\ t = Taken(m, run, k) /\ x = Filled(m, v, run, k)
    OBVIOUS
  <2>2. w' = x
    BY <1>4, <2>1 DEF EndMerge
  <2>3. run \in {"A", "B"} /\ k \in 0 .. m.len[run] /\ k \in Nat
    BY <1>1, <2>1
  <2>4. m.len["A"] = 0 \/ m.len["B"] = 0
    BY <1>1, <1>4 DEF Outcome, InTmp, InW
  <2>5. Fits(m, View(m, v), run, k)
    BY <1>2, <2>4 DEF Fits
  <2>6. Ordered(t, x, s, e) /\ Shuffles(View(t, x), View(m, v), s, e)
    BY <2>1, <2>3, <2>5, TakenOrdered
  <2>7. /\ t.side = m.side /\ t.len[run] = m.len[run] - k
        /\ \A y \in {"A", "B"} : y # run => t.len[y] = m.len[y]
    BY <1>1, <2>1, <2>3, TakenIs
  <2>8. InTmp(t) = run /\ t.len[run] = 0
    BY <1>1, <2>1, <2>3, <2>7 DEF InTmp
  <2>9. t.len["A"] = 0 \/ t.len["B"] = 0
    BY <2>3, <2>8
  <2>10. Shuffles(View(t, x), u, s, e)
    BY <1>1, <2>6, ShufflesCompose
  <2> QED BY <1>3, <2>2, <2>6, <2>8, <2>9, <2>10
<1>5. CASE Outcome(m) # "succeed"
  <2>1. m.len[InTmp(m)] = 1
    BY <1>1, <1>5, OutcomeIs
  <2>2. PICK run, k, t, x : /\ run = InW(m) /\ k = m.len[run]
                            /\ t = Taken(m, run, k) /\ x = Filled(m, v, run, k)
    OBVIOUS
  <2>3. run \in {"A", "B"} /\ k \in 0 .. m.len[run] /\ k \in Nat
    BY <1>1, <2>2
  <2>4. PICK z, y : z = Taken(t, InTmp(m), 1) /\ y = Filled(t, x, InTmp(m), 1)
    OBVIOUS
  <2>5. w' = y
    BY <1>5, <2>2, <2>4 DEF EndMerge
  <2>6. Fits(m, View(m, v), run, k)
    <3>1. CASE m.side = "low"
      <4>1. Mid(m) = Lo(m) + 1 /\ run = "B"
        BY <1>2, <2>1, <2>2, <3>1 DEF InTmp, InW
      <4>2. \A j \in 0 .. N - 1 : Lo(m) < Mid(m) /\ Mid(m) <= j /\ j < Hi(m) =>
               Precedes(View(m, v)[j], View(m, v)[Mid(m) - 1])
        BY <3>1 DEF Ordered, Leads
      <4>3. \A i \in 0 .. N - 1 : Lo(m) <= i /\ i < Mid(m) => i = Mid(m) - 1
        BY <1>2, <4>1
      <4> QED BY <1>2, <3>1, <4>1, <4>2, <4>3 DEF Fits
    <3>2. CASE m.side # "low"
      <4>1. Hi(m) = Mid(m) + 1 /\ run = "A" /\ m.side = "high"
        BY <1>1, <1>2, <2>1, <2>2, <3>2 DEF InTmp, InW, MergeState
      <4>2. \A i \in 0 .. N - 1 : Mid(m) < Hi(m) /\ Lo(m) <= i /\ i < Mid(m) =>
               Precedes(View(m, v)[Mid(m)], View(m, v)[i])
        BY <3>2 DEF Ordered, Leads
      <4>3. \A j \in 0 .. N - 1 : Mid(m) <= j /\ j < Hi(m) => j = Mid(m)
        BY <1>2, <4>1
      <4> QED BY <1>2, <3>2, <4>1, <4>2, <4>3 DEF Fits
    <3> QED BY <3>1, <3>2
  <2>7. Ordered(t, x, s, e) /\ Shuffles(View(t, x), View(m, v), s, e)
    BY <2>2, <2>3, <2>6, TakenOrdered
  <2>8. /\ t.side = m.side /\ t.len[run] = 0 /\ t.len[InTmp(m)] = 1 /\ InTmp(t) = InTmp(m)
    <3>1. /\ t.side = m.side /\ t.len[run] = m.len[run] - k
          /\ \A a \in {"A", "B"} : a # run => t.len[a] = m.len[a]
      BY <1>1, <2>2, <2>3, TakenIs
    <3>2. InTmp(m) # run
      BY <2>2 DEF InTmp, InW
    <3> QED BY <1>1, <2>1, <2>2, <2>3, <3>1, <3>2 DEF InTmp
  <2>9. Fits(t, View(t, x), InTmp(m), 1)
    <3>1. Lo(t) \in Nat /\ Mid(t) = Lo(t) + t.len["A"] /\ Hi(t) = Mid(t) + t.len["B"]
          /\ Mid(t) \in Nat
      BY <2>7, BoundsAre DEF Ordered
    <3>2. Mid(t) = Lo(t) \/ Hi(t) = Mid(t)
      BY <2>3, <2>8, <3>1
    <3> QED BY <3>1, <3>2 DEF Fits
  <2>10. 1 \in 0 .. t.len[InTmp(m)] /\ MergeState(t)
    BY <2>7, <2>8 DEF Ordered, Good
  <2>11. Ordered(z, y, s, e) /\ Shuffles(View(z, y), View(t, x), s, e)
    BY <1>1, <2>4, <2>7, <2>9, <2>10, TakenOrdered
  <2>12. /\ z.side = t.side /\ z.len[InTmp(m)] = 1 - 1
         /\ \A a \in {"A", "B"} : a # InTmp(m) => z.len[a] = t.len[a]
    BY <1>1, <2>4, <2>8, <2>10, TakenIs
  <2>13. InTmp(z) = InTmp(m) /\ z.len[InTmp(m)] = 0
    BY <2>8, <2>12 DEF InTmp
  <2>14. z.len["A"] = 0 \/ z.len["B"] = 0
    BY <1>1, <2>13
  <2>15. Shuffles(View(z, y), u, s, e)
    BY <1>1, <2>7, <2>11, ShufflesCompose
  <2> QED BY <1>3, <2>5, <2>11, <2>13, <2>14, <2>15
<1> QED BY <1>4, <1>5

LEMMA ProceedOrders ==
    ASSUME NEW m, NEW v, NEW s, NEW e, Ordered(m, v, s, e), N \in Nat, NEW next,
           Proceed(m, v, next), NEW u, Shuffles(View(m, v), u, s, e)
    PROVE  Orders(u, s, e, m.back)
<1>1. CASE Outcome(m) = "go"
  <2>1. w' = v /\ merge' = m
    BY <1>1 DEF Proceed
  <2>2. m # NoMerge
    BY GoodIsMerge DEF Ordered, Good
  <2> QED BY <2>1, <2>2 DEF Orders
<1>2. CASE Outcome(m) # "go"
  <2>1. EndMerge(m, v)
    BY <1>2 DEF Proceed
  <2> QED BY <1>2, <2>1, EndOrders
<1> QED BY <1>1, <1>2

\* What was won, and when to gallop, is not about the order.
LEMMA RewonOrdered ==
    ASSUME NEW m, NEW v, NEW s, NEW e, Ordered(m, v, s, e), NEW won \in [{"A", "B"} -> Nat],
           NEW mg \in Nat \ {0}, NEW t, t = Rewon(m, won, mg)
    PROVE  /\ Ordered(t, v, s, e) /\ View(t, v) = View(m, v)
           /\ t.side = m.side /\ t.back = m.back /\ t.len = m.len
           /\ Lo(t) = Lo(m) /\ Mid(t) = Mid(m) /\ Hi(t) = Hi(m)
<1>1. /\ Good(t, v) /\ t.side = m.side /\ t.back = m.back /\ t.len = m.len
  BY RewonGood DEF Ordered
<1>2. /\ t.tmp = m.tmp /\ t.ct = m.ct /\ t.cw = m.cw /\ t.dest = m.dest
  <2>1. MergeState(m)
    BY DEF Ordered, Good
  <2> QED BY <2>1 DEF MergeState, Rewon
<1>3. View(t, v) = View(m, v) /\ Lo(t) = Lo(m) /\ Mid(t) = Mid(m) /\ Hi(t) = Hi(m)
  BY <1>1, <1>2 DEF View, Lo, Mid, Hi
<1> QED BY <1>1, <1>3 DEF Ordered

----------------------------------------------------------------------------
(* What comparisons and searches tell of the order *)

\* What is left of a run, from 0.
Of(m, v, run, i) == View(m, v)[(IF run = "A" THEN Lo(m) ELSE Mid(m)) + i]

\* An element of B that is below one of A precedes all from there on; one that is not follows
\* all up to there.
LEMMA Dominates ==
    ASSUME NEW m, NEW v, NEW s, NEW e, Ordered(m, v, s, e), input \in Inputs,
           NEW i \in 0 .. m.len["A"] - 1, NEW j \in 0 .. m.len["B"] - 1
    PROVE  /\ Of(m, v, "A", i) \in Elements /\ Of(m, v, "B", j) \in Elements
           /\ Items[Of(m, v, "B", j)] < Items[Of(m, v, "A", i)] =>
                 \A a \in i .. m.len["A"] - 1, b \in 0 .. j :
                    Precedes(Of(m, v, "B", b), Of(m, v, "A", a))
           /\ ~(Items[Of(m, v, "B", j)] < Items[Of(m, v, "A", i)]) =>
                 \A a \in 0 .. i, b \in j .. m.len["B"] - 1 :
                    Precedes(Of(m, v, "A", a), Of(m, v, "B", b))
<1>1. PICK u, lo, mid, hi : u = View(m, v) /\ lo = Lo(m) /\ mid = Mid(m) /\ hi = Hi(m)
  OBVIOUS
<1>2. N \in Nat
  BY ElementsAre
<1>3. /\ lo \in Nat /\ mid \in Nat /\ hi \in Nat /\ m.len["A"] \in Nat /\ m.len["B"] \in Nat
      /\ mid = lo + m.len["A"] /\ hi = mid + m.len["B"] /\ hi <= N /\ Held(u)
  BY <1>1, <1>2, BoundsAre DEF Ordered
<1>4. MergeOrder(u, s, lo, mid, hi, e)
  BY <1>1 DEF Ordered
<1>5. \A a : Of(m, v, "A", a) = u[lo + a] /\ Of(m, v, "B", a) = u[mid + a]
  BY <1>1 DEF Of
<1>6. /\ \A a \in 0 .. m.len["A"] - 1 : /\ lo + a \in 0 .. N - 1 /\ u[lo + a] \in Elements
                                        /\ s <= lo + a /\ lo + a < mid /\ lo <= lo + a
      /\ \A b \in 0 .. m.len["B"] - 1 : /\ mid + b \in 0 .. N - 1 /\ u[mid + b] \in Elements
                                        /\ mid <= mid + b /\ mid + b < hi /\ mid + b < e
  <2>1. s \in Nat /\ e \in Nat /\ s <= lo /\ hi <= e /\ e <= N
    BY <1>4 DEF MergeOrder
  <2>2. \A x \in 0 .. N - 1 : u[x] \in Elements
    BY <1>3 DEF Held
  <2>3. \A a \in 0 .. m.len["A"] - 1 : /\ lo + a \in 0 .. N - 1 /\ s <= lo + a /\ lo + a < mid
                                        /\ lo <= lo + a
    BY <1>2, <1>3, <2>1
  <2>4. \A b \in 0 .. m.len["B"] - 1 : /\ mid + b \in 0 .. N - 1 /\ mid <= mid + b
                                        /\ mid + b < hi /\ mid + b < e
    BY <1>2, <1>3, <2>1
  <2> QED BY <2>2, <2>3, <2>4
<1>7. \A a, b \in 0 .. m.len["A"] - 1 : a < b => Precedes(u[lo + a], u[lo + b])
  <2> SUFFICES ASSUME NEW a \in 0 .. m.len["A"] - 1, NEW b \in 0 .. m.len["A"] - 1, a < b
               PROVE  Precedes(u[lo + a], u[lo + b])
    OBVIOUS
  <2>1. PICK x \in 0 .. N - 1, y \in 0 .. N - 1 :
           x = lo + a /\ y = lo + b /\ s <= x /\ x < y /\ y < mid
    BY <1>3, <1>6
  <2> QED BY <1>4, <2>1 DEF MergeOrder, Ascends
<1>8. \A a, b \in 0 .. m.len["B"] - 1 : a < b => Precedes(u[mid + a], u[mid + b])
  <2> SUFFICES ASSUME NEW a \in 0 .. m.len["B"] - 1, NEW b \in 0 .. m.len["B"] - 1, a < b
               PROVE  Precedes(u[mid + a], u[mid + b])
    OBVIOUS
  <2>1. PICK x \in 0 .. N - 1, y \in 0 .. N - 1 :
           x = mid + a /\ y = mid + b /\ mid <= x /\ x < y /\ y < e
    BY <1>3, <1>6
  <2> QED BY <1>4, <2>1 DEF MergeOrder, Ascends
<1>9. u[lo + i] < u[mid + j]
  <2>1. PICK x \in 0 .. N - 1, y \in 0 .. N - 1 :
           /\ x = lo + i /\ y = mid + j /\ s <= x /\ lo <= x /\ x < mid /\ mid <= y /\ y < hi
           /\ y < e
    BY <1>6
  <2> QED BY <1>4, <2>1 DEF MergeOrder
<1>10. /\ Elements \subseteq Nat
       /\ \A x \in Elements : Items[x] \in Int
       /\ \A x, y, z \in Elements : Precedes(x, y) /\ Precedes(y, z) => Precedes(x, z)
  BY PrecedesIs
<1>11. ASSUME Items[u[mid + j]] < Items[u[lo + i]], NEW a \in i .. m.len["A"] - 1, NEW b \in 0 .. j
       PROVE  Precedes(u[mid + b], u[lo + a])
  <2>1. a \in 0 .. m.len["A"] - 1 /\ b \in 0 .. m.len["B"] - 1
    BY <1>3
  <2>2. Precedes(u[mid + j], u[lo + i])
    BY <1>11 DEF Precedes
  <2>3. a = i \/ Precedes(u[lo + i], u[lo + a])
    BY <1>3, <1>7, <2>1
  <2>4. b = j \/ Precedes(u[mid + b], u[mid + j])
    BY <1>3, <1>8, <2>1
  <2>5. /\ u[lo + a] \in Elements /\ u[mid + b] \in Elements
        /\ u[lo + i] \in Elements /\ u[mid + j] \in Elements
    BY <1>6, <2>1
  <2>6. Precedes(u[mid + j], u[lo + a])
    BY <1>10, <2>2, <2>3, <2>5
  <2> QED BY <1>10, <2>4, <2>5, <2>6
<1>12. ASSUME ~(Items[u[mid + j]] < Items[u[lo + i]]), NEW a \in 0 .. i,
              NEW b \in j .. m.len["B"] - 1
       PROVE  Precedes(u[lo + a], u[mid + b])
  <2>1. a \in 0 .. m.len["A"] - 1 /\ b \in 0 .. m.len["B"] - 1
    BY <1>3
  <2>5. /\ u[lo + a] \in Elements /\ u[mid + b] \in Elements
        /\ u[lo + i] \in Elements /\ u[mid + j] \in Elements
    BY <1>6, <2>1
  <2>2. Precedes(u[lo + i], u[mid + j])
    <3>1. Items[u[lo + i]] \in Int /\ Items[u[mid + j]] \in Int
      BY <1>10, <2>5
    <3>2. \/ Items[u[lo + i]] < Items[u[mid + j]]
          \/ Items[u[lo + i]] = Items[u[mid + j]]
      BY <1>12, <3>1
    <3> QED BY <1>9, <3>2 DEF Precedes
  <2>3. a = i \/ Precedes(u[lo + a], u[lo + i])
    BY <1>3, <1>7, <2>1
  <2>4. b = j \/ Precedes(u[mid + j], u[mid + b])
    BY <1>3, <1>8, <2>1
  <2>6. Precedes(u[lo + a], u[mid + j])
    BY <1>10, <2>2, <2>3, <2>5
  <2> QED BY <1>10, <2>4, <2>5, <2>6
<1>13. u[lo + i] \in Elements /\ u[mid + j] \in Elements
  BY <1>6
<1> QED BY <1>5, <1>11, <1>12, <1>13

FitsOf(m, v, run, k) ==
    \A a \in 0 .. m.len["A"] - 1, b \in 0 .. m.len["B"] - 1 :
       /\ m.side = "low" /\ run = "A" /\ a < k =>
             Precedes(Of(m, v, "A", a), Of(m, v, "B", b))
       /\ m.side = "low" /\ run = "B" /\ b < k =>
             Precedes(Of(m, v, "B", b), Of(m, v, "A", a))
       /\ m.side = "high" /\ run = "A" /\ m.len["A"] - k <= a =>
             Precedes(Of(m, v, "B", b), Of(m, v, "A", a))
       /\ m.side = "high" /\ run = "B" /\ m.len["B"] - k <= b =>
             Precedes(Of(m, v, "A", a), Of(m, v, "B", b))

LEMMA FitsIs ==
    ASSUME NEW m, NEW v, Good(m, v), N \in Nat, NEW run \in {"A", "B"}, NEW k \in Nat,
           FitsOf(m, v, run, k)
    PROVE  Fits(m, View(m, v), run, k)
<1>1. PICK u, lo, mid, hi : u = View(m, v) /\ lo = Lo(m) /\ mid = Mid(m) /\ hi = Hi(m)
  OBVIOUS
<1>2. /\ lo \in Nat /\ mid \in Nat /\ hi \in Nat /\ m.len["A"] \in Nat /\ m.len["B"] \in Nat
      /\ mid = lo + m.len["A"] /\ hi = mid + m.len["B"]
  BY <1>1, BoundsAre
<1>3. ASSUME NEW i \in 0 .. N - 1, NEW j \in 0 .. N - 1,
             lo <= i, i < mid, mid <= j, j < hi
      PROVE  /\ m.side = "low" /\ run = "A" /\ i < lo + k => Precedes(u[i], u[j])
             /\ m.side = "low" /\ run = "B" /\ j < mid + k => Precedes(u[j], u[i])
             /\ m.side = "high" /\ run = "A" /\ mid - k <= i => Precedes(u[j], u[i])
             /\ m.side = "high" /\ run = "B" /\ hi - k <= j => Precedes(u[i], u[j])
  <2>1. PICK a \in 0 .. m.len["A"] - 1, b \in 0 .. m.len["B"] - 1 : lo + a = i /\ mid + b = j
    <3>1. i - lo \in 0 .. m.len["A"] - 1 /\ lo + (i - lo) = i
      BY <1>2, <1>3
    <3>2. j - mid \in 0 .. m.len["B"] - 1 /\ mid + (j - mid) = j
      BY <1>2, <1>3
    <3> QED BY <3>1, <3>2
  <2>2. Of(m, v, "A", a) = u[i] /\ Of(m, v, "B", b) = u[j]
    BY <1>1, <2>1 DEF Of
  <2>3. /\ i < lo + k => a < k
        /\ j < mid + k => b < k
        /\ mid - k <= i => m.len["A"] - k <= a
        /\ hi - k <= j => m.len["B"] - k <= b
    BY <1>2, <2>1
  <2> QED BY <2>2, <2>3 DEF FitsOf
<1> QED BY <1>1, <1>3 DEF Fits

\* Where the code finds what is left of a run.
LEMMA SourceIs ==
    ASSUME NEW m, NEW v, Good(m, v), N \in Nat, NEW run \in {"A", "B"}, m.len[run] > 0
    PROVE  /\ \A i \in 0 .. m.len[run] - 1 : Source(m, v, run)[First(m, run) + i] = Of(m, v, run, i)
           /\ Next1(m, v, run) = Of(m, v, run, Hint(m, m.len[run]))
           /\ Hint(m, m.len[run]) \in 0 .. m.len[run] - 1
<1>1. /\ m.len["A"] \in Nat /\ m.len["B"] \in Nat /\ m.side \in {"low", "high"}
      /\ m.len[run] \in Nat
  BY DEF Good, MergeState
<1>2. CASE m.side = "low"
  <2>1. /\ m.dest \in Nat /\ m.cw \in Nat /\ m.ct \in Nat /\ InTmp(m) = "A" /\ InW(m) = "B"
        /\ m.cw = m.dest + m.len["A"] /\ m.cw + m.len["B"] <= N
    BY <1>1, <1>2 DEF Good, Left, LowLeft, InTmp, InW
  <2>2. /\ View(m, v) = LowView(m.tmp, m.dest, m.ct, m.cw, v)
        /\ Lo(m) = m.dest /\ Mid(m) = m.cw
    BY <1>2 DEF View, Lo, Mid
  <2>3. CASE run = "A"
    <3>1. Source(m, v, run) = m.tmp /\ First(m, run) = m.ct /\ Cursor(m, run) = m.ct
      BY <1>2, <2>1, <2>3 DEF Source, First, Cursor
    <3>2. ASSUME NEW i \in 0 .. m.len[run] - 1 PROVE m.tmp[m.ct + i] = Of(m, v, run, i)
      <4>1. /\ m.dest + i \in 0 .. N - 1 /\ m.dest <= m.dest + i /\ m.dest + i < m.cw
            /\ m.ct + ((m.dest + i) - m.dest) = m.ct + i
        BY <1>1, <2>1, <2>3
      <4>2. LowView(m.tmp, m.dest, m.ct, m.cw, v)[m.dest + i] = m.tmp[m.ct + i]
        BY <4>1 DEF LowView
      <4> QED BY <2>2, <2>3, <4>2 DEF Of
    <3>3. Hint(m, m.len[run]) = 0 /\ m.ct + 0 = m.ct /\ 0 \in 0 .. m.len[run] - 1
      BY <1>1, <1>2, <2>1 DEF Hint
    <3>4. m.tmp[m.ct] = Of(m, v, run, 0)
      BY <3>2, <3>3
    <3> QED BY <3>1, <3>2, <3>3, <3>4 DEF Next1
  <2>4. CASE run = "B"
    <3>1. Source(m, v, run) = v /\ First(m, run) = m.cw /\ Cursor(m, run) = m.cw
      BY <1>2, <2>1, <2>4 DEF Source, First, Cursor
    <3>2. ASSUME NEW i \in 0 .. m.len[run] - 1 PROVE v[m.cw + i] = Of(m, v, run, i)
      <4>1. m.cw + i \in 0 .. N - 1 /\ ~(m.cw + i < m.cw)
        BY <1>1, <2>1, <2>4
      <4>2. LowView(m.tmp, m.dest, m.ct, m.cw, v)[m.cw + i] = v[m.cw + i]
        BY <4>1 DEF LowView
      <4> QED BY <2>2, <2>4, <4>2 DEF Of
    <3>3. Hint(m, m.len[run]) = 0 /\ m.cw + 0 = m.cw /\ 0 \in 0 .. m.len[run] - 1
      BY <1>1, <1>2, <2>1 DEF Hint
    <3>4. v[m.cw] = Of(m, v, run, 0)
      BY <3>2, <3>3
    <3> QED BY <3>1, <3>2, <3>3, <3>4 DEF Next1
  <2> QED BY <2>3, <2>4
<1>3. CASE m.side = "high"
  <2>1. /\ m.dest \in Int /\ m.cw \in Int /\ m.ct \in Int /\ InTmp(m) = "B" /\ InW(m) = "A"
        /\ m.cw = m.dest - m.len["B"] /\ m.ct = m.len["B"] - 1 /\ m.dest < N
        /\ m.cw - m.len["A"] + 1 >= 0
    BY <1>1, <1>3 DEF Good, Left, HighLeft, InTmp, InW
  <2>2. /\ View(m, v) = HighView(m.tmp, m.dest, m.cw, v)
        /\ Lo(m) = m.cw - m.len["A"] + 1 /\ Mid(m) = m.cw + 1
    BY <1>3 DEF View, Lo, Mid
  <2>3. CASE run = "B"
    <3>1. Source(m, v, run) = m.tmp /\ First(m, run) = 0 /\ Cursor(m, run) = m.ct
      BY <1>1, <1>3, <2>1, <2>3 DEF Source, First, Cursor
    <3>2. ASSUME NEW i \in 0 .. m.len[run] - 1 PROVE m.tmp[i] = Of(m, v, run, i)
      <4>1. PICK j \in 0 .. N - 1 :
               /\ j = (m.cw + 1) + i /\ m.cw < j /\ j <= m.dest /\ j - m.cw - 1 = i
        BY <1>1, <2>1, <2>3
      <4>2. HighView(m.tmp, m.dest, m.cw, v)[j] = m.tmp[i]
        BY <4>1 DEF HighView
      <4> QED BY <2>2, <2>3, <4>1, <4>2 DEF Of
    <3>3. Hint(m, m.len[run]) = m.ct /\ m.ct \in 0 .. m.len[run] - 1
      BY <1>1, <1>3, <2>1, <2>3 DEF Hint
    <3>4. \A i \in 0 .. m.len[run] - 1 : 0 + i = i
      BY <1>1
    <3> QED BY <3>1, <3>2, <3>3, <3>4 DEF Next1
  <2>4. CASE run = "A"
    <3>1. Source(m, v, run) = v /\ First(m, run) = m.cw - m.len["A"] + 1 /\ Cursor(m, run) = m.cw
      BY <1>3, <2>1, <2>4 DEF Source, First, Cursor
    <3>2. ASSUME NEW i \in 0 .. m.len[run] - 1
          PROVE  v[m.cw - m.len["A"] + 1 + i] = Of(m, v, run, i)
      <4>1. PICK j \in 0 .. N - 1 : j = m.cw - m.len["A"] + 1 + i /\ ~(m.cw < j)
        BY <1>1, <2>1, <2>4
      <4>2. HighView(m.tmp, m.dest, m.cw, v)[j] = v[j]
        BY <4>1 DEF HighView
      <4> QED BY <2>2, <2>4, <4>1, <4>2 DEF Of
    <3>3. /\ Hint(m, m.len[run]) = m.len["A"] - 1 /\ m.len["A"] - 1 \in 0 .. m.len[run] - 1
          /\ m.cw - m.len["A"] + 1 + (m.len["A"] - 1) = m.cw
      BY <1>1, <1>3, <2>1, <2>4 DEF Hint
    <3>4. v[m.cw] = Of(m, v, run, m.len["A"] - 1)
      BY <3>2, <3>3
    <3> QED BY <3>1, <3>2, <3>3, <3>4 DEF Next1
  <2> QED BY <2>3, <2>4
<1> QED BY <1>1, <1>2, <1>3

LEMMA SwappedAt ==
    ASSUME NEW v, N \in Nat, NEW a \in Int, NEW b \in Int, NEW c \in Int, a <= b, b <= c,
           NEW f, f = Swapped(v, a, b, c), NEW j \in 0 .. N - 1
    PROVE  /\ \A i \in Int : a <= j /\ j < a + (c - b) /\ i = b + (j - a) => f[j] = v[i]
           /\ \A i \in Int : a + (c - b) <= j /\ j < c /\ i = j - (c - b) => f[j] = v[i]
           /\ j < a \/ c <= j => f[j] = v[j]
  BY DEF Swapped

\* What is left once k elements of a run are taken.
LEMMA RestIs ==
    ASSUME NEW m, NEW v, Good(m, v), N \in Nat, NEW run \in {"A", "B"}, NEW k \in 0 .. m.len[run],
           NEW t, t = Taken(m, run, k), NEW x, x = Filled(m, v, run, k),
           NEW y \in {"A", "B"}, NEW i \in 0 .. t.len[y] - 1
    PROVE  Of(t, x, y, i) = Of(m, v, y, IF m.side = "low" /\ y = run THEN k + i ELSE i)
<1>1. PICK u, lo, mid, hi : u = View(m, v) /\ lo = Lo(m) /\ mid = Mid(m) /\ hi = Hi(m)
  OBVIOUS
<1>2. /\ lo \in Nat /\ mid \in Nat /\ hi \in Nat /\ m.len["A"] \in Nat /\ m.len["B"] \in Nat
      /\ mid = lo + m.len["A"] /\ hi = mid + m.len["B"] /\ hi <= N /\ k \in Nat
      /\ m.side \in {"low", "high"}
  BY <1>1, BoundsAre DEF Good, MergeState
<1>3. /\ t.len[run] = m.len[run] - k
      /\ \A z \in {"A", "B"} : z # run => t.len[z] = m.len[z]
  BY TakenIs DEF Good
<1>4. /\ m.side = "low" /\ run = "A" =>
            View(t, x) = u /\ Lo(t) = lo + k /\ Mid(t) = mid /\ Hi(t) = hi
      /\ m.side = "low" /\ run = "B" =>
            /\ View(t, x) = Swapped(u, lo, mid, mid + k)
            /\ Lo(t) = lo + k /\ Mid(t) = mid + k /\ Hi(t) = hi
      /\ m.side = "high" /\ run = "A" =>
            /\ View(t, x) = Swapped(u, mid - k, mid, hi)
            /\ Lo(t) = lo /\ Mid(t) = mid - k /\ Hi(t) = hi - k
      /\ m.side = "high" /\ run = "B" =>
            View(t, x) = u /\ Lo(t) = lo /\ Mid(t) = mid /\ Hi(t) = hi - k
  BY <1>1, TakenView
<1>5. /\ \A z : Of(m, v, "A", z) = u[lo + z] /\ Of(m, v, "B", z) = u[mid + z]
      /\ \A z : /\ Of(t, x, "A", z) = View(t, x)[Lo(t) + z]
                /\ Of(t, x, "B", z) = View(t, x)[Mid(t) + z]
  BY <1>1 DEF Of
<1>6. CASE (m.side = "low" /\ run = "A") \/ (m.side = "high" /\ run = "B")
  <2>1. i \in Nat /\ (lo + k) + i = lo + (k + i)
    BY <1>2
  <2>2. CASE y = "A"
    BY <1>2, <1>4, <1>5, <1>6, <2>1, <2>2
  <2>3. CASE y = "B"
    BY <1>2, <1>4, <1>5, <1>6, <2>1, <2>3
  <2> QED BY <2>2, <2>3
<1>7. CASE m.side = "low" /\ run = "B"
  <2>1. PICK f : f = Swapped(u, lo, mid, mid + k) /\ View(t, x) = f
    BY <1>4, <1>7
  <2>2. mid + k \in Int /\ lo <= mid /\ mid <= mid + k /\ (mid + k) - mid = k
    BY <1>2
  <2>3. CASE y = "A"
    <3>1. PICK j \in 0 .. N - 1, z \in Int :
             j = (lo + k) + i /\ lo + k <= j /\ j < mid + k /\ z = j - k /\ z = lo + i
      BY <1>2, <1>3, <1>7, <2>3
    <3>2. f[j] = u[z]
      BY <1>2, <2>1, <2>2, <3>1, SwappedAt
    <3> QED BY <1>4, <1>5, <1>7, <2>1, <2>3, <3>1, <3>2
  <2>4. CASE y = "B"
    <3>1. PICK j \in 0 .. N - 1 : j = (mid + k) + i /\ mid + k <= j /\ j = mid + (k + i)
      BY <1>2, <1>3, <1>7, <2>4
    <3>2. f[j] = u[j]
      <4>1. PICK c \in Int : c = mid + k /\ lo \in Int /\ mid \in Int /\ c <= j /\ lo <= mid /\ mid <= c
        BY <1>2, <2>2, <3>1
      <4>2. f = Swapped(u, lo, mid, c)
        BY <2>1, <4>1
      <4>3. j < lo \/ c <= j => f[j] = u[j]
        BY <1>2, <4>1, <4>2, SwappedAt
      <4> QED BY <4>1, <4>3
    <3> QED BY <1>4, <1>5, <1>7, <2>1, <2>4, <3>1, <3>2
  <2> QED BY <2>3, <2>4
<1>8. CASE m.side = "high" /\ run = "A"
  <2>1. PICK f : f = Swapped(u, mid - k, mid, hi) /\ View(t, x) = f
    BY <1>4, <1>8
  <2>2. mid - k \in Int /\ mid - k <= mid /\ mid <= hi /\ mid \in Int /\ hi \in Int
    BY <1>2
  <2>3. CASE y = "A"
    <3>1. PICK j \in 0 .. N - 1 : j = lo + i /\ j < mid - k
      BY <1>2, <1>3, <1>8, <2>3
    <3>2. f[j] = u[j]
      BY <2>1, <2>2, <3>1, SwappedAt
    <3> QED BY <1>4, <1>5, <1>8, <2>1, <2>3, <3>1, <3>2
  <2>4. CASE y = "B"
    <3>0. t.len["B"] = m.len["B"] /\ i \in 0 .. m.len["B"] - 1
      BY <1>3, <1>8, <2>4
    <3>1. PICK j \in 0 .. N - 1, z \in Int :
             /\ j = (mid - k) + i /\ mid - k <= j /\ j < mid - k + (hi - mid)
             /\ z = mid + (j - (mid - k)) /\ z = mid + i
      <4>1. PICK z \in Int : z = mid + i /\ mid <= z /\ z < hi
        <5>1. mid + i \in Int /\ mid <= mid + i /\ mid + i < hi
          BY <1>2, <3>0
        <5> QED BY <5>1
      <4>2. PICK j \in Int : j = z - k
        BY <1>2, <4>1
      <4>3. k <= mid
        BY <1>2, <1>8
      <4>4. j \in 0 .. N - 1
        BY <1>2, <4>1, <4>2, <4>3
      <4>5. j = (mid - k) + i /\ mid - k <= j /\ j < mid - k + (hi - mid)
        BY <1>2, <4>1, <4>2
      <4>6. z = mid + (j - (mid - k))
        BY <1>2, <4>1, <4>2
      <4> QED BY <4>1, <4>4, <4>5, <4>6
    <3>2. f[j] = u[z]
      <4>1. PICK a \in Int : a = mid - k
        BY <2>2
      <4>2. f = Swapped(u, a, mid, hi) /\ a <= mid
        BY <2>1, <2>2, <4>1
      <4>3. a <= j /\ j < a + (hi - mid) /\ z = mid + (j - a)
        BY <3>1, <4>1
      <4>4. \A q \in Int : a <= j /\ j < a + (hi - mid) /\ q = mid + (j - a) => f[j] = u[q]
        BY <2>2, <4>2, SwappedAt
      <4> QED BY <4>3, <4>4
    <3> QED BY <1>4, <1>5, <1>8, <2>1, <2>4, <3>1, <3>2
  <2> QED BY <2>3, <2>4
<1> QED BY <1>2, <1>4, <1>6, <1>7, <1>8

\* What a comparison that compares ranks answers.
LEMMA AnswerIs ==
    ASSUME ~input.wild, NEW asked, NEW f \in Answers(asked), NEW i \in DOMAIN asked
    PROVE  f[i] <=> Items[asked[i][1]] < Items[asked[i][2]]
<1>1. f = [x \in DOMAIN asked |-> Items[asked[x][1]] < Items[asked[x][2]]]
  BY DEF Answers
<1> QED BY <1>1

LEMMA NotAboveIs ==
    ASSUME ~input.wild, NEW a, NEW key, NEW base, NEW length, NEW f \in NotAbove(a, key, base, length),
           NEW i \in 0 .. length - 1
    PROVE  f[i] <=> ~(Items[key] < Items[a[base + i]])
<1>1. PICK asked : asked = [x \in 0 .. length - 1 |-> <<key, a[base + x]>>]
  OBVIOUS
<1>2. PICK above \in Answers(asked) : f = [x \in 0 .. length - 1 |-> ~above[x]]
  BY <1>1 DEF NotAbove
<1>3. i \in DOMAIN asked /\ asked[i][1] = key /\ asked[i][2] = a[base + i]
  BY <1>1
<1>4. above[i] <=> Items[key] < Items[a[base + i]]
  BY <1>3, AnswerIs
<1> QED BY <1>2, <1>4

LEMMA BelowIs ==
    ASSUME ~input.wild, NEW a, NEW key, NEW base, NEW length, NEW f \in Below(a, key, base, length),
           NEW i \in 0 .. length - 1
    PROVE  f[i] <=> Items[a[base + i]] < Items[key]
<1>1. PICK asked : asked = [x \in 0 .. length - 1 |-> <<a[base + x], key>>]
  OBVIOUS
<1>2. f \in Answers(asked)
  BY <1>1 DEF Below
<1>3. i \in DOMAIN asked /\ asked[i][1] = a[base + i] /\ asked[i][2] = key
  BY <1>1
<1> QED BY <1>2, <1>3, AnswerIs

\* What is left of a run ascends.
LEMMA OfAscends ==
    ASSUME NEW m, NEW v, NEW s, NEW e, Ordered(m, v, s, e), input \in Inputs,
           NEW run \in {"A", "B"}
    PROVE  /\ \A i \in 0 .. m.len[run] - 1 : /\ Of(m, v, run, i) \in Elements
                                             /\ Items[Of(m, v, run, i)] \in Int
           /\ \A i, j \in 0 .. m.len[run] - 1 :
                 i < j => Items[Of(m, v, run, i)] <= Items[Of(m, v, run, j)]
<1>1. PICK u, lo, mid, hi : u = View(m, v) /\ lo = Lo(m) /\ mid = Mid(m) /\ hi = Hi(m)
  OBVIOUS
<1>2. N \in Nat
  BY ElementsAre
<1>3. /\ lo \in Nat /\ mid \in Nat /\ hi \in Nat /\ m.len["A"] \in Nat /\ m.len["B"] \in Nat
      /\ mid = lo + m.len["A"] /\ hi = mid + m.len["B"] /\ hi <= N /\ Held(u)
  BY <1>1, <1>2, BoundsAre DEF Ordered
<1>4. /\ MergeOrder(u, s, lo, mid, hi, e) /\ s \in Nat /\ e \in Nat /\ s <= lo /\ hi <= e
  BY <1>1 DEF Ordered, MergeOrder
<1>5. PICK base \in Nat : base = IF run = "A" THEN lo ELSE mid
  BY <1>3
<1>6. \A i : Of(m, v, run, i) = u[base + i]
  BY <1>1, <1>5 DEF Of
<1>7. \A i \in 0 .. m.len[run] - 1 : base + i \in 0 .. N - 1
  BY <1>2, <1>3, <1>5
<1>8. \A i \in 0 .. m.len[run] - 1 : u[base + i] \in Elements /\ Items[u[base + i]] \in Int
  BY <1>3, <1>7, PrecedesIs DEF Held
<1>9. ASSUME NEW i \in 0 .. m.len[run] - 1, NEW j \in 0 .. m.len[run] - 1, i < j
      PROVE  Items[u[base + i]] <= Items[u[base + j]]
  <2>1. PICK x \in 0 .. N - 1, y \in 0 .. N - 1 : x = base + i /\ y = base + j /\ x < y
    BY <1>7, <1>9, <1>3
  <2>2. Precedes(u[x], u[y])
    <3>1. CASE run = "A"
      <4>1. s <= x /\ y < mid
        BY <1>3, <1>4, <1>5, <2>1, <3>1
      <4> QED BY <1>4, <2>1, <4>1 DEF MergeOrder, Ascends
    <3>2. CASE run = "B"
      <4>1. mid <= x /\ y < e
        BY <1>3, <1>4, <1>5, <2>1, <3>2
      <4> QED BY <1>4, <2>1, <4>1 DEF MergeOrder, Ascends
    <3> QED BY <3>1, <3>2
  <2>3. Items[u[x]] \in Int /\ Items[u[y]] \in Int
    BY <1>8, <2>1
  <2>4. Items[u[x]] <= Items[u[y]]
    BY <2>2, <2>3 DEF Precedes
  <2> QED BY <2>1, <2>4
<1> QED BY <1>6, <1>8, <1>9

\* One comparison tells which run goes next.
LEMMA WinnerFits ==
    ASSUME NEW m, NEW v, NEW s, NEW e, Ordered(m, v, s, e), input \in Inputs, N \in Nat,
           m.len["A"] > 0, m.len["B"] > 0, NEW run,
           run = IF Items[Next1(m, v, "B")] < Items[Next1(m, v, "A")] THEN InW(m) ELSE InTmp(m)
    PROVE  FitsOf(m, v, run, 1)
<1>1. Good(m, v) /\ MergeState(m) /\ m.len["A"] \in Nat /\ m.len["B"] \in Nat
  BY DEF Ordered, Good, MergeState
<1>2. PICK p \in 0 .. m.len["A"] - 1 : p = Hint(m, m.len["A"]) /\ Next1(m, v, "A") = Of(m, v, "A", p)
  BY <1>1, SourceIs
<1>3. PICK q \in 0 .. m.len["B"] - 1 : q = Hint(m, m.len["B"]) /\ Next1(m, v, "B") = Of(m, v, "B", q)
  BY <1>1, SourceIs
<1>4. /\ m.side = "low" => p = 0 /\ q = 0
      /\ m.side = "high" => p = m.len["A"] - 1 /\ q = m.len["B"] - 1
  BY <1>2, <1>3 DEF Hint
<1>5. CASE Items[Of(m, v, "B", q)] < Items[Of(m, v, "A", p)]
  <2>1. run = InW(m)
    BY <1>2, <1>3, <1>5
  <2>2. \A a \in p .. m.len["A"] - 1, b \in 0 .. q : Precedes(Of(m, v, "B", b), Of(m, v, "A", a))
    BY <1>5, Dominates
  <2>3. ASSUME NEW a \in 0 .. m.len["A"] - 1, NEW b \in 0 .. m.len["B"] - 1
        PROVE  /\ m.side = "low" /\ b < 1 => Precedes(Of(m, v, "B", b), Of(m, v, "A", a))
               /\ m.side = "high" /\ m.len["A"] - 1 <= a =>
                     Precedes(Of(m, v, "B", b), Of(m, v, "A", a))
    <3>1. m.side = "low" /\ b < 1 => a \in p .. m.len["A"] - 1 /\ b \in 0 .. q
      BY <1>1, <1>4
    <3>2. m.side = "high" /\ m.len["A"] - 1 <= a => a \in p .. m.len["A"] - 1 /\ b \in 0 .. q
      BY <1>1, <1>4
    <3> QED BY <2>2, <3>1, <3>2
  <2>4. CASE m.side = "low"
    <3>1. run = "B"
      BY <2>1, <2>4 DEF InW
    <3> QED BY <2>3, <2>4, <3>1, Zenon DEF FitsOf
  <2>5. CASE m.side = "high"
    <3>1. run = "A"
      BY <2>1, <2>5 DEF InW
    <3> QED BY <2>3, <2>5, <3>1, Zenon DEF FitsOf
  <2> QED BY <1>1, <2>4, <2>5 DEF MergeState
<1>6. CASE ~(Items[Of(m, v, "B", q)] < Items[Of(m, v, "A", p)])
  <2>1. run = InTmp(m)
    BY <1>2, <1>3, <1>6
  <2>2. \A a \in 0 .. p, b \in q .. m.len["B"] - 1 : Precedes(Of(m, v, "A", a), Of(m, v, "B", b))
    BY <1>6, Dominates
  <2>3. ASSUME NEW a \in 0 .. m.len["A"] - 1, NEW b \in 0 .. m.len["B"] - 1
        PROVE  /\ m.side = "low" /\ a < 1 => Precedes(Of(m, v, "A", a), Of(m, v, "B", b))
               /\ m.side = "high" /\ m.len["B"] - 1 <= b =>
                     Precedes(Of(m, v, "A", a), Of(m, v, "B", b))
    <3>1. m.side = "low" /\ a < 1 => a \in 0 .. p /\ b \in q .. m.len["B"] - 1
      BY <1>1, <1>4
    <3>2. m.side = "high" /\ m.len["B"] - 1 <= b => a \in 0 .. p /\ b \in q .. m.len["B"] - 1
      BY <1>1, <1>4
    <3> QED BY <2>2, <3>1, <3>2
  <2>4. CASE m.side = "low"
    <3>1. run = "A"
      BY <2>1, <2>4 DEF InTmp
    <3> QED BY <2>3, <2>4, <3>1, Zenon DEF FitsOf
  <2>5. CASE m.side = "high"
    <3>1. run = "B"
      BY <2>1, <2>5 DEF InTmp
    <3> QED BY <2>3, <2>5, <3>1, Zenon DEF FitsOf
  <2> QED BY <1>1, <2>4, <2>5 DEF MergeState
<1> QED BY <1>5, <1>6

\* A gallop through A finds what of it goes before, or after, the next of B; and the next of B
\* goes before, or after, the rest.
LEMMA GallopFitsA ==
    ASSUME NEW m, NEW v, NEW s, NEW e, Ordered(m, v, s, e), input \in Inputs, N \in Nat,
           N <= MaxArray, ~input.wild, m.len["A"] > 0, m.len["B"] > 0,
           NEW f \in NotAbove(Source(m, v, "A"), Next1(m, v, "B"), First(m, "A"), m.len["A"]),
           NEW k, k = Won(m, m.len["A"], Gallop(f, m.len["A"], Hint(m, m.len["A"]))),
           NEW t, t = Taken(m, "A", k), NEW x, x = Filled(m, v, "A", k)
    PROVE  k \in 0 .. m.len["A"] /\ FitsOf(m, v, "A", k) /\ FitsOf(t, x, "B", 1)
<1>1. /\ Good(m, v) /\ MergeState(m) /\ m.len["A"] \in Nat /\ m.len["B"] \in Nat
      /\ m.side \in {"low", "high"}
  BY DEF Ordered, Good, MergeState
<1>2. PICK n \in Nat, p \in Int : n = m.len["A"] /\ p = Hint(m, m.len["A"]) /\ p \in 0 .. n - 1
  BY <1>1, SourceIs
<1>3. PICK q \in 0 .. m.len["B"] - 1 : q = Hint(m, m.len["B"]) /\ Next1(m, v, "B") = Of(m, v, "B", q)
  BY <1>1, SourceIs
<1>4. (m.side = "low" => q = 0) /\ (m.side = "high" => q = m.len["B"] - 1)
  BY <1>3 DEF Hint
<1>5. \A i \in 0 .. n - 1 : f[i] <=> ~(Items[Of(m, v, "B", q)] < Items[Of(m, v, "A", i)])
  <2>1. \A i \in 0 .. n - 1 : Source(m, v, "A")[First(m, "A") + i] = Of(m, v, "A", i)
    BY <1>1, <1>2, SourceIs
  <2>2. \A i \in 0 .. n - 1 : f[i] <=> ~(Items[Next1(m, v, "B")] < Items[Source(m, v, "A")[First(m, "A") + i]])
    BY <1>2, NotAboveIs
  <2> QED BY <1>3, <2>1, <2>2
<1>6. Descends(f, 0, n)
  <2> SUFFICES ASSUME NEW i \in 0 .. n - 1, NEW j \in 0 .. n - 1, i < j, f[j] PROVE f[i]
    BY DEF Descends
  <2>1. /\ Items[Of(m, v, "A", i)] <= Items[Of(m, v, "A", j)]
        /\ Items[Of(m, v, "A", i)] \in Int /\ Items[Of(m, v, "A", j)] \in Int
    BY <1>2, OfAscends
  <2>2. Items[Of(m, v, "B", q)] \in Int
    BY <1>3, OfAscends
  <2> QED BY <1>5, <2>1, <2>2
<1>7. PICK c \in 0 .. n : c = Gallop(f, n, p) /\ Splits(f, 0, n, c)
  <2>1. n \in Nat /\ 1 <= n /\ n <= MaxArray
    <3>1. n <= N
      BY <1>1, <1>2, LensAre
    <3> QED BY <1>2, <3>1 DEF MaxArray
  <2>2. /\ Gallop(f, n, p) \in 0 .. n
        /\ Splits(f, 0, n, Gallop(f, n, p))
    BY <1>2, <1>6, <2>1, GallopSplits
  <2> QED BY <2>2
<1>8. k = IF m.side = "low" THEN c ELSE n - c
  BY <1>2, <1>7 DEF Won
<1>9. k \in 0 .. n
  BY <1>7, <1>8
<1>10. ASSUME NEW a \in 0 .. n - 1, NEW b \in 0 .. m.len["B"] - 1
       PROVE  /\ m.side = "low" /\ a < c => Precedes(Of(m, v, "A", a), Of(m, v, "B", b))
              /\ m.side = "low" /\ c <= a => Precedes(Of(m, v, "B", 0), Of(m, v, "A", a))
              /\ m.side = "high" /\ c <= a => Precedes(Of(m, v, "B", b), Of(m, v, "A", a))
              /\ m.side = "high" /\ a < c => Precedes(Of(m, v, "A", a), Of(m, v, "B", q))
  <2>1. CASE a < c
    <3>1. a \in 0 .. c - 1
      BY <1>7, <2>1
    <3>2. ~(Items[Of(m, v, "B", q)] < Items[Of(m, v, "A", a)])
      BY <1>5, <1>7, <3>1 DEF Splits
    <3>3. \A y \in 0 .. a, z \in q .. m.len["B"] - 1 : Precedes(Of(m, v, "A", y), Of(m, v, "B", z))
      BY <1>2, <3>2, Dominates
    <3>4. a \in 0 .. a /\ q \in q .. m.len["B"] - 1 /\ (m.side = "low" => b \in q .. m.len["B"] - 1)
      BY <1>1, <1>4
    <3> QED BY <1>7, <2>1, <3>3, <3>4
  <2>2. CASE c <= a
    <3>1. a \in c .. n - 1
      BY <1>7, <2>2
    <3>2. Items[Of(m, v, "B", q)] < Items[Of(m, v, "A", a)]
      BY <1>5, <1>7, <3>1 DEF Splits
    <3>3. \A y \in a .. m.len["A"] - 1, z \in 0 .. q : Precedes(Of(m, v, "B", z), Of(m, v, "A", y))
      BY <1>2, <3>2, Dominates
    <3>4. a \in a .. m.len["A"] - 1 /\ 0 \in 0 .. q /\ (m.side = "high" => b \in 0 .. q)
      BY <1>1, <1>2, <1>4
    <3> QED BY <1>7, <2>2, <3>3, <3>4
  <2> QED BY <1>7, <2>1, <2>2
<1>11. FitsOf(m, v, "A", k)
  <2>1. CASE m.side = "low"
    <3>1. k = c
      BY <1>8, <2>1
    <3> QED BY <1>2, <1>10, <2>1, <3>1, Zenon DEF FitsOf
  <2>2. CASE m.side = "high"
    <3>1. m.len["A"] - k = c
      BY <1>2, <1>7, <1>8, <2>2
    <3> QED BY <1>2, <1>10, <2>2, <3>1, Zenon DEF FitsOf
  <2> QED BY <1>1, <2>1, <2>2
<1>12. /\ t.side = m.side /\ t.len["A"] = n - k /\ t.len["B"] = m.len["B"]
  BY <1>1, <1>2, <1>9, TakenIs
<1>13. /\ \A i \in 0 .. t.len["A"] - 1 : Of(t, x, "A", i) = Of(m, v, "A", IF m.side = "low" THEN k + i ELSE i)
       /\ \A i \in 0 .. t.len["B"] - 1 : Of(t, x, "B", i) = Of(m, v, "B", i)
  <2>1. \A y \in {"A", "B"} : \A i \in 0 .. t.len[y] - 1 :
           Of(t, x, y, i) = Of(m, v, y, IF m.side = "low" /\ y = "A" THEN k + i ELSE i)
    BY <1>1, <1>2, <1>9, RestIs
  <2> QED BY <2>1
<1>14. FitsOf(t, x, "B", 1)
  <2>1. CASE m.side = "low"
    <3>1. ASSUME NEW a \in 0 .. t.len["A"] - 1, NEW b \in 0 .. t.len["B"] - 1, b < 1
          PROVE  Precedes(Of(t, x, "B", b), Of(t, x, "A", a))
      <4>1. b = 0 /\ k + a \in 0 .. n - 1 /\ c <= k + a
        BY <1>1, <1>7, <1>8, <1>12, <2>1, <3>1
      <4>2. Of(t, x, "B", b) = Of(m, v, "B", 0) /\ Of(t, x, "A", a) = Of(m, v, "A", k + a)
        BY <1>12, <1>13, <2>1, <4>1
      <4>3. 0 \in 0 .. m.len["B"] - 1
        BY <1>1
      <4> QED BY <1>10, <2>1, <4>1, <4>2, <4>3
    <3> QED BY <1>12, <2>1, <3>1, Zenon DEF FitsOf
  <2>2. CASE m.side = "high"
    <3>1. ASSUME NEW a \in 0 .. t.len["A"] - 1, NEW b \in 0 .. t.len["B"] - 1, t.len["B"] - 1 <= b
          PROVE  Precedes(Of(t, x, "A", a), Of(t, x, "B", b))
      <4>1. b = q /\ a \in 0 .. n - 1 /\ a < c
        BY <1>1, <1>4, <1>7, <1>8, <1>12, <2>2, <3>1
      <4>2. Of(t, x, "B", b) = Of(m, v, "B", q) /\ Of(t, x, "A", a) = Of(m, v, "A", a)
        BY <1>12, <1>13, <2>2, <4>1
      <4> QED BY <1>10, <2>2, <4>1, <4>2
    <3> QED BY <1>12, <2>2, <3>1, Zenon DEF FitsOf
  <2> QED BY <1>1, <2>1, <2>2
<1> QED BY <1>2, <1>9, <1>11, <1>14

LEMMA GallopFitsB ==
    ASSUME NEW m, NEW v, NEW s, NEW e, Ordered(m, v, s, e), input \in Inputs, N \in Nat,
           N <= MaxArray, ~input.wild, m.len["A"] > 0, m.len["B"] > 0,
           NEW f \in Below(Source(m, v, "B"), Next1(m, v, "A"), First(m, "B"), m.len["B"]),
           NEW k, k = Won(m, m.len["B"], Gallop(f, m.len["B"], Hint(m, m.len["B"]))),
           NEW t, t = Taken(m, "B", k), NEW x, x = Filled(m, v, "B", k)
    PROVE  k \in 0 .. m.len["B"] /\ FitsOf(m, v, "B", k) /\ FitsOf(t, x, "A", 1)
<1>1. /\ Good(m, v) /\ MergeState(m) /\ m.len["A"] \in Nat /\ m.len["B"] \in Nat
      /\ m.side \in {"low", "high"}
  BY DEF Ordered, Good, MergeState
<1>2. PICK n \in Nat, q \in Int : n = m.len["B"] /\ q = Hint(m, m.len["B"]) /\ q \in 0 .. n - 1
  BY <1>1, SourceIs
<1>3. PICK p \in 0 .. m.len["A"] - 1 : p = Hint(m, m.len["A"]) /\ Next1(m, v, "A") = Of(m, v, "A", p)
  BY <1>1, SourceIs
<1>4. (m.side = "low" => p = 0) /\ (m.side = "high" => p = m.len["A"] - 1)
  BY <1>3 DEF Hint
<1>5. \A i \in 0 .. n - 1 : f[i] <=> Items[Of(m, v, "B", i)] < Items[Of(m, v, "A", p)]
  <2>1. \A i \in 0 .. n - 1 : Source(m, v, "B")[First(m, "B") + i] = Of(m, v, "B", i)
    BY <1>1, <1>2, SourceIs
  <2>2. \A i \in 0 .. n - 1 : f[i] <=> Items[Source(m, v, "B")[First(m, "B") + i]] < Items[Next1(m, v, "A")]
    BY <1>2, BelowIs
  <2> QED BY <1>3, <2>1, <2>2
<1>6. Descends(f, 0, n)
  <2> SUFFICES ASSUME NEW i \in 0 .. n - 1, NEW j \in 0 .. n - 1, i < j, f[j] PROVE f[i]
    BY DEF Descends
  <2>1. /\ Items[Of(m, v, "B", i)] <= Items[Of(m, v, "B", j)]
        /\ Items[Of(m, v, "B", i)] \in Int /\ Items[Of(m, v, "B", j)] \in Int
    BY <1>2, OfAscends
  <2>2. Items[Of(m, v, "A", p)] \in Int
    BY <1>3, OfAscends
  <2> QED BY <1>5, <2>1, <2>2
<1>7. PICK c \in 0 .. n : c = Gallop(f, n, q) /\ Splits(f, 0, n, c)
  <2>1. n \in Nat /\ 1 <= n /\ n <= MaxArray
    <3>1. n <= N
      BY <1>1, <1>2, LensAre
    <3> QED BY <1>2, <3>1 DEF MaxArray
  <2>2. /\ Gallop(f, n, q) \in 0 .. n
        /\ Splits(f, 0, n, Gallop(f, n, q))
    BY <1>2, <1>6, <2>1, GallopSplits
  <2> QED BY <2>2
<1>8. k = IF m.side = "low" THEN c ELSE n - c
  BY <1>2, <1>7 DEF Won
<1>9. k \in 0 .. n
  BY <1>7, <1>8
<1>10. ASSUME NEW a \in 0 .. m.len["A"] - 1, NEW b \in 0 .. n - 1
       PROVE  /\ m.side = "low" /\ b < c => Precedes(Of(m, v, "B", b), Of(m, v, "A", a))
              /\ m.side = "low" /\ c <= b => Precedes(Of(m, v, "A", 0), Of(m, v, "B", b))
              /\ m.side = "high" /\ c <= b => Precedes(Of(m, v, "A", a), Of(m, v, "B", b))
              /\ m.side = "high" /\ b < c => Precedes(Of(m, v, "B", b), Of(m, v, "A", p))
  <2>1. CASE b < c
    <3>1. b \in 0 .. c - 1
      BY <1>7, <2>1
    <3>2. Items[Of(m, v, "B", b)] < Items[Of(m, v, "A", p)]
      BY <1>5, <1>7, <3>1 DEF Splits
    <3>3. \A y \in p .. m.len["A"] - 1, z \in 0 .. b : Precedes(Of(m, v, "B", z), Of(m, v, "A", y))
      BY <1>2, <3>2, Dominates
    <3>4. b \in 0 .. b /\ p \in p .. m.len["A"] - 1 /\ (m.side = "low" => a \in p .. m.len["A"] - 1)
      BY <1>1, <1>4
    <3> QED BY <1>7, <2>1, <3>3, <3>4
  <2>2. CASE c <= b
    <3>1. b \in c .. n - 1
      BY <1>7, <2>2
    <3>2. ~(Items[Of(m, v, "B", b)] < Items[Of(m, v, "A", p)])
      BY <1>5, <1>7, <3>1 DEF Splits
    <3>3. \A y \in 0 .. p, z \in b .. m.len["B"] - 1 : Precedes(Of(m, v, "A", y), Of(m, v, "B", z))
      BY <1>2, <3>2, Dominates
    <3>4. b \in b .. m.len["B"] - 1 /\ 0 \in 0 .. p /\ (m.side = "high" => a \in 0 .. p)
      BY <1>1, <1>2, <1>4
    <3> QED BY <1>7, <2>2, <3>3, <3>4
  <2> QED BY <1>7, <2>1, <2>2
<1>11. FitsOf(m, v, "B", k)
  <2>1. CASE m.side = "low"
    <3>1. k = c
      BY <1>8, <2>1
    <3> QED BY <1>2, <1>10, <2>1, <3>1, Zenon DEF FitsOf
  <2>2. CASE m.side = "high"
    <3>1. m.len["B"] - k = c
      BY <1>2, <1>7, <1>8, <2>2
    <3> QED BY <1>2, <1>10, <2>2, <3>1, Zenon DEF FitsOf
  <2> QED BY <1>1, <2>1, <2>2
<1>12. /\ t.side = m.side /\ t.len["B"] = n - k /\ t.len["A"] = m.len["A"]
  BY <1>1, <1>2, <1>9, TakenIs
<1>13. /\ \A i \in 0 .. t.len["B"] - 1 : Of(t, x, "B", i) = Of(m, v, "B", IF m.side = "low" THEN k + i ELSE i)
       /\ \A i \in 0 .. t.len["A"] - 1 : Of(t, x, "A", i) = Of(m, v, "A", i)
  <2>1. \A y \in {"A", "B"} : \A i \in 0 .. t.len[y] - 1 :
           Of(t, x, y, i) = Of(m, v, y, IF m.side = "low" /\ y = "B" THEN k + i ELSE i)
    BY <1>1, <1>2, <1>9, RestIs
  <2> QED BY <2>1
<1>14. FitsOf(t, x, "A", 1)
  <2>1. CASE m.side = "low"
    <3>1. ASSUME NEW a \in 0 .. t.len["A"] - 1, NEW b \in 0 .. t.len["B"] - 1, a < 1
          PROVE  Precedes(Of(t, x, "A", a), Of(t, x, "B", b))
      <4>1. a = 0 /\ k + b \in 0 .. n - 1 /\ c <= k + b
        BY <1>1, <1>7, <1>8, <1>12, <2>1, <3>1
      <4>2. Of(t, x, "A", a) = Of(m, v, "A", 0) /\ Of(t, x, "B", b) = Of(m, v, "B", k + b)
        BY <1>12, <1>13, <2>1, <4>1
      <4>3. 0 \in 0 .. m.len["A"] - 1
        BY <1>1
      <4> QED BY <1>10, <2>1, <4>1, <4>2, <4>3
    <3> QED BY <1>12, <2>1, <3>1, Zenon DEF FitsOf
  <2>2. CASE m.side = "high"
    <3>1. ASSUME NEW a \in 0 .. t.len["A"] - 1, NEW b \in 0 .. t.len["B"] - 1, t.len["A"] - 1 <= a
          PROVE  Precedes(Of(t, x, "B", b), Of(t, x, "A", a))
      <4>1. a = p /\ b \in 0 .. n - 1 /\ b < c
        BY <1>1, <1>4, <1>7, <1>8, <1>12, <2>2, <3>1
      <4>2. Of(t, x, "B", b) = Of(m, v, "B", b) /\ Of(t, x, "A", a) = Of(m, v, "A", p)
        BY <1>12, <1>13, <2>2, <4>1
      <4> QED BY <1>10, <2>2, <4>1, <4>2
    <3> QED BY <1>12, <2>2, <3>1, Zenon DEF FitsOf
  <2> QED BY <1>1, <2>1, <2>2
<1> QED BY <1>2, <1>9, <1>11, <1>14

LEMMA FitsRewon ==
    ASSUME NEW m, NEW v, NEW s, NEW e, Ordered(m, v, s, e), NEW won \in [{"A", "B"} -> Nat],
           NEW mg \in Nat \ {0}, NEW t, t = Rewon(m, won, mg), NEW run, NEW k,
           Fits(m, View(m, v), run, k)
    PROVE  Fits(t, View(t, v), run, k)
<1>1. /\ View(t, v) = View(m, v) /\ t.side = m.side
      /\ Lo(t) = Lo(m) /\ Mid(t) = Mid(m) /\ Hi(t) = Hi(m)
  BY RewonOrdered
<1> QED BY <1>1 DEF Fits

LEMMA SingleOrders ==
    ASSUME NEW s, NEW e, Ordered(merge, w, s, e), input \in Inputs, N \in Nat, ~input.wild,
           merge.len["A"] > 0, merge.len["B"] > 0, Single
    PROVE  Orders(View(merge, w), s, e, merge.back)
<1> DEFINE asked == IF merge.side = "low" THEN <<w[merge.cw], merge.tmp[merge.ct]>>
                    ELSE <<merge.tmp[merge.ct], w[merge.cw]>>
<1>1. PICK less \in Answers([i \in {0} |-> asked]) :
         LET run == IF less[0] THEN InW(merge) ELSE InTmp(merge)
             wins == merge.won[run] + 1
             m1 == [Taken(merge, run, 1) EXCEPT
                      !.won = [[A |-> 0, B |-> 0] EXCEPT ![run] = wins],
                      !.mg = IF wins >= merge.mg THEN @ + 1 ELSE @]
         IN  Proceed(m1, Filled(merge, w, run, 1),
                     IF wins >= merge.mg THEN "gallopA" ELSE "single")
  BY Zenon DEF Single
<1>2. PICK run : run = IF less[0] THEN InW(merge) ELSE InTmp(merge)
  OBVIOUS
<1>3. PICK wins, won, t : /\ wins = merge.won[run] + 1
                          /\ won = [[A |-> 0, B |-> 0] EXCEPT ![run] = wins]
                          /\ t = Taken(merge, run, 1)
  OBVIOUS
<1>4. PICK mg, next : /\ mg = IF wins >= merge.mg THEN t.mg + 1 ELSE t.mg
                      /\ next = IF wins >= merge.mg THEN "gallopA" ELSE "single"
  OBVIOUS
<1>5. PICK m1, v1 : m1 = Rewon(t, won, mg) /\ v1 = Filled(merge, w, run, 1)
  OBVIOUS
<1>6. Proceed(m1, v1, next)
  <2>1. m1 = [t EXCEPT !.won = won, !.mg = IF wins >= merge.mg THEN @ + 1 ELSE @]
    BY <1>4, <1>5 DEF Rewon
  <2> QED BY <1>1, <1>2, <1>3, <1>4, <1>5, <2>1
<1>7. /\ run \in {"A", "B"} /\ MergeState(merge) /\ 1 \in 0 .. merge.len[run]
      /\ wins \in Nat /\ Good(merge, w) /\ merge.side \in {"low", "high"}
  <2>1. /\ merge.len["A"] \in Nat /\ merge.len["B"] \in Nat /\ MergeState(merge)
        /\ merge.won["A"] \in Nat /\ merge.won["B"] \in Nat /\ Good(merge, w)
        /\ merge.side \in {"low", "high"}
    BY DEF Ordered, Good, MergeState
  <2>2. run \in {"A", "B"}
    BY <1>2, <2>1, SidesAre
  <2> QED BY <1>3, <2>1, <2>2
<1>8. less[0] <=> Items[Next1(merge, w, "B")] < Items[Next1(merge, w, "A")]
  <2>1. PICK a : a = [i \in {0} |-> asked]
    OBVIOUS
  <2>2. 0 \in DOMAIN a /\ a[0] = asked
    BY <2>1
  <2>3. less[0] <=> Items[asked[1]] < Items[asked[2]]
    BY <2>1, <2>2, AnswerIs
  <2>4. asked[1] = Next1(merge, w, "B") /\ asked[2] = Next1(merge, w, "A")
    <3>1. CASE merge.side = "low"
      BY <3>1 DEF Next1, Source, Cursor, InTmp
    <3>2. CASE merge.side = "high"
      BY <3>2 DEF Next1, Source, Cursor, InTmp
    <3> QED BY <1>7, <3>1, <3>2
  <2> QED BY <2>3, <2>4
<1>9. Fits(merge, View(merge, w), run, 1)
  <2>1. run = IF Items[Next1(merge, w, "B")] < Items[Next1(merge, w, "A")]
              THEN InW(merge) ELSE InTmp(merge)
    BY <1>2, <1>8
  <2>2. FitsOf(merge, w, run, 1)
    BY <2>1, WinnerFits
  <2> QED BY <1>7, <2>2, FitsIs
<1>10. /\ Ordered(t, v1, s, e) /\ Shuffles(View(t, v1), View(merge, w), s, e)
       /\ t.back = merge.back /\ t.mg = merge.mg
  BY <1>3, <1>5, <1>7, <1>9, TakenOrdered, TakenIs
<1>11. won \in [{"A", "B"} -> Nat] /\ mg \in Nat \ {0}
  <2>1. merge.mg \in Nat \ {0}
    BY <1>7 DEF MergeState
  <2> QED BY <1>3, <1>4, <1>7, <1>10, <2>1, NoneWon
<1>12. Ordered(m1, v1, s, e) /\ View(m1, v1) = View(t, v1) /\ m1.back = merge.back
  BY <1>5, <1>10, <1>11, RewonOrdered
<1> QED BY <1>6, <1>10, <1>12, ProceedOrders

LEMMA GallopAOrders ==
    ASSUME NEW s, NEW e, Ordered(merge, w, s, e), input \in Inputs, N \in Nat, N <= MaxArray,
           ~input.wild, merge.len["A"] > 0, merge.len["B"] > 0, GallopA
    PROVE  Orders(View(merge, w), s, e, merge.back)
<1> DEFINE mg == IF merge.mg - 1 > 1 THEN merge.mg - 1 ELSE 1
           m == [merge EXCEPT !.mg = mg]
<1>1. PICK f \in NotAbove(Source(m, w, "A"), Next1(m, w, "B"), First(m, "A"), m.len["A"]) :
         LET k == Won(m, m.len["A"], Gallop(f, m.len["A"], Hint(m, m.len["A"])))
             m1 == [Taken(m, "A", k) EXCEPT !.won["A"] = k]
             v1 == Filled(m, w, "A", k)
         IN  IF Outcome(m1) # "go" THEN EndMerge(m1, v1)
             ELSE Proceed(Taken(m1, "B", 1), Filled(m1, v1, "B", 1), "gallopB")
  BY Zenon DEF GallopA
<1>2. mg \in Nat \ {0}
  BY DEF Ordered, Good, MergeState
<1> HIDE DEF mg
<1>3. mg \in Nat \ {0} /\ MergeState(merge) /\ merge.won \in [{"A", "B"} -> Nat]
  BY <1>2 DEF Ordered, Good, MergeState
<1>4. Ordered(m, w, s, e) /\ m.len = merge.len /\ m.back = merge.back /\ View(m, w) = View(merge, w)
  <2>1. m = Rewon(merge, merge.won, mg)
    BY <1>3 DEF MergeState, Rewon
  <2> QED BY <1>3, <2>1, RewonOrdered
<1> HIDE DEF m
<1>6. PICK k, t, m1, v1 :
         /\ k = Won(m, m.len["A"], Gallop(f, m.len["A"], Hint(m, m.len["A"])))
         /\ t = Taken(m, "A", k) /\ m1 = [t EXCEPT !.won["A"] = k]
         /\ v1 = Filled(m, w, "A", k)
         /\ IF Outcome(m1) # "go" THEN EndMerge(m1, v1)
            ELSE Proceed(Taken(m1, "B", 1), Filled(m1, v1, "B", 1), "gallopB")
  BY <1>1, Zenon
<1>7. k \in 0 .. m.len["A"] /\ FitsOf(m, w, "A", k) /\ FitsOf(t, v1, "B", 1)
  BY <1>4, <1>6, GallopFitsA
<1>8. Good(m, w) /\ m.len["A"] \in Nat /\ k \in Nat
  BY <1>4, <1>7 DEF Ordered, Good, MergeState
<1>9. /\ Ordered(t, v1, s, e) /\ Shuffles(View(t, v1), View(m, w), s, e) /\ t.back = merge.back
  <2>1. Fits(m, View(m, w), "A", k)
    BY <1>7, <1>8, FitsIs
  <2> QED BY <1>4, <1>6, <1>7, <2>1, TakenOrdered
<1>10. Fits(t, View(t, v1), "B", 1)
  BY <1>7, <1>9, FitsIs DEF Ordered
<1>11. /\ Ordered(m1, v1, s, e) /\ m1.back = merge.back /\ View(m1, v1) = View(t, v1)
       /\ Fits(m1, View(m1, v1), "B", 1)
  <2>1. t.won \in [{"A", "B"} -> Nat] /\ t.mg \in Nat \ {0} /\ MergeState(t)
    BY <1>9 DEF Ordered, Good, MergeState
  <2>2. PICK won : won = [t.won EXCEPT !["A"] = k]
    OBVIOUS
  <2>3. won \in [{"A", "B"} -> Nat]
    BY <1>8, <2>1, <2>2
  <2>4. m1 = Rewon(t, won, t.mg)
    <3>1. m1 = [t EXCEPT !.won = won]
      BY <1>6, <2>2
    <3> QED BY <2>1, <3>1 DEF MergeState, Rewon
  <2> QED BY <1>9, <1>10, <2>1, <2>3, <2>4, RewonOrdered, FitsRewon, SMTT(20)
<1>12. Shuffles(View(m1, v1), View(merge, w), s, e) /\ s \in Int /\ e \in Int
  BY <1>4, <1>9, <1>11 DEF Ordered, MergeOrder
<1>13. CASE Outcome(m1) # "go"
  <2>1. EndMerge(m1, v1)
    BY <1>6, <1>13
  <2> QED BY <1>11, <1>12, <1>13, <2>1, EndOrders
<1>14. CASE Outcome(m1) = "go"
  <2>1. MergeState(m1) /\ m1.len["B"] \in Nat /\ m1.len["B"] > 0
    BY <1>11, <1>14, OutcomeIs DEF Ordered, Good, MergeState
  <2>2. PICK z, y : z = Taken(m1, "B", 1) /\ y = Filled(m1, v1, "B", 1)
    OBVIOUS
  <2>3. /\ Ordered(z, y, s, e) /\ Shuffles(View(z, y), View(m1, v1), s, e)
        /\ z.back = merge.back
    BY <1>11, <2>1, <2>2, TakenOrdered
  <2>4. Shuffles(View(z, y), View(merge, w), s, e)
    BY <1>12, <2>3, ShufflesCompose
  <2>5. Proceed(z, y, "gallopB")
    BY <1>6, <1>14, <2>2
  <2> QED BY <2>3, <2>4, <2>5, ProceedOrders
<1> QED BY <1>13, <1>14

LEMMA GallopBOrders ==
    ASSUME NEW s, NEW e, Ordered(merge, w, s, e), input \in Inputs, N \in Nat, N <= MaxArray,
           ~input.wild, merge.len["A"] > 0, merge.len["B"] > 0, GallopB
    PROVE  Orders(View(merge, w), s, e, merge.back)
<1>1. PICK f \in Below(Source(merge, w, "B"), Next1(merge, w, "A"), First(merge, "B"), merge.len["B"]) :
         LET n == merge.len["B"]
             k == Won(merge, n, Gallop(f, n, Hint(merge, n)))
             m1 == Taken(merge, "B", k)
             v1 == Filled(merge, w, "B", k)
             again == k >= MinGallop \/ merge.won["A"] >= MinGallop
             m2 == [Taken(m1, "A", 1) EXCEPT
                      !.won = IF again THEN [@ EXCEPT !["B"] = k] ELSE [A |-> 0, B |-> 0],
                      !.mg = IF again THEN @ ELSE @ + 1]
         IN  IF Outcome(m1) # "go" THEN EndMerge(m1, v1) /\ UNCHANGED minGallop
             ELSE /\ Proceed(m2, Filled(m1, v1, "A", 1), IF again THEN "gallopA" ELSE "single")
                  /\ minGallop' = IF again \/ Outcome(m2) # "go" THEN minGallop ELSE m2.mg
  BY Zenon DEF GallopB
<1>2. PICK k, again, m1, v1, m2 :
         /\ k = Won(merge, merge.len["B"], Gallop(f, merge.len["B"], Hint(merge, merge.len["B"])))
         /\ m1 = Taken(merge, "B", k) /\ v1 = Filled(merge, w, "B", k)
         /\ again = (k >= MinGallop \/ merge.won["A"] >= MinGallop)
         /\ m2 = [Taken(m1, "A", 1) EXCEPT
                    !.won = IF again THEN [@ EXCEPT !["B"] = k] ELSE [A |-> 0, B |-> 0],
                    !.mg = IF again THEN @ ELSE @ + 1]
         /\ Outcome(m1) # "go" => EndMerge(m1, v1)
         /\ Outcome(m1) = "go" =>
               Proceed(m2, Filled(m1, v1, "A", 1), IF again THEN "gallopA" ELSE "single")
  BY <1>1, Zenon
<1>3. k \in 0 .. merge.len["B"] /\ FitsOf(merge, w, "B", k) /\ FitsOf(m1, v1, "A", 1)
  BY <1>2, GallopFitsB
<1>4. Good(merge, w) /\ MergeState(merge) /\ merge.len["B"] \in Nat /\ k \in Nat
  BY <1>3 DEF Ordered, Good, MergeState
<1>5. /\ Ordered(m1, v1, s, e) /\ Shuffles(View(m1, v1), View(merge, w), s, e)
      /\ m1.back = merge.back
  <2>1. Fits(merge, View(merge, w), "B", k)
    BY <1>3, <1>4, FitsIs
  <2> QED BY <1>2, <1>3, <2>1, TakenOrdered
<1>6. Fits(m1, View(m1, v1), "A", 1)
  BY <1>3, <1>5, FitsIs DEF Ordered
<1>7. s \in Int /\ e \in Int
  BY DEF Ordered, MergeOrder
<1>8. CASE Outcome(m1) # "go"
  <2>1. EndMerge(m1, v1)
    BY <1>2, <1>8
  <2> QED BY <1>5, <1>8, <2>1, EndOrders
<1>9. CASE Outcome(m1) = "go"
  <2>1. MergeState(m1) /\ m1.len["A"] \in Nat /\ m1.len["A"] > 0
    BY <1>5, <1>9, OutcomeIs DEF Ordered, Good, MergeState
  <2>2. PICK t, y : t = Taken(m1, "A", 1) /\ y = Filled(m1, v1, "A", 1)
    OBVIOUS
  <2>3. PICK won, mg : /\ won = IF again THEN [t.won EXCEPT !["B"] = k] ELSE [A |-> 0, B |-> 0]
                       /\ mg = IF again THEN t.mg ELSE t.mg + 1
    OBVIOUS
  <2>4. /\ Ordered(t, y, s, e) /\ Shuffles(View(t, y), View(m1, v1), s, e)
        /\ t.back = merge.back
    BY <1>5, <1>6, <2>1, <2>2, TakenOrdered
  <2>5. t.won \in [{"A", "B"} -> Nat] /\ t.mg \in Nat \ {0}
    BY <2>4 DEF Ordered, Good, MergeState
  <2>6. won \in [{"A", "B"} -> Nat] /\ mg \in Nat \ {0}
    <3>1. CASE again
      BY <1>4, <2>3, <2>5, <3>1
    <3>2. CASE ~again
      BY <2>3, <2>5, <3>2
    <3> QED BY <3>1, <3>2
  <2>7. m2 = Rewon(t, won, mg)
    <3>1. m2 = [t EXCEPT !.won = IF again THEN [@ EXCEPT !["B"] = k] ELSE [A |-> 0, B |-> 0],
                         !.mg = IF again THEN @ ELSE @ + 1]
      BY <1>2, <2>2
    <3> QED BY <2>3, <3>1 DEF Rewon
  <2>8. Ordered(m2, y, s, e) /\ m2.back = merge.back /\ View(m2, y) = View(t, y)
    BY <2>4, <2>6, <2>7, RewonOrdered
  <2>9. Shuffles(View(m2, y), View(merge, w), s, e)
    BY <1>5, <1>7, <2>4, <2>8, ShufflesCompose
  <2>10. Proceed(m2, y, IF again THEN "gallopA" ELSE "single")
    BY <1>2, <1>9, <2>2, Zenon
  <2> QED BY <2>8, <2>9, <2>10, ProceedOrders
<1> QED BY <1>8, <1>9

\* A merge as it begins.
LEMMA BeginIs ==
    ASSUME Complete(w), N \in Nat, minGallop \in Nat \ {0},
           NEW baseA \in Nat, NEW lenA \in Nat \ {0}, NEW lenB \in Nat \ {0}, NEW baseB \in Nat,
           baseA + lenA = baseB, baseB + lenB <= N,
           NEW back, BeginMerge(baseA, lenA, baseB, lenB, back)
    PROVE  \E m : /\ Good(m, w) /\ m.back = back /\ m.len["A"] = lenA /\ m.len["B"] = lenB
                  /\ View(m, w) = w /\ Lo(m) = baseA /\ Mid(m) = baseB /\ Hi(m) = baseB + lenB
                  /\ Proceed(Taken(m, InW(m), 1), Filled(m, w, InW(m), 1), "single")
<1>0. PICK m : Begun(m, baseA, lenA, baseB, lenB, back)
  BY BeginGood, Zenon
<1>1. /\ Good(m, w) /\ m.back = back /\ m.len["A"] = lenA /\ m.len["B"] = lenB
      /\ \/ /\ m.side = "low" /\ m.dest = baseA /\ m.ct = 0 /\ m.cw = baseB
            /\ \A i \in 0 .. lenA - 1 : m.tmp[i] = w[baseA + i]
         \/ /\ m.side = "high" /\ m.dest = baseB + lenB - 1 /\ m.cw = baseB - 1
            /\ \A i \in 0 .. lenB - 1 : m.tmp[i] = w[baseB + i]
      /\ Proceed(Taken(m, InW(m), 1), Filled(m, w, InW(m), 1), "single")
  BY <1>0, Zenon DEF Begun
<1>2. w = [i \in 0 .. N - 1 |-> w[i]]
  BY DEF Complete, Held
<1>3. ASSUME m.side = "low"
      PROVE  View(m, w) = w /\ Lo(m) = baseA /\ Mid(m) = baseB /\ Hi(m) = baseB + lenB
  <2>1. /\ m.dest = baseA /\ m.ct = 0 /\ m.cw = baseB
        /\ \A i \in 0 .. lenA - 1 : m.tmp[i] = w[baseA + i]
    BY <1>1, <1>3
  <2>2. PICK f : f = LowView(m.tmp, baseA, 0, baseB, w)
    OBVIOUS
  <2>3. f = [i \in 0 .. N - 1 |-> f[i]]
    BY <2>2 DEF LowView
  <2>4. ASSUME NEW i \in 0 .. N - 1 PROVE f[i] = w[i]
    <3>1. f[i] = IF baseA <= i /\ i < baseB THEN m.tmp[0 + (i - baseA)] ELSE w[i]
      BY <2>2 DEF LowView
    <3>2. CASE baseA <= i /\ i < baseB
      <4>1. PICK j \in 0 .. lenA - 1 : j = i - baseA /\ j = 0 + (i - baseA) /\ baseA + j = i
        BY <3>2
      <4>2. m.tmp[j] = w[i]
        BY <2>1, <4>1
      <4> QED BY <3>1, <3>2, <4>1, <4>2
    <3> QED BY <3>1, <3>2
  <2>5. f = w
    BY <1>2, <2>3, <2>4, SameFunction
  <2> QED BY <1>1, <1>3, <2>1, <2>2, <2>5 DEF View, Lo, Mid, Hi
<1>4. ASSUME m.side = "high"
      PROVE  View(m, w) = w /\ Lo(m) = baseA /\ Mid(m) = baseB /\ Hi(m) = baseB + lenB
  <2>1. /\ m.dest = baseB + lenB - 1 /\ m.cw = baseB - 1
        /\ \A i \in 0 .. lenB - 1 : m.tmp[i] = w[baseB + i]
    BY <1>1, <1>4
  <2>2. PICK f : f = HighView(m.tmp, m.dest, m.cw, w)
    OBVIOUS
  <2>3. f = [i \in 0 .. N - 1 |-> f[i]]
    BY <2>2 DEF HighView
  <2>4. ASSUME NEW i \in 0 .. N - 1 PROVE f[i] = w[i]
    <3>1. f[i] = IF m.cw < i /\ i <= m.dest THEN m.tmp[i - m.cw - 1] ELSE w[i]
      BY <2>2 DEF HighView
    <3>2. CASE m.cw < i /\ i <= m.dest
      <4>1. PICK j \in 0 .. lenB - 1 : j = i - m.cw - 1 /\ baseB + j = i
        <5>1. PICK c \in Int, d \in Int : c = m.cw /\ d = m.dest
          BY <2>1
        <5>2. c = baseB - 1 /\ d = baseB + lenB - 1 /\ c < i /\ i <= d
          BY <2>1, <3>2, <5>1
        <5>3. i - c - 1 \in 0 .. lenB - 1 /\ baseB + (i - c - 1) = i
          BY <5>2
        <5> QED BY <5>1, <5>3
      <4>2. m.tmp[j] = w[i]
        BY <2>1, <4>1
      <4> QED BY <3>1, <3>2, <4>1, <4>2
    <3> QED BY <3>1, <3>2
  <2>5. f = w
    BY <1>2, <2>3, <2>4, SameFunction
  <2> QED BY <1>1, <1>4, <2>1, <2>2, <2>5 DEF View, Lo, Mid, Hi
<1>5. View(m, w) = w /\ Lo(m) = baseA /\ Mid(m) = baseB /\ Hi(m) = baseB + lenB
  BY <1>1, <1>3, <1>4
<1> QED BY <1>1, <1>5, Zenon

\* The last of A follows all of B, and the first of B precedes all of A.
Ready(v, s, lo, mid, hi, e) ==
    /\ MergeOrder(v, s, lo, mid, hi, e)
    /\ \A j \in 0 .. N - 1 : mid <= j /\ j < hi => Precedes(v[j], v[mid - 1])
    /\ \A i \in 0 .. N - 1 : lo <= i /\ i < mid => Precedes(v[mid], v[i])

LEMMA BeginOrders ==
    ASSUME Complete(w), N \in Nat, minGallop \in Nat \ {0},
           NEW baseA \in Nat, NEW lenA \in Nat \ {0}, NEW lenB \in Nat \ {0}, NEW baseB \in Nat,
           baseA + lenA = baseB, baseB + lenB <= N,
           NEW back, BeginMerge(baseA, lenA, baseB, lenB, back),
           NEW s, NEW e, Ready(w, s, baseA, baseB, baseB + lenB, e)
    PROVE  Orders(w, s, e, back)
<1>0. /\ MergeOrder(w, s, baseA, baseB, baseB + lenB, e)
      /\ \A j \in 0 .. N - 1 :
            baseB <= j /\ j < baseB + lenB => Precedes(w[j], w[baseB - 1])
      /\ \A i \in 0 .. N - 1 : baseA <= i /\ i < baseB => Precedes(w[baseB], w[i])
  BY DEF Ready
<1>1. PICK m : /\ Good(m, w) /\ m.back = back /\ m.len["A"] = lenA /\ m.len["B"] = lenB
               /\ View(m, w) = w /\ Lo(m) = baseA /\ Mid(m) = baseB /\ Hi(m) = baseB + lenB
               /\ Proceed(Taken(m, InW(m), 1), Filled(m, w, InW(m), 1), "single")
  BY BeginIs
<1>2. MergeState(m) /\ m.side \in {"low", "high"}
  BY <1>1 DEF Good, MergeState
<1>3. Leads(m.side, View(m, w), Lo(m), Mid(m), Hi(m))
  BY <1>0, <1>1 DEF Leads
<1>4. Ordered(m, w, s, e)
  BY <1>0, <1>1, <1>3 DEF Ordered
<1>5. InW(m) \in {"A", "B"} /\ 1 \in 0 .. m.len[InW(m)]
  BY <1>1, <1>2, SidesAre
<1>6. Fits(m, View(m, w), InW(m), 1)
  <2>1. CASE m.side = "low"
    <3>1. InW(m) = "B"
      BY <2>1 DEF InW
    <3>2. \A i, j \in 0 .. N - 1 :
             baseA <= i /\ i < baseB /\ baseB <= j /\ j < baseB + 1 => Precedes(w[j], w[i])
      <4>1. \A j \in 0 .. N - 1 : baseB <= j /\ j < baseB + 1 => j = baseB
        OBVIOUS
      <4> QED BY <1>0, <4>1
    <3> QED BY <1>1, <2>1, <3>1, <3>2 DEF Fits
  <2>2. CASE m.side = "high"
    <3>1. InW(m) = "A"
      BY <2>2 DEF InW
    <3>2. \A i, j \in 0 .. N - 1 :
             baseB - 1 <= i /\ i < baseB /\ baseB <= j /\ j < baseB + lenB =>
                Precedes(w[j], w[i])
      <4>1. \A i \in 0 .. N - 1 : baseB - 1 <= i /\ i < baseB => i = baseB - 1
        OBVIOUS
      <4> QED BY <1>0, <4>1
    <3> QED BY <1>1, <2>2, <3>1, <3>2 DEF Fits
  <2> QED BY <1>2, <2>1, <2>2
<1>7. PICK t, x : t = Taken(m, InW(m), 1) /\ x = Filled(m, w, InW(m), 1)
  OBVIOUS
<1>8. Ordered(t, x, s, e) /\ Shuffles(View(t, x), w, s, e) /\ t.back = back
  BY <1>1, <1>4, <1>5, <1>6, <1>7, TakenOrdered
<1>9. Proceed(t, x, "single")
  BY <1>1, <1>7
<1> QED BY <1>8, <1>9, ProceedOrders

\* What is in place before two runs are merged: the start of the first, the end of the second.
LEMMA KeptInPlace ==
    ASSUME input \in Inputs, NEW v, Held(v), N \in Nat, NEW ab \in Nat, NEW bb \in Nat, NEW e \in Nat,
           ab < bb, bb < e, e <= N, Ascends(v, ab, bb), Ascends(v, bb, e), Cut(v, bb),
           NEW lo \in Nat, NEW hi \in Nat, ab <= lo, lo <= bb, bb <= hi, hi <= e,
           \A i \in 0 .. N - 1 : ab <= i /\ i < lo => ~(Items[v[bb]] < Items[v[i]]),
           \A i \in 0 .. N - 1 : lo <= i /\ i < bb => Items[v[bb]] < Items[v[i]],
           \A j \in 0 .. N - 1 : bb <= j /\ j < hi => Items[v[j]] < Items[v[bb - 1]],
           \A j \in 0 .. N - 1 : hi <= j /\ j < e => ~(Items[v[j]] < Items[v[bb - 1]])
    PROVE  Ready(v, ab, lo, bb, hi, e)
<1>1. /\ \A i \in 0 .. N - 1 : v[i] \in Elements /\ Items[v[i]] \in Int
      /\ \A x, y, z \in 0 .. N - 1 : Precedes(v[x], v[y]) /\ Precedes(v[y], v[z]) => Precedes(v[x], v[z])
  BY PrecedesIs DEF Held
<1>2. PICK first \in 0 .. N - 1, last \in 0 .. N - 1 : first = bb /\ last = bb - 1
  OBVIOUS
<1>3. ASSUME NEW i \in 0 .. N - 1, NEW j \in 0 .. N - 1, ab <= i, i < bb, bb <= j, j < e
      PROVE  /\ i < lo \/ hi <= j => Precedes(v[i], v[j])
             /\ v[i] < v[j]
  <2>1. v[i] < v[j] /\ v[i] < v[first] /\ v[last] < v[j]
    BY <1>2, <1>3 DEF Cut
  <2>2. /\ i = last \/ Precedes(v[i], v[last])
        /\ j = first \/ Precedes(v[first], v[j])
    BY <1>2, <1>3 DEF Ascends
  <2>3. ASSUME i < lo PROVE Precedes(v[i], v[j])
    <3>1. ~(Items[v[first]] < Items[v[i]])
      BY <1>2, <1>3, <2>3
    <3>2. Items[v[i]] \in Int /\ Items[v[first]] \in Int
      BY <1>1
    <3>3. Precedes(v[i], v[first])
      BY <2>1, <3>1, <3>2 DEF Precedes
    <3> QED BY <1>1, <2>2, <3>3
  <2>4. ASSUME hi <= j PROVE Precedes(v[i], v[j])
    <3>1. ~(Items[v[j]] < Items[v[last]])
      BY <1>2, <1>3, <2>4
    <3>2. Items[v[j]] \in Int /\ Items[v[last]] \in Int
      BY <1>1
    <3>3. Precedes(v[last], v[j])
      BY <2>1, <3>1, <3>2 DEF Precedes
    <3> QED BY <1>1, <2>2, <3>3
  <2> QED BY <2>1, <2>3, <2>4
<1>4. MergeOrder(v, ab, lo, bb, hi, e)
  BY <1>3 DEF MergeOrder
<1>5. \A j \in 0 .. N - 1 : bb <= j /\ j < hi => Precedes(v[j], v[bb - 1])
  BY DEF Precedes
<1>6. \A i \in 0 .. N - 1 : lo <= i /\ i < bb => Precedes(v[bb], v[i])
  BY DEF Precedes
<1> QED BY <1>4, <1>5, <1>6 DEF Ready

LEMMA MergeAtOrders ==
    ASSUME Complete(w), merge = NoMerge, input \in Inputs, ~input.wild, minGallop \in Nat \ {0},
           NEW a \in Run, NEW b \in Run, NEW i, NEW back, a = runs[i], b = runs[i + 1],
           a.len > 0, b.len > 0, a.base + a.len = b.base, b.base + b.len <= N,
           Ascends(w, a.base, b.base), Ascends(w, b.base, b.base + b.len), Cut(w, b.base),
           MergeAt(i, back)
    PROVE  Orders(w, a.base, b.base + b.len, back)
<1>1. PICK ab \in Nat, la \in Nat, bb \in Nat, lb \in Nat, e \in Nat :
         ab = a.base /\ la = a.len /\ bb = b.base /\ lb = b.len /\ e = bb + lb
  BY DEF Run
<1>2. N \in Nat /\ N <= MaxArray /\ Held(w)
  BY ElementsAre DEF Complete
<1>3. 0 < la /\ 0 < lb /\ ab + la = bb /\ e <= N /\ la <= MaxArray /\ lb <= MaxArray
  <2>1. 0 < la /\ 0 < lb /\ ab + la = bb /\ e <= N
    BY <1>1
  <2> QED BY <1>1, <1>2, <2>1 DEF MaxArray
<1>4. Ascends(w, ab, bb) /\ Ascends(w, bb, e) /\ Cut(w, bb)
  BY <1>1
<1>5. PICK f, g, k, n :
         /\ f \in NotAbove(w, w[b.base], a.base, a.len)
         /\ g \in Below(w, w[a.base + a.len - 1], b.base, b.len)
         /\ k = Gallop(f, a.len, 0) /\ n = Gallop(g, b.len, b.len - 1)
         /\ IF k = a.len \/ n = 0 THEN pc' = back /\ UNCHANGED <<w, merge>>
            ELSE BeginMerge(a.base + k, a.len - k, b.base, n, back)
  BY Zenon DEF MergeAt
<1>6. PICK last \in 0 .. N - 1 : last = bb - 1 /\ last = a.base + a.len - 1
  BY <1>1, <1>2, <1>3
<1>7. /\ \A x \in 0 .. la - 1 : f[x] <=> ~(Items[w[bb]] < Items[w[ab + x]])
      /\ \A y \in 0 .. lb - 1 : g[y] <=> Items[w[bb + y]] < Items[w[last]]
  <2>1. f \in NotAbove(w, w[bb], ab, la) /\ g \in Below(w, w[last], bb, lb)
    BY <1>1, <1>5, <1>6
  <2> QED BY <2>1, NotAboveIs, BelowIs
<1>8. \A x \in 0 .. N - 1 : Items[w[x]] \in Int
  BY <1>2, PrecedesIs DEF Held
<1>9. Descends(f, 0, la)
  <2> SUFFICES ASSUME NEW x \in 0 .. la - 1, NEW y \in 0 .. la - 1, x < y, f[y] PROVE f[x]
    BY DEF Descends
  <2>1. PICK p \in 0 .. N - 1, q \in 0 .. N - 1, r \in 0 .. N - 1 :
           p = ab + x /\ q = ab + y /\ r = bb /\ ab <= p /\ p < q /\ q < bb
    <3>1. ab + x \in 0 .. N - 1 /\ ab + y \in 0 .. N - 1 /\ bb \in 0 .. N - 1
      BY <1>1, <1>2, <1>3
    <3>2. ab <= ab + x /\ ab + x < ab + y /\ ab + y < bb
      BY <1>3
    <3> QED BY <3>1, <3>2
  <2>2. Precedes(w[p], w[q])
    BY <1>4, <2>1 DEF Ascends
  <2>3. Items[w[p]] <= Items[w[q]]
    BY <1>8, <2>2 DEF Precedes
  <2>4. ~(Items[w[r]] < Items[w[q]])
    BY <1>7, <2>1
  <2>5. ~(Items[w[r]] < Items[w[p]])
    BY <1>8, <2>3, <2>4
  <2> QED BY <1>7, <2>1, <2>5
<1>10. Descends(g, 0, lb)
  <2> SUFFICES ASSUME NEW x \in 0 .. lb - 1, NEW y \in 0 .. lb - 1, x < y, g[y] PROVE g[x]
    BY DEF Descends
  <2>1. PICK p \in 0 .. N - 1, q \in 0 .. N - 1 :
           p = bb + x /\ q = bb + y /\ bb <= p /\ p < q /\ q < e
    <3>1. bb + x \in 0 .. N - 1 /\ bb + y \in 0 .. N - 1
      BY <1>1, <1>2, <1>3
    <3>2. bb <= bb + x /\ bb + x < bb + y /\ bb + y < e
      BY <1>1, <1>3
    <3> QED BY <3>1, <3>2
  <2>2. Precedes(w[p], w[q])
    BY <1>4, <2>1 DEF Ascends
  <2>3. Items[w[p]] <= Items[w[q]]
    BY <1>8, <2>2 DEF Precedes
  <2>4. Items[w[q]] < Items[w[last]]
    BY <1>7, <2>1
  <2>5. Items[w[p]] < Items[w[last]]
    BY <1>8, <2>3, <2>4
  <2> QED BY <1>7, <2>1, <2>5
<1>11. k \in 0 .. la /\ Splits(f, 0, la, k)
  <2>1. 0 \in 0 .. la - 1 /\ 1 <= la /\ k = Gallop(f, la, 0)
    BY <1>1, <1>3, <1>5
  <2> QED BY <1>3, <1>9, <2>1, GallopSplits
<1>12. n \in 0 .. lb /\ Splits(g, 0, lb, n)
  <2>1. lb - 1 \in 0 .. lb - 1 /\ 1 <= lb /\ n = Gallop(g, lb, lb - 1)
    BY <1>1, <1>3, <1>5
  <2> QED BY <1>3, <1>10, <2>1, GallopSplits
<1>13. PICK lo \in Nat, hi \in Nat : lo = ab + k /\ hi = bb + n
  BY <1>11, <1>12
<1>14. ab <= lo /\ lo <= bb /\ bb <= hi /\ hi <= e /\ ab < bb /\ bb < e
  BY <1>1, <1>3, <1>11, <1>12, <1>13
<1>15. ASSUME NEW x \in 0 .. N - 1
       PROVE  /\ ab <= x /\ x < lo => ~(Items[w[bb]] < Items[w[x]])
              /\ lo <= x /\ x < bb => Items[w[bb]] < Items[w[x]]
  <2>1. ASSUME ab <= x, x < bb
        PROVE  \E y \in 0 .. la - 1 : ab + y = x
    <3>1. x - ab \in 0 .. la - 1 /\ ab + (x - ab) = x
      BY <1>3, <2>1
    <3> QED BY <3>1
  <2>2. ASSUME ab <= x, x < lo
        PROVE  ~(Items[w[bb]] < Items[w[x]])
    <3>1. PICK y \in 0 .. la - 1 : ab + y = x
      BY <1>14, <2>1, <2>2
    <3>2. y \in 0 .. k - 1
      BY <1>11, <1>13, <2>2, <3>1
    <3> QED BY <1>7, <1>11, <3>1, <3>2 DEF Splits
  <2>3. ASSUME lo <= x, x < bb
        PROVE  Items[w[bb]] < Items[w[x]]
    <3>1. PICK y \in 0 .. la - 1 : ab + y = x
      BY <1>14, <2>1, <2>3
    <3>2. y \in k .. la - 1
      BY <1>11, <1>13, <2>3, <3>1
    <3> QED BY <1>7, <1>11, <3>1, <3>2 DEF Splits
  <2> QED BY <2>2, <2>3
<1>16. ASSUME NEW x \in 0 .. N - 1
       PROVE  /\ bb <= x /\ x < hi => Items[w[x]] < Items[w[last]]
              /\ hi <= x /\ x < e => ~(Items[w[x]] < Items[w[last]])
  <2>1. ASSUME bb <= x, x < e
        PROVE  \E y \in 0 .. lb - 1 : bb + y = x
    <3>1. x - bb \in 0 .. lb - 1 /\ bb + (x - bb) = x
      BY <1>1, <1>3, <2>1
    <3> QED BY <3>1
  <2>2. ASSUME bb <= x, x < hi
        PROVE  Items[w[x]] < Items[w[last]]
    <3>1. PICK y \in 0 .. lb - 1 : bb + y = x
      BY <1>14, <2>1, <2>2
    <3>2. y \in 0 .. n - 1
      BY <1>12, <1>13, <2>2, <3>1
    <3> QED BY <1>7, <1>12, <3>1, <3>2 DEF Splits
  <2>3. ASSUME hi <= x, x < e
        PROVE  ~(Items[w[x]] < Items[w[last]])
    <3>1. PICK y \in 0 .. lb - 1 : bb + y = x
      BY <1>14, <2>1, <2>3
    <3>2. y \in n .. lb - 1
      BY <1>12, <1>13, <2>3, <3>1
    <3> QED BY <1>7, <1>12, <3>1, <3>2 DEF Splits
  <2> QED BY <2>2, <2>3
<1>17. Ready(w, ab, lo, bb, hi, e)
  BY <1>2, <1>3, <1>4, <1>6, <1>14, <1>15, <1>16, KeptInPlace
<1>18. CASE k = la \/ n = 0
  <2>1. pc' = back /\ w' = w /\ merge' = NoMerge
    BY <1>1, <1>5, <1>18
  <2>2. lo = bb \/ bb = hi
    BY <1>3, <1>13, <1>18
  <2>3. Ascends(w, ab, e)
    BY <1>2, <1>17, <2>2, OrderEnds DEF Ready
  <2>4. View(merge', w') = w
    BY <2>1 DEF View, NoMerge
  <2>5. Shuffles(w, w, ab, e)
    BY <1>2 DEF Shuffles
  <2> QED BY <1>1, <2>1, <2>3, <2>4, <2>5 DEF Orders
<1>19. CASE ~(k = la \/ n = 0)
  <2>1. BeginMerge(lo, la - k, bb, n, back)
    BY <1>1, <1>5, <1>13, <1>19
  <2>2. /\ la - k \in Nat \ {0} /\ n \in Nat \ {0} /\ lo + (la - k) = bb /\ bb + n = hi
        /\ bb + n <= N
    BY <1>2, <1>3, <1>11, <1>12, <1>13, <1>14, <1>19
  <2>3. Ready(w, ab, lo, bb, bb + n, e)
    BY <1>17, <2>2
  <2>4. PICK rest : rest = la - k
    OBVIOUS
  <2>5. BeginMerge(lo, rest, bb, n, back) /\ rest \in Nat \ {0} /\ lo + rest = bb
    BY <2>1, <2>2, <2>4
  <2>6. Orders(w, ab, e, back)
    BY <1>2, <2>2, <2>3, <2>5, BeginOrders
  <2> QED BY <1>1, <2>6
<1> QED BY <1>18, <1>19

----------------------------------------------------------------------------
(* The runs on the stack are in order *)

\* The first run begins the copy, all begin where later elements of the array begin, and
\* each, q apart, is sorted.
Laid(rs, v, top, q) ==
    /\ Len(rs) = 0 => top = 0
    /\ Len(rs) > 0 => rs[1].base = 0
    /\ \A k \in 1 .. Len(rs) : Cut(v, rs[k].base)
    /\ \A k \in 1 .. Len(rs) : k # q => Ascends(v, rs[k].base, rs[k].base + rs[k].len)

LEMMA TiledApart ==
    ASSUME NEW rs \in Seq(Run), NEW top \in Nat, Tiled(rs, top)
    PROVE  /\ \A k \in 1 .. Len(rs) : /\ rs[k].base \in Nat /\ rs[k].len \in Nat /\ rs[k].len > 0
                                      /\ rs[k].base + rs[k].len <= top
           /\ \A j, k \in 1 .. Len(rs) : j < k => rs[j].base + rs[j].len <= rs[k].base
<1>1. Len(rs) \in Nat
  OBVIOUS
<1>2. ASSUME NEW k \in 1 .. Len(rs)
      PROVE  /\ rs[k].base \in Nat /\ rs[k].len \in Nat /\ rs[k].len > 0
             /\ rs[k].base + rs[k].len = IF k = Len(rs) THEN top ELSE rs[k + 1].base
  <2>1. rs[k] \in Run
    OBVIOUS
  <2> QED BY <2>1 DEF Run, Tiled
<1>3. ASSUME NEW j \in 1 .. Len(rs), NEW k \in 1 .. Len(rs), j < k
      PROVE  rs[j].base + rs[j].len <= rs[k].base
  <2> DEFINE T == {x \in j + 1 .. Len(rs) : ~(rs[j].base + rs[j].len <= rs[x].base)}
  <2>1. CASE T = {}
    <3>1. k \in j + 1 .. Len(rs) /\ k \notin T
      BY <1>1, <1>3, <2>1
    <3> QED BY <3>1
  <2>2. CASE T # {}
    <3>1. T \subseteq Nat
      BY <1>1
    <3>2. PICK x \in T : \A y \in T : x <= y
      BY <2>2, <3>1, LeastNumber
    <3>3. x \in 1 .. Len(rs) /\ j < x /\ ~(rs[j].base + rs[j].len <= rs[x].base)
      BY <1>1, <3>2
    <3>4. PICK p \in 1 .. Len(rs) : p = x - 1 /\ j <= p /\ p # Len(rs) /\ p + 1 = x
      BY <1>1, <3>3
    <3>5. rs[p].base + rs[p].len = rs[x].base /\ rs[p].base \in Nat /\ rs[p].len \in Nat
      BY <1>2, <3>4
    <3>6. CASE p = j
      BY <1>2, <3>3, <3>5, <3>6
    <3>7. CASE p # j
      <4>1. p \in j + 1 .. Len(rs) /\ p \notin T
        BY <1>1, <3>2, <3>4, <3>7
      <4>2. rs[j].base + rs[j].len <= rs[p].base
        BY <4>1
      <4>3. PICK a \in Nat, l \in Nat : a = rs[j].base /\ l = rs[j].len
        BY <1>2
      <4>4. PICK b \in Nat, n \in Nat : b = rs[p].base /\ n = rs[p].len
        BY <3>5
      <4>5. a + l <= b /\ b + n = rs[x].base
        BY <3>5, <4>2, <4>3, <4>4
      <4>6. a + l <= b + n
        BY <4>5
      <4> QED BY <3>3, <4>3, <4>5, <4>6
    <3> QED BY <3>6, <3>7
  <2> QED BY <2>1, <2>2
<1>4. ASSUME NEW k \in 1 .. Len(rs)
      PROVE  rs[k].base + rs[k].len <= top
  <2>1. PICK l \in 1 .. Len(rs) : l = Len(rs)
    BY <1>1
  <2>2. rs[l].base + rs[l].len = top /\ rs[l].base \in Nat /\ rs[l].len \in Nat
    BY <1>2, <2>1
  <2>3. k = l \/ rs[k].base + rs[k].len <= rs[l].base
    BY <1>3, <2>1
  <2> QED BY <1>2, <2>2, <2>3, SMTT(20)
<1> QED BY <1>2, <1>3, <1>4

\* Moving elements within one run, or above all of them, leaves the others in order.
LEMMA ShufflesLaid ==
    ASSUME NEW rs \in Seq(Run), NEW top \in Nat, Tiled(rs, top), N \in Nat, NEW q,
           NEW v, Laid(rs, v, top, q), NEW u, NEW s \in Int, NEW e \in Int, Shuffles(u, v, s, e),
           \/ top <= s
           \/ q \in 1 .. Len(rs) /\ s = rs[q].base /\ e = rs[q].base + rs[q].len
    PROVE  Laid(rs, u, top, q)
<1>1. /\ \A p \in Int : (p <= s \/ e <= p) /\ Cut(v, p) => Cut(u, p)
      /\ \A a, b \in Int : (b <= s \/ e <= a) /\ Ascends(v, a, b) => Ascends(u, a, b)
  BY ShufflesKeep
<1>2. ASSUME NEW k \in 1 .. Len(rs)
      PROVE  Cut(u, rs[k].base) /\ (k # q => Ascends(u, rs[k].base, rs[k].base + rs[k].len))
  <2>1. PICK b \in Nat, l \in Nat : b = rs[k].base /\ l = rs[k].len /\ b + l <= top
    BY TiledApart
  <2>2. CASE top <= s
    <3>1. b <= s /\ b + l <= s /\ b \in Int /\ b + l \in Int
      BY <2>1, <2>2
    <3> QED BY <1>1, <2>1, <3>1 DEF Laid
  <2>3. CASE q \in 1 .. Len(rs) /\ s = rs[q].base /\ e = rs[q].base + rs[q].len
    <3>1. PICK n \in Nat : n = rs[q].len /\ e = s + n
      BY <2>3, TiledApart
    <3>2. k < q \/ k = q \/ q < k
      BY <2>3
    <3>3. (b <= s \/ e <= b) /\ (k # q => b + l <= s \/ e <= b)
      <4>1. CASE k < q
        <5>1. b + l <= s
          BY <2>1, <2>3, <4>1, TiledApart
        <5> QED BY <2>1, <5>1
      <4>2. CASE q < k
        <5>1. e <= b
          BY <2>1, <2>3, <4>2, TiledApart
        <5> QED BY <5>1
      <4>3. CASE k = q
        BY <2>1, <2>3, <4>3
      <4> QED BY <3>2, <4>1, <4>2, <4>3
    <3> QED BY <1>1, <2>1, <3>3 DEF Laid
  <2> QED BY <2>2, <2>3
<1> QED BY <1>2 DEF Laid

LEMMA PushLaid ==
    ASSUME NEW rs \in Seq(Run), NEW top \in Nat, NEW v, Laid(rs, v, top, 0), NEW len \in Nat,
           Cut(v, top), Ascends(v, top, top + len),
           NEW new, new = Append(rs, [base |-> top, len |-> len])
    PROVE  Laid(new, v, top + len, 0)
<1>1. PICK r : r = [base |-> top, len |-> len]
  OBVIOUS
<1>2. r \in Run /\ r.base = top /\ r.len = len
  BY <1>1 DEF Run
<1>3. /\ Len(new) = Len(rs) + 1 /\ new[Len(rs) + 1] = r /\ Len(rs) \in Nat
      /\ \A i \in 1 .. Len(rs) : new[i] = rs[i]
  BY <1>1, <1>2
<1>4. ASSUME NEW k \in 1 .. Len(new)
      PROVE  Cut(v, new[k].base) /\ Ascends(v, new[k].base, new[k].base + new[k].len)
  <2>1. CASE k = Len(rs) + 1
    BY <1>2, <1>3, <2>1
  <2>2. CASE k # Len(rs) + 1
    <3>1. k \in 1 .. Len(rs) /\ k # 0
      BY <1>3, <2>2
    <3> QED BY <1>3, <3>1 DEF Laid
  <2> QED BY <2>1, <2>2
<1>5. new[1].base = 0 /\ Len(new) # 0
  <2>1. CASE Len(rs) = 0
    BY <1>2, <1>3, <2>1 DEF Laid
  <2>2. CASE Len(rs) # 0
    <3>1. 1 \in 1 .. Len(rs) /\ Len(rs) > 0
      BY <1>3, <2>2
    <3> QED BY <1>3, <3>1 DEF Laid
  <2> QED BY <2>1, <2>2
<1> QED BY <1>4, <1>5 DEF Laid

LEMMA MergeLaid ==
    ASSUME NEW rs \in Seq(Run), NEW top \in Nat, NEW v, Laid(rs, v, top, 0),
           NEW i \in 1 .. Len(rs) - 1, NEW e \in Run, e.base = rs[i].base,
           NEW new, new = Spliced(rs, i, e)
    PROVE  Laid(new, v, top, i) /\ i \in 1 .. Len(new) /\ new[i] = e
<1>1. /\ Len(new) = Len(rs) - 1 /\ new[i] = e
      /\ \A j \in 1 .. i - 1 : new[j] = rs[j]
      /\ \A j \in i + 1 .. Len(rs) - 1 : new[j] = rs[j + 1]
  <2>1. Became(new, rs, i, e)
    BY MergedAre, Zenon
  <2> QED BY <2>1 DEF Became
<1>2. Len(rs) \in Nat /\ i \in Nat /\ i \in 1 .. Len(new) /\ i \in 1 .. Len(rs)
  BY <1>1
<1>3. /\ \A k \in 1 .. Len(rs) : Cut(v, rs[k].base)
      /\ \A k \in 1 .. Len(rs) : Ascends(v, rs[k].base, rs[k].base + rs[k].len)
      /\ rs[1].base = 0
  <2>1. \A k \in 1 .. Len(rs) : k # 0
    OBVIOUS
  <2> QED BY <1>2, <2>1 DEF Laid
<1>4. ASSUME NEW k \in 1 .. Len(new)
      PROVE  Cut(v, new[k].base) /\ (k # i => Ascends(v, new[k].base, new[k].base + new[k].len))
  <2>1. CASE k < i
    <3>1. k \in 1 .. i - 1 /\ k \in 1 .. Len(rs)
      BY <1>1, <1>2, <2>1
    <3> QED BY <1>1, <1>3, <3>1
  <2>2. CASE k = i
    BY <1>1, <1>2, <1>3, <2>2
  <2>3. CASE i < k
    <3>1. k \in i + 1 .. Len(rs) - 1 /\ k + 1 \in 1 .. Len(rs)
      BY <1>1, <1>2, <2>3
    <3> QED BY <1>1, <1>3, <3>1
  <2> QED BY <1>2, <2>1, <2>2, <2>3
<1>5. new[1].base = 0 /\ Len(new) # 0
  <2>1. CASE i = 1
    BY <1>1, <1>2, <1>3, <2>1
  <2>2. CASE i # 1
    <3>1. 1 \in 1 .. i - 1
      BY <1>2, <2>2
    <3> QED BY <1>1, <1>2, <1>3, <3>1
  <2> QED BY <2>1, <2>2
<1> QED BY <1>1, <1>2, <1>4, <1>5 DEF Laid

\* What is in order where timsort() is at p: with copy v, gap m and at the next pivot.
RunsAre(rs, v, top) == Laid(rs, v, top, 0) /\ Untouched(v, top)

RunsMerge(rs, m, v, top) ==
    \E q \in 1 .. Len(rs) : /\ Laid(rs, View(m, v), top, q) /\ Untouched(View(m, v), top)
                            /\ Ordered(m, v, rs[q].base, rs[q].base + rs[q].len)

OrderIs(p, rs, m, v, top, at) ==
    /\ p \in {"run", "collapse", "final"} => RunsAre(rs, v, top)
    /\ p = "insert" =>
          Laid(rs, v, top, 0) /\ Cut(v, top) /\ Ascends(v, top, at) /\ Untouched(v, at)
    /\ p \in Merging => RunsMerge(rs, m, v, top) /\ (m.back = "final" => top = N)
    /\ p = "final" => top = N
    /\ p = "sorted" => Ascends(v, 0, N)

OrderInv ==
    /\ ~input.wild => OrderIs(pc, runs, merge, w, low, start.at)
    /\ SortedStably

LEMMA SameInput ==
    ASSUME input' = input, OrderIs(pc', runs', merge', w', low', start'.at)
    PROVE  OrderIs(pc, runs, merge, w, low, start.at)'
<1>1. Elements' = Elements /\ N' = N /\ Items' = Items
  BY DEF Elements, N, Items
<1>2. View(merge, w)' = View(merge', w')
  BY <1>1 DEF View, LowView, HighView
<1>3. PICK u : u = View(merge', w')
  OBVIOUS
<1>4. Laid(runs, w, low, 0)' <=> Laid(runs', w', low', 0)
  BY <1>1 DEF Laid, Cut, Ascends, Precedes
<1>5. Untouched(w, low)' <=> Untouched(w', low')
  BY <1>1 DEF Untouched
<1>6. (RunsAre(runs, w, low))' <=> RunsAre(runs', w', low')
  BY <1>4, <1>5 DEF RunsAre
<1>7. /\ Cut(w, low)' <=> Cut(w', low')
      /\ Ascends(w, low, start.at)' <=> Ascends(w', low', start'.at)
      /\ Untouched(w, start.at)' <=> Untouched(w', start'.at)
      /\ Ascends(w, 0, N)' <=> Ascends(w', 0, N)
  BY <1>1 DEF Cut, Ascends, Precedes, Untouched
<1>8. Good(merge, w)' <=> Good(merge', w')
  BY <1>1 DEF Good, Held, MergeState, Left, LowLeft, HighLeft
<1>9. ASSUME NEW q \in 1 .. Len(runs'), Laid(runs', View(merge', w'), low', q),
             Untouched(View(merge', w'), low'),
             Ordered(merge', w', runs'[q].base, runs'[q].base + runs'[q].len)
      PROVE  /\ Laid(runs, View(merge, w), low, q)' /\ Untouched(View(merge, w), low)'
             /\ Ordered(merge, w, runs[q].base, runs[q].base + runs[q].len)'
  <2>1. Laid(runs, View(merge, w), low, q)'
    BY <1>1, <1>2, <1>9 DEF Laid, Cut, Ascends, Precedes
  <2>2. Untouched(View(merge, w), low)'
    BY <1>1, <1>2, <1>9 DEF Untouched
  <2>3. Lo(merge)' = Lo(merge') /\ Mid(merge)' = Mid(merge') /\ Hi(merge)' = Hi(merge')
    BY DEF Lo, Mid, Hi
  <2>4. MergeOrder(View(merge, w), runs[q].base, Lo(merge), Mid(merge), Hi(merge),
                   runs[q].base + runs[q].len)'
    BY <1>1, <1>2, <1>9, <2>3 DEF Ordered, MergeOrder, Held, Ascends, Precedes
  <2>5. Leads(merge.side, View(merge, w), Lo(merge), Mid(merge), Hi(merge))'
    BY <1>1, <1>2, <1>9, <2>3 DEF Ordered, Leads, Precedes
  <2> QED BY <1>8, <1>9, <2>1, <2>2, <2>4, <2>5 DEF Ordered
<1>10. RunsMerge(runs', merge', w', low') => RunsMerge(runs, merge, w, low)'
  BY <1>9 DEF RunsMerge
<1> QED BY <1>1, <1>6, <1>4, <1>7, <1>10 DEF OrderIs, Merging

LEMMA UntouchedIs ==
    ASSUME NEW v, NEW p \in Int, Untouched(v, p)
    PROVE  Cut(v, p) /\ \A q \in Int : p <= q => Untouched(v, q)
  BY DEF Untouched, Cut

\* A run that begins where the others end goes on the stack.
LEMMA PushOrders ==
    ASSUME runs \in Seq(Run), low \in Nat, NEW len \in Nat, PushRun(len),
           Laid(runs, w', low, 0), Cut(w', low), Ascends(w', low, low + len),
           Untouched(w', low + len)
    PROVE  OrderIs(pc', runs', merge', w', low', start'.at)
<1>1. runs' = Append(runs, [base |-> low, len |-> len]) /\ low' = low + len /\ pc' = "collapse"
  BY DEF PushRun
<1>2. Laid(runs', w', low', 0)
  BY <1>1, PushLaid
<1> QED BY <1>1, <1>2 DEF OrderIs, RunsAre, Merging

\* How the order of the first two goes on.
LEMMA RunGoesOn ==
    ASSUME N \in Nat, low \in Nat, low + 1 < N, NEW less
    PROVE  \A i \in low + 1 .. low + RunLength(less) - 1 : less[i] = less[low + 1]
<1>1. PICK T : T = {i \in low + 2 .. N : i = N \/ less[i] # less[low + 1]}
  OBVIOUS
<1>2. N \in T /\ T \subseteq Nat
  BY <1>1
<1>3. Min(T) \in T /\ \A y \in T : Min(T) <= y
  BY <1>2, MinIs
<1>4. RunLength(less) = Min(T) - low
  BY <1>1 DEF RunLength
<1>5. PICK t \in T : t = Min(T) /\ t \in Nat
  BY <1>2, <1>3
<1>6. ASSUME NEW i \in low + 1 .. low + RunLength(less) - 1
      PROVE  less[i] = less[low + 1]
  <2>1. i \in Int /\ low + 1 <= i /\ i < t /\ t <= N
    <3>1. low + RunLength(less) - 1 = t - 1
      BY <1>4, <1>5
    <3> QED BY <1>1, <1>5, <3>1
  <2>2. CASE i = low + 1
    BY <2>2
  <2>3. CASE i # low + 1
    <3>1. i \in low + 2 .. N /\ i \notin T
      <4>1. i \in low + 2 .. N
        BY <1>5, <2>1, <2>3
      <4>2. i \in T => t <= i
        BY <1>3, <1>5
      <4> QED BY <1>5, <2>1, <4>1, <4>2
    <3> QED BY <1>1, <3>1, Zenon
  <2> QED BY <2>2, <2>3
<1> QED BY <1>6

\* A part of the copy from back to front.
Turned(v, lo, n) ==
    [i \in DOMAIN v |-> IF lo <= i /\ i < lo + n THEN v[2 * lo + n - 1 - i] ELSE v[i]]

LEMMA TurnedShuffles ==
    ASSUME NEW v, Held(v), N \in Nat, NEW lo \in Nat, NEW n \in Nat, lo + n <= N
    PROVE  /\ Shuffles(Turned(v, lo, n), v, lo, lo + n)
           /\ \A i \in 0 .. N - 1 : lo <= i /\ i < lo + n =>
                 Turned(v, lo, n)[i] = v[2 * lo + n - 1 - i]
<1>1. PICK u : u = Turned(v, lo, n)
  OBVIOUS
<1>2. v \in [0 .. N - 1 -> Elements]
  BY DEF Held
<1>3. /\ DOMAIN u = 0 .. N - 1 /\ u = [i \in 0 .. N - 1 |-> u[i]]
      /\ \A i \in 0 .. N - 1 : u[i] = IF lo <= i /\ i < lo + n THEN v[2 * lo + n - 1 - i] ELSE v[i]
  BY <1>1, <1>2 DEF Turned
<1>4. ASSUME NEW i \in 0 .. N - 1, lo <= i, i < lo + n
      PROVE  \E j \in 0 .. N - 1 : lo <= j /\ j < lo + n /\ u[i] = v[j]
  <2>1. PICK j \in 0 .. N - 1 : j = 2 * lo + n - 1 - i /\ lo <= j /\ j < lo + n
    BY <1>4
  <2>2. u[i] = v[j]
    BY <1>3, <1>4, <2>1
  <2> QED BY <2>1, <2>2
<1>5. \A i \in 0 .. N - 1 : i < lo \/ lo + n <= i => u[i] = v[i]
  BY <1>3
<1>6. \A i \in 0 .. N - 1 : u[i] \in Elements
  BY <1>2, <1>3, <1>4, <1>5
<1>7. Held(u)
  BY <1>3, <1>6 DEF Held
<1> QED BY <1>1, <1>3, <1>4, <1>5, <1>7 DEF Shuffles, Held

\* A run as it is found ascends, once it is turned if it descends.
LEMMA FoundAscends ==
    ASSUME input \in Inputs, Held(w), low \in Nat, low + 1 < N, Untouched(w, low),
           NEW less, \A i \in low + 1 .. N - 1 : less[i] <=> Items[w[i]] < Items[w[i - 1]],
           less[low + 1] \in BOOLEAN,
           NEW n \in Nat, n = RunLength(less), low + n <= N, n >= 2,
           NEW v, v = IF less[low + 1] THEN Turned(w, low, n) ELSE w
    PROVE  Ascends(v, low, low + n)
<1>1. /\ N \in Nat /\ \A i \in 0 .. N - 1 : w[i] \in Elements /\ Items[w[i]] \in Int
  BY ElementsAre, PrecedesIs DEF Held
<1>2. \A i \in low + 1 .. low + n - 1 : less[i] = less[low + 1]
  BY <1>1, RunGoesOn
<1>3. ASSUME NEW i \in low + 1 .. low + n - 1
      PROVE  /\ less[low + 1] => Items[w[i]] < Items[w[i - 1]]
             /\ ~less[low + 1] => ~(Items[w[i]] < Items[w[i - 1]])
  <2>1. i \in low + 1 .. N - 1
    BY <1>1
  <2> QED BY <1>2, <2>1
<1>4. CASE ~less[low + 1]
  <2>1. v = w
    BY <1>4
  <2>2. ASSUME NEW i \in low .. (low + n) - 2
        PROVE  Precedes(w[i], w[i + 1])
    <3>1. PICK j \in 0 .. N - 1 : j = i + 1 /\ j \in low + 1 .. low + n - 1 /\ j - 1 = i
      BY <1>1
    <3>2. i \in 0 .. N - 1 /\ low <= j /\ i < j
      BY <1>1, <3>1
    <3>3. ~(Items[w[j]] < Items[w[i]])
      BY <1>3, <1>4, <3>1
    <3>4. w[i] < w[j]
      BY <3>2 DEF Untouched
    <3>5. Items[w[i]] \in Int /\ Items[w[j]] \in Int
      BY <1>1, <3>2
    <3> QED BY <3>1, <3>3, <3>4, <3>5 DEF Precedes
  <2>3. Ascends(w, low, low + n)
    <3>1. low + n \in Nat
      OBVIOUS
    <3> QED BY <2>2, <3>1, NeighboursAscend
  <2> QED BY <2>1, <2>3
<1>5. CASE less[low + 1]
  <2>1. v = Turned(w, low, n)
    BY <1>5
  <2>2. /\ Held(v)
        /\ \A i \in 0 .. N - 1 : low <= i /\ i < low + n => v[i] = w[2 * low + n - 1 - i]
    <3>0. N \in Nat
      BY <1>1
    <3>1. Shuffles(Turned(w, low, n), w, low, low + n)
      BY <3>0, TurnedShuffles
    <3>3. \A i \in 0 .. N - 1 : low <= i /\ i < low + n =>
                Turned(w, low, n)[i] = w[2 * low + n - 1 - i]
      BY <3>0, TurnedShuffles
    <3>2. Held(Turned(w, low, n))
      BY <3>1 DEF Shuffles
    <3> QED BY <2>1, <3>2, <3>3, Zenon
  <2>3. ASSUME NEW i \in low .. (low + n) - 2
        PROVE  Precedes(v[i], v[i + 1])
    <3>1. PICK j \in 0 .. N - 1 : j = 2 * low + n - 1 - i /\ j \in low + 1 .. low + n - 1
      <4>1. 2 * low + n - 1 - i \in low + 1 .. low + n - 1
        OBVIOUS
      <4> QED BY <1>1, <4>1
    <3>2. PICK x \in 0 .. N - 1 : x = i + 1 /\ low <= x /\ x < low + n
                                  /\ 2 * low + n - 1 - x = j - 1
      BY <1>1, <3>1
    <3>3. i \in 0 .. N - 1 /\ low <= i /\ i < low + n
      BY <1>1
    <3>4. v[i] = w[j]
      BY <2>2, <3>1, <3>3
    <3>5. v[x] = w[j - 1]
      BY <2>2, <3>2
    <3>6. Items[w[j]] < Items[w[j - 1]]
      BY <1>3, <1>5, <3>1
    <3> QED BY <3>2, <3>4, <3>5, <3>6 DEF Precedes
  <2>4. PICK b \in Nat : b = low + n
    OBVIOUS
  <2>5. Held(v) /\ b <= N /\ \A i \in low .. b - 2 : Precedes(v[i], v[i + 1])
    BY <2>2, <2>3, <2>4
  <2>6. Ascends(v, low, b)
    BY <2>5, NeighboursAscend
  <2> QED BY <2>4, <2>6
<1> QED BY <1>4, <1>5

LEMMA MakeRunOrders ==
    ASSUME SortInv, ~input.wild, OrderIs(pc, runs, merge, w, low, start.at), MakeRun
    PROVE  OrderIs(pc', runs', merge', w', low', start'.at)
<1>1. /\ input \in Inputs /\ pc = "run" /\ low \in Nat /\ low < N /\ runs \in Seq(Run)
      /\ merge = NoMerge /\ Complete(w) /\ Tiled(runs, low)
  BY NoMergeComplete DEF SortInv, StackInv, MakeRun, Merging
<1>2. N \in Nat /\ N <= MaxArray
  BY <1>1, NIsSmall
<1>3. Held(w) /\ Laid(runs, w, low, 0) /\ Untouched(w, low)
  BY <1>1 DEF Complete, OrderIs, RunsAre
<1>4. PICK asked : asked = [i \in low + 1 .. N - 1 |-> <<w[i], w[i - 1]>>]
  OBVIOUS
<1>5. PICK less, run :
         /\ less \in Answers(asked)
         /\ run = IF low + 1 = N THEN 1 ELSE RunLength(less)
         /\ w' = IF run > 1 /\ less[low + 1]
                 THEN [i \in DOMAIN w |-> IF low <= i /\ i < low + run
                                          THEN w[2 * low + run - 1 - i] ELSE w[i]]
                 ELSE w
         /\ \/ /\ pc' = "insert" /\ UNCHANGED <<low, runs>>
               /\ start' = [at |-> low + run, high |-> low + Min({MinRun, N - low})]
            \/ PushRun(run)
  <2>1. \E less \in Answers(asked) :
          LET run == IF low + 1 = N THEN 1 ELSE RunLength(less)
              forced == Min({MinRun, N - low})
          IN  /\ w' = IF run > 1 /\ less[low + 1]
                      THEN [i \in DOMAIN w |-> IF low <= i /\ i < low + run
                                               THEN w[2 * low + run - 1 - i] ELSE w[i]]
                      ELSE w
              /\ IF run < forced
                 THEN /\ pc' = "insert"
                      /\ start' = [at |-> low + run, high |-> low + forced]
                      /\ UNCHANGED <<low, runs>>
                 ELSE PushRun(run) /\ UNCHANGED start
    BY <1>4, Zenon DEF MakeRun
  <2> QED BY <2>1, Zenon
<1>6. \A i \in low + 1 .. N - 1 : less[i] <=> Items[w[i]] < Items[w[i - 1]]
  <2>1. ASSUME NEW i \in low + 1 .. N - 1
        PROVE  less[i] <=> Items[w[i]] < Items[w[i - 1]]
    <3>1. i \in DOMAIN asked /\ asked[i][1] = w[i] /\ asked[i][2] = w[i - 1]
      BY <1>4
    <3> QED BY <1>5, <3>1, AnswerIs
  <2> QED BY <2>1
<1>7. PICK n \in Nat : n = run /\ n > 0 /\ low + n <= N
  BY <1>1, <1>2, <1>5, RunLengthIs
<1>8. low + n \in Nat /\ low + n \in Int /\ low \in Int /\ low <= low
  BY <1>1
<1>9. Shuffles(w', w, low, low + n) /\ Ascends(w', low, low + n)
  <2>1. CASE low + 1 = N
    <3>1. n = 1 /\ w' = w
      BY <1>1, <1>2, <1>5, <1>7, <2>1
    <3>2. Shuffles(w, w, low, low + n)
      BY <1>3 DEF Shuffles
    <3>3. Ascends(w, low, low + 1)
      BY <1>1, <1>2 DEF Ascends
    <3> QED BY <3>1, <3>2, <3>3
  <2>2. CASE low + 1 # N
    <3>1. low + 1 < N
      BY <1>1, <1>2, <2>2
    <3>2. n = RunLength(less) /\ n >= 2 /\ n > 1 /\ run > 1
      BY <1>1, <1>2, <1>5, <1>7, <2>2, <3>1, RunLengthIs
    <3>3. less[low + 1] \in BOOLEAN
      <4>1. low + 1 \in DOMAIN asked
        BY <1>1, <1>2, <1>4, <3>1
      <4>2. less = [i \in DOMAIN asked |-> Items[asked[i][1]] < Items[asked[i][2]]]
        BY <1>5 DEF Answers
      <4> QED BY <4>1, <4>2
    <3>4. w' = IF less[low + 1] THEN Turned(w, low, n) ELSE w
      BY <1>5, <1>7, <3>2 DEF Turned
    <3>5. PICK v : v = w'
      OBVIOUS
    <3>6. Ascends(v, low, low + n)
      <4>1. v = IF less[low + 1] THEN Turned(w, low, n) ELSE w
        BY <3>4, <3>5
      <4> QED BY <1>1, <1>3, <1>6, <1>7, <3>1, <3>2, <3>3, <4>1, FoundAscends
    <3>7. Shuffles(v, w, low, low + n)
      <4>1. Shuffles(Turned(w, low, n), w, low, low + n)
        BY <1>1, <1>2, <1>3, <1>7, TurnedShuffles
      <4>2. Shuffles(w, w, low, low + n)
        BY <1>3 DEF Shuffles
      <4> QED BY <3>3, <3>4, <3>5, <4>1, <4>2
    <3> QED BY <3>5, <3>6, <3>7
  <2> QED BY <2>1, <2>2
<1>10. PICK v : v = w'
  OBVIOUS
<1>11. Shuffles(v, w, low, low + n) /\ Ascends(v, low, low + n)
  BY <1>9, <1>10
<1>12. Laid(runs, v, low, 0)
  BY <1>1, <1>2, <1>3, <1>8, <1>11, ShufflesLaid
<1>13. Cut(w, low) /\ Untouched(w, low + n)
  <2>1. low <= low + n
    BY <1>1
  <2> QED BY <1>3, <1>8, <2>1, UntouchedIs
<1>14. Cut(v, low) /\ Untouched(v, low + n)
  <2>1. /\ \A p \in Int : (p <= low \/ low + n <= p) /\ Cut(w, p) => Cut(v, p)
        /\ \A p \in Int : low + n <= p /\ Untouched(w, p) => Untouched(v, p)
    BY <1>2, <1>8, <1>11, ShufflesKeep
  <2> QED BY <1>8, <1>13, <2>1
<1>15. CASE /\ pc' = "insert" /\ UNCHANGED <<low, runs>>
            /\ start' = [at |-> low + run, high |-> low + Min({MinRun, N - low})]
  <2>1. start'.at = low + n
    BY <1>7, <1>15
  <2> QED BY <1>10, <1>11, <1>12, <1>14, <1>15, <2>1 DEF OrderIs, Merging
<1>16. CASE PushRun(run)
  BY <1>1, <1>7, <1>10, <1>11, <1>12, <1>14, <1>16, PushOrders
<1> QED BY <1>5, <1>15, <1>16

\* A pivot that goes before those above it, and after the others.
LEMMA InsertAscends ==
    ASSUME input \in Inputs, NEW v, Held(v), NEW lo \in Nat, NEW at \in Nat, lo < at, at < N,
           Ascends(v, lo, at), Untouched(v, at), NEW left \in lo .. at,
           \A i \in 0 .. N - 1 : lo <= i /\ i < left => ~(Items[v[at]] < Items[v[i]]),
           \A i \in 0 .. N - 1 : left <= i /\ i < at => Items[v[at]] < Items[v[i]]
    PROVE  Ascends(Swapped(v, left, at, at + 1), lo, at + 1)
<1>1. /\ N \in Nat /\ \A i \in 0 .. N - 1 : v[i] \in Elements /\ Items[v[i]] \in Int
  BY ElementsAre, PrecedesIs DEF Held
<1>2. PICK u : u = Swapped(v, left, at, at + 1)
  OBVIOUS
<1>3. left \in Nat /\ left <= at /\ at <= at + 1 /\ at + 1 <= N /\ at + 1 \in Nat /\ at \in 0 .. N - 1
  BY <1>1
<1>4. \A i \in 0 .. N - 1 : Placed(u, v, i, left, at, at + 1)
  BY <1>1, <1>2, <1>3, SwappedIs
<1>5. ASSUME NEW i \in 0 .. N - 1, lo <= i, i < at + 1
      PROVE  \/ i < left /\ u[i] = v[i]
             \/ i = left /\ u[i] = v[at]
             \/ \E x \in 0 .. N - 1 : left <= x /\ x < at /\ x = i - 1 /\ u[i] = v[x]
  <2>1. PICK x \in 0 .. N - 1 :
          /\ u[i] = v[x]
          /\ \/ (i < left \/ at + 1 <= i) /\ x = i
             \/ left <= i /\ i < left + (at + 1 - at) /\ at <= x /\ x < at + 1 /\ x = at + (i - left)
             \/ left + (at + 1 - at) <= i /\ i < at + 1 /\ left <= x /\ x < at
                   /\ x = i - (at + 1 - at)
    BY <1>4 DEF Placed
  <2>2. at + 1 - at = 1
    OBVIOUS
  <2> QED BY <1>3, <1>5, <2>1, <2>2
<1>6. ASSUME NEW x \in 0 .. N - 1, lo <= x, x < left
      PROVE  Precedes(v[x], v[at])
  <2>1. v[x] < v[at]
    BY <1>3, <1>6 DEF Untouched
  <2>2. ~(Items[v[at]] < Items[v[x]]) /\ Items[v[at]] \in Int /\ Items[v[x]] \in Int
    BY <1>1, <1>3, <1>6
  <2> QED BY <2>1, <2>2 DEF Precedes
<1>7. ASSUME NEW x \in 0 .. N - 1, left <= x, x < at
      PROVE  Precedes(v[at], v[x])
  BY <1>7 DEF Precedes
<1>8. ASSUME NEW x \in 0 .. N - 1, NEW y \in 0 .. N - 1, lo <= x, x < y, y < at
      PROVE  Precedes(v[x], v[y])
  BY <1>8 DEF Ascends
<1>9. ASSUME NEW i \in 0 .. N - 1, NEW j \in 0 .. N - 1, lo <= i, i < j, j < at + 1
      PROVE  Precedes(u[i], u[j])
  <2>1. lo <= j /\ i < at + 1
    BY <1>9
  <2>2. CASE i < left /\ u[i] = v[i]
    <3>1. CASE j < left /\ u[j] = v[j]
      BY <1>3, <1>8, <1>9, <2>2, <3>1
    <3>2. CASE j = left /\ u[j] = v[at]
      BY <1>6, <1>9, <2>2, <3>2
    <3>3. CASE \E x \in 0 .. N - 1 : left <= x /\ x < at /\ x = j - 1 /\ u[j] = v[x]
      <4>1. PICK x \in 0 .. N - 1 : left <= x /\ x < at /\ u[j] = v[x]
        BY <3>3
      <4>2. i < x
        BY <1>3, <2>2, <4>1
      <4> QED BY <1>8, <1>9, <2>2, <4>1, <4>2
    <3> QED BY <1>5, <1>9, <2>1, <3>1, <3>2, <3>3
  <2>3. CASE i = left /\ u[i] = v[at]
    <3>1. PICK x \in 0 .. N - 1 : left <= x /\ x < at /\ u[j] = v[x]
      BY <1>3, <1>5, <1>9, <2>1, <2>3
    <3> QED BY <1>7, <2>3, <3>1
  <2>4. CASE \E x \in 0 .. N - 1 : left <= x /\ x < at /\ x = i - 1 /\ u[i] = v[x]
    <3>1. PICK x \in 0 .. N - 1 : left <= x /\ x < at /\ x = i - 1 /\ u[i] = v[x]
      BY <2>4
    <3>2. ~(j < left) /\ j # left
      BY <1>3, <1>9, <3>1
    <3>3. PICK y \in 0 .. N - 1 : left <= y /\ y < at /\ y = j - 1 /\ u[j] = v[y]
      BY <1>5, <1>9, <2>1, <3>2
    <3>4. lo <= x /\ x < y
      BY <1>9, <3>1, <3>3
    <3> QED BY <1>8, <3>1, <3>3, <3>4
  <2> QED BY <1>5, <1>9, <2>1, <2>2, <2>3, <2>4
<1> QED BY <1>2, <1>9 DEF Ascends

\* Moving an element down is changing places with those it passes.
LEMMA InsertSwaps ==
    ASSUME NEW v, Held(v), N \in Nat, NEW left \in Nat, NEW at \in Nat, left <= at, at < N,
           NEW u, u = [Moved(v, v, left, left + 1, at - left) EXCEPT ![left] = v[at]]
    PROVE  u = Swapped(v, left, at, at + 1)
<1>1. v \in [0 .. N - 1 -> Elements]
  BY DEF Held
<1>2. PICK f : f = Moved(v, v, left, left + 1, at - left)
  OBVIOUS
<1>3. f = [i \in 0 .. N - 1 |-> IF left + 1 <= i /\ i < left + 1 + (at - left)
                                THEN v[left + i - (left + 1)] ELSE v[i]]
  BY <1>1, <1>2 DEF Moved
<1>4. left \in 0 .. N - 1 /\ u = [f EXCEPT ![left] = v[at]]
  BY <1>2
<1>5. /\ u = [i \in 0 .. N - 1 |-> u[i]] /\ u[left] = v[at]
      /\ \A i \in 0 .. N - 1 : i # left =>
            u[i] = IF left + 1 <= i /\ i < left + 1 + (at - left)
                   THEN v[left + i - (left + 1)] ELSE v[i]
  BY <1>3, <1>4
<1>6. PICK z : z = Swapped(v, left, at, at + 1)
  OBVIOUS
<1>7. z = [i \in 0 .. N - 1 |-> z[i]]
  BY <1>6 DEF Swapped
<1>8. ASSUME NEW i \in 0 .. N - 1
      PROVE  u[i] = z[i]
  <2>1. z[i] = IF left <= i /\ i < left + (at + 1 - at) THEN v[at + (i - left)]
               ELSE IF left + (at + 1 - at) <= i /\ i < at + 1 THEN v[i - (at + 1 - at)] ELSE v[i]
    BY <1>6 DEF Swapped
  <2>2. at + 1 - at = 1
    OBVIOUS
  <2>3. CASE i = left
    <3>1. left <= i /\ i < left + (at + 1 - at) /\ at + (i - left) = at
      BY <2>2, <2>3
    <3> QED BY <1>5, <2>1, <2>3, <3>1
  <2>4. CASE left < i /\ i <= at
    <3>1. /\ ~(left <= i /\ i < left + (at + 1 - at)) /\ i - (at + 1 - at) = i - 1
          /\ left + (at + 1 - at) <= i /\ i < at + 1
          /\ left + 1 <= i /\ i < left + 1 + (at - left) /\ left + i - (left + 1) = i - 1
      BY <2>2, <2>4
    <3>2. z[i] = v[i - 1]
      BY <2>1, <3>1
    <3>3. u[i] = v[i - 1]
      BY <1>5, <2>4, <3>1, SMTT(20)
    <3> QED BY <3>2, <3>3
  <2>5. CASE i < left \/ at < i
    <3>1. /\ ~(left <= i /\ i < left + (at + 1 - at))
          /\ ~(left + (at + 1 - at) <= i /\ i < at + 1)
          /\ ~(left + 1 <= i /\ i < left + 1 + (at - left)) /\ i # left
      BY <2>2, <2>5
    <3> QED BY <1>5, <2>1, <3>1
  <2> QED BY <2>3, <2>4, <2>5
<1>9. u = z
  BY <1>5, <1>7, <1>8, SameFunction
<1> QED BY <1>6, <1>9

\* What Insert does to the copy.
Inserted(at) ==
    \E above \in Answers([i \in low .. at - 1 |-> <<w[at], w[i]>>]) :
       LET left == Bisect([i \in DOMAIN above |-> ~above[i]], low, at)
       IN  w' = [Moved(w, w, left, left + 1, at - left) EXCEPT ![left] = w[at]]

LEMMA InsertOrders ==
    ASSUME SortInv, ~input.wild, OrderIs(pc, runs, merge, w, low, start.at), Insert
    PROVE  OrderIs(pc', runs', merge', w', low', start'.at)
<1>1. /\ input \in Inputs /\ pc = "insert" /\ low \in Nat /\ runs \in Seq(Run)
      /\ merge = NoMerge /\ Complete(w) /\ Tiled(runs, low)
  BY NoMergeComplete DEF SortInv, StackInv, Insert, Merging
<1>2. N \in Nat /\ N <= MaxArray
  BY <1>1, NIsSmall
<1>3. PICK at \in Nat, high \in Nat : /\ at = start.at /\ high = start.high
                                      /\ low < at /\ at < high /\ high <= N
                                      /\ start = [at |-> at, high |-> high]
  BY <1>1 DEF SortInv, StackInv
<1>4. /\ Held(w) /\ Laid(runs, w, low, 0) /\ Cut(w, low) /\ Ascends(w, low, at)
      /\ Untouched(w, at)
  BY <1>1, <1>3 DEF Complete, OrderIs
<1>5. PICK asked : asked = [i \in low .. at - 1 |-> <<w[at], w[i]>>]
  OBVIOUS
<1>6. PICK above \in Answers(asked) :
         LET left == Bisect([i \in DOMAIN above |-> ~above[i]], low, at)
         IN  w' = [Moved(w, w, left, left + 1, at - left) EXCEPT ![left] = w[at]]
  <2>1. Inserted(start.at)
    BY Zenon DEF Insert, Inserted
  <2>2. start.at = at
    BY <1>3
  <2>3. Inserted(at)
    BY <2>1, <2>2, Zenon
  <2> QED BY <1>5, <2>3, Zenon DEF Inserted
<1>7. PICK before : before = [i \in DOMAIN above |-> ~above[i]]
  OBVIOUS
<1>8. PICK left : /\ left = Bisect(before, low, at)
                  /\ w' = [Moved(w, w, left, left + 1, at - left) EXCEPT ![left] = w[at]]
  BY <1>6, <1>7, Zenon
<1>9. above = [i \in low .. at - 1 |-> Items[asked[i][1]] < Items[asked[i][2]]]
  BY <1>5, <1>6 DEF Answers
<1>10. \A i \in low .. at - 1 : before[i] <=> ~(Items[w[at]] < Items[w[i]])
  <2>1. ASSUME NEW i \in low .. at - 1
        PROVE  before[i] <=> ~(Items[w[at]] < Items[w[i]])
    <3>1. i \in DOMAIN asked /\ asked[i][1] = w[at] /\ asked[i][2] = w[i]
      BY <1>5
    <3>2. above[i] <=> Items[w[at]] < Items[w[i]]
      BY <1>6, <3>1, AnswerIs
    <3>3. before[i] <=> ~above[i]
      BY <1>7, <1>9
    <3> QED BY <3>2, <3>3
  <2> QED BY <2>1
<1>11. \A i \in 0 .. N - 1 : w[i] \in Elements /\ Items[w[i]] \in Int
  BY <1>1, <1>4, PrecedesIs DEF Held
<1>12. Descends(before, low, at)
  <2> SUFFICES ASSUME NEW x \in low .. at - 1, NEW y \in low .. at - 1, x < y, before[y]
               PROVE  before[x]
    BY DEF Descends
  <2>1. x \in 0 .. N - 1 /\ y \in 0 .. N - 1 /\ at \in 0 .. N - 1 /\ low <= x /\ y < at
    BY <1>1, <1>2, <1>3
  <2>2. Precedes(w[x], w[y])
    BY <1>4, <2>1 DEF Ascends
  <2>3. Items[w[x]] <= Items[w[y]]
    BY <1>11, <2>1, <2>2 DEF Precedes
  <2>4. ~(Items[w[at]] < Items[w[y]])
    BY <1>10
  <2>5. ~(Items[w[at]] < Items[w[x]])
    BY <1>11, <2>1, <2>3, <2>4
  <2> QED BY <1>10, <2>5
<1>13. left \in low .. at /\ Splits(before, low, at, left)
  <2>1. low \in Int /\ at \in Int /\ low <= at /\ at - low <= MaxArray
    BY <1>1, <1>2, <1>3 DEF MaxArray
  <2> QED BY <1>8, <1>12, <2>1, BisectSplits
<1>14. /\ left \in Nat /\ low <= left /\ left <= at /\ at < N /\ at + 1 \in Nat /\ at + 1 <= N
       /\ at <= at + 1 /\ low \in Int /\ at + 1 \in Int /\ at + 1 <= at + 1 /\ low < at + 1
  BY <1>1, <1>2, <1>3, <1>13
<1>15. PICK v : v = w'
  OBVIOUS
<1>16. v = Swapped(w, left, at, at + 1)
  <2>1. v = [Moved(w, w, left, left + 1, at - left) EXCEPT ![left] = w[at]]
    BY <1>8, <1>15
  <2> QED BY <1>2, <1>4, <1>14, <2>1, InsertSwaps
<1>17. Shuffles(v, w, low, at + 1)
  <2>1. Shuffles(Swapped(w, left, at, at + 1), w, low, at + 1)
    BY <1>2, <1>4, <1>14, SwappedShuffles
  <2> QED BY <1>16, <2>1
<1>18. Ascends(v, low, at + 1)
  <2>1. \A i \in 0 .. N - 1 : low <= i /\ i < left => ~(Items[w[at]] < Items[w[i]])
    <3>1. ASSUME NEW i \in 0 .. N - 1, low <= i, i < left
          PROVE  ~(Items[w[at]] < Items[w[i]])
      <4>1. i \in low .. left - 1 /\ i \in low .. at - 1
        BY <1>1, <1>14, <3>1
      <4> QED BY <1>10, <1>13, <4>1 DEF Splits
    <3> QED BY <3>1
  <2>2. \A i \in 0 .. N - 1 : left <= i /\ i < at => Items[w[at]] < Items[w[i]]
    <3>1. ASSUME NEW i \in 0 .. N - 1, left <= i, i < at
          PROVE  Items[w[at]] < Items[w[i]]
      <4>1. i \in left .. at - 1 /\ i \in low .. at - 1
        BY <1>1, <1>14, <3>1
      <4> QED BY <1>10, <1>13, <4>1 DEF Splits
    <3> QED BY <3>1
  <2>3. Ascends(Swapped(w, left, at, at + 1), low, at + 1)
    BY <1>1, <1>3, <1>4, <1>13, <1>14, <2>1, <2>2, InsertAscends
  <2> QED BY <1>16, <2>3
<1>19. Laid(runs, v, low, 0)
  <2>1. low <= low
    BY <1>1
  <2> QED BY <1>1, <1>2, <1>4, <1>14, <1>17, <2>1, ShufflesLaid
<1>20. Cut(v, low) /\ Untouched(v, at + 1)
  <2>1. /\ \A p \in Int : (p <= low \/ at + 1 <= p) /\ Cut(w, p) => Cut(v, p)
        /\ \A p \in Int : at + 1 <= p /\ Untouched(w, p) => Untouched(v, p)
    BY <1>2, <1>14, <1>17, ShufflesKeep
  <2>2. Untouched(w, at + 1)
    BY <1>4, <1>14, UntouchedIs
  <2>3. low <= low
    BY <1>1
  <2> QED BY <1>4, <1>14, <2>1, <2>2, <2>3
<1>21. \/ at + 1 = high /\ PushRun(high - low)
       \/ start' = [start EXCEPT !.at = @ + 1] /\ UNCHANGED <<pc, low, runs>>
  BY <1>3 DEF Insert
<1>22. CASE at + 1 = high /\ PushRun(high - low)
  <2>1. high - low \in Nat /\ low + (high - low) = at + 1
    BY <1>1, <1>3, <1>22
  <2>2. PICK n \in Nat : n = high - low /\ low + n = at + 1
    BY <2>1
  <2> QED BY <1>1, <1>15, <1>18, <1>19, <1>20, <1>22, <2>2, PushOrders
<1>23. CASE start' = [start EXCEPT !.at = @ + 1] /\ UNCHANGED <<pc, low, runs>>
  <2>1. start'.at = at + 1
    BY <1>3, <1>23
  <2> QED BY <1>1, <1>15, <1>18, <1>19, <1>20, <1>23, <2>1 DEF OrderIs, Merging
<1> QED BY <1>21, <1>22, <1>23

\* Within one run of the stack, a merge goes on or comes to an end.
LEMMA OrdersKeep ==
    ASSUME NEW rs \in Seq(Run), low \in Nat, low <= N, N \in Nat, Tiled(rs, low), NEW u,
           NEW q \in 1 .. Len(rs), Laid(rs, u, low, q), Untouched(u, low),
           NEW back \in {"collapse", "final"}, back = "final" => low = N,
           Orders(u, rs[q].base, rs[q].base + rs[q].len, back),
           merge' # NoMerge => pc' \in Merging,
           runs' = rs, low' = low, NEW at
    PROVE  OrderIs(pc', runs', merge', w', low', at)
<1>1. PICK s \in Nat, e \in Nat : s = rs[q].base /\ e = rs[q].base + rs[q].len /\ e <= low
  <2>1. rs[q].base \in Nat /\ rs[q].len \in Nat /\ rs[q].base + rs[q].len <= low
    BY TiledApart
  <2> QED BY <2>1
<1>2. PICK v : v = View(merge', w')
  OBVIOUS
<1>3. Shuffles(v, u, s, e) /\ s \in Int /\ e \in Int
  BY <1>1, <1>2 DEF Orders
<1>4. Laid(rs, v, low, q)
  BY <1>1, <1>3, ShufflesLaid
<1>5. Untouched(v, low)
  BY <1>1, <1>3, ShufflesKeep
<1>6. CASE merge' = NoMerge /\ pc' = back /\ Ascends(w', s, e)
  <2>1. v = w'
    BY <1>2, <1>6 DEF View, NoMerge
  <2>2. Laid(rs, v, low, 0)
    BY <1>1, <1>4, <1>6, <2>1 DEF Laid
  <2> QED BY <1>5, <1>6, <2>1, <2>2 DEF OrderIs, RunsAre, Merging
<1>7. CASE merge' # NoMerge /\ merge'.back = back /\ Ordered(merge', w', s, e)
  <2>1. RunsMerge(runs', merge', w', low')
    BY <1>1, <1>2, <1>4, <1>5, <1>7 DEF RunsMerge
  <2> QED BY <1>7, <2>1 DEF OrderIs, Merging
<1> QED BY <1>1, <1>6, <1>7 DEF Orders

LEMMA CollapseOrders ==
    ASSUME SortInv, ~input.wild, OrderIs(pc, runs, merge, w, low, start.at),
           Collapse \/ FinalCollapse
    PROVE  OrderIs(pc', runs', merge', w', low', start'.at)
<1>1. /\ input \in Inputs /\ N \in Nat /\ N <= MaxArray /\ low \in Nat /\ low <= N
      /\ runs \in Seq(Run) /\ merge = NoMerge /\ Complete(w) /\ Tiled(runs, low)
      /\ minGallop \in Nat \ {0} /\ pc \in {"collapse", "final"}
  BY NIsSmall, NoMergeComplete DEF SortInv, StackInv, Collapse, FinalCollapse, Merging
<1>2. Held(w) /\ Laid(runs, w, low, 0) /\ Untouched(w, low) /\ (pc = "final" => low = N)
  BY <1>1 DEF Complete, OrderIs, RunsAre
<1>3. low' = low /\ Steps
  BY CollapseSteps DEF Collapse, FinalCollapse
<1>4. merge' # NoMerge => pc' \in Merging
  BY <1>3 DEF Steps
<1>5. CASE Collapse /\ CollapseAt = 0
  <2>1. pc' = (IF low = N THEN "final" ELSE "run") /\ UNCHANGED <<w, runs>>
    BY <1>5 DEF Collapse
  <2> QED BY <1>2, <1>3, <2>1 DEF OrderIs, RunsAre, Merging
<1>6. CASE FinalCollapse /\ FinalAt = 0
  <2>1. pc' = "sorted" /\ w' = w /\ low = N
    BY <1>2, <1>6 DEF FinalCollapse
  <2>2. Len(runs) = 0 \/ Len(runs) = 1
    <3>1. PICK n \in Nat : n = Len(runs)
      BY <1>1
    <3>2. n < 2
      BY <1>6, <3>1 DEF FinalAt
    <3> QED BY <3>1, <3>2
  <2>3. CASE Len(runs) = 0
    <3>1. low = 0
      BY <1>2, <2>3 DEF Laid
    <3>2. Ascends(w, 0, N)
      BY <2>1, <3>1 DEF Ascends
    <3> QED BY <2>1, <3>2 DEF OrderIs, Merging
  <2>4. CASE Len(runs) = 1
    <3>1. 1 \in 1 .. Len(runs) /\ 1 # 0 /\ Len(runs) > 0
      BY <2>4
    <3>2. runs[1].base = 0 /\ Ascends(w, runs[1].base, runs[1].base + runs[1].len)
      BY <1>2, <3>1 DEF Laid
    <3>3. runs[1].base + runs[1].len = low
      BY <1>1, <2>4, <3>1 DEF Tiled
    <3>4. Ascends(w, 0, N)
      BY <2>1, <3>2, <3>3
    <3> QED BY <2>1, <3>4 DEF OrderIs, Merging
  <2> QED BY <2>2, <2>3, <2>4
<1>7. ASSUME NEW i \in 1 .. Len(runs) - 1, NEW back \in {"collapse", "final"}, MergeAt(i, back),
             back = "final" => low = N
      PROVE  OrderIs(pc', runs', merge', w', low', start'.at)
  <2>1. i \in 1 .. Len(runs) /\ i + 1 \in 1 .. Len(runs) /\ i # 0 /\ i + 1 # 0 /\ i # Len(runs)
    BY <1>1
  <2>2. PICK a \in Run, b \in Run : a = runs[i] /\ b = runs[i + 1]
    BY <1>1, <2>1
  <2>3. /\ a.base \in Nat /\ a.len \in Nat /\ b.base \in Nat /\ b.len \in Nat
        /\ a.len > 0 /\ b.len > 0 /\ b.base + b.len <= low
    BY <1>1, <2>1, <2>2, TiledApart
  <2>4. a.base + a.len = b.base
    BY <1>1, <2>1, <2>2 DEF Tiled
  <2>5. b.base + b.len <= N
    BY <1>1, <2>3
  <2>6. /\ Ascends(w, a.base, a.base + a.len) /\ Ascends(w, b.base, b.base + b.len)
        /\ Cut(w, b.base)
    BY <1>2, <2>1, <2>2 DEF Laid
  <2>7. Ascends(w, a.base, b.base)
    BY <2>4, <2>6
  <2>8. Orders(w, a.base, b.base + b.len, back)
    BY <1>1, <1>7, <2>2, <2>3, <2>4, <2>5, <2>6, <2>7, MergeAtOrders
  <2>9. PICK l \in Nat : l = a.len + b.len
    BY <2>3
  <2>10. PICK e : e = [a EXCEPT !.len = @ + b.len]
    OBVIOUS
  <2>11. e \in Run /\ e.base = a.base /\ e.len = l /\ e.base + e.len = b.base + b.len
    <3>1. e = [a EXCEPT !.len = l]
      BY <2>9, <2>10
    <3>2. e \in Run /\ e.base = a.base /\ e.len = l
      BY <3>1 DEF Run
    <3> QED BY <2>3, <2>4, <2>9, <3>2
  <2>12. runs' = Spliced(runs, i, e)
    BY <1>7, <2>2, <2>10 DEF MergeAt, Spliced
  <2>13. PICK rs : rs = runs'
    OBVIOUS
  <2>14. rs \in Seq(Run) /\ Tiled(rs, low)
    <3>1. runs' \in Seq(Run)
      BY StackNext, <1>6 DEF SortInv, StackInv, Next
    <3> QED BY <1>3, <2>13, <3>1 DEF Steps
  <2>15. Laid(rs, w, low, i) /\ i \in 1 .. Len(rs) /\ rs[i] = e
    BY <1>1, <1>2, <2>2, <2>11, <2>12, <2>13, MergeLaid
  <2>16. Orders(w, rs[i].base, rs[i].base + rs[i].len, back)
    BY <2>8, <2>11, <2>15
  <2> QED BY <1>1, <1>2, <1>3, <1>4, <1>7, <2>13, <2>14, <2>15, <2>16, OrdersKeep
<1>8. CASE Collapse /\ CollapseAt # 0
  <2>1. CollapseAt \in 1 .. Len(runs) - 1
    BY <1>1, <1>8 DEF CollapseAt, RunInvariant
  <2> QED BY <1>7, <1>8, <2>1 DEF Collapse
<1>9. CASE FinalCollapse /\ FinalAt # 0
  <2>1. FinalAt \in 1 .. Len(runs) - 1
    BY <1>1, <1>9 DEF FinalAt
  <2>2. low = N
    BY <1>2, <1>9 DEF FinalCollapse
  <2> QED BY <1>7, <1>9, <2>1, <2>2 DEF FinalCollapse
<1> QED BY <1>5, <1>6, <1>8, <1>9

LEMMA MergingOrders ==
    ASSUME SortInv, ~input.wild, OrderIs(pc, runs, merge, w, low, start.at),
           Single \/ GallopA \/ GallopB
    PROVE  OrderIs(pc', runs', merge', w', low', start'.at)
<1>1. /\ input \in Inputs /\ N \in Nat /\ N <= MaxArray /\ Tiled(runs, low)
      /\ low \in Nat /\ low <= N /\ runs \in Seq(Run)
      /\ pc \in Merging /\ merge.back \in {"collapse", "final"}
  BY NIsSmall, MergingOnly DEF SortInv, StackInv
<1>2. merge.len["A"] > 0 /\ merge.len["B"] > 0
  BY <1>1 DEF SortInv, Apart
<1>3. RunsMerge(runs, merge, w, low) /\ (merge.back = "final" => low = N)
  BY <1>1 DEF OrderIs
<1>4. PICK q \in 1 .. Len(runs) :
         /\ Laid(runs, View(merge, w), low, q) /\ Untouched(View(merge, w), low)
         /\ Ordered(merge, w, runs[q].base, runs[q].base + runs[q].len)
  BY <1>3 DEF RunsMerge
<1>5. PICK s, e : s = runs[q].base /\ e = runs[q].base + runs[q].len
  OBVIOUS
<1>6. Orders(View(merge, w), s, e, merge.back)
  <2>1. Ordered(merge, w, s, e)
    BY <1>4, <1>5
  <2>2. CASE Single
    BY <1>1, <1>2, <2>1, <2>2, SingleOrders
  <2>3. CASE GallopA
    BY <1>1, <1>2, <2>1, <2>3, GallopAOrders
  <2>4. CASE GallopB
    BY <1>1, <1>2, <2>1, <2>4, GallopBOrders
  <2> QED BY <2>2, <2>3, <2>4
<1>7. low' = low /\ runs' = runs
  BY MergingOnly
<1>8. merge' # NoMerge => pc' \in Merging
  BY MergingSteps DEF Steps
<1>9. PICK u : u = View(merge, w)
  OBVIOUS
<1>10. Laid(runs, u, low, q) /\ Untouched(u, low) /\ Orders(u, runs[q].base, runs[q].base + runs[q].len, merge.back)
  BY <1>4, <1>5, <1>6, <1>9
<1> QED BY <1>1, <1>3, <1>7, <1>8, <1>10, OrdersKeep

\* The elements are in the order of the array before timsort() begins.
LEMMA InOrderRises ==
    ASSUME input \in Inputs, NEW v, v = [i \in 0 .. N - 1 |-> InOrder(i)]
    PROVE  Untouched(v, 0)
<1>1. Elements \subseteq Nat /\ IsFiniteSet(Elements) /\ N \in Nat
  BY ElementsAre
<1>2. \A i \in 0 .. N - 1 : v[i] \in Elements /\ v[i] \in Nat /\ Rank(v[i]) = i
  BY <1>1, InOrderIs
<1>3. ASSUME NEW d \in Elements, NEW e \in Elements, d <= e
      PROVE  Rank(d) <= Rank(e)
  <2>1. {x \in Elements : x < d} \subseteq {x \in Elements : x < e}
    <3>1. \A x \in Elements : x < d => x < e
      BY <1>1, <1>3
    <3> QED BY <3>1
  <2>2. IsFiniteSet({x \in Elements : x < e})
    <3>1. {x \in Elements : x < e} \in SUBSET Elements
      OBVIOUS
    <3> QED BY <1>1, <3>1, FS_Subset
  <2> QED BY <2>1, <2>2, FS_Subset DEF Rank
<1>4. ASSUME NEW i \in 0 .. N - 1, NEW j \in 0 .. N - 1, i < j
      PROVE  v[i] < v[j]
  <2>1. CASE v[j] <= v[i]
    <3>1. Rank(v[j]) <= Rank(v[i])
      BY <1>2, <1>3, <2>1
    <3> QED BY <1>2, <1>4, <3>1
  <2>2. CASE ~(v[j] <= v[i])
    BY <1>2, <2>2
  <2> QED BY <2>1, <2>2
<1> QED BY <1>4 DEF Untouched

LEMMA InitOrders == ASSUME Init PROVE OrderInv
<1>1. /\ input \in Inputs /\ w = [i \in 0 .. N - 1 |-> InOrder(i)] /\ low = 0 /\ runs = <<>>
      /\ pc = IF ~input.callable THEN "threw" ELSE IF N < 2 THEN "sorted" ELSE "run"
  BY DEF Init
<1>2. pc \in {"threw", "run", "sorted"} /\ (pc = "sorted" => N < 2)
  BY <1>1
<1>3. N \in Nat /\ Untouched(w, 0)
  BY <1>1, ElementsAre, InOrderRises
<1>4. RunsAre(runs, w, low)
  BY <1>1, <1>3 DEF RunsAre, Laid
<1>5. pc = "sorted" => Ascends(w, 0, N)
  BY <1>2, <1>3 DEF Ascends
<1>6. OrderIs(pc, runs, merge, w, low, start.at)
  BY <1>2, <1>4, <1>5 DEF OrderIs, Merging
<1> QED BY <1>2, <1>6 DEF OrderInv, SortedStably

\* What is written back is the sorted copy.
LEMMA FinishOrders ==
    ASSUME SortInv, ~input.wild, OrderIs(pc, runs, merge, w, low, start.at), Finish
    PROVE  SortedStably'
<1>1. input \in Inputs /\ pc = "sorted" /\ arr \in Seq(Int)
  BY DEF SortInv, StackInv, Finish
<1>2. Len(Items) \in Nat /\ N \in Nat /\ N <= Len(Items)
  BY <1>1, ElementsAre
<1>3. PICK work : work = [i \in 1 .. Len(Items) |-> IF i <= N THEN w[i - 1] ELSE Undef]
  OBVIOUS
<1>4. /\ arr' = IF input.copy THEN arr ELSE WriteBack(arr, work)
      /\ out' = IF input.copy THEN work ELSE arr'
  BY <1>3 DEF Finish
<1>5. \A i \in 1 .. N : work[i] = w[i - 1]
  BY <1>2, <1>3
<1>6. Len(work) = Len(Items)
  BY <1>2, <1>3
<1>7. \A i \in 1 .. N : out'[i] = w[i - 1]
  <2>1. CASE input.copy
    BY <1>4, <1>5, <2>1
  <2>2. CASE ~input.copy
    <3>1. PICK n : n = Max({Len(arr), Len(work)})
      OBVIOUS
    <3>2. n \in Nat /\ Len(work) <= n
      <4>1. Len(arr) \in Nat /\ Len(work) \in Nat
        BY <1>1, <1>2, <1>6
      <4>2. \E x \in {Len(arr), Len(work)} : \A y \in {Len(arr), Len(work)} : x >= y
        BY <4>1
      <4> QED BY <3>1, <4>1, <4>2 DEF Max
    <3>3. out' = [i \in 1 .. n |-> IF i <= Len(work) THEN work[i] ELSE arr[i]]
      BY <1>4, <2>2, <3>1 DEF WriteBack
    <3>4. \A i \in 1 .. N : out'[i] = work[i]
      BY <1>2, <1>6, <3>2, <3>3
    <3> QED BY <1>5, <3>4
  <2> QED BY <2>1, <2>2
<1>8. Ascends(w, 0, N)
  BY <1>1 DEF OrderIs
<1>9. ASSUME NEW i \in 2 .. N
      PROVE  Precedes(out'[i - 1], out'[i])
  <2>1. PICK x \in 0 .. N - 1, y \in 0 .. N - 1 : x = i - 2 /\ y = i - 1 /\ x < y /\ 0 <= x /\ y < N
    BY <1>2
  <2>2. PICK k \in 1 .. N : k = i - 1 /\ k - 1 = x
    BY <1>2, <2>1
  <2>3. i \in 1 .. N
    BY <1>2
  <2>4. out'[i - 1] = w[x] /\ out'[i] = w[y]
    BY <1>7, <2>1, <2>2, <2>3
  <2>5. Precedes(w[x], w[y])
    BY <1>8, <2>1 DEF Ascends
  <2> QED BY <2>4, <2>5
<1>10. Items' = Items /\ N' = N
  BY DEF Finish, Items, N, Elements
<1>11. \A i \in 2 .. N : Precedes(out[i - 1], out[i])'
  BY <1>9, <1>10 DEF Precedes
<1> QED BY <1>10, <1>11 DEF SortedStably

LEMMA OrderNext == ASSUME SortInv, OrderInv, [Next]_vars PROVE OrderInv'
<1>1. input' = input
  BY Zenon DEF Next, vars, MakeRun, Insert, Collapse, FinalCollapse, Single, GallopA, GallopB, Throw,
         Touch, Finish, Returned
<1>2. CASE input.wild
  BY <1>1, <1>2 DEF OrderInv, SortedStably
<1>3. CASE ~input.wild
  <2>1. OrderIs(pc, runs, merge, w, low, start.at)
    BY <1>3 DEF OrderInv
  <2>2. ASSUME OrderIs(pc', runs', merge', w', low', start'.at), pc' # "done"
        PROVE  OrderInv'
    <3>1. OrderIs(pc, runs, merge, w, low, start.at)'
      BY <1>1, <2>2, SameInput
    <3> QED BY <2>2, <3>1 DEF OrderInv, SortedStably
  <2>3. CASE MakeRun \/ Insert \/ Collapse \/ FinalCollapse \/ Single \/ GallopA \/ GallopB
    <3>1. OrderIs(pc', runs', merge', w', low', start'.at)
      BY <1>3, <2>1, <2>3, MakeRunOrders, InsertOrders, CollapseOrders, MergingOrders
    <3>2. pc' # "done"
      BY <2>3, MakeRunSteps, InsertSteps, CollapseSteps, MergingSteps DEF Steps, Merging
    <3> QED BY <2>2, <3>1, <3>2
  <2>4. CASE Throw
    BY <2>2, <2>4 DEF Throw, OrderIs, Merging
  <2>5. CASE Touch
    <3>1. pc' = pc /\ pc # "done" /\ UNCHANGED <<runs, merge, w, low, start>>
      BY <2>5 DEF Touch, Comparing
    <3> QED BY <2>1, <2>2, <3>1
  <2>6. CASE Finish
    <3>1. pc' = "done"
      BY <2>6 DEF Finish
    <3>2. OrderIs(pc', runs', merge', w', low', start'.at)
      BY <3>1 DEF OrderIs, Merging
    <3>3. OrderIs(pc, runs, merge, w, low, start.at)'
      BY <1>1, <3>2, SameInput
    <3>4. SortedStably'
      BY <1>3, <2>1, <2>6, FinishOrders
    <3> QED BY <3>3, <3>4 DEF OrderInv
  <2>7. CASE Returned \/ UNCHANGED vars
    <3>1. UNCHANGED <<pc, runs, merge, w, low, start, out>>
      BY <2>7 DEF Returned, vars
    <3>2. OrderIs(pc, runs, merge, w, low, start.at)'
      BY <1>1, <2>1, <3>1, SameInput
    <3>3. N' = N /\ Items' = Items
      BY <1>1 DEF N, Items, Elements
    <3>4. SortedStably'
      BY <1>1, <3>1, <3>3 DEF OrderInv, SortedStably, Precedes
    <3> QED BY <3>2, <3>4 DEF OrderInv
  <2> QED BY <2>3, <2>4, <2>5, <2>6, <2>7 DEF Next
<1> QED BY <1>2, <1>3

\* Everything the runs check of sort() and toSorted(), for every array up to MAX_ARRAY and
\* every minimal merge and gallop: when the comparison compares ranks, the result is sorted
\* and equals stay in order; whatever it does, nothing is lost, repeated or read out of
\* range, and the stack of runs falls (timsort() of src/payload/exec.rs).
THEOREM SortIsExactHolds == Spec => []SortIsExact
<1>1. Init => SortInv /\ OrderInv
  BY InitSorts, InitOrders
<1>2. SortInv /\ OrderInv /\ [Next]_vars => (SortInv /\ OrderInv)'
  BY SortNext, OrderNext
<1>3. SortInv /\ OrderInv => SortIsExact
  <2> SUFFICES ASSUME SortInv, OrderInv PROVE SortIsExact
    OBVIOUS
  <2>1. TypeOK /\ NothingLost /\ ResultIsComplete
    BY SortSafe
  <2>2. StackFalls
    BY StackFallsNow DEF SortInv
  <2> QED BY <2>1, <2>2 DEF OrderInv, SortIsExact
<1> QED BY <1>1, <1>2, <1>3, PTL DEF Spec

----------------------------------------------------------------------------
(* Less to do *)

\* The two parts of what is left to do: elements and runs outside, and the step under way.
Outside(top, n) == (N - top) * (N + 1) + n
Here(p, m, st) ==
    IF p \in Merging THEN 2 * N + 4 + LensOf(m)
    ELSE IF p = "collapse" THEN 2 * N + 4
    ELSE IF p \in {"run", "final"} THEN 2 * N + 3
    ELSE IF p = "insert" THEN 2 + st.high - st.at
    ELSE IF p = "sorted" THEN 1 ELSE 0

LEMMA SideIs == ASSUME NEW m, MergeState(m) PROVE m.side # "none"
  BY DEF MergeState

LEMMA LensOfIs ==
    ASSUME NEW m, NEW v, Good(m, v), N \in Nat
    PROVE  LensOf(m) \in Nat /\ LensOf(m) <= N
<1>1. m.len["A"] \in Nat /\ m.len["B"] \in Nat
  BY DEF Good, MergeState
<1>2. CASE m.side = "low"
  BY <1>1, <1>2 DEF Good, Left, LowLeft, LensOf
<1>3. CASE m.side # "low"
  BY <1>1, <1>3, SMTT(20) DEF Good, Left, HighLeft, LensOf
<1> QED BY <1>2, <1>3

LEMMA ToDoIs ==
    SortInv => /\ ToDo = Outside(low, Len(runs)) * (4 * N + 5) + Here(pc, merge, start)
               /\ Here(pc, merge, start) \in 0 .. 4 * N + 4
<1> SUFFICES ASSUME SortInv
             PROVE  /\ ToDo = Outside(low, Len(runs)) * (4 * N + 5) + Here(pc, merge, start)
                    /\ Here(pc, merge, start) \in 0 .. 4 * N + 4
  OBVIOUS
<1>1. /\ N \in Nat
      /\ pc \in {"run", "insert", "collapse", "final", "sorted", "done", "threw"} \cup Merging
  BY NIsSmall DEF SortInv, StackInv
<1>2. PICK out1 : out1 = Outside(low, Len(runs))
  OBVIOUS
<1>3. CASE pc \in Merging
  <2>1. Good(merge, w)
    BY <1>3 DEF SortInv, Apart
  <2>2. merge.side # "none" /\ LensOf(merge) \in Nat /\ LensOf(merge) <= N
    BY <1>1, <2>1, LensOfIs, SideIs DEF Good
  <2>3. pc # "threw"
    BY <1>3 DEF Merging
  <2>4. ToDo = out1 * (4 * N + 5) + (2 * N + 4 + merge.len["A"] + merge.len["B"])
    BY <1>2, <1>3, <2>2, <2>3 DEF ToDo, Outside, Merging
  <2>5. Here(pc, merge, start) = 2 * N + 4 + LensOf(merge)
    BY <1>3 DEF Here
  <2>6. merge.len["A"] \in Nat /\ merge.len["B"] \in Nat
    BY <2>1 DEF Good, MergeState
  <2> QED BY <1>1, <1>2, <2>2, <2>4, <2>5, <2>6, SMTT(20) DEF LensOf
<1>4. CASE pc \notin Merging /\ pc # "threw"
  <2>1. merge.side = "none"
    BY <1>1, <1>4 DEF SortInv, NoMerge
  <2>2. pc = "insert" => start.high - start.at \in 0 .. N
    BY <1>1 DEF SortInv, StackInv
  <2>3. CASE pc \in {"run", "final"}
    BY <1>1, <1>2, <1>4, <2>1, <2>3 DEF ToDo, Outside, Here, Merging
  <2>4. CASE pc = "collapse"
    BY <1>1, <1>2, <1>4, <2>1, <2>4 DEF ToDo, Outside, Here, Merging
  <2>5. CASE pc = "insert"
    BY <1>1, <1>2, <1>4, <2>1, <2>2, <2>5 DEF ToDo, Outside, Here, Merging
  <2>6. CASE pc = "sorted"
    BY <1>1, <1>2, <1>4, <2>1, <2>6 DEF ToDo, Outside, Here, Merging
  <2>7. CASE pc = "done"
    BY <1>1, <1>2, <1>4, <2>1, <2>7 DEF ToDo, Outside, Here, Merging
  <2> QED BY <1>1, <1>4, <2>3, <2>4, <2>5, <2>6, <2>7
<1>5. CASE pc = "threw"
  BY <1>1, <1>2, <1>5 DEF ToDo, Outside, Here, Merging
<1> QED BY <1>3, <1>4, <1>5

\* Whatever happens to the step under way, one less outside is less.
LEMMA LessOutside ==
    ASSUME NEW a \in Int, NEW b \in Int, NEW n \in Nat, NEW h \in 0 .. 4 * n + 4,
           NEW k \in 0 .. 4 * n + 4, b < a
    PROVE  b * (4 * n + 5) + k < a * (4 * n + 5) + h
<1>1. PICK d \in Nat, c \in Nat : d = a - b - 1 /\ c = 4 * n + 5
  BY DEF Nat
<1>2. a * c = b * c + d * c + c
  <2>1. a = b + d + 1
    BY <1>1
  <2>2. (b + d + 1) * c = b * c + d * c + c
    BY <1>1
  <2> QED BY <2>1, <2>2
<1>3. d * c \in Nat /\ b * c \in Int
  BY <1>1
<1>4. k < c /\ h >= 0
  BY <1>1
<1>5. PICK x \in Int, y \in Nat : x = b * c /\ y = d * c
  BY <1>3
<1>6. b * c + k < a * c + h
  BY <1>1, <1>2, <1>4, <1>5
<1> QED BY <1>1, <1>6

\* A run more on the stack for an element less in the rest.
LEMMA PushedLess ==
    ASSUME N \in Nat, NEW top \in Nat, NEW next \in Nat, top < next, next <= N, NEW n \in Nat
    PROVE  Outside(next, n + 1) < Outside(top, n)
<1>1. PICK x \in Nat, d \in Nat : x = N - next /\ d = next - top - 1
  OBVIOUS
<1>2. PICK c \in Nat : c = N + 1 /\ c > 1
  OBVIOUS
<1>3. N - top = x + d + 1
  BY <1>1
<1>4. (x + d + 1) * c = x * c + d * c + c
  BY <1>1, <1>2
<1>5. d * c \in Nat /\ x * c \in Nat
  BY <1>1, <1>2
<1>6. PICK y \in Nat, z \in Nat : y = x * c /\ z = d * c
  BY <1>5
<1>7. Outside(next, n + 1) = y + n + 1
  BY <1>1, <1>2, <1>6 DEF Outside
<1>8. Outside(top, n) = y + z + c + n
  BY <1>2, <1>3, <1>4, <1>6 DEF Outside
<1> QED BY <1>2, <1>6, <1>7, <1>8

LEMMA LessToDo ==
    ASSUME SortInv, SortInv', input' = input,
           \/ Outside(low', Len(runs')) < Outside(low, Len(runs))
           \/ /\ low' = low /\ runs' = runs
              /\ Here(pc', merge', start') < Here(pc, merge, start)
    PROVE  ToDo' < ToDo
<1>1. /\ N \in Nat /\ low \in Nat /\ Len(runs) \in Nat
      /\ low' \in Nat /\ Len(runs') \in Nat
  BY NIsSmall DEF SortInv, StackInv
<1>2. N' = N
  BY DEF N, Elements, Items
<1>3. /\ ToDo = Outside(low, Len(runs)) * (4 * N + 5) + Here(pc, merge, start)
      /\ Here(pc, merge, start) \in 0 .. 4 * N + 4
  BY ToDoIs
<1>4. /\ ToDo' = Outside(low', Len(runs')) * (4 * N + 5) + Here(pc', merge', start')
      /\ Here(pc', merge', start') \in 0 .. 4 * N + 4
  <2>1. /\ (ToDo = Outside(low, Len(runs)) * (4 * N + 5) + Here(pc, merge, start))'
        /\ (Here(pc, merge, start) \in 0 .. 4 * N + 4)'
    BY ToDoIs, PTL
  <2>2. (Outside(low, Len(runs)))' = Outside(low', Len(runs'))
    BY <1>2 DEF Outside
  <2>3. (Here(pc, merge, start))' = Here(pc', merge', start')
    BY <1>2 DEF Here
  <2> QED BY <1>2, <2>1, <2>2, <2>3
<1>5. /\ Outside(low, Len(runs)) \in Int /\ Outside(low', Len(runs')) \in Int
  <2>1. (N - low) * (N + 1) \in Int /\ (N - low') * (N + 1) \in Int
    BY <1>1
  <2> QED BY <1>1, <2>1 DEF Outside
<1>6. PICK h \in 0 .. 4 * N + 4, k \in 0 .. 4 * N + 4 :
         h = Here(pc, merge, start) /\ k = Here(pc', merge', start')
  BY <1>3, <1>4
<1>7. PICK a \in Int, b \in Int : a = Outside(low, Len(runs)) /\ b = Outside(low', Len(runs'))
  BY <1>5
<1>8. CASE b < a
  <2>1. b * (4 * N + 5) + k < a * (4 * N + 5) + h
    BY <1>1, <1>8, LessOutside
  <2> QED BY <1>3, <1>4, <1>6, <1>7, <2>1
<1>9. CASE ~(b < a)
  <2>1. a = b /\ k < h
    BY <1>6, <1>7, <1>9
  <2>2. a * (4 * N + 5) \in Int
    BY <1>1
  <2>3. PICK x \in Int : x = a * (4 * N + 5)
    BY <2>2
  <2>4. ToDo = x + h /\ ToDo' = x + k
    BY <1>3, <1>4, <1>6, <1>7, <2>1, <2>3
  <2> QED BY <2>1, <2>3, <2>4
<1> QED BY <1>8, <1>9

LEMMA PushCloser ==
    ASSUME SortInv, SortInv', input' = input, NEW len \in Nat, len > 0, PushRun(len)
    PROVE  ToDo' < ToDo
<1>1. N \in Nat /\ low \in Nat /\ runs \in Seq(Run)
  BY NIsSmall DEF SortInv, StackInv
<1>2. low' \in Nat /\ low' <= N
  <2>1. N' = N
    BY DEF N, Elements, Items
  <2> QED BY <2>1 DEF SortInv, StackInv
<1>3. low' = low + len /\ Len(runs') = Len(runs) + 1 /\ Len(runs) \in Nat
  BY <1>1 DEF PushRun
<1>4. Outside(low', Len(runs')) < Outside(low, Len(runs))
  BY <1>1, <1>2, <1>3, PushedLess
<1> QED BY <1>4, LessToDo

LEMMA MakeRunCloser == ASSUME SortInv, SortInv', MakeRun PROVE ToDo' < ToDo
<1>1. /\ input \in Inputs /\ N \in Nat /\ pc = "run" /\ low \in Nat /\ low < N
  BY NIsSmall DEF SortInv, StackInv, MakeRun
<1>2. PICK less, run :
         /\ run = IF low + 1 = N THEN 1 ELSE RunLength(less)
         /\ \/ pc' = "insert" /\ UNCHANGED <<low, runs>>
            \/ PushRun(run)
  BY DEF MakeRun
<1>3. input' = input
  BY DEF MakeRun
<1>4. run \in Nat /\ run > 0
  BY <1>1, <1>2, RunLengthIs
<1>5. CASE pc' = "insert" /\ UNCHANGED <<low, runs>>
  <2>1. N' = N
    BY <1>3 DEF N, Elements, Items
  <2>2. PICK at \in Nat, high \in Nat :
           at = start'.at /\ high = start'.high /\ low' < at /\ at < high /\ high <= N
    BY <1>5, <2>1 DEF SortInv, StackInv
  <2>3. Here(pc', merge', start') = 2 + high - at
    BY <1>5, <2>2 DEF Here, Merging
  <2>4. Here(pc, merge, start) = 2 * N + 3
    BY <1>1 DEF Here, Merging
  <2>5. 2 + high - at < 2 * N + 3
    BY <1>1, <2>2
  <2> QED BY <1>3, <1>5, <2>3, <2>4, <2>5, LessToDo
<1>6. CASE PushRun(run)
  BY <1>3, <1>4, <1>6, PushCloser
<1> QED BY <1>2, <1>5, <1>6

LEMMA InsertCloser == ASSUME SortInv, SortInv', Insert PROVE ToDo' < ToDo
<1>1. pc = "insert" /\ low \in Nat
  BY DEF SortInv, StackInv, Insert
<1>2. PICK at \in Nat, high \in Nat : /\ at = start.at /\ high = start.high
                                      /\ start = [at |-> at, high |-> high]
                                      /\ low < at /\ at < high
  BY <1>1 DEF SortInv, StackInv
<1>3. /\ input' = input
      /\ \/ PushRun(high - low)
         \/ start' = [start EXCEPT !.at = @ + 1] /\ UNCHANGED <<pc, low, runs>>
  BY <1>2 DEF Insert
<1>4. CASE PushRun(high - low)
  <2>1. high - low \in Nat /\ high - low > 0
    BY <1>1, <1>2
  <2> QED BY <1>3, <1>4, <2>1, PushCloser
<1>5. CASE start' = [start EXCEPT !.at = @ + 1] /\ UNCHANGED <<pc, low, runs>>
  <2>1. start'.at = at + 1 /\ start'.high = high
    BY <1>2, <1>5
  <2>2. Here(pc', merge', start') = 2 + high - (at + 1) /\ Here(pc, merge, start) = 2 + high - at
    BY <1>1, <1>2, <1>5, <2>1 DEF Here, Merging
  <2>3. 2 + high - (at + 1) < 2 + high - at
    BY <1>2
  <2> QED BY <1>3, <1>5, <2>2, <2>3, LessToDo
<1> QED BY <1>3, <1>4, <1>5

LEMMA CollapseCloser == ASSUME SortInv, SortInv', Collapse \/ FinalCollapse PROVE ToDo' < ToDo
<1>1. /\ N \in Nat /\ N <= MaxArray /\ low \in Nat /\ low <= N /\ runs \in Seq(Run)
      /\ merge = NoMerge /\ Complete(w) /\ Tiled(runs, low) /\ minGallop \in Nat \ {0}
  BY NIsSmall, NoMergeComplete DEF SortInv, StackInv, Collapse, FinalCollapse, Merging
<1>2. input' = input /\ low' = low
  BY DEF Collapse, FinalCollapse
<1>3. ASSUME NEW i \in 1 .. Len(runs) - 1, NEW back, i >= Len(runs) - 2, MergeAt(i, back)
      PROVE  ToDo' < ToDo
  <2>1. Len(runs') = Len(runs) - 1 /\ Len(runs) \in Nat
    BY <1>1, <1>3, MergeAtMerges
  <2>2. (N - low) * (N + 1) \in Int
    BY <1>1
  <2>3. Outside(low', Len(runs')) < Outside(low, Len(runs))
    BY <1>2, <2>1, <2>2 DEF Outside
  <2> QED BY <1>2, <2>3, LessToDo
<1>4. CASE Collapse /\ CollapseAt # 0
  <2>1. CollapseAt \in 1 .. Len(runs) - 1 /\ CollapseAt >= Len(runs) - 2
    BY <1>1, <1>4 DEF CollapseAt, RunInvariant
  <2> QED BY <1>3, <1>4, <2>1 DEF Collapse
<1>5. CASE FinalCollapse /\ FinalAt # 0
  <2>1. FinalAt \in 1 .. Len(runs) - 1 /\ FinalAt >= Len(runs) - 2
    BY <1>1, <1>5 DEF FinalAt
  <2> QED BY <1>3, <1>5, <2>1 DEF FinalCollapse
<1>6. CASE Collapse /\ CollapseAt = 0
  <2>1. pc = "collapse" /\ pc' \in {"final", "run"} /\ runs' = runs
    BY <1>6 DEF Collapse
  <2>2. Here(pc', merge', start') < Here(pc, merge, start)
    BY <1>1, <2>1 DEF Here, Merging
  <2> QED BY <1>2, <2>1, <2>2, LessToDo
<1>7. CASE FinalCollapse /\ FinalAt = 0
  <2>1. pc = "final" /\ pc' = "sorted" /\ runs' = runs
    BY <1>7 DEF FinalCollapse
  <2>2. Here(pc', merge', start') < Here(pc, merge, start)
    BY <1>1, <2>1 DEF Here, Merging
  <2> QED BY <1>2, <2>1, <2>2, LessToDo
<1> QED BY <1>4, <1>5, <1>6, <1>7

LEMMA MergingCloser ==
    ASSUME SortInv, SortInv', Single \/ GallopA \/ GallopB
    PROVE  ToDo' < ToDo
<1>1. pc \in Merging /\ UNCHANGED <<input, low, runs>>
  BY MergingOnly
<1>2. /\ N \in Nat /\ N <= MaxArray /\ minGallop \in Nat \ {0}
      /\ merge.back \in {"collapse", "final"}
  BY <1>1, NIsSmall DEF SortInv, StackInv
<1>3. Good(merge, w) /\ merge.len["A"] > 0 /\ merge.len["B"] > 0
  BY <1>1 DEF SortInv, Apart
<1>4. Merges(merge.back, LensOf(merge))
  BY <1>2, <1>3, SingleMerges, GallopAMerges, GallopBMerges
<1>5. LensOf(merge) \in Nat
  BY <1>2, <1>3, LensOfIs
<1>6. LensOf(merge) > 0
  <2>1. merge.len["A"] \in Nat /\ merge.len["B"] \in Nat
    BY <1>3 DEF Good, MergeState
  <2> QED BY <1>3, <2>1 DEF LensOf
<1>7. Here(pc, merge, start) = 2 * N + 4 + LensOf(merge)
  BY <1>1 DEF Here
<1>8. CASE pc' = merge.back
  <2>1. Here(pc', merge', start') \in {2 * N + 4, 2 * N + 3}
    BY <1>2, <1>8 DEF Here, Merging
  <2>2. Here(pc', merge', start') < Here(pc, merge, start)
    BY <1>2, <1>5, <1>6, <1>7, <2>1
  <2> QED BY <1>1, <2>2, LessToDo
<1>9. CASE pc' \in Merging /\ merge' # NoMerge /\ LensOf(merge') < LensOf(merge)
  <2>1. Here(pc', merge', start') = 2 * N + 4 + LensOf(merge')
    BY <1>9 DEF Here
  <2>2. LensOf(merge') \in Nat
    <3>1. merge'.len["A"] \in Nat /\ merge'.len["B"] \in Nat
      BY <1>4, <1>9 DEF Merges, Apart, Good, MergeState
    <3> QED BY <3>1 DEF LensOf
  <2>3. Here(pc', merge', start') < Here(pc, merge, start)
    BY <1>2, <1>5, <1>7, <1>9, <2>1, <2>2
  <2> QED BY <1>1, <2>3, LessToDo
<1> QED BY <1>4, <1>8, <1>9 DEF Merges

LEMMA NextCloser == ASSUME SortInv, SortInv', Next PROVE touches' # touches \/ ToDo' < ToDo \/ UNCHANGED vars
<1>1. CASE MakeRun \/ Insert \/ Collapse \/ FinalCollapse \/ Single \/ GallopA \/ GallopB
  BY <1>1, MakeRunCloser, InsertCloser, CollapseCloser, MergingCloser
<1>2. CASE Throw \/ Finish
  <2>1. /\ input' = input /\ low' = low /\ runs' = runs
        /\ pc' \in {"threw", "done"}
    BY <1>2 DEF Throw, Finish
  <2>2. pc \notin {"threw", "done"}
    BY <1>2 DEF Throw, Finish, Comparing
  <2>3. Here(pc', merge', start') = 0
    BY <2>1 DEF Here, Merging
  <2>4. Here(pc, merge, start) > 0
    <3>1. N \in Nat
      BY NIsSmall DEF SortInv, StackInv
    <3>2. CASE pc \in Merging
      <4>1. Good(merge, w)
        BY <3>2 DEF SortInv, Apart
      <4>2. LensOf(merge) \in Nat
        BY <3>1, <4>1, LensOfIs
      <4> QED BY <3>1, <3>2, <4>2 DEF Here
    <3>3. CASE pc = "insert"
      <4>1. start.at \in Nat /\ start.high \in Nat /\ start.at < start.high
        BY <3>3 DEF SortInv, StackInv
      <4> QED BY <3>3, <4>1 DEF Here, Merging
    <3>4. CASE pc \in {"run", "collapse", "final", "sorted"}
      BY <3>1, <3>4 DEF Here, Merging
    <3> QED BY <2>2, <3>2, <3>3, <3>4 DEF SortInv
  <2> QED BY <2>1, <2>3, <2>4, LessToDo
<1>3. CASE Touch
  <2>1. touches \in Nat /\ touches' = touches + 1
    BY <1>3, BoundsAssumption DEF Touch, SortInv
  <2> QED BY <2>1
<1>4. CASE Returned
  BY <1>4 DEF Returned
<1> QED BY <1>1, <1>2, <1>3, <1>4 DEF Next

\* Every step of sort() leaves less to do, comparisons that change the array's length apart
\* (the bound of the runs counts those), so it ends whatever the comparison answers: no
\* run is looked for twice and no gallop that finds nothing repeats (timsort(), merge_low()
\* and merge_high() of src/payload/exec.rs).
THEOREM AlwaysCloserHolds == Spec => AlwaysCloser
<1>1. Init => SortInv
  BY InitSorts
<1>2. SortInv /\ [Next]_vars => SortInv'
  BY SortNext
<1>3. SortInv /\ SortInv' /\ [Next]_vars => [touches' # touches \/ ToDo' < ToDo]_vars
  BY NextCloser
<1> QED BY <1>1, <1>2, <1>3, PTL DEF Spec, AlwaysCloser
=============================================================================
