---------------------------- MODULE DevirtProofs ----------------------------
(***************************************************************************)
(* Proofs about Devirt, for any program, machine and bounds: the shards    *)
(* partition the functions, the rounds find all there is to find, and an   *)
(* error names the first worker that panicked.                             *)
(*                                                                         *)
(* The rounds lean on one fact, Recent: whatever the summaries from before *)
(* the last round are enough for has one already.  So a function that is   *)
(* to get one now has use for a summary of the last round, refers to it,   *)
(* and is tried.                                                           *)
(***************************************************************************)
EXTENDS Devirt, FiniteSetTheorems, WellFoundedInduction, TLAPS

\* A set of naturals that is not empty has a least element.
LEMMA LeastNumber ==
    ASSUME NEW T, T \subseteq Nat, T # {}
    PROVE  \E x \in T : \A y \in T : x <= y
<1>1. PICK x \in T : \A y \in T : ~(y < x)
  <2>1. IsWellFoundedOn(OpToRel(<, Nat), Nat)
    BY NatLessThanWellFounded
  <2>2. \E x \in T : \A y \in T : <<y, x>> \notin OpToRel(<, Nat)
    BY <2>1, WFMin, Zenon
  <2> QED BY <2>2, Zenon DEF OpToRel
<1> QED BY <1>1

----------------------------------------------------------------------------
(* Sums.  The order in which the sizes are added up makes no difference. *)

One(s) == CHOOSE x \in s : TRUE

\* f[s] is the sum over s, for the sets of functions s in D.
Sums(D, f) == f = [s \in D |-> IF s = {} THEN 0 ELSE prog.size[One(s)] + f[s \ {One(s)}]]

Sized == N \in Nat /\ prog.size \in [Funcs -> Nat]

UpTo(n) == {s \in SUBSET Funcs : Cardinality(s) <= n}

LEMMA SubsetsShrink ==
    ASSUME Sized, NEW s \in SUBSET Funcs
    PROVE  /\ IsFiniteSet(s) /\ Cardinality(s) \in Nat
           /\ s = {} <=> Cardinality(s) = 0
           /\ \A x \in s : s \ {x} \in SUBSET Funcs /\ Cardinality(s \ {x}) = Cardinality(s) - 1
           /\ s # {} => One(s) \in s
<1>1. IsFiniteSet(Funcs)
  BY FS_Interval DEF Sized, Funcs
<1>2. IsFiniteSet(s)
  BY <1>1, FS_Subset
<1>3. \A x \in s : Cardinality(s \ {x}) = Cardinality(s) - 1
  BY <1>2, FS_RemoveElement
<1>4. Cardinality(s) \in Nat /\ (s = {} <=> Cardinality(s) = 0)
  BY <1>2, FS_CardinalityType, FS_EmptySet
<1>5. s # {} => One(s) \in s
  BY DEF One
<1> QED BY <1>2, <1>3, <1>4, <1>5

LEMMA SomethingSums ==
    ASSUME Sized, NEW n \in Nat
    PROVE  \E f : Sums(UpTo(n), f)
<1> DEFINE T == {l \in Nat : ~ \E f : Sums(UpTo(l), f)}
<1>1. CASE T = {}
  BY <1>1
<1>2. CASE T # {}
  <2>1. PICK l \in T : \A m \in T : l <= m
    BY <1>2, LeastNumber
  <2>2. CASE l = 0
    <3>1. \A s \in UpTo(0) : s = {}
      BY SubsetsShrink DEF UpTo
    <3>2. PICK f : f = [s \in UpTo(0) |-> 0]
      OBVIOUS
    <3>3. f = [s \in UpTo(0) |-> IF s = {} THEN 0 ELSE prog.size[One(s)] + f[s \ {One(s)}]]
      BY <3>1, <3>2
    <3>4. Sums(UpTo(l), f)
      BY <2>2, <3>3 DEF Sums
    <3> QED BY <2>1, <3>4
  <2>3. CASE l # 0
    <3>1. l \in Nat /\ l - 1 \in Nat /\ l - 1 \notin T
      BY <2>1, <2>3
    <3>2. PICK g : Sums(UpTo(l - 1), g)
      BY <3>1
    <3>3. PICK f : f = [s \in UpTo(l) |->
                           IF s = {} THEN 0 ELSE prog.size[One(s)] + g[s \ {One(s)}]]
      OBVIOUS
    <3>4. \A s \in UpTo(l - 1) :
             g[s] = IF s = {} THEN 0 ELSE prog.size[One(s)] + g[s \ {One(s)}]
      BY <3>2 DEF Sums
    <3>5. ASSUME NEW s \in UpTo(l), s # {} PROVE s \ {One(s)} \in UpTo(l - 1)
      <4>1. s \in SUBSET Funcs /\ Cardinality(s) <= l
        BY DEF UpTo
      <4>2. s \ {One(s)} \in SUBSET Funcs /\ Cardinality(s \ {One(s)}) = Cardinality(s) - 1
            /\ Cardinality(s) \in Nat
        BY <3>5, <4>1, SubsetsShrink
      <4> QED BY <3>1, <4>1, <4>2 DEF UpTo
    <3>6. ASSUME NEW t \in UpTo(l - 1) PROVE f[t] = g[t]
      <4>1. t \in UpTo(l)
        <5>1. t \in SUBSET Funcs /\ Cardinality(t) <= l - 1 /\ Cardinality(t) \in Nat
          BY SubsetsShrink DEF UpTo
        <5> QED BY <3>1, <5>1 DEF UpTo
      <4> QED BY <3>3, <3>4, <4>1
    <3>7. f = [s \in UpTo(l) |-> IF s = {} THEN 0 ELSE prog.size[One(s)] + f[s \ {One(s)}]]
      BY <3>3, <3>5, <3>6
    <3>8. Sums(UpTo(l), f)
      BY <3>7 DEF Sums
    <3> QED BY <2>1, <3>8
  <2> QED BY <2>2, <2>3
<1> QED BY <1>1, <1>2

\* SizeOf() unfolds.
LEMMA SizeOfIs ==
    ASSUME Sized
    PROVE  \E g : /\ \A s \in SUBSET Funcs : SizeOf(s) = g[s]
                  /\ g[{}] = 0
                  /\ \A s \in SUBSET Funcs : s # {} => g[s] = prog.size[One(s)] + g[s \ {One(s)}]
<1>1. PICK g : Sums(UpTo(N), g)
  BY SomethingSums DEF Sized
<1>2. ASSUME NEW s \in SUBSET Funcs PROVE s \in UpTo(N)
  <2>1. Cardinality(Funcs) = N /\ IsFiniteSet(Funcs)
    BY FS_Interval DEF Sized, Funcs
  <2>2. Cardinality(s) <= N
    BY <2>1, FS_Subset
  <2> QED BY <2>2 DEF UpTo
<1>3. \A s \in SUBSET Funcs : g[s] = IF s = {} THEN 0 ELSE prog.size[One(s)] + g[s \ {One(s)}]
  BY <1>1, <1>2 DEF Sums
<1>4. ASSUME NEW s \in SUBSET Funcs PROVE SizeOf(s) = g[s]
  <2>1. PICK f : f = CHOOSE h : Sums(SUBSET s, h)
    OBVIOUS
  <2>2. SizeOf(s) = f[s]
    BY <2>1 DEF SizeOf, MapThenSumSet, MapThenFoldSet, Sums, One
  <2>3. \E h : Sums(SUBSET s, h)
    <3>1. PICK h : h = [t \in SUBSET s |-> g[t]]
      OBVIOUS
    <3>2. ASSUME NEW t \in SUBSET s
          PROVE  h[t] = IF t = {} THEN 0 ELSE prog.size[One(t)] + h[t \ {One(t)}]
      <4>1. t \in SUBSET Funcs /\ t \ {One(t)} \in SUBSET s
        OBVIOUS
      <4> QED BY <1>3, <3>1, <4>1
    <3>3. h = [t \in SUBSET s |-> h[t]]
      BY <3>1
    <3>4. h = [t \in SUBSET s |-> IF t = {} THEN 0 ELSE prog.size[One(t)] + h[t \ {One(t)}]]
      BY <3>2, <3>3
    <3>5. Sums(SUBSET s, h)
      BY <3>4 DEF Sums
    <3> QED BY <3>5
  <2>4. Sums(SUBSET s, f)
    BY <2>1, <2>3
  <2>5. \A t \in SUBSET s : f[t] = IF t = {} THEN 0 ELSE prog.size[One(t)] + f[t \ {One(t)}]
    BY <2>4 DEF Sums
  <2> DEFINE T == {n \in Nat : \E t \in SUBSET s : Cardinality(t) = n /\ f[t] # g[t]}
  <2>6. CASE T = {}
    <3>1. s \in SUBSET s /\ Cardinality(s) \in Nat
      BY SubsetsShrink
    <3> QED BY <2>2, <2>6, <3>1
  <2>7. CASE T # {}
    <3>1. PICK n \in T : \A m \in T : n <= m
      BY <2>7, LeastNumber
    <3>2. PICK t \in SUBSET s : Cardinality(t) = n /\ f[t] # g[t]
      BY <3>1
    <3>3. t # {} /\ t \in SUBSET Funcs
      BY <1>3, <2>5, <3>2
    <3>4. t \ {One(t)} \in SUBSET s /\ Cardinality(t \ {One(t)}) = n - 1 /\ n - 1 \in Nat
      <4>1. One(t) \in t /\ Cardinality(t \ {One(t)}) = Cardinality(t) - 1
            /\ Cardinality(t \ {One(t)}) \in Nat
        BY <3>3, SubsetsShrink
      <4> QED BY <3>2, <4>1
    <3>5. n - 1 \notin T
      BY <3>1, <3>4
    <3>6. f[t \ {One(t)}] = g[t \ {One(t)}]
      BY <3>4, <3>5
    <3> QED BY <1>3, <2>5, <3>2, <3>3, <3>6
  <2> QED BY <2>6, <2>7
<1>5. g[{}] = 0 /\ \A s \in SUBSET Funcs : s # {} => g[s] = prog.size[One(s)] + g[s \ {One(s)}]
  BY <1>3
<1> QED BY <1>4, <1>5

\* A set of functions is as large as any one of them and the others.
LEMMA SizeOfAdds ==
    ASSUME Sized
    PROVE  /\ SizeOf({}) = 0
           /\ \A s \in SUBSET Funcs :
                 /\ SizeOf(s) \in Nat
                 /\ \A x \in s : SizeOf(s) = prog.size[x] + SizeOf(s \ {x})
<1>1. PICK g : /\ \A s \in SUBSET Funcs : SizeOf(s) = g[s]
               /\ g[{}] = 0
               /\ \A s \in SUBSET Funcs : s # {} => g[s] = prog.size[One(s)] + g[s \ {One(s)}]
  BY SizeOfIs
<1>2. \A x \in Funcs : prog.size[x] \in Nat
  BY DEF Sized
<1> DEFINE Adds(s) == g[s] \in Nat /\ \A x \in s : g[s] = prog.size[x] + g[s \ {x}]
           T == {n \in Nat : \E s \in SUBSET Funcs : Cardinality(s) = n /\ ~Adds(s)}
<1>3. CASE T = {}
  <2>1. \A s \in SUBSET Funcs : Cardinality(s) \in Nat
    BY SubsetsShrink
  <2>2. \A s \in SUBSET Funcs : Adds(s)
    BY <1>3, <2>1
  <2> QED BY <1>1, <2>2
<1>4. CASE T # {}
  <2>1. PICK n \in T : \A m \in T : n <= m
    BY <1>4, LeastNumber
  <2>2. PICK s \in SUBSET Funcs : Cardinality(s) = n /\ ~Adds(s)
    BY <2>1
  <2>3. s # {}
    BY <1>1, <2>2
  <2>4. \A x \in s : s \ {x} \in SUBSET Funcs /\ Cardinality(s \ {x}) = n - 1 /\ n - 1 \in Nat
    BY <2>2, SubsetsShrink
  <2>5. n - 1 \notin T
    BY <2>1, <2>3, <2>4
  <2>6. \A x \in s : Adds(s \ {x})
    BY <2>4, <2>5
  <2>7. PICK y \in s : y = One(s)
    BY <2>3, SubsetsShrink
  <2>8. g[s] = prog.size[y] + g[s \ {y}]
    BY <1>1, <2>3, <2>7
  <2>9. g[s] \in Nat
    BY <1>2, <2>6, <2>8
  <2>10. ASSUME NEW x \in s PROVE g[s] = prog.size[x] + g[s \ {x}]
    <3>1. CASE x = y
      BY <2>8, <3>1
    <3>2. CASE x # y
      <4>1. x \in s \ {y} /\ y \in s \ {x}
        BY <3>2
      <4>2. g[s \ {y}] = prog.size[x] + g[(s \ {y}) \ {x}]
        BY <2>6, <4>1
      <4>3. g[s \ {x}] = prog.size[y] + g[(s \ {x}) \ {y}]
        BY <2>6, <4>1
      <4>4. (s \ {y}) \ {x} = (s \ {x}) \ {y}
        OBVIOUS
      <4>5. PICK r : r = (s \ {x}) \ {y}
        OBVIOUS
      <4>6. g[r] \in Nat
        <5>1. r \in SUBSET Funcs /\ Cardinality(r) \in Nat
          BY <4>5, SubsetsShrink
        <5>2. g[s \ {y}] \in Nat /\ g[s \ {y}] = prog.size[x] + g[r]
          BY <2>6, <4>2, <4>4, <4>5
        <5>3. Cardinality(r) = n - 2
          <6>1. s \ {x} \in SUBSET Funcs /\ Cardinality(s \ {x}) = n - 1
            BY <2>4
          <6>2. Cardinality((s \ {x}) \ {y}) = (n - 1) - 1
            BY <4>1, <6>1, SubsetsShrink
          <6> QED BY <2>1, <4>5, <6>2
        <5>4. Cardinality(r) \notin T
          BY <2>1, <5>1, <5>3
        <5> QED BY <5>1, <5>4
      <4> QED BY <1>2, <2>8, <4>2, <4>3, <4>4, <4>5, <4>6
    <3> QED BY <3>1, <3>2
  <2> QED BY <2>2, <2>9, <2>10
<1> QED BY <1>3, <1>4

SumOver(size, fs) ==
    (CHOOSE f : f = [s \in SUBSET fs |->
                       IF s = {} THEN 0 ELSE size[One(s)] + f[s \ {One(s)}]])[fs]

\* As long as the program stays, so do the sizes.
LEMMA SizesStay ==
    ASSUME prog' = prog, NEW fs
    PROVE  SizeOf(fs)' = SizeOf(fs)
<1>1. SizeOf(fs) = SumOver(prog.size, fs)
  BY DEF SizeOf, MapThenSumSet, MapThenFoldSet, SumOver, One
<1>2. SizeOf(fs)' = SumOver(prog'.size, fs)
  BY DEF SizeOf, MapThenSumSet, MapThenFoldSet, SumOver, One
<1> QED BY <1>1, <1>2

----------------------------------------------------------------------------
(* The cut *)

Legal == SizesAssumption /\ ProgramsAssumption

ProgInv ==
    /\ Legal /\ Sized
    /\ prog.refs \in [Funcs -> SUBSET Funcs]
    /\ \A f \in Funcs : prog.enough[f] \subseteq SUBSET prog.refs[f]
    /\ cores \in Nat \ {0}

LEMMA ShardsFew == ASSUME ProgInv PROVE Shards \in 1 .. MaxShards
<1>1. SizeOf(Funcs) \in Nat
  BY SizeOfAdds DEF ProgInv
<1>2. PICK x : x = SizeOf(Funcs) \div MinShard
  OBVIOUS
<1>3. x \in Nat
  BY <1>1, <1>2 DEF ProgInv, Legal, SizesAssumption
<1> QED BY <1>2, <1>3 DEF ProgInv, Legal, SizesAssumption, Shards, Least, Most

IsSeq(s) == \E S : s \in Seq(S)

\* What Append() adds comes last, and nothing else changes.
LEMMA Appended ==
    ASSUME NEW s, IsSeq(s), NEW e
    PROVE  /\ IsSeq(Append(s, e)) /\ Len(s) \in Nat
           /\ Len(Append(s, e)) = Len(s) + 1
           /\ \A p \in 1 .. Len(s) : Append(s, e)[p] = s[p]
           /\ Append(s, e)[Len(s) + 1] = e
<1>1. PICK S : s \in Seq(S)
  BY DEF IsSeq
<1>2. s \in Seq(S \cup {e})
  BY <1>1
<1>3. Append(s, e) \in Seq(S \cup {e})
  BY <1>2
<1>4. IsSeq(Append(s, e))
  BY <1>3 DEF IsSeq
<1> QED BY <1>2, <1>4

\* The functions up to n are in one shard each, and shards have no others.
CutTo(n) ==
    /\ \A s \in 1 .. Len(cuts) : /\ ShardOf(s) \subseteq 1 .. n
                                 /\ cuts[s][3] = SizeOf(ShardOf(s))
    /\ \A f \in 1 .. n : \E s \in 1 .. Len(cuts) :
          f \in ShardOf(s) /\ \A t \in 1 .. Len(cuts) : f \in ShardOf(t) => t = s

CutInv ==
    /\ IsSeq(cuts)
    /\ phase = "cutting" => /\ i \in 0 .. N /\ start \in 0 .. i
                            /\ acc = SizeOf(start + 1 .. i)
                            /\ Len(cuts) < Shards /\ CutTo(start)
    /\ phase # "cutting" => Len(cuts) \in 1 .. Shards /\ CutTo(N)

\* One shard more, from where the last one ended to m.
LEMMA OneMoreCut ==
    ASSUME ProgInv, IsSeq(cuts), NEW m \in Nat, start \in 0 .. m, CutTo(start), prog' = prog,
           cuts' = Append(cuts, <<start + 1, m, SizeOf(start + 1 .. m)>>)
    PROVE  IsSeq(cuts') /\ Len(cuts') = Len(cuts) + 1 /\ CutTo(m)'
<1>1. PICK z \in Nat : z = Len(cuts)
  BY Appended
<1>2. PICK c : c = <<start + 1, m, SizeOf(start + 1 .. m)>>
  OBVIOUS
<1>3. c[1] = start + 1 /\ c[2] = m /\ c[3] = SizeOf(start + 1 .. m)
  BY <1>2
<1>4. cuts' = Append(cuts, c)
  BY <1>2
<1>5. /\ IsSeq(cuts') /\ Len(cuts') = z + 1
      /\ \A s \in 1 .. z : cuts'[s] = cuts[s]
      /\ cuts'[z + 1] = c
  <2>1. /\ IsSeq(Append(cuts, c)) /\ Len(Append(cuts, c)) = z + 1
        /\ \A s \in 1 .. z : Append(cuts, c)[s] = cuts[s]
        /\ Append(cuts, c)[z + 1] = c
    BY <1>1, Appended
  <2> QED BY <1>4, <2>1
<1>6. \A s \in 1 .. z : ShardOf(s)' = ShardOf(s)
  BY <1>5 DEF ShardOf
<1>7. ShardOf(z + 1)' = start + 1 .. m
  BY <1>3, <1>5 DEF ShardOf
<1>8. \A fs : SizeOf(fs)' = SizeOf(fs)
  BY SizesStay
<1>9. \A s \in 1 .. z + 1 : s \in 1 .. z \/ s = z + 1
  BY <1>1
<1>10. ASSUME NEW s \in 1 .. z + 1
       PROVE  ShardOf(s)' \subseteq 1 .. m /\ cuts'[s][3] = SizeOf(ShardOf(s)')
  <2>1. CASE s \in 1 .. z
    <3>1. ShardOf(s) \subseteq 1 .. start /\ cuts[s][3] = SizeOf(ShardOf(s))
      BY <1>1, <2>1 DEF CutTo
    <3> QED BY <1>5, <1>6, <2>1, <3>1
  <2>2. CASE s = z + 1
    BY <1>3, <1>5, <1>7, <2>2
  <2> QED BY <1>9, <2>1, <2>2
<1>11. ASSUME NEW f \in 1 .. m
       PROVE  \E s \in 1 .. z + 1 :
                 f \in ShardOf(s)' /\ \A t \in 1 .. z + 1 : f \in ShardOf(t)' => t = s
  <2>1. CASE f <= start
    <3>1. PICK s \in 1 .. z : f \in ShardOf(s) /\ \A t \in 1 .. z : f \in ShardOf(t) => t = s
      BY <1>1, <2>1 DEF CutTo
    <3>2. f \notin ShardOf(z + 1)'
      BY <1>7, <2>1
    <3> QED BY <1>6, <1>9, <3>1, <3>2
  <2>2. CASE ~(f <= start)
    <3>1. \A t \in 1 .. z : f \notin ShardOf(t)
      BY <1>1, <2>2 DEF CutTo
    <3>2. f \in ShardOf(z + 1)'
      BY <1>7, <2>2
    <3> QED BY <1>6, <1>9, <3>1, <3>2
  <2> QED BY <2>1, <2>2
<1>12. CutTo(m)'
  BY <1>5, <1>8, <1>10, <1>11 DEF CutTo
<1> QED BY <1>1, <1>5, <1>12

LEMMA CutIdle ==
    ASSUME CutInv, UNCHANGED <<prog, cores, cutting>>,
           (phase # "cutting" /\ phase' # "cutting") \/ phase' = phase
    PROVE  CutInv'
<1>1. Shards' = Shards /\ \A fs : SizeOf(fs)' = SizeOf(fs)
  BY SizesStay DEF Shards
<1>2. \A s : ShardOf(s)' = ShardOf(s)
  BY DEF ShardOf, cutting
<1>3. /\ CutTo(start) => CutTo(start)'
      /\ CutTo(N) => CutTo(N)'
  BY <1>1, <1>2 DEF CutTo, cutting
<1> QED BY <1>1, <1>3 DEF CutInv, cutting

LEMMA CutStep ==
    ASSUME ProgInv, CutInv, Measure \/ LastCut
    PROVE  CutInv'
<1>0. Shards' = Shards /\ \A fs : SizeOf(fs)' = SizeOf(fs)
  BY SizesStay DEF Measure, LastCut, input, Shards
<1>1. /\ phase = "cutting" /\ prog' = prog /\ i \in 0 .. N /\ start \in 0 .. i
      /\ acc = SizeOf(start + 1 .. i) /\ Len(cuts) < Shards /\ CutTo(start) /\ IsSeq(cuts)
      /\ Len(cuts) \in Nat /\ N \in Nat
  BY Appended DEF CutInv, Measure, LastCut, input, ProgInv, Sized
<1>2. CASE Measure
  <2> DEFINE a == acc + prog.size[i + 1]
  <2>1. i < N /\ i' = i + 1 /\ i + 1 \in 1 .. N /\ phase' = phase
    BY <1>1, <1>2 DEF Measure
  <2>2. a = SizeOf(start + 1 .. i + 1)
    <3>1. start + 1 .. i + 1 \in SUBSET Funcs /\ i + 1 \in start + 1 .. i + 1
          /\ (start + 1 .. i + 1) \ {i + 1} = start + 1 .. i
      BY <1>1, <2>1 DEF Funcs
    <3>2. SizeOf(start + 1 .. i + 1) = prog.size[i + 1] + SizeOf(start + 1 .. i)
      BY <3>1, SizeOfAdds DEF ProgInv
    <3>3. prog.size[i + 1] \in Nat /\ SizeOf(start + 1 .. i) \in Nat
      <4>1. start + 1 .. i \in SUBSET Funcs
        BY <1>1 DEF Funcs
      <4> QED BY <2>1, <4>1, SizeOfAdds DEF ProgInv, Sized, Funcs
    <3> QED BY <1>1, <3>2, <3>3
  <2>3. CASE /\ Len(cuts) + 1 < Shards
             /\ cuts' = Append(cuts, <<start + 1, i + 1, a>>) /\ start' = i + 1 /\ acc' = 0
    <3>1. IsSeq(cuts') /\ Len(cuts') = Len(cuts) + 1 /\ CutTo(start)'
      <4>1. PICK m \in Nat : m = start'
        BY <1>1, <2>1, <2>3
      <4>2. start \in 0 .. m /\ cuts' = Append(cuts, <<start + 1, m, SizeOf(start + 1 .. m)>>)
        BY <1>1, <2>1, <2>2, <2>3, <4>1
      <4>3. IsSeq(cuts') /\ Len(cuts') = Len(cuts) + 1 /\ CutTo(m)'
        BY <1>1, <4>2, OneMoreCut
      <4> QED BY <4>1, <4>3 DEF CutTo
    <3>2. i' + 1 .. i' = {} /\ SizeOf({}) = 0
      BY <1>1, <2>1, SizeOfAdds DEF ProgInv
    <3>3. acc' = SizeOf(start' + 1 .. i')
      BY <2>1, <2>3, <3>2
    <3>4. i' \in 0 .. N /\ start' \in 0 .. i' /\ Len(cuts') < Shards'
      BY <1>0, <1>1, <2>1, <2>3, <3>1
    <3> QED BY <1>0, <1>1, <2>1, <3>1, <3>3, <3>4 DEF CutInv
  <2>4. CASE acc' = a /\ UNCHANGED <<cuts, start>>
    <3>1. CutTo(start)'
      BY <1>0, <1>1, <2>4 DEF CutTo, ShardOf
    <3> QED BY <1>0, <1>1, <2>1, <2>2, <2>4, <3>1 DEF CutInv
  <2> QED BY <1>2, <2>3, <2>4 DEF Measure
<1>3. CASE LastCut
  <2>1. i = N /\ cuts' = Append(cuts, <<start + 1, N, acc>>) /\ phase' = "shards"
    BY <1>3 DEF LastCut
  <2>2. IsSeq(cuts') /\ Len(cuts') = Len(cuts) + 1 /\ CutTo(N)'
    BY <1>1, <2>1, OneMoreCut
  <2>3. Len(cuts') \in 1 .. Shards
    BY <1>1, <2>2, ShardsFew
  <2> QED BY <1>0, <2>1, <2>2, <2>3 DEF CutInv
<1> QED BY <1>2, <1>3

LEMMA CutsArePartition ==
    ASSUME ProgInv, CutInv
    PROVE  CutsPartition
<1> SUFFICES ASSUME phase # "cutting" PROVE CutsPartition
  BY DEF CutsPartition
<1>1. Len(cuts) \in 1 .. Shards /\ CutTo(N)
  BY DEF CutInv
<1>2. ASSUME NEW f \in Funcs PROVE Cardinality({s \in 1 .. Len(cuts) : f \in ShardOf(s)}) = 1
  <2>1. PICK s \in 1 .. Len(cuts) :
                f \in ShardOf(s) /\ \A t \in 1 .. Len(cuts) : f \in ShardOf(t) => t = s
    BY <1>1 DEF CutTo, Funcs
  <2>2. {t \in 1 .. Len(cuts) : f \in ShardOf(t)} = {s}
    BY <2>1
  <2>3. Cardinality({s}) = 1
    BY FS_Singleton
  <2> QED BY <2>2, <2>3
<1>3. \A s \in 1 .. Len(cuts) : cuts[s][3] = SizeOf(ShardOf(s))
  BY <1>1 DEF CutTo
<1> QED BY <1>1, <1>2, <1>3 DEF CutsPartition

----------------------------------------------------------------------------
(* What trying every function again would give *)

\* g is what each of the rounds in D gives.
Levels(D, g) ==
    g = [n \in D |-> IF n = 0 THEN {f \in Funcs : Summarised(f, {})}
                     ELSE g[n - 1] \cup {f \in Funcs : Summarised(f, g[n - 1])}]

LEMMA SomethingLevels == ASSUME NEW n \in Nat PROVE \E g : Levels(0 .. n, g)
<1> DEFINE T == {l \in Nat : ~ \E g : Levels(0 .. l, g)}
<1>1. CASE T = {}
  BY <1>1
<1>2. CASE T # {}
  <2>1. PICK l \in T : \A m \in T : l <= m
    BY <1>2, LeastNumber
  <2>2. CASE l = 0
    <3>1. PICK g : g = [m \in 0 .. 0 |-> {f \in Funcs : Summarised(f, {})}]
      OBVIOUS
    <3>2. Levels(0 .. l, g)
      BY <2>2, <3>1 DEF Levels
    <3> QED BY <2>1, <3>2
  <2>3. CASE l # 0
    <3>1. l \in Nat /\ l - 1 \in Nat /\ l - 1 \notin T
      BY <2>1, <2>3
    <3>2. PICK g : Levels(0 .. l - 1, g)
      BY <3>1
    <3> DEFINE Next1(h, m) == IF m = 0 THEN {f \in Funcs : Summarised(f, {})}
                              ELSE h[m - 1] \cup {f \in Funcs : Summarised(f, h[m - 1])}
    <3>3. \A m \in 0 .. l - 1 : g[m] = Next1(g, m)
      BY <3>2 DEF Levels
    <3> HIDE DEF Next1
    <3>4. PICK h : h = [m \in 0 .. l |-> Next1(g, m)]
      OBVIOUS
    <3>5. \A m \in 0 .. l - 1 : h[m] = g[m]
      BY <3>1, <3>3, <3>4
    <3>6. ASSUME NEW m \in 0 .. l PROVE Next1(g, m) = Next1(h, m)
      <4>1. CASE m = 0
        BY <4>1 DEF Next1
      <4>2. CASE m # 0
        <5>1. h[m - 1] = g[m - 1]
          BY <3>1, <3>5, <4>2
        <5> QED BY <5>1 DEF Next1
      <4> QED BY <4>1, <4>2
    <3>7. h = [m \in 0 .. l |-> Next1(h, m)]
      BY <3>4, <3>6
    <3>8. Levels(0 .. l, h)
      BY <3>7 DEF Levels, Next1
    <3> QED BY <2>1, <3>8
  <2> QED BY <2>2, <2>3
<1> QED BY <1>1, <1>2

\* Naive unfolds.
LEMMA NaiveIs ==
    ASSUME ProgInv
    PROVE  /\ Naive[0] = {f \in Funcs : Summarised(f, {})}
           /\ \A n \in 1 .. Rounds :
                 Naive[n] = Naive[n - 1] \cup {f \in Funcs : Summarised(f, Naive[n - 1])}
<1>1. Rounds \in Nat
  BY DEF ProgInv, Legal, SizesAssumption
<1>2. PICK g : g = CHOOSE h : Levels(0 .. Rounds, h)
  OBVIOUS
<1>3. Naive = g
  BY <1>2 DEF Naive, Levels
<1>4. Levels(0 .. Rounds, g)
  BY <1>1, <1>2, SomethingLevels
<1>5. \A n \in 0 .. Rounds :
         g[n] = IF n = 0 THEN {f \in Funcs : Summarised(f, {})}
                ELSE g[n - 1] \cup {f \in Funcs : Summarised(f, g[n - 1])}
  BY <1>4 DEF Levels
<1>6. g[0] = {f \in Funcs : Summarised(f, {})}
  <2>1. 0 \in 0 .. Rounds
    BY <1>1
  <2> QED BY <1>5, <2>1, Zenon
<1>7. ASSUME NEW n \in 1 .. Rounds
      PROVE  g[n] = g[n - 1] \cup {f \in Funcs : Summarised(f, g[n - 1])}
  <2>1. n \in 0 .. Rounds /\ n # 0
    BY <1>1
  <2> QED BY <1>5, <2>1, Zenon
<1> QED BY <1>3, <1>6, <1>7, Zenon

NaiveOf(enough) ==
    CHOOSE g : g = [n \in 0 .. Rounds |->
       IF n = 0 THEN {f \in Funcs : \E e \in enough[f] : e \subseteq {}}
       ELSE g[n - 1] \cup {f \in Funcs : \E e \in enough[f] : e \subseteq g[n - 1]}]

\* As long as the program stays, so does what there is to find.
LEMMA NaiveStays == ASSUME prog' = prog PROVE Naive' = Naive
<1>1. Naive = NaiveOf(prog.enough)
  BY DEF Naive, NaiveOf, Summarised
<1>2. Naive' = NaiveOf(prog'.enough)
  BY DEF Naive, NaiveOf, Summarised
<1> QED BY <1>1, <1>2

Closed == \A f \in Funcs : Summarised(f, sums) => f \in sums

\* Once a round gives nothing new, no later one does.
LEMMA ClosedStays ==
    ASSUME ProgInv, Closed, NEW r \in 0 .. Rounds, sums = Naive[r]
    PROVE  sums = Naive[Rounds]
<1>1. Rounds \in Nat
  BY DEF ProgInv, Legal, SizesAssumption
<1> DEFINE T == {n \in Nat : r <= n /\ n <= Rounds /\ Naive[n] # sums}
<1>2. CASE T = {}
  BY <1>1, <1>2
<1>3. CASE T # {}
  <2>1. PICK n \in T : \A m \in T : n <= m
    BY <1>3, LeastNumber
  <2>2. n # r /\ n - 1 \in Nat /\ n - 1 \notin T /\ n \in 1 .. Rounds
    BY <1>1, <2>1
  <2>3. Naive[n - 1] = sums
    BY <1>1, <2>1, <2>2
  <2>4. Naive[n] = sums \cup {f \in Funcs : Summarised(f, sums)}
    BY <2>2, <2>3, NaiveIs
  <2>5. {f \in Funcs : Summarised(f, sums)} \subseteq sums
    BY DEF Closed
  <2> QED BY <2>1, <2>4, <2>5
<1> QED BY <1>2, <1>3

----------------------------------------------------------------------------
(* The rounds *)

\* What the summaries before those of the last round are enough for is known.
Recent == fresh \subseteq sums /\ \A f \in Funcs : Summarised(f, sums \ fresh) => f \in sums

\* The functions that another round would add.
New == {f \in Funcs \ sums : Summarised(f, sums)}

\* Whoever is to be added refers to something of the last round.
LEMMA NewAreWanted ==
    ASSUME ProgInv, Recent, sums \subseteq Funcs, NEW f \in New
    PROVE  Wants(f)
<1>1. PICK e \in prog.enough[f] : e \subseteq sums
  BY DEF New, Summarised
<1>2. f \in Funcs /\ f \notin sums
  BY DEF New
<1>3. ~(e \subseteq sums \ fresh)
  BY <1>1, <1>2 DEF Recent, Summarised
<1>4. e \subseteq prog.refs[f]
  BY <1>1, <1>2 DEF ProgInv
<1> QED BY <1>1, <1>3, <1>4 DEF Wants

WorkInv ==
    /\ phase = "cutting" => \A s \in Ids : found[s] = {}
    /\ phase \in {"shards", "recheck"} => \A s \in Ids :
          /\ run[s] \in {"none", "ready", "done", "panicked"}
          /\ run[s] = "none" <=> s > Len(cuts)
          /\ found[s] = IF run[s] = "done" THEN Found(s) ELSE {}
    /\ phase \in {"round", "inline", "ok"} => \A s \in Ids : run[s] # "panicked"

SumsInv ==
    /\ sums \subseteq Funcs
    /\ round \in 0 .. Rounds
    /\ phase \in {"cutting", "shards"} => sums = {} /\ round = 0
    /\ phase \in {"round", "inline", "recheck"} => Recent
    /\ phase \in {"round", "ok"} => sums = Naive[round]
    /\ phase \in {"inline", "recheck"} => round # 0 /\ sums = Naive[round - 1]
    /\ phase = "ok" /\ round < Rounds => Closed

ErrorInv ==
    phase = "error" => /\ failed \in Ids /\ run[failed] = "panicked"
                       /\ \A s \in Ids : s < failed => run[s] = "done"

DInv ==
    /\ ProgInv /\ CutInv /\ WorkInv /\ SumsInv /\ ErrorInv
    /\ phase \in Phases
    /\ run \in [Ids -> {"none", "ready", "done", "panicked"}]
    /\ found \in [Ids -> SUBSET Funcs]

\* What the workers found, once they have all ended, is what there was to find.
LEMMA AllFound ==
    ASSUME DInv, phase \in {"shards", "recheck"}, Panicked = {}, \A s \in Ids : run[s] # "ready"
    PROVE  UNION {found[s] : s \in Ids} =
              IF phase = "shards" THEN {f \in Funcs : Summarised(f, {})} ELSE New
<1>1. PICK U : U = UNION {found[s] : s \in Ids}
  OBVIOUS
<1>2. PICK W : W = IF phase = "shards" THEN {f \in Funcs : Summarised(f, {})} ELSE New
  OBVIOUS
<1>3. /\ Len(cuts) \in 1 .. Shards /\ CutTo(N) /\ Shards \in 1 .. MaxShards /\ ProgInv
      /\ Recent \/ phase = "shards"
      /\ sums \subseteq Funcs
  BY ShardsFew DEF DInv, CutInv, SumsInv
<1>4. \A s \in Ids : /\ run[s] = "none" <=> s > Len(cuts)
                     /\ run[s] \in {"none", "done"}
                     /\ found[s] = IF run[s] = "done" THEN Found(s) ELSE {}
  BY DEF DInv, WorkInv, Panicked
<1>5. ASSUME NEW f \in U PROVE f \in W
  <2>1. PICK s \in Ids : f \in found[s]
    BY <1>1
  <2>2. f \in Found(s) /\ s \in 1 .. Len(cuts)
    BY <1>3, <1>4, <2>1 DEF Ids, MaxIds
  <2>3. ShardOf(s) \subseteq Funcs
    BY <1>3, <2>2 DEF CutTo, Funcs
  <2> QED BY <1>2, <2>2, <2>3 DEF Found, Rechecked, New
<1>6. ASSUME NEW f \in W PROVE f \in U
  <2>1. f \in Funcs
    BY <1>2 DEF New
  <2>2. PICK s \in 1 .. Len(cuts) : f \in ShardOf(s)
    BY <1>3, <2>1 DEF CutTo, Funcs
  <2>3. s \in Ids /\ found[s] = Found(s)
    <3>1. s \in Ids /\ ~(s > Len(cuts))
      BY <1>3 DEF Ids, MaxIds, ProgInv, Legal, SizesAssumption
    <3> QED BY <1>4, <3>1
  <2>4. f \in Found(s)
    BY <1>2, <1>3, <2>2, NewAreWanted DEF Found, Rechecked, New
  <2> QED BY <1>1, <2>3, <2>4
<1>7. U = W
  BY <1>5, <1>6
<1> QED BY <1>1, <1>2, <1>7

LEMMA ProgramStays == ASSUME ProgInv, UNCHANGED input PROVE ProgInv' /\ Naive' = Naive
  BY NaiveStays DEF ProgInv, Sized, input

LEMMA DInvHolds == ASSUME SizesAssumption, ProgramsAssumption, Init PROVE DInv
<1>1. ProgInv
  BY DEF Init, ProgInv, Legal, Sized, SizesAssumption, ProgramsAssumption
<1>2. phase = "cutting" /\ i = 0 /\ start = 0 /\ acc = 0 /\ cuts = <<>> /\ sums = {} /\ round = 0
  BY DEF Init
<1>3. CutInv
  <2>1. SizeOf(1 .. 0) = 0
    <3>1. 1 .. 0 = {}
      OBVIOUS
    <3> QED BY <1>1, <3>1, SizeOfAdds DEF ProgInv
  <2>2. IsSeq(cuts) /\ Len(cuts) = 0
    <3>1. cuts \in Seq({}) /\ Len(cuts) = 0
      BY <1>2
    <3> QED BY <3>1 DEF IsSeq
  <2>3. CutTo(start)
    BY <1>2, <2>2 DEF CutTo
  <2>4. Shards \in Nat \ {0} /\ N \in Nat
    BY <1>1, ShardsFew DEF ProgInv, Sized
  <2> QED BY <1>2, <2>1, <2>2, <2>3, <2>4 DEF CutInv
<1>4. WorkInv /\ ErrorInv /\ SumsInv
  BY <1>1, <1>2 DEF Init, WorkInv, ErrorInv, SumsInv, ProgInv, Legal, SizesAssumption
<1>5. phase \in Phases /\ run \in [Ids -> {"none", "ready", "done", "panicked"}]
      /\ found \in [Ids -> SUBSET Funcs]
  BY DEF Init, Phases
<1> QED BY <1>1, <1>3, <1>4, <1>5 DEF DInv

\* Cutting: nothing is found yet.
LEMMA CuttingKeeps ==
    ASSUME DInv, Measure \/ LastCut
    PROVE  DInv'
<1>1. phase = "cutting" /\ UNCHANGED <<found, sums, fresh, round, failed>> /\ UNCHANGED input
  BY DEF Measure, LastCut
<1>2. ProgInv' /\ CutInv'
  BY <1>1, CutStep, ProgramStays DEF DInv
<1>3. CASE Measure
  BY <1>1, <1>2, <1>3 DEF Measure, DInv, WorkInv, SumsInv, ErrorInv
<1>4. CASE LastCut
  <2>1. phase' = "shards"
        /\ run' = [s \in Ids |-> IF s <= Len(cuts) + 1 THEN "ready" ELSE "none"]
    BY <1>4 DEF LastCut
  <2>2. Len(cuts') = Len(cuts) + 1 /\ Len(cuts) \in Nat
    <3>1. IsSeq(cuts) /\ cuts' = Append(cuts, <<start + 1, N, acc>>)
      BY <1>4 DEF LastCut, DInv, CutInv
    <3> QED BY <3>1, Appended
  <2>3. WorkInv'
    <3>1. \A s \in Ids : s \in Nat
      BY DEF Ids
    <3>2. \A s \in Ids : found'[s] = {}
      BY <1>1 DEF DInv, WorkInv
    <3>3. \A s \in Ids : /\ run'[s] \in {"none", "ready"}
                         /\ run'[s] = "none" <=> s > Len(cuts')
      BY <2>1, <2>2, <3>1
    <3> QED BY <2>1, <3>2, <3>3 DEF WorkInv
  <2> QED BY <1>1, <1>2, <2>1, <2>3 DEF DInv, SumsInv, ErrorInv, Phases
<1> QED BY <1>3, <1>4

\* What stays when the summaries do.
LEMMA SameSums ==
    ASSUME UNCHANGED <<input, sums, fresh>>
    PROVE  Recent' = Recent /\ Closed' = Closed /\ Pending' = Pending
  BY DEF Recent, Closed, Pending, Wants, Summarised, input

\* A worker of a phase ends, or panics.
LEMMA WorkerKeeps ==
    ASSUME DInv, NEW w \in Ids, Work(w) \/ Panic(w)
    PROVE  DInv'
<1>1. /\ phase \in {"shards", "recheck"} /\ run[w] = "ready"
      /\ UNCHANGED <<cutting, phase, sums, fresh, round, failed>> /\ UNCHANGED input
      /\ \/ run' = [run EXCEPT ![w] = "done"] /\ found' = [found EXCEPT ![w] = Found(w)]
         \/ run' = [run EXCEPT ![w] = "panicked"] /\ found' = found
  BY DEF Work, Panic
<1>2. ProgInv' /\ Naive' = Naive /\ CutInv' /\ Recent' = Recent /\ Closed' = Closed
  BY <1>1, ProgramStays, CutIdle, SameSums DEF DInv, input
<1>3. \A s \in Ids : Found(s)' = Found(s)
  BY <1>1 DEF Found, Rechecked, ShardOf, Wants, Summarised, input, cutting
<1>4. Found(w) \subseteq Funcs
  <2>1. w \in 1 .. Len(cuts)
    BY <1>1 DEF DInv, WorkInv, CutInv, Ids
  <2> QED BY <1>1, <2>1 DEF DInv, CutInv, CutTo, Found, Rechecked, Funcs
<1>5. /\ run' \in [Ids -> {"none", "ready", "done", "panicked"}]
      /\ found' \in [Ids -> SUBSET Funcs]
  BY <1>1, <1>4 DEF DInv
<1>6. WorkInv'
  <2>1. cuts' = cuts /\ phase' = phase
    BY <1>1 DEF cutting
  <2>2. ASSUME NEW s \in Ids
        PROVE  /\ run'[s] = "none" <=> s > Len(cuts)
               /\ found'[s] = IF run'[s] = "done" THEN Found(s) ELSE {}
    BY <1>1 DEF DInv, WorkInv
  <2> QED BY <1>1, <1>3, <1>5, <2>1, <2>2 DEF WorkInv
<1>7. SumsInv' /\ ErrorInv'
  BY <1>1, <1>2 DEF DInv, SumsInv, ErrorInv
<1> QED BY <1>1, <1>2, <1>5, <1>6, <1>7 DEF DInv

\* One round more, whether side by side or inline.
LEMMA OneMoreRound ==
    ASSUME ProgInv, prog' = prog, round \in 0 .. Rounds, round # 0, sums = Naive[round - 1],
           sums \subseteq Funcs, fresh' = New, sums' = sums \cup New
    PROVE  Recent' /\ sums' = Naive[round]
<1>1. Naive[round] = Naive[round - 1] \cup {f \in Funcs : Summarised(f, Naive[round - 1])}
  <2>1. round \in 1 .. Rounds
    BY DEF ProgInv, Legal, SizesAssumption
  <2> QED BY <2>1, NaiveIs
<1>2. sums' = Naive[round]
  <2>1. PICK W : W = {f \in Funcs : Summarised(f, sums)}
    OBVIOUS
  <2>2. Naive[round] = sums \cup W
    BY <1>1, <2>1
  <2>3. sums \cup New = sums \cup W
    BY <2>1 DEF New
  <2> QED BY <2>2, <2>3
<1>3. sums' \ fresh' = sums /\ fresh' \subseteq sums'
  BY DEF New
<1>4. \A f \in Funcs : (\E e \in prog.enough[f] : e \subseteq sums) => f \in sums \cup New
  BY DEF New, Summarised
<1>5. Recent'
  BY <1>3, <1>4 DEF Recent, Summarised
<1> QED BY <1>2, <1>5

\* The least of some numbers, as CHOOSE gives it.
LEMMA LeastChosen ==
    ASSUME NEW T, T \subseteq Nat, T # {}, NEW x, x = CHOOSE s \in T : \A t \in T : s <= t
    PROVE  x \in T /\ \A t \in T : x <= t
  BY LeastNumber

\* All the workers have ended: what they found joins the summaries.
LEMMA JoinKeeps == ASSUME DInv, Join PROVE DInv'
<1>1. /\ phase \in {"shards", "recheck"} /\ \A s \in Ids : run[s] # "ready"
      /\ UNCHANGED <<cutting, run, found, round>> /\ UNCHANGED input
      /\ phase' \in {"error", "round"}
  BY DEF Join, Gather
<1>2. ProgInv' /\ Naive' = Naive /\ CutInv' /\ ProgInv
  BY <1>1, ProgramStays, CutIdle DEF DInv, input
<1>3. CASE Panicked # {}
  <2>1. /\ phase' = "error" /\ failed' = CHOOSE s \in Panicked : \A t \in Panicked : s <= t
        /\ UNCHANGED <<sums, fresh>>
    BY <1>1, <1>3 DEF Join, Gather
  <2>2. failed' \in Panicked /\ \A t \in Panicked : failed' <= t
    <3>1. Panicked \subseteq Nat
      BY DEF Panicked, Ids
    <3> QED BY <1>3, <2>1, <3>1, LeastChosen
  <2>3. ASSUME NEW s \in Ids, s < failed' PROVE run[s] = "done"
    <3>1. run[s] # "panicked"
      BY <2>2, <2>3 DEF Panicked, Ids
    <3>2. ~(failed' > Len(cuts))
      BY <1>1, <2>2 DEF DInv, WorkInv, Panicked
    <3>3. ~(s > Len(cuts))
      BY <2>2, <2>3, <3>2 DEF Panicked, Ids, DInv, CutInv
    <3> QED BY <1>1, <3>1, <3>3 DEF DInv, WorkInv
  <2>4. ErrorInv'
    BY <1>1, <2>2, <2>3 DEF ErrorInv, Panicked
  <2> QED BY <1>1, <1>2, <2>1, <2>4 DEF DInv, WorkInv, SumsInv, Phases
<1>4. CASE Panicked = {}
  <2>1. PICK U : U = UNION {found[s] : s \in Ids}
    OBVIOUS
  <2>2. phase' = "round" /\ fresh' = U \ sums /\ sums' = sums \cup U /\ failed' = failed
    BY <1>1, <1>4, <2>1 DEF Join, Gather
  <2>3. U = IF phase = "shards" THEN {f \in Funcs : Summarised(f, {})} ELSE New
    <3>1. UNION {found[s] : s \in Ids} =
             IF phase = "shards" THEN {f \in Funcs : Summarised(f, {})} ELSE New
      BY <1>1, <1>4, AllFound, Zenon
    <3> QED BY <2>1, <3>1, Zenon
  <2>4. sums \subseteq Funcs /\ round \in 0 .. Rounds
    BY DEF DInv, SumsInv
  <2>5. CASE phase = "shards"
    <3>1. sums = {} /\ round = 0
      BY <2>5 DEF DInv, SumsInv
    <3>2. sums' = U /\ fresh' = U /\ U = {f \in Funcs : Summarised(f, {})}
      BY <2>2, <2>3, <2>5, <3>1
    <3>3. Naive[0] = U
      BY <1>2, <3>2, NaiveIs
    <3>4. Recent'
      <4>1. sums' \ fresh' = {}
        BY <3>2
      <4>2. \A f \in Funcs : Summarised(f, {}) => f \in U
        BY <3>2
      <4>3. \A f \in Funcs : (\E e \in prog.enough[f] : e \subseteq {}) => f \in U
        BY <4>2 DEF Summarised
      <4> QED BY <1>1, <3>2, <4>1, <4>3 DEF Recent, Summarised, input
    <3>5. SumsInv'
      <4>1. sums' \subseteq Funcs
        BY <3>2
      <4> QED BY <1>1, <1>2, <2>2, <2>4, <3>1, <3>2, <3>3, <3>4, <4>1 DEF SumsInv
    <3> QED BY <1>1, <1>2, <1>4, <2>2, <3>5 DEF DInv, WorkInv, ErrorInv, Phases, Panicked
  <2>6. CASE phase = "recheck"
    <3>1. round # 0 /\ sums = Naive[round - 1]
      BY <2>6 DEF DInv, SumsInv
    <3>2. U = New /\ New \subseteq Funcs /\ New \cap sums = {}
      BY <2>3, <2>6 DEF New
    <3>3. fresh' = New /\ sums' = sums \cup New
      BY <2>2, <3>2
    <3>4. Recent' /\ sums' = Naive[round]
      <4>1. prog' = prog
        BY <1>1 DEF input
      <4> QED BY <1>2, <2>4, <3>1, <3>3, <4>1, OneMoreRound
    <3>5. SumsInv'
      <4>1. sums' \subseteq Funcs
        BY <2>4, <3>2, <3>3
      <4> QED BY <1>1, <1>2, <2>2, <2>4, <3>4, <4>1 DEF SumsInv
    <3> QED BY <1>1, <1>2, <1>4, <2>2, <3>5 DEF DInv, WorkInv, ErrorInv, Phases, Panicked
  <2> QED BY <1>1, <2>5, <2>6
<1> QED BY <1>3, <1>4

\* The rounds end.
LEMMA ReturnKeeps == ASSUME DInv, Return PROVE DInv'
<1>1. phase = "round" /\ phase' = "ok" /\ Over
      /\ UNCHANGED <<sums, fresh, round, failed, found, run>>
      /\ UNCHANGED input /\ UNCHANGED cutting
  BY DEF Return
<1>2. ProgInv' /\ Naive' = Naive /\ CutInv' /\ Closed' = Closed
  BY <1>1, ProgramStays, CutIdle, SameSums DEF DInv, input
<1>3. Recent /\ sums \subseteq Funcs /\ round \in 0 .. Rounds /\ Rounds \in Nat
  BY <1>1 DEF DInv, SumsInv, ProgInv, Legal, SizesAssumption
<1>4. round < Rounds => Closed
  <2>1. SUFFICES ASSUME round < Rounds, NEW f \in Funcs, Summarised(f, sums), f \notin sums
                 PROVE  FALSE
    BY DEF Closed
  <2>2. Wants(f)
    BY <1>3, <2>1, NewAreWanted DEF DInv, New
  <2>3. f \in Pending /\ fresh # {}
    BY <2>2 DEF Pending, Wants
  <2> QED BY <1>1, <1>3, <2>1, <2>3 DEF Over
<1> QED BY <1>1, <1>2, <1>4 DEF DInv, WorkInv, SumsInv, ErrorInv, Phases

\* The next round begins.
LEMMA BeginKeeps == ASSUME DInv, Begin PROVE DInv'
<1>1. /\ phase = "round" /\ ~Over /\ round' = round + 1 /\ found' = [s \in Ids |-> {}]
      /\ UNCHANGED <<sums, fresh, failed>> /\ UNCHANGED input /\ UNCHANGED cutting
      /\ \/ phase' = "inline" /\ run' = run
         \/ /\ phase' = "recheck"
            /\ run' = [s \in Ids |-> IF s <= Len(cuts) THEN "ready" ELSE "none"]
  BY DEF Begin
<1>2. ProgInv' /\ Naive' = Naive /\ CutInv' /\ Recent' = Recent
  BY <1>1, ProgramStays, CutIdle, SameSums DEF DInv, input
<1>3. SumsInv'
  <2>1. /\ Recent /\ sums \subseteq Funcs /\ sums = Naive[round]
        /\ round \in 0 .. Rounds /\ Rounds \in Nat
    BY <1>1 DEF DInv, SumsInv, ProgInv, Legal, SizesAssumption
  <2>2. round + 1 \in 0 .. Rounds /\ round + 1 # 0 /\ (round + 1) - 1 = round
    BY <1>1, <2>1 DEF Over
  <2> QED BY <1>1, <1>2, <2>1, <2>2 DEF SumsInv
<1>4. WorkInv' /\ run' \in [Ids -> {"none", "ready", "done", "panicked"}]
  <2>1. CASE phase' = "inline" /\ run' = run
    BY <1>1, <2>1 DEF DInv, WorkInv
  <2>2. CASE /\ phase' = "recheck"
             /\ run' = [s \in Ids |-> IF s <= Len(cuts) THEN "ready" ELSE "none"]
    <3>1. Len(cuts) \in Nat /\ \A s \in Ids : s \in Nat
      BY <1>1 DEF DInv, CutInv, Ids
    <3>2. cuts' = cuts
      BY <1>1 DEF cutting
    <3>3. \A s \in Ids : /\ run'[s] \in {"none", "ready"}
                         /\ run'[s] = "none" <=> s > Len(cuts')
                         /\ found'[s] = {}
      BY <1>1, <2>2, <3>1, <3>2
    <3> QED BY <2>2, <3>3 DEF WorkInv
  <2> QED BY <1>1, <2>1, <2>2
<1>5. phase' \in Phases /\ found' \in [Ids -> SUBSET Funcs] /\ ErrorInv'
  BY <1>1 DEF Phases, ErrorInv
<1> QED BY <1>2, <1>3, <1>4, <1>5 DEF DInv

\* A round on this thread.
LEMMA InlineKeeps == ASSUME DInv, RecheckInline PROVE DInv'
<1>1. /\ phase = "inline" /\ phase' = "round" /\ UNCHANGED <<run, found, round, failed>>
      /\ UNCHANGED input /\ UNCHANGED cutting
  BY DEF RecheckInline
<1>2. ProgInv' /\ Naive' = Naive /\ CutInv' /\ ProgInv
  BY <1>1, ProgramStays, CutIdle DEF DInv, input
<1>3. /\ Recent /\ sums \subseteq Funcs /\ round \in 0 .. Rounds /\ round # 0
      /\ sums = Naive[round - 1] /\ CutTo(N)
  BY <1>1 DEF DInv, SumsInv, CutInv
<1>4. PICK U : U = UNION {Rechecked(s) : s \in 1 .. Len(cuts)}
  OBVIOUS
<1>5. sums' = sums \cup U /\ fresh' = U
  BY <1>4 DEF RecheckInline
<1>6. U = New
  <2>1. ASSUME NEW f \in U PROVE f \in New
    BY <1>3, <1>4 DEF Rechecked, New, CutTo, Funcs
  <2>2. ASSUME NEW f \in New PROVE f \in U
    <3>1. Wants(f) /\ f \in Funcs /\ f \notin sums /\ Summarised(f, sums)
      BY <1>2, <1>3, NewAreWanted DEF New
    <3>2. PICK s \in 1 .. Len(cuts) : f \in ShardOf(s)
      BY <1>3, <3>1 DEF CutTo, Funcs
    <3> QED BY <1>4, <3>1, <3>2 DEF Rechecked
  <2> QED BY <2>1, <2>2
<1>7. Recent' /\ sums' = Naive[round]
  <2>1. prog' = prog /\ fresh' = New /\ sums' = sums \cup New
    BY <1>1, <1>5, <1>6 DEF input
  <2> QED BY <1>2, <1>3, <2>1, OneMoreRound
<1>8. SumsInv'
  <2>1. sums' \subseteq Funcs
    BY <1>3, <1>5, <1>6 DEF New
  <2> QED BY <1>1, <1>2, <1>3, <1>7, <2>1 DEF SumsInv
<1> QED BY <1>1, <1>2, <1>8 DEF DInv, WorkInv, ErrorInv, Phases

\* What else there is: a panic that is not caught, and the end.
LEMMA RestKeeps == ASSUME DInv, Unwind \/ UNCHANGED vars PROVE DInv'
<1>1. /\ UNCHANGED <<run, found, sums, fresh, round, failed>>
      /\ UNCHANGED input /\ UNCHANGED cutting
      /\ phase' = phase \/ (phase = "inline" /\ phase' = "unwound")
  BY DEF Unwind, vars, input, cutting
<1>2. ProgInv' /\ Naive' = Naive /\ CutInv' /\ Recent' = Recent /\ Closed' = Closed
  BY <1>1, ProgramStays, CutIdle, SameSums DEF DInv, input
<1>3. \A s \in Ids : phase' = phase => Found(s)' = Found(s)
  BY <1>1 DEF Found, Rechecked, ShardOf, Wants, Summarised, input, cutting
<1>4. WorkInv'
  <2>1. cuts' = cuts
    BY <1>1 DEF cutting
  <2> QED BY <1>1, <1>3, <2>1 DEF DInv, WorkInv
<1> QED BY <1>1, <1>2, <1>4 DEF DInv, SumsInv, ErrorInv, Phases

LEMMA DInvStays == ASSUME DInv, [Next]_vars PROVE DInv'
<1>1. CASE Measure \/ LastCut
  BY <1>1, CuttingKeeps
<1>2. CASE Join
  BY <1>2, JoinKeeps
<1>3. CASE Return
  BY <1>3, ReturnKeeps
<1>4. CASE Begin
  BY <1>4, BeginKeeps
<1>5. CASE RecheckInline
  BY <1>5, InlineKeeps
<1>6. ASSUME NEW s \in Ids, Work(s) \/ Panic(s) PROVE DInv'
  BY <1>6, WorkerKeeps
<1>7. CASE Unwind \/ UNCHANGED vars
  BY <1>7, RestKeeps
<1> QED BY <1>1, <1>2, <1>3, <1>4, <1>5, <1>6, <1>7 DEF Next, Step, Returned

LEMMA DInvAlways == ASSUME SizesAssumption, ProgramsAssumption PROVE Spec => []DInv
<1>1. Init => DInv
  BY DInvHolds
<1>2. DInv /\ [Next]_vars => DInv'
  BY DInvStays
<1> QED BY <1>1, <1>2, PTL DEF Spec

\* Every function is in one shard, and trying only the functions that refer to something
\* new, until nothing is, finds what trying all of them in every round would: for every
\* program, number of threads and bound on the rounds, however the workers interleave
\* (devirtualize(), shard(), redefer() and Refs::wants() of src/payload/devirt.rs).
THEOREM SummariesAreAllHolds ==
    ASSUME SizesAssumption, ProgramsAssumption PROVE Spec => []SummariesAreAll
<1>1. DInv => SummariesAreAll
  <2> SUFFICES ASSUME DInv PROVE SummariesAreAll
    OBVIOUS
  <2>1. CutsPartition
    BY CutsArePartition DEF DInv
  <2>2. Rounds \in Nat /\ round \in 0 .. Rounds
    BY DEF DInv, SumsInv, ProgInv, Legal, SizesAssumption
  <2>3. EarlyEndIsFixpoint
    BY DEF DInv, SumsInv, EarlyEndIsFixpoint, Closed
  <2>4. NothingMissed
    <3>1. phase = "round" => sums = Naive[round]
      BY DEF DInv, SumsInv
    <3>2. ASSUME phase = "ok" PROVE sums = Naive[Rounds]
      <4>1. CASE round < Rounds
        BY <2>2, <3>2, <4>1, ClosedStays DEF DInv, SumsInv
      <4>2. CASE ~(round < Rounds)
        BY <2>2, <3>2, <4>2 DEF DInv, SumsInv
      <4> QED BY <4>1, <4>2
    <3> QED BY <3>1, <3>2 DEF NothingMissed
  <2> QED BY <2>1, <2>3, <2>4 DEF SummariesAreAll
<1> QED BY <1>1, DInvAlways, PTL

\* An error names the first worker that panicked, and a result is of workers that did
\* not (the scope and catch_unwind of devirtualize(), src/payload/devirt.rs).
THEOREM ErrorNamesFirstHolds ==
    ASSUME SizesAssumption, ProgramsAssumption PROVE Spec => []ErrorNamesFirst
<1>1. DInv => ErrorNamesFirst
  BY DEF DInv, WorkInv, ErrorInv, ErrorNamesFirst
<1> QED BY <1>1, DInvAlways, PTL
=============================================================================
