-------------------------- MODULE WorkShareProofs --------------------------
(***************************************************************************)
(* Proofs about WorkShare, for any number of functions and workers and any *)
(* size of batch, and about Layout, the other work that is shared out to a *)
(* job while its caller goes on.                                           *)
(***************************************************************************)
EXTENDS WorkShare, FiniteSetTheorems, FunctionTheorems, WellFoundedInduction, TLAPS

Types == SharingType /\ MergingType

\* A worker holds a batch exactly while it is busy, and a worker that found
\* nothing left did so because everything had been given out.
Batches ==
    \A w \in Ids : /\ at[w] <= lim[w]
                   /\ pc[w] = "busy" <=> at[w] < lim[w]
                   /\ pc[w] = "stopped" => next >= Total

\* What the workers hold has been given out.
GivenOut == \A w \in Ids : \A i \in Holds(w) : i < next

\* What has been given out is in somebody's hands, unless one panicked.
Covered ==
    \/ \E w \in Ids : pc[w] = "panicked"
    \/ \A i \in Functions : i < next => \E w \in Ids : i \in Holds(w)

\* After the scope the workers have ended; they are merged in order.
Merging ==
    /\ phase # "sharing" => \A w \in Ids : pc[w] \in {"stopped", "panicked"}
    /\ phase = "sharing" => Len(merged) = 0
    /\ phase = "merging" => Len(merged) < Workers
    /\ phase \in {"seeding", "assembling", "ok"} => Len(merged) = Workers
    /\ \A j \in 1 .. Len(merged) : merged[j] = j - 1
    /\ Len(merged) <= Workers
    /\ \A w \in Ids : w < Len(merged) => pc[w] = "stopped"

\* The slots hold the results of the workers merged so far.
Slotted ==
    /\ \A i \in Functions : slots[i] # None => slots[i] < Len(merged) /\ i \in outs[slots[i]]
    /\ \A w \in Ids : w < Len(merged) => \A i \in outs[w] : slots[i] # None

Assembled ==
    /\ phase = "error" => \E w \in Ids : pc[w] = "panicked"
    /\ phase = "ok" => done = Total
    /\ \A i \in Functions : i < done => slots[i] # None

IInv == Types /\ Batches /\ GivenOut /\ EachOnce /\ Covered /\ Merging /\ Slotted /\ Assembled

----------------------------------------------------------------------------

\* Initially nobody holds anything.
LEMMA InitIInv == Init => IInv
  <1> SUFFICES ASSUME Init PROVE IInv
    OBVIOUS
  <1> USE SizesAssumption DEF Init, Ids, Functions, None
  <1>1. Types
    BY DEF Types, SharingType, MergingType
  <1>2. \A w \in Ids : Holds(w) = {}
    BY DEF Holds
  <1>3. Batches /\ GivenOut /\ EachOnce /\ Covered
    BY <1>2 DEF Batches, GivenOut, EachOnce, Covered
  <1>4. Merging /\ Slotted /\ Assembled
    BY DEF Merging, Slotted, Assembled
  <1> QED
    BY <1>1, <1>3, <1>4 DEF IInv

\* Where a batch ends.
LEMMA LimitFacts ==
  ASSUME NEW s \in Nat, s < Total
  PROVE  /\ Limit(s) \in 0 .. Total
         /\ s < Limit(s) /\ Limit(s) <= s + Batch
         /\ \A i \in Functions : i < s + Batch => i < Limit(s)
  BY SizesAssumption DEF Limit, Least, Functions

\* A worker takes a batch that nobody has had.
LEMMA GrabIInv ==
  ASSUME IInv, NEW w \in Ids, Grab(w)
  PROVE  IInv'
  <1> USE SizesAssumption DEF Ids, Functions, None
  <1>1. /\ next \in Nat /\ Batch \in Nat \ {0}
        /\ phase = "sharing" /\ pc[w] = "ready" /\ next' = next + Batch
        /\ UNCHANGED <<outs, phase, merged, slots, done, parent, varFn>>
        /\ pc \in [Ids -> {"ready", "busy", "stopped", "panicked"}]
        /\ at \in [Ids -> 0 .. Total] /\ lim \in [Ids -> 0 .. Total]
        /\ outs \in [Ids -> SUBSET Functions]
    BY DEF IInv, Types, SharingType, MergingType, Grab
  <1>2. CASE next >= Total
    <2>1. /\ pc' = [pc EXCEPT ![w] = "stopped"] /\ at' = at /\ lim' = lim
      BY <1>2 DEF Grab
    <2>2. Types'
      <3> HIDE DEF Ids, Functions
      <3>1. MergingType'
        BY <1>1 DEF IInv, Types, MergingType
      <3>2. next' \in Nat
        BY <1>1
      <3>3. SharingType'
        BY <1>1, <2>1, <3>2 DEF SharingType
      <3> QED
        BY <3>1, <3>3 DEF Types
    <2>3. Batches'
      BY <1>1, <1>2, <2>1 DEF IInv, Batches
    <2>4. \A v \in Ids : Holds(v)' = Holds(v)
      BY <1>1, <2>1 DEF Holds
    <2>5. GivenOut'
      <3> SUFFICES ASSUME NEW v \in Ids, NEW i \in Holds(v)' PROVE i < next'
        BY DEF GivenOut
      <3>1. i \in Int
        BY <1>1, <2>4 DEF Holds
      <3> QED
        BY <1>1, <2>4, <3>1 DEF IInv, GivenOut
    <2>6. EachOnce'
      BY <2>4 DEF IInv, EachOnce
    <2>7. Covered'
      <3>1. CASE \E v \in Ids : pc[v] = "panicked"
        BY <1>1, <2>1, <3>1 DEF Covered
      <3>2. CASE \A i \in Functions : i < next => \E v \in Ids : i \in Holds(v)
        <4>1. \A i \in Functions : i < next
          BY <1>1, <1>2
        <4> QED
          BY <3>2, <4>1, <2>4 DEF Covered
      <3> QED
        BY <3>1, <3>2 DEF IInv, Covered
    <2>8. Merging' /\ Slotted' /\ Assembled'
      BY <1>1, <2>1 DEF IInv, Merging, Slotted, Assembled
    <2> QED
      BY <2>2, <2>3, <2>5, <2>6, <2>7, <2>8 DEF IInv
  <1>3. CASE next < Total
    <2>1. /\ pc' = [pc EXCEPT ![w] = "busy"]
          /\ at' = [at EXCEPT ![w] = next]
          /\ lim' = [lim EXCEPT ![w] = Limit(next)]
      BY <1>1, <1>3 DEF Grab
    <2>2. /\ Limit(next) \in 0 .. Total
          /\ next < Limit(next) /\ Limit(next) <= next + Batch
          /\ \A i \in Functions : i < next + Batch => i < Limit(next)
      BY <1>1, <1>3, LimitFacts
    <2>3. Types'
      <3>1. next \in 0 .. Total /\ next' \in Nat
        BY <1>1, <1>3
      <3> HIDE DEF Ids, Functions
      <3>2. MergingType'
        BY <1>1 DEF IInv, Types, MergingType
      <3>3. SharingType'
        BY <1>1, <2>1, <2>2, <3>1 DEF SharingType
      <3> QED
        BY <3>2, <3>3 DEF Types
    <2>4. Batches'
      BY <1>1, <1>3, <2>1, <2>2 DEF IInv, Batches
    <2>5. \A v \in Ids : v # w => Holds(v)' = Holds(v)
      BY <1>1, <2>1 DEF Holds
    <2>6. Holds(w) = outs[w] /\ Holds(w)' = outs[w] \cup (next .. Limit(next) - 1)
      BY <1>1, <2>1, <2>2 DEF IInv, Batches, Holds
    <2>7. \A v \in Ids : \A i \in Holds(v) : i \in Int /\ i < next
      BY <1>1 DEF IInv, GivenOut, Holds
    <2>8. GivenOut'
      <3> SUFFICES ASSUME NEW v \in Ids, NEW i \in Holds(v)' PROVE i < next'
        BY DEF GivenOut
      <3>1. CASE i \in Holds(v)
        <4>1. i \in Int /\ i < next
          BY <2>7, <3>1
        <4> QED
          BY <1>1, <4>1
      <3>2. CASE i \notin Holds(v)
        <4>1. i \in next .. Limit(next) - 1
          BY <2>5, <2>6, <3>2
        <4> QED
          BY <1>1, <2>2, <4>1
      <3> QED
        BY <3>1, <3>2
    <2>9. EachOnce'
      <3> SUFFICES ASSUME NEW u \in Ids, NEW v \in Ids, u # v
                   PROVE  Holds(u)' \cap Holds(v)' = {}
        BY DEF EachOnce
      <3>1. Holds(u) \cap Holds(v) = {}
        BY DEF IInv, EachOnce
      <3>2. CASE u # w /\ v # w
        BY <3>1, <3>2, <2>5
      <3>3. CASE u = w
        BY <3>1, <3>3, <2>5, <2>6, <2>7, <2>2, <1>1
      <3>4. CASE v = w
        BY <3>1, <3>4, <2>5, <2>6, <2>7, <2>2, <1>1
      <3> QED
        BY <3>2, <3>3, <3>4
    <2>10. Covered'
      <3>1. CASE \E v \in Ids : pc[v] = "panicked"
        BY <1>1, <2>1, <3>1 DEF Covered
      <3>2. CASE \A i \in Functions : i < next => \E v \in Ids : i \in Holds(v)
        <4> SUFFICES ASSUME NEW i \in Functions, i < next'
                     PROVE  \E v \in Ids : i \in Holds(v)'
          BY DEF Covered
        <4>1. CASE i < next
          <5>1. PICK v \in Ids : i \in Holds(v)
            BY <3>2, <4>1
          <5>2. i \in Holds(v)'
            BY <5>1, <2>5, <2>6
          <5> QED
            BY <5>2
        <4>2. CASE ~(i < next)
          <5>1. i \in next .. Limit(next) - 1
            BY <4>2, <2>2, <1>1
          <5> QED
            BY <5>1, <2>6
        <4> QED
          BY <4>1, <4>2
      <3> QED
        BY <3>1, <3>2 DEF IInv, Covered
    <2>11. Merging' /\ Slotted' /\ Assembled'
      BY <1>1, <2>1 DEF IInv, Merging, Slotted, Assembled
    <2> QED
      BY <2>3, <2>4, <2>8, <2>9, <2>10, <2>11 DEF IInv
  <1> QED
    BY <1>1, <1>2, <1>3

\* A worker passes a function of its batch from what it took to what it did.
LEMMA ProcessIInv ==
  ASSUME IInv, NEW w \in Ids, Process(w)
  PROVE  IInv'
  <1> USE SizesAssumption DEF Ids, Functions, None
  <1>1. /\ next \in Nat
        /\ phase = "sharing" /\ pc[w] = "busy"
        /\ outs' = [outs EXCEPT ![w] = @ \cup {at[w]}]
        /\ at' = [at EXCEPT ![w] = @ + 1]
        /\ pc' = [pc EXCEPT ![w] = IF at[w] + 1 = lim[w] THEN "ready" ELSE "busy"]
        /\ UNCHANGED <<next, lim, phase, merged, slots, done, parent, varFn>>
        /\ pc \in [Ids -> {"ready", "busy", "stopped", "panicked"}]
        /\ at \in [Ids -> 0 .. Total] /\ lim \in [Ids -> 0 .. Total]
        /\ outs \in [Ids -> SUBSET Functions]
        /\ at[w] < lim[w]
    BY DEF IInv, Types, SharingType, MergingType, Process, Batches
  <1>2. Types'
    <2>1. at[w] \in Functions /\ at[w] + 1 \in 0 .. Total
      BY <1>1
    <2> HIDE DEF Ids, Functions
    <2>2. MergingType'
      BY <1>1 DEF IInv, Types, MergingType
    <2>3. outs' \in [Ids -> SUBSET Functions]
      BY <1>1, <2>1
    <2>4. SharingType'
      BY <1>1, <2>1, <2>3 DEF SharingType
    <2> QED
      BY <2>2, <2>4 DEF Types
  <1>3. Batches'
    BY <1>1 DEF IInv, Batches
  <1>4. \A v \in Ids : Holds(v)' = Holds(v)
    <2> SUFFICES ASSUME NEW v \in Ids PROVE Holds(v)' = Holds(v)
      OBVIOUS
    <2>1. CASE v # w
      BY <1>1, <2>1 DEF Holds
    <2>2. CASE v = w
      <3>1. at[w] .. lim[w] - 1 = {at[w]} \cup (at[w] + 1 .. lim[w] - 1)
        BY <1>1
      <3>2. outs'[w] = outs[w] \cup {at[w]} /\ at'[w] = at[w] + 1 /\ lim'[w] = lim[w]
        BY <1>1
      <3> QED
        BY <3>1, <3>2, <2>2 DEF Holds
    <2> QED
      BY <2>1, <2>2
  <1>5. GivenOut' /\ EachOnce'
    BY <1>1, <1>4 DEF IInv, GivenOut, EachOnce
  <1>6. Covered'
    BY <1>1, <1>4 DEF IInv, Covered
  <1>7. Merging' /\ Slotted' /\ Assembled'
    BY <1>1 DEF IInv, Merging, Slotted, Assembled
  <1> QED
    BY <1>2, <1>3, <1>5, <1>6, <1>7 DEF IInv

\* A worker that panics lets go of what it held.
LEMMA PanicIInv ==
  ASSUME IInv, NEW w \in Ids, Panic(w)
  PROVE  IInv'
  <1> USE SizesAssumption DEF Ids, Functions, None
  <1>1. /\ next \in Nat
        /\ phase = "sharing" /\ pc[w] = "busy"
        /\ outs' = [outs EXCEPT ![w] = {}]
        /\ at' = [at EXCEPT ![w] = lim[w]]
        /\ pc' = [pc EXCEPT ![w] = "panicked"]
        /\ UNCHANGED <<next, lim, phase, merged, slots, done, parent, varFn>>
        /\ pc \in [Ids -> {"ready", "busy", "stopped", "panicked"}]
        /\ at \in [Ids -> 0 .. Total] /\ lim \in [Ids -> 0 .. Total]
        /\ outs \in [Ids -> SUBSET Functions]
    BY DEF IInv, Types, SharingType, MergingType, Panic
  <1>2. Types'
    BY <1>1 DEF IInv, Types, SharingType, MergingType
  <1>3. Batches'
    BY <1>1 DEF IInv, Batches
  <1>4. \A v \in Ids : Holds(v)' \subseteq Holds(v)
    BY <1>1 DEF Holds
  <1>5. GivenOut' /\ EachOnce'
    BY <1>1, <1>4 DEF IInv, GivenOut, EachOnce
  <1>6. Covered'
    BY <1>1 DEF Covered
  <1>7. Merging' /\ Slotted' /\ Assembled'
    BY <1>1 DEF IInv, Merging, Slotted, Assembled
  <1> QED
    BY <1>2, <1>3, <1>5, <1>6, <1>7 DEF IInv

\* When all are merged, every function has its result.
LEMMA AllMerged ==
  ASSUME IInv, Len(merged) = Workers
  PROVE  /\ \A w \in Ids : pc[w] = "stopped"
         /\ \A i \in Functions : slots[i] # None
  <1> USE SizesAssumption DEF Ids, Functions
  <1>1. \A w \in Ids : pc[w] = "stopped"
    BY DEF IInv, Merging
  <1>2. next >= Total /\ next \in Nat
    BY <1>1 DEF IInv, Batches, Types, SharingType, MergingType
  <1>3. \A i \in Functions : \E w \in Ids : i \in Holds(w)
    BY <1>1, <1>2 DEF IInv, Covered
  <1>4. \A w \in Ids : Holds(w) = outs[w]
    BY <1>1 DEF IInv, Batches, Holds, Types, SharingType, MergingType
  <1> QED
    BY <1>1, <1>3, <1>4 DEF IInv, Slotted

\* A step after the scope leaves the workers' part of the invariant alone.
LEMMA Unshared ==
  ASSUME IInv, UNCHANGED sharing, UNCHANGED <<merged, slots, done>>,
         phase' \in {"merging", "assembling", "ok"}
  PROVE  Types' /\ Batches' /\ GivenOut' /\ EachOnce' /\ Covered'
  <1>1. Types'
    BY DEF IInv, Types, SharingType, MergingType, sharing
  <1>2. Batches' /\ GivenOut' /\ EachOnce' /\ Covered'
    BY DEF sharing, IInv, Batches, GivenOut, Holds, EachOnce, Covered
  <1> QED
    BY <1>1, <1>2

\* The steps of prepare() after the scope.
LEMMA FinishIInv ==
  ASSUME IInv, Finish
  PROVE  IInv'
  <1> USE SizesAssumption DEF Ids, Functions, None
  <1>1. CASE Join
    <2>1. /\ phase = "sharing" /\ phase' = "merging"
          /\ \A w \in Ids : pc[w] \in {"stopped", "panicked"}
          /\ UNCHANGED sharing /\ UNCHANGED <<merged, slots, done, parent, varFn>>
      BY <1>1 DEF Join
    <2>2. Types' /\ Batches' /\ GivenOut' /\ EachOnce' /\ Covered'
      BY <2>1, Unshared DEF IInv
    <2>3. Merging'
      BY <2>1 DEF sharing, IInv, Merging
    <2>4. Slotted' /\ Assembled'
      BY <2>1 DEF sharing, IInv, Slotted, Assembled
    <2> QED
      BY <2>2, <2>3, <2>4 DEF IInv
  <1>2. CASE Merge
    <2> DEFINE w == Len(merged)
    <2>1. /\ w \in Ids /\ phase = "merging" /\ merged \in Seq(Ids)
          /\ UNCHANGED sharing /\ UNCHANGED <<done, parent, varFn>>
          /\ pc[w] \in {"stopped", "panicked"}
      BY <1>2 DEF Merge, IInv, Types, SharingType, MergingType, Merging
    <2>2. Batches' /\ GivenOut' /\ EachOnce' /\ Covered'
      BY <2>1 DEF sharing, IInv, Batches, GivenOut, Holds, EachOnce, Covered
    <2>3. CASE pc[w] = "panicked"
      <3>1. phase' = "error" /\ slots' = slots /\ merged' = merged
        BY <1>2, <2>3 DEF Merge
      <3>2. Types' /\ Merging' /\ Slotted'
        BY <2>1, <3>1 DEF sharing, IInv, Types, SharingType, MergingType, Merging, Slotted
      <3>3. Assembled'
        BY <2>1, <2>3, <3>1 DEF sharing, IInv, Assembled
      <3> QED
        BY <2>2, <3>2, <3>3 DEF IInv
    <2>4. CASE pc[w] = "stopped"
      <3>1. /\ slots' = [i \in Functions |-> IF i \in outs[w] THEN w ELSE slots[i]]
            /\ merged' = Append(merged, w)
            /\ phase' = IF w = Workers - 1 THEN "seeding" ELSE "merging"
        BY <1>2, <2>4 DEF Merge
      <3>2. /\ merged' \in Seq(Ids) /\ Len(merged') = w + 1
            /\ \A j \in 1 .. w : merged'[j] = merged[j]
            /\ merged'[w + 1] = w
        BY <2>1, <3>1
      <3>3. Types'
        BY <2>1, <3>1, <3>2 DEF sharing, IInv, Types, SharingType, MergingType
      <3>4. Merging'
        <4>1. \A j \in 1 .. Len(merged') : merged'[j] = j - 1
          <5>1. \A j \in 1 .. w : merged[j] = j - 1
            BY DEF IInv, Merging
          <5>2. w \in Nat
            BY <2>1
          <5> HIDE DEF w
          <5> QED
            BY <3>2, <5>1, <5>2
        <4>2. \A v \in Ids : v < Len(merged') => pc'[v] = "stopped"
          BY <2>1, <2>4, <3>2 DEF IInv, Merging, sharing
        <4> QED
          BY <2>1, <3>1, <3>2, <4>1, <4>2 DEF IInv, Merging, sharing
      <3>5. Slotted'
        <4>1. ASSUME NEW i \in Functions, slots'[i] # None
              PROVE  slots'[i] < Len(merged') /\ i \in outs'[slots'[i]]
          <5>1. outs' = outs
            BY <2>1 DEF sharing
          <5>2. CASE i \in outs[w]
            <6>1. slots'[i] = w
              BY <3>1, <5>2
            <6> QED
              BY <2>1, <3>2, <5>1, <5>2, <6>1
          <5>3. CASE i \notin outs[w]
            <6>1. slots'[i] = slots[i]
              BY <3>1, <5>3
            <6>2. slots[i] \in Ids /\ slots[i] < w /\ i \in outs[slots[i]]
              BY <4>1, <6>1 DEF IInv, Types, MergingType, Slotted
            <6> QED
              BY <2>1, <3>2, <5>1, <6>1, <6>2
          <5> QED
            BY <5>2, <5>3
        <4>2. ASSUME NEW v \in Ids, v < Len(merged'), NEW i \in outs'[v]
              PROVE  slots'[i] # None
          <5>1. i \in Functions /\ i \in outs[v] /\ w \in Int
            BY <2>1, <4>2 DEF IInv, Types, SharingType, MergingType, sharing
          <5>2. v < w \/ v = w
            BY <3>2, <4>2, <2>1
          <5> QED
            BY <2>1, <3>1, <5>1, <5>2 DEF IInv, Slotted
        <4> QED
          BY <4>1, <4>2 DEF Slotted
      <3>6. Assembled'
        BY <2>1, <3>1 DEF sharing, IInv, Types, SharingType, MergingType, Assembled
      <3> QED
        BY <2>2, <3>3, <3>4, <3>5, <3>6 DEF IInv
    <2> QED
      BY <2>1, <2>3, <2>4
  <1>3. CASE Seed
    <2>1. /\ phase = "seeding" /\ phase' = "assembling"
          /\ UNCHANGED sharing /\ UNCHANGED <<merged, slots, done, parent>>
      BY <1>3 DEF Seed
    <2>3. Types' /\ Batches' /\ GivenOut' /\ EachOnce' /\ Covered'
      BY <2>1 DEF sharing, IInv, Types, SharingType, MergingType, Batches, GivenOut, Holds, EachOnce, Covered
    <2>4. Merging' /\ Slotted' /\ Assembled'
      BY <2>1 DEF sharing, IInv, Merging, Slotted, Assembled
    <2> QED
      BY <2>3, <2>4 DEF IInv
  <1>4. CASE Assemble
    <2>1. /\ phase = "assembling" /\ done < Total /\ done \in 0 .. Total
          /\ UNCHANGED sharing /\ UNCHANGED <<merged, slots>>
      BY <1>4 DEF Assemble, IInv, Types, MergingType
    <2>2. slots[done] # None
      <3>1. Len(merged) = Workers
        BY <2>1 DEF IInv, Merging
      <3> QED
        BY <2>1, <3>1, AllMerged
    <2>3. done' = done + 1 /\ phase' = phase
      BY <1>4, <2>2 DEF Assemble
    <2>4. Types' /\ Batches' /\ GivenOut' /\ EachOnce' /\ Covered'
      BY <2>1, <2>3 DEF sharing, IInv, Types, SharingType, MergingType, Batches, GivenOut,
                        Holds, EachOnce, Covered
    <2>5. Merging' /\ Slotted' /\ Assembled'
      BY <2>1, <2>2, <2>3 DEF sharing, IInv, Merging, Slotted, Assembled
    <2> QED
      BY <2>4, <2>5 DEF IInv
  <1>5. CASE Return
    <2>1. /\ phase = "assembling" /\ phase' = "ok" /\ done = Total
          /\ UNCHANGED sharing /\ UNCHANGED <<merged, slots, done, parent, varFn>>
      BY <1>5 DEF Return
    <2>2. Types' /\ Batches' /\ GivenOut' /\ EachOnce' /\ Covered'
      BY <2>1, Unshared DEF IInv
    <2>3. Merging'
      BY <2>1 DEF sharing, IInv, Merging
    <2>4. Slotted' /\ Assembled'
      BY <2>1 DEF sharing, IInv, Slotted, Assembled
    <2> QED
      BY <2>2, <2>3, <2>4 DEF IInv
  <1> QED
    BY <1>1, <1>2, <1>3, <1>4, <1>5 DEF Finish

\* Every step keeps the invariant.
LEMMA NextIInv == IInv /\ [Next]_vars => IInv'
  <1> SUFFICES ASSUME IInv, [Next]_vars PROVE IInv'
    OBVIOUS
  <1>1. CASE \E w \in Ids : WorkerStep(w) \/ Panic(w)
    BY <1>1, GrabIInv, ProcessIInv, PanicIInv DEF WorkerStep
  <1>2. CASE Finish
    BY <1>2, FinishIInv
  <1>3. CASE Returned \/ UNCHANGED vars
    BY <1>3 DEF Returned, vars, IInv, Types, SharingType, MergingType, Batches, GivenOut,
                Holds, EachOnce, Covered, Merging, Slotted, Assembled
  <1> QED
    BY <1>1, <1>2, <1>3 DEF Next

\* The invariant holds of every behaviour of prepare().
THEOREM InductiveInvariant == Spec => []IInv
  BY InitIInv, NextIInv, PTL DEF Spec

\* The counter shares the functions out: none is ever held by two workers.
THEOREM EachOnceHolds == Spec => []EachOnce
  <1>1. IInv => EachOnce
    BY DEF IInv
  <1> QED
    BY <1>1, InductiveInvariant, PTL

\* prepare() fails exactly when a worker panicked: the check of an empty slot
\* never fires, since the batches leave no function out.
THEOREM FailsOnlyByPanicHolds == Spec => []FailsOnlyByPanic
  <1>1. IInv => FailsOnlyByPanic
    <2> SUFFICES ASSUME IInv PROVE FailsOnlyByPanic
      OBVIOUS
    <2>1. phase = "error" => \E w \in Ids : pc[w] = "panicked"
      BY DEF IInv, Assembled
    <2>2. phase = "ok" => /\ \A w \in Ids : pc[w] # "panicked"
                          /\ \A i \in Functions : slots[i] # None
      BY AllMerged DEF IInv, Merging
    <2> QED
      BY <2>1, <2>2 DEF FailsOnlyByPanic
  <1> QED
    BY <1>1, InductiveInvariant, PTL

\* The spans of a result point into the arena of the worker that wrote it.
THEOREM ArenasMatchHolds == Spec => []ArenasMatch
  <1>1. IInv => ArenasMatch
    <2> SUFFICES ASSUME IInv, phase = "ok", NEW i \in Functions
                 PROVE  slots[i] + 1 \in DOMAIN merged /\ i \in outs[merged[slots[i] + 1]]
      BY DEF ArenasMatch
    <2>1. Len(merged) = Workers /\ merged \in Seq(Ids)
      BY DEF IInv, Merging, Types, MergingType
    <2>2. slots[i] # None
      BY <2>1, AllMerged
    <2>3. slots[i] \in Ids /\ slots[i] < Len(merged) /\ i \in outs[slots[i]]
      BY <2>2 DEF IInv, Types, MergingType, Slotted
    <2>4. slots[i] + 1 \in 1 .. Len(merged) /\ DOMAIN merged = 1 .. Len(merged)
      BY <2>1, <2>3, SizesAssumption DEF Ids
    <2>5. merged[slots[i] + 1] = slots[i]
      BY <2>3, <2>4, SizesAssumption DEF IInv, Merging, Ids
    <2> QED
      BY <2>3, <2>4, <2>5
  <1> QED
    BY <1>1, InductiveInvariant, PTL

----------------------------------------------------------------------------
(* The maps *)

\* A set of naturals that is not empty has a least element.
LEMMA LeastNumber ==
  ASSUME NEW T, T \subseteq Nat, T # {}
  PROVE  \E x \in T : \A y \in T : x <= y
  <1>1. PICK x \in T : \A y \in T : ~(y < x)
    <2>1. IsWellFoundedOn(OpToRel(<, Nat), Nat)
      BY NatLessThanWellFounded
    <2>2. \E x \in T : \A y \in T : <<y, x>> \notin OpToRel(<, Nat)
      BY <2>1, WFMin, Zenon
    <2> QED
      BY <2>2, Zenon DEF OpToRel
  <1> QED
    BY <1>1

\* Of the first n values of f, one is the greatest.
Topped(f, n) == \E x \in 0 .. n - 1 : \A j \in 0 .. n - 1 : f[j] <= f[x]

\* One more value, and it or the one that was is the greatest.
LEMMA ToppedOn ==
  ASSUME NEW n \in Nat, NEW f, \A j \in 0 .. n : f[j] \in Nat, Topped(f, n)
  PROVE  Topped(f, n + 1)
  <1>1. PICK x \in 0 .. n - 1 : \A j \in 0 .. n - 1 : f[j] <= f[x]
    BY DEF Topped
  <1>2. n + 1 - 1 = n /\ x \in 0 .. n /\ n \in 0 .. n
        /\ \A j \in 0 .. n : j \in 0 .. n - 1 \/ j = n
    OBVIOUS
  <1>3. CASE f[n] <= f[x]
    <2>1. \A j \in 0 .. n : f[j] <= f[x]
      BY <1>1, <1>2, <1>3
    <2> QED
      BY <1>2, <2>1 DEF Topped
  <1>4. CASE ~(f[n] <= f[x])
    <2>1. ASSUME NEW j \in 0 .. n PROVE f[j] <= f[n]
      <3>1. f[j] \in Nat /\ f[n] \in Nat /\ f[x] \in Nat
        BY <1>2
      <3>2. f[j] <= f[x] \/ j = n
        BY <1>1, <1>2
      <3> QED
        BY <1>4, <3>1, <3>2
    <2> QED
      BY <1>2, <2>1 DEF Topped
  <1> QED
    BY <1>3, <1>4

\* A function from an initial segment to the naturals has a greatest value: the least
\* segment without one would have a predecessor with one.
LEMMA GreatestValue ==
  ASSUME NEW N \in Nat \ {0}, NEW f, \A j \in 0 .. N - 1 : f[j] \in Nat
  PROVE  \E x \in 0 .. N - 1 : \A j \in 0 .. N - 1 : f[j] <= f[x]
  <1>1. SUFFICES ASSUME ~Topped(f, N) PROVE FALSE
    BY DEF Topped
  <1>2. PICK T : T = {n \in Nat : n \in 1 .. N /\ ~Topped(f, n)}
    OBVIOUS
  <1>3. T \subseteq Nat /\ N \in T
    BY <1>1, <1>2
  <1>4. PICK n \in T : \A m \in T : n <= m
    BY <1>3, LeastNumber
  <1>5. n \in Nat /\ n \in 1 .. N /\ ~Topped(f, n)
    BY <1>2
  <1>6. CASE n = 1
    <2>1. 0 \in 0 .. n - 1 /\ \A j \in 0 .. n - 1 : j = 0
      BY <1>6
    <2>2. f[0] <= f[0]
      BY <2>1, <1>5
    <2> QED
      BY <1>5, <2>1, <2>2 DEF Topped
  <1>7. CASE n # 1
    <2>1. PICK m \in Nat : n = m + 1 /\ m \in 1 .. N
      <3>1. n - 1 \in Nat /\ n - 1 \in 1 .. N /\ n = n - 1 + 1
        BY <1>5, <1>7
      <3> QED
        BY <3>1
    <2>2. m \notin T
      BY <1>4, <2>1
    <2>3. Topped(f, m)
      BY <1>2, <2>1, <2>2
    <2>4. \A j \in 0 .. m : f[j] \in Nat
      BY <1>5, <2>1
    <2>5. Topped(f, m + 1)
      BY <2>3, <2>4, ToppedOn
    <2> QED
      BY <1>5, <2>1, <2>5
  <1> QED
    BY <1>6, <1>7

\* The function with the most bindings is one of them.
LEMMA RichestIsOne ==
  ASSUME Functions # {}
  PROVE  Richest(Functions) \in Functions
  <1>1. Total \in Nat \ {0}
    BY SizesAssumption DEF Functions
  <1>2. PICK f : f = [i \in 0 .. Total - 1 |-> Cardinality(VarsOf[i])]
    OBVIOUS
  <1>3. \A i \in Functions : Cardinality(VarsOf[i]) \in Nat
    BY KeysAssumption, FS_CardinalityType
  <1>4. \A j \in 0 .. Total - 1 : f[j] \in Nat
    BY <1>2, <1>3 DEF Functions
  <1>5. PICK most : most = {i \in Functions : \A j \in Functions :
                              Cardinality(VarsOf[j]) <= Cardinality(VarsOf[i])}
    OBVIOUS
  <1>6. PICK x \in 0 .. Total - 1 : \A j \in 0 .. Total - 1 : f[j] <= f[x]
    BY <1>1, <1>4, GreatestValue
  <1>7. x \in most
    BY <1>2, <1>5, <1>6 DEF Functions
  <1>8. \E i \in most : \A j \in most : j <= i
    <2> DEFINE T == {Total - i : i \in most}
    <2>1. T \subseteq Nat /\ T # {} /\ \A i \in most : i \in 0 .. Total - 1
      BY <1>1, <1>5, <1>7 DEF Functions
    <2>2. PICK y \in T : \A z \in T : y <= z
      <3> HIDE DEF T
      <3> QED
        BY <2>1, LeastNumber
    <2>3. PICK i \in most : y = Total - i
      OBVIOUS
    <2>4. \A j \in most : Total - j \in T
      OBVIOUS
    <2>5. \A j \in most : Total - i <= Total - j
      BY <2>2, <2>3, <2>4
    <2> QED
      BY <1>1, <2>1, <2>5
  <1> QED
    BY <1>5, <1>8 DEF Richest

\* v is the first of the first n functions that names k, None if none of them does.
IsFirst(v, k, namesOf, n) ==
    IF \E i \in Functions : i < n /\ k \in namesOf[i]
      THEN /\ v \in Functions /\ v < n /\ k \in namesOf[v]
           /\ \A j \in Functions : j < n /\ k \in namesOf[j] => v <= j
      ELSE v = None

\* The map of the variables has v for k when n functions are assembled.
IsVar(v, k, n) ==
    IF Functions # {} /\ k \in VarsOf[Richest(Functions)]
      THEN v = Richest(Functions)
      ELSE IsFirst(v, k, VarsOf, n)

\* Nothing is in the maps before the function with the most bindings is seeded;
\* then they are those of the functions assembled so far.
MapsInv ==
    /\ phase \in {"sharing", "merging", "seeding"} =>
         done = 0 /\ \A k \in Keys : parent[k] = None /\ varFn[k] = None
    /\ phase \in {"assembling", "ok"} =>
         \A k \in Keys : IsFirst(parent[k], k, ChildrenOf, done) /\ IsVar(varFn[k], k, done)

LEMMA FirstOfNone ==
  ASSUME NEW k, NEW namesOf
  PROVE  IsFirst(None, k, namesOf, 0)
  BY DEF IsFirst, Functions

\* or_insert() of the next function.
LEMMA FirstOn ==
  ASSUME NEW k, NEW namesOf, NEW v, NEW n \in Functions, IsFirst(v, k, namesOf, n)
  PROVE  IsFirst(IF k \in namesOf[n] /\ v = None THEN n ELSE v, k, namesOf, n + 1)
  <1> USE SizesAssumption DEF Functions
  <1>1. \A i \in Functions : i < n + 1 <=> i < n \/ i = n
    OBVIOUS
  <1>2. CASE \E i \in Functions : i < n /\ k \in namesOf[i]
    <2>1. /\ v \in Functions /\ v < n /\ k \in namesOf[v] /\ v # None
          /\ \A j \in Functions : j < n /\ k \in namesOf[j] => v <= j
      BY <1>2 DEF IsFirst, None
    <2> QED
      BY <1>1, <2>1 DEF IsFirst
  <1>3. CASE ~\E i \in Functions : i < n /\ k \in namesOf[i]
    <2>1. v = None
      BY <1>3 DEF IsFirst
    <2> QED
      BY <1>1, <1>3, <2>1 DEF IsFirst
  <1> QED
    BY <1>2, <1>3

LEMMA FirstOfAll ==
  ASSUME NEW k, NEW namesOf, NEW v, IsFirst(v, k, namesOf, Total)
  PROVE  v = FirstNaming(k, namesOf)
  <1>1. \A i \in Functions : i \in Int /\ i < Total
    BY SizesAssumption DEF Functions
  <1>2. PICK naming : naming = {i \in Functions : k \in namesOf[i]}
    OBVIOUS
  <1>3. CASE naming = {}
    BY <1>1, <1>2, <1>3 DEF IsFirst, FirstNaming
  <1>4. CASE naming # {}
    <2>1. v \in naming /\ \A j \in naming : v <= j
      BY <1>1, <1>2, <1>4 DEF IsFirst
    <2>2. \A i \in naming : (\A j \in naming : i <= j) => i = v
      BY <1>1, <1>2, <2>1
    <2>3. v = CHOOSE i \in naming : \A j \in naming : i <= j
      BY <2>1, <2>2
    <2> QED
      BY <1>2, <1>4, <2>3 DEF FirstNaming
  <1> QED
    BY <1>3, <1>4

\* The maps once the function with the most bindings is seeded.
LEMMA SeedMaps ==
  ASSUME IInv, MapsInv, Seed
  PROVE  MapsInv'
  <1>1. /\ phase = "seeding" /\ phase' = "assembling" /\ done' = done /\ parent' = parent
        /\ done = 0 /\ \A k \in Keys : parent[k] = None /\ varFn[k] = None
    BY DEF Seed, MapsInv
  <1>2. {i \in Functions : slots[i] # None} = Functions
    <2>1. \A i \in Functions : slots[i] # None
      BY <1>1, AllMerged DEF IInv, Merging
    <2> QED
      BY <2>1
  <1>3. ASSUME NEW k \in Keys PROVE IsVar(varFn'[k], k, 0)
    <2>1. CASE Functions = {}
      <3>1. varFn' = varFn
        BY <1>2, <2>1 DEF Seed
      <3> QED
        BY <1>1, <2>1, <3>1, FirstOfNone DEF IsVar
    <2>2. CASE Functions # {}
      <3>1. PICK r : r = Richest(Functions)
        OBVIOUS
      <3>2. varFn' = OrInsert(varFn, VarsOf[r], r)
        BY <1>2, <2>2, <3>1 DEF Seed
      <3>3. varFn'[k] = IF k \in VarsOf[r] THEN r ELSE None
        BY <1>1, <3>2 DEF OrInsert
      <3> QED
        BY <2>2, <3>1, <3>3, FirstOfNone DEF IsVar
    <2> QED
      BY <2>1, <2>2
  <1>4. \A k \in Keys : IsFirst(parent'[k], k, ChildrenOf, 0)
    BY <1>1, FirstOfNone
  <1> QED
    BY <1>1, <1>3, <1>4 DEF MapsInv

LEMMA AssembleMaps ==
  ASSUME IInv, MapsInv, Assemble
  PROVE  MapsInv'
  <1>1. phase = "assembling" /\ done \in Functions
    BY SizesAssumption DEF Assemble, IInv, Types, MergingType, Functions
  <1>2. slots[done] # None
    BY <1>1, AllMerged DEF IInv, Merging
  <1>3. /\ parent' = OrInsert(parent, ChildrenOf[done], done)
        /\ varFn' = OrInsert(varFn, VarsOf[done], done)
        /\ done' = done + 1 /\ phase' = phase
    BY <1>2 DEF Assemble
  <1>4. ASSUME NEW k \in Keys
        PROVE  IsFirst(parent'[k], k, ChildrenOf, done + 1) /\ IsVar(varFn'[k], k, done + 1)
    <2>1. /\ parent'[k] = IF k \in ChildrenOf[done] /\ parent[k] = None THEN done ELSE parent[k]
          /\ varFn'[k] = IF k \in VarsOf[done] /\ varFn[k] = None THEN done ELSE varFn[k]
      BY <1>3 DEF OrInsert
    <2>2. IsFirst(parent[k], k, ChildrenOf, done) /\ IsVar(varFn[k], k, done)
      BY <1>1 DEF MapsInv
    <2>3. IsFirst(parent'[k], k, ChildrenOf, done + 1)
      <3>1. IsFirst(IF k \in ChildrenOf[done] /\ parent[k] = None THEN done ELSE parent[k],
                    k, ChildrenOf, done + 1)
        BY <1>1, <2>2, FirstOn
      <3> QED
        BY <2>1, <3>1
    <2>4. CASE k \in VarsOf[Richest(Functions)]
      <3>1. Functions # {} /\ Richest(Functions) \in Functions
        BY <1>1, RichestIsOne
      <3>2. varFn[k] = Richest(Functions) /\ varFn[k] # None
        BY <2>2, <2>4, <3>1, SizesAssumption DEF IsVar, Functions, None
      <3> QED
        BY <2>1, <2>3, <2>4, <3>1, <3>2 DEF IsVar
    <2>5. CASE k \notin VarsOf[Richest(Functions)]
      <3>1. IsFirst(varFn[k], k, VarsOf, done)
        BY <2>2, <2>5 DEF IsVar
      <3>2. IsFirst(IF k \in VarsOf[done] /\ varFn[k] = None THEN done ELSE varFn[k],
                    k, VarsOf, done + 1)
        BY <1>1, <3>1, FirstOn
      <3> QED
        BY <2>1, <2>3, <2>5, <3>2 DEF IsVar
    <2> QED
      BY <2>4, <2>5
  <1> QED
    BY <1>1, <1>3, <1>4 DEF MapsInv

\* Every other step leaves the maps alone, and the phases in which they change.
LEMMA NextMaps == IInv /\ MapsInv /\ [Next]_vars => MapsInv'
  <1> SUFFICES ASSUME IInv, MapsInv, [Next]_vars PROVE MapsInv'
    OBVIOUS
  <1>1. ASSUME NEW w \in Ids, WorkerStep(w) \/ Panic(w) PROVE MapsInv'
    BY <1>1 DEF WorkerStep, Grab, Process, Panic, MapsInv
  <1>2. CASE Join
    BY <1>2 DEF Join, MapsInv
  <1>3. CASE Merge
    <2>1. /\ phase = "merging" /\ phase' \in {"merging", "seeding", "error"}
          /\ UNCHANGED <<done, parent, varFn>>
      BY <1>3 DEF Merge
    <2> QED
      BY <2>1 DEF MapsInv
  <1>4. CASE Seed
    BY <1>4, SeedMaps
  <1>5. CASE Assemble
    BY <1>5, AssembleMaps
  <1>6. CASE Return
    BY <1>6 DEF Return, MapsInv
  <1>7. CASE Returned \/ UNCHANGED vars
    BY <1>7 DEF Returned, vars, MapsInv
  <1> QED
    BY <1>1, <1>2, <1>3, <1>4, <1>5, <1>6, <1>7 DEF Next, Finish

\* The maps that prepare() returns are those of one worker that takes the functions in
\* order, however many there are and whatever batches each of them took.
THEOREM MapsAreStableHolds == Spec => []MapsAreStable
  <1>1. Init => MapsInv
    BY DEF Init, MapsInv
  <1>2. IInv /\ IInv' /\ MapsInv /\ [Next]_vars => MapsInv'
    BY NextMaps
  <1>3. IInv /\ MapsInv => MapsAreStable
    <2> SUFFICES ASSUME IInv, MapsInv, phase = "ok", NEW k \in Keys
                 PROVE  /\ parent[k] = FirstNaming(k, ChildrenOf)
                        /\ varFn[k] = IF Functions # {} /\ k \in VarsOf[Richest(Functions)]
                                        THEN Richest(Functions)
                                        ELSE FirstNaming(k, VarsOf)
      BY DEF MapsAreStable
    <2>1. done = Total
      BY DEF IInv, Assembled
    <2>2. IsFirst(parent[k], k, ChildrenOf, Total) /\ IsVar(varFn[k], k, Total)
      BY <2>1 DEF MapsInv
    <2>3. parent[k] = FirstNaming(k, ChildrenOf)
      BY <2>2, FirstOfAll
    <2>4. CASE Functions # {} /\ k \in VarsOf[Richest(Functions)]
      BY <2>2, <2>3, <2>4 DEF IsVar
    <2>5. CASE ~(Functions # {} /\ k \in VarsOf[Richest(Functions)])
      <3>1. IsFirst(varFn[k], k, VarsOf, Total)
        BY <2>2, <2>5 DEF IsVar
      <3>2. varFn[k] = FirstNaming(k, VarsOf)
        BY <3>1, FirstOfAll
      <3> QED
        BY <2>3, <2>5, <3>2
    <2> QED
      BY <2>4, <2>5
  <1> QED
    BY <1>1, <1>2, <1>3, InductiveInvariant, PTL DEF Spec

----------------------------------------------------------------------------
(* The layout, for any scripts and bounds *)

CONSTANTS Scripts, MinBatches, MaxBatches, MinTemplate, KeyDepth
VARIABLES script, job, guess, step, perm, cells, replayed, result
L == INSTANCE Layout WITH phase <- step

----------------------------------------------------------------------------
(* Sequences in a row *)

\* f[i] is the first i of seqs in a row.
Flattens(f, seqs, n) ==
    f = [i \in 1 .. n |-> IF i = 1 THEN seqs[i] ELSE f[i - 1] \o seqs[i]]

\* However many sequences there are, they can be put in a row.
LEMMA FlattenExists ==
  ASSUME NEW S, NEW seqs \in Seq(Seq(S)), NEW n \in Nat, n <= Len(seqs)
  PROVE  \E f \in [1 .. n -> Seq(S)] : Flattens(f, seqs, n)
  <1> DEFINE T == {m \in Nat : m <= Len(seqs) /\ ~\E f \in [1 .. m -> Seq(S)] : Flattens(f, seqs, m)}
  <1>1. CASE T = {}
    BY <1>1
  <1>2. CASE T # {}
    <2>1. PICK m \in T : \A k \in T : m <= k
      BY <1>2, LeastNumber
    <2>2. CASE m = 0
      <3>1. PICK f : f = [i \in 1 .. 0 |-> <<>>]
        OBVIOUS
      <3>2. f \in [1 .. 0 -> Seq(S)]
        BY <3>1
      <3>3. f = [i \in 1 .. 0 |-> IF i = 1 THEN seqs[i] ELSE f[i - 1] \o seqs[i]]
        BY <3>1
      <3> QED
        BY <2>1, <2>2, <3>2, <3>3 DEF Flattens
    <2>3. CASE m # 0
      <3>0. m \in Nat /\ m <= Len(seqs)
        BY <2>1
      <3>1. m - 1 \in Nat /\ m - 1 <= Len(seqs) /\ m - 1 \notin T
        <4> HIDE DEF T
        <4> QED
          BY <2>1, <2>3, <3>0
      <3>2. PICK f \in [1 .. m - 1 -> Seq(S)] : Flattens(f, seqs, m - 1)
        BY <3>1
      <3>3. \A i \in 1 .. m - 1 : f[i] = IF i = 1 THEN seqs[i] ELSE f[i - 1] \o seqs[i]
        BY <3>2 DEF Flattens
      <3>4. PICK x : x = IF m = 1 THEN seqs[m] ELSE f[m - 1] \o seqs[m]
        OBVIOUS
      <3>5. seqs[m] \in Seq(S)
        BY <2>1, <2>3
      <3>6. x \in Seq(S)
        <4>1. CASE m = 1
          BY <3>4, <3>5, <4>1
        <4>2. CASE m # 1
          <5>1. f[m - 1] \in Seq(S)
            BY <2>3, <3>1, <3>2, <4>2
          <5> QED
            BY <3>4, <3>5, <4>2, <5>1
        <4> QED
          BY <4>1, <4>2
      <3>7. PICK g : g = [i \in 1 .. m |-> IF i = m THEN x ELSE f[i]]
        OBVIOUS
      <3>8. g \in [1 .. m -> Seq(S)]
        BY <2>1, <3>2, <3>6, <3>7
      <3>9. ASSUME NEW i \in 1 .. m
            PROVE  g[i] = IF i = 1 THEN seqs[i] ELSE g[i - 1] \o seqs[i]
        <4>1. i \in Int /\ m \in Int
          BY <2>1
        <4>2. CASE i = m
          <5>1. m # 1 => g[m - 1] = f[m - 1]
            BY <2>3, <3>7, <4>1
          <5> QED
            BY <3>4, <3>7, <4>2, <5>1
        <4>3. CASE i # m
          <5>1. i \in 1 .. m - 1 /\ g[i] = f[i]
            BY <3>7, <4>1, <4>3
          <5>2. i # 1 => g[i - 1] = f[i - 1]
            BY <3>7, <4>1, <4>3
          <5> QED
            BY <3>3, <5>1, <5>2
        <4> QED
          BY <4>2, <4>3
      <3>10. Flattens(g, seqs, m)
        <4>1. g = [i \in 1 .. m |-> g[i]]
          BY <3>8
        <4> QED
          BY <3>9, <4>1 DEF Flattens
      <3> QED
        BY <2>1, <3>8, <3>10
    <2> QED
      BY <2>2, <2>3
  <1> QED
    BY <1>1, <1>2

\* FlattenSeq gives the last of them.
LEMMA FlattenIs ==
  ASSUME NEW S, NEW seqs \in Seq(Seq(S)), seqs # <<>>
  PROVE  \E f : /\ L!FlattenSeq(seqs) = f[Len(seqs)]
                /\ \A i \in 1 .. Len(seqs) :
                      f[i] = IF i = 1 THEN seqs[i] ELSE f[i - 1] \o seqs[i]
  <1>1. Len(seqs) \in Nat /\ Len(seqs) # 0
    OBVIOUS
  <1>2. PICK f : f = CHOOSE g : Flattens(g, seqs, Len(seqs))
    OBVIOUS
  <1>3. L!FlattenSeq(seqs) = f[Len(seqs)]
    BY <1>1, <1>2 DEF L!FlattenSeq, Flattens
  <1>4. Flattens(f, seqs, Len(seqs))
    <2>1. \E g : Flattens(g, seqs, Len(seqs))
      <3>1. \E g \in [1 .. Len(seqs) -> Seq(S)] : Flattens(g, seqs, Len(seqs))
        BY <1>1, FlattenExists, SMTT(20)
      <3> QED
        BY <3>1
    <2> QED
      BY <1>2, <2>1
  <1>5. \A i \in 1 .. Len(seqs) : f[i] = IF i = 1 THEN seqs[i] ELSE f[i - 1] \o seqs[i]
    BY <1>4 DEF Flattens
  <1> QED
    BY <1>3, <1>5

\* What sequences in a row come to is a sequence of the same.
LEMMA FlattenTypes ==
  ASSUME NEW S, NEW seqs \in Seq(Seq(S))
  PROVE  L!FlattenSeq(seqs) \in Seq(S)
  <1>1. CASE seqs = <<>>
    BY <1>1 DEF L!FlattenSeq
  <1>2. CASE seqs # <<>>
    <2>1. PICK f : /\ L!FlattenSeq(seqs) = f[Len(seqs)]
                   /\ \A i \in 1 .. Len(seqs) :
                         f[i] = IF i = 1 THEN seqs[i] ELSE f[i - 1] \o seqs[i]
      BY <1>2, FlattenIs
    <2> DEFINE T == {i \in 1 .. Len(seqs) : f[i] \notin Seq(S)}
    <2>2. Len(seqs) \in 1 .. Len(seqs) /\ \A i \in 1 .. Len(seqs) : seqs[i] \in Seq(S)
      BY <1>2
    <2>3. CASE T # {}
      <3>1. T \subseteq Nat
        OBVIOUS
      <3>2. PICK i \in T : \A j \in T : i <= j
        BY <2>3, <3>1, LeastNumber
      <3>3. i # 1
        BY <2>1, <2>2, <3>2
      <3>4. i - 1 \in 1 .. Len(seqs) /\ i - 1 \notin T
        BY <3>2, <3>3
      <3>5. f[i - 1] \in Seq(S) /\ f[i] = f[i - 1] \o seqs[i] /\ seqs[i] \in Seq(S)
        BY <2>1, <2>2, <3>2, <3>3, <3>4
      <3>6. f[i] \in Seq(S)
        BY <3>5
      <3> QED
        BY <3>2, <3>6
    <2> QED
      BY <2>1, <2>2, <2>3
  <1> QED
    BY <1>1, <1>2

\* Nothing in a row is nothing.
LEMMA FlattenNothing ==
  ASSUME NEW S, NEW seqs \in Seq(Seq(S)), \A i \in 1 .. Len(seqs) : seqs[i] = <<>>
  PROVE  L!FlattenSeq(seqs) = <<>>
  <1>1. CASE seqs = <<>>
    BY <1>1 DEF L!FlattenSeq
  <1>2. CASE seqs # <<>>
    <2>1. PICK f : /\ L!FlattenSeq(seqs) = f[Len(seqs)]
                   /\ \A i \in 1 .. Len(seqs) :
                         f[i] = IF i = 1 THEN seqs[i] ELSE f[i - 1] \o seqs[i]
      BY <1>2, FlattenIs
    <2> DEFINE T == {i \in 1 .. Len(seqs) : f[i] # <<>>}
    <2>2. Len(seqs) \in 1 .. Len(seqs)
      BY <1>2
    <2>3. CASE T # {}
      <3>1. T \subseteq Nat
        OBVIOUS
      <3>2. PICK i \in T : \A j \in T : i <= j
        BY <2>3, <3>1, LeastNumber
      <3>3. i # 1
        BY <2>1, <3>2
      <3>4. i - 1 \in 1 .. Len(seqs) /\ i - 1 \notin T
        BY <3>2, <3>3
      <3>5. f[i] = <<>> \o <<>>
        BY <2>1, <3>2, <3>3, <3>4
      <3> QED
        BY <3>2, <3>5
    <2> QED
      BY <2>1, <2>2, <2>3
  <1> QED
    BY <1>1, <1>2

----------------------------------------------------------------------------
(* The two searches for sites *)

\* The items of a sequence are what it is a sequence of.
LEMMA ItemOf == ASSUME NEW S, NEW s \in Seq(S), NEW i \in DOMAIN s PROVE s[i] \in S
  OBVIOUS

\* What a variable is set to are calls.
LEMMA SetToTypes ==
  ASSUME NEW f, f.body \in Seq(L!Statements), NEW x
  PROVE  L!SetTo(f, x) \in Seq(Int)
  <1> DEFINE set(s) == IF s.k = "var" /\ s.n = x /\ s.v[1] = "call" THEN <<s.v[2]>> ELSE <<>>
  <1>1. PICK seqs : seqs = [i \in DOMAIN f.body |-> set(f.body[i])]
    OBVIOUS
  <1>2. \A s \in L!Statements : s.v[2] \in Int
    BY DEF L!Statements
  <1>3. \A s \in L!Statements : set(s) \in Seq(Int)
    <2> SUFFICES ASSUME NEW s \in L!Statements PROVE set(s) \in Seq(Int)
      OBVIOUS
    <2>1. <<s.v[2]>> \in Seq(Int) /\ <<>> \in Seq(Int)
      BY <1>2
    <2> QED
      BY <2>1
  <1>4. seqs \in Seq(Seq(Int))
    <2>1. \A i \in DOMAIN f.body : set(f.body[i]) \in Seq(Int)
      BY <1>3
    <2> HIDE DEF set
    <2> QED
      BY <1>1, <2>1
  <1>5. L!FlattenSeq(seqs) \in Seq(Int)
    BY <1>4, FlattenTypes
  <1> QED
    BY <1>1, <1>5 DEF L!SetTo

\* In a function that sets a property one way only, the search for it before the job has
\* ended and the one after find the same calls in the same order.
LEMMA SitesInAgree ==
  ASSUME NEW f, f.body \in Seq(L!Statements), NEW key,
         \A m, n \in DOMAIN f.body :
           f.body[m].k = "prop" /\ f.body[n].k = "prop" /\ f.body[m].n = f.body[n].n
             => ~(f.body[m].v[1] = "call" /\ f.body[n].v[1] = "variable")
  PROVE  L!FactorySitesIn(f, key) = L!GuessedSitesIn(f, key)
  <1> DEFINE D(i) == L!Direct(f.body[i], key)
             T(i) == L!Through(f, f.body[i], key)
             E(i) == IF f.body[i].v[1] = "call" THEN D(i) ELSE T(i)
  <1>1. PICK direct, through, either :
          /\ direct = [i \in DOMAIN f.body |-> D(i)]
          /\ through = [i \in DOMAIN f.body |-> T(i)]
          /\ either = [i \in DOMAIN f.body |-> E(i)]
    OBVIOUS
  <1>2. DOMAIN f.body = 1 .. Len(f.body) /\ Len(f.body) \in Nat
    OBVIOUS
  <1>3. ASSUME NEW i \in DOMAIN f.body PROVE D(i) \in Seq(Int) /\ T(i) \in Seq(Int)
    <2>1. f.body[i] \in L!Statements
      OBVIOUS
    <2>2. f.body[i].v[2] \in Int
      BY <2>1 DEF L!Statements
    <2>3. D(i) \in Seq(Int)
      BY <2>2 DEF L!Direct
    <2>4. L!SetTo(f, f.body[i].v[2]) \in Seq(Int)
      BY SetToTypes
    <2>5. T(i) \in Seq(Int)
      BY <2>4 DEF L!Through
    <2> QED
      BY <2>3, <2>5
  <1> HIDE DEF D, T
  <1>4. /\ direct \in Seq(Seq(Int)) /\ Len(direct) = Len(f.body)
        /\ through \in Seq(Seq(Int)) /\ Len(through) = Len(f.body)
    BY <1>1, <1>2, <1>3
  <1>5. L!FlattenSeq(direct) \in Seq(Int) /\ L!FlattenSeq(through) \in Seq(Int)
    BY <1>4, FlattenTypes
  <1>6. L!FlattenSeq(either) = L!FlattenSeq(direct) \o L!FlattenSeq(through)
    <2>1. CASE \A i \in DOMAIN f.body : T(i) = <<>>
      <3>1. \A i \in DOMAIN f.body : E(i) = D(i)
        BY <2>1 DEF D, L!Direct
      <3>2. either = direct
        BY <1>1, <3>1
      <3>3. L!FlattenSeq(through) = <<>>
        <4>1. \A i \in 1 .. Len(through) : through[i] = <<>>
          BY <1>1, <1>2, <1>4, <2>1
        <4> QED
          BY <1>4, <4>1, FlattenNothing
      <3> QED
        BY <1>5, <3>2, <3>3
    <2>2. CASE \E n \in DOMAIN f.body : T(n) # <<>>
      <3>1. \A i \in DOMAIN f.body : D(i) = <<>>
        <4>1. PICK n \in DOMAIN f.body : T(n) # <<>>
          BY <2>2
        <4>2. f.body[n].k = "prop" /\ f.body[n].n = key /\ f.body[n].v[1] = "variable"
          BY <4>1 DEF T, L!Through
        <4> QED
          BY <4>2 DEF D, L!Direct
      <3>2. \A i \in DOMAIN f.body : E(i) = T(i)
        BY <3>1 DEF T, L!Through
      <3>3. either = through
        BY <1>1, <3>2
      <3>4. L!FlattenSeq(direct) = <<>>
        <4>1. \A i \in 1 .. Len(direct) : direct[i] = <<>>
          BY <1>1, <1>2, <1>4, <3>1
        <4> QED
          BY <1>4, <4>1, FlattenNothing
      <3> QED
        BY <1>5, <3>3, <3>4
    <2> QED
      BY <2>1, <2>2
  <1>7. L!FactorySitesIn(f, key) = L!Sites(f, L!FlattenSeq(either))
    BY <1>1 DEF L!FactorySitesIn, D, T
  <1>8. L!GuessedSitesIn(f, key) = L!Sites(f, L!FlattenSeq(direct) \o L!FlattenSeq(through))
    BY <1>1 DEF L!GuessedSitesIn, D, T
  <1> QED
    BY <1>6, <1>7, <1>8

\* So they do in a script of such functions.
LEMMA SitesAgree ==
  ASSUME L!ScriptsAssumption, script \in Scripts, L!OneWayOfSetting, NEW key
  PROVE  L!FactorySites(script, key) = L!GuessedSites(script, key)
  <1>1. PICK fs : fs = L!AllFunctions(script)
    OBVIOUS
  <1>2. fs \in Seq([entry : Int, body : Seq(L!Statements)])
    BY <1>1 DEF L!ScriptsAssumption
  <1>3. ASSUME NEW i \in DOMAIN fs
        PROVE  L!FactorySitesIn(fs[i], key) = L!GuessedSitesIn(fs[i], key)
    <2>1. fs[i].body \in Seq(L!Statements)
      <3>1. fs[i] \in [entry : Int, body : Seq(L!Statements)]
        BY <1>2, ItemOf
      <3> QED
        BY <3>1
    <2> DEFINE body == fs[i].body
    <2>2. \A m, n \in DOMAIN body :
             body[m].k = "prop" /\ body[n].k = "prop" /\ body[m].n = body[n].n
               => ~(body[m].v[1] = "call" /\ body[n].v[1] = "variable")
      BY <1>1 DEF L!OneWayOfSetting
    <2> QED
      BY <2>1, <2>2, SitesInAgree
  <1>4. [i \in DOMAIN fs |-> L!FactorySitesIn(fs[i], key)]
          = [i \in DOMAIN fs |-> L!GuessedSitesIn(fs[i], key)]
    BY <1>3
  <1> QED
    BY <1>1, <1>4 DEF L!FactorySites, L!GuessedSites

----------------------------------------------------------------------------
(* The invariant of compute() *)

JobErrors == {"Worker", "Batches", "ShuffleKey", "Drive"}
Outs == [ok : {TRUE}] \cup [ok : {FALSE}, what : JobErrors]

\* What the job has: the list it tries is one of the script's, and when it has one whose
\* first batch registers something, that has a key.
JobInv ==
    /\ script \in Scripts
    /\ job \in [state : {"none", "choosing", "driving", "ended"}, list : Nat,
                driven : Seq(L!Drives), out : Outs]
    /\ job.list <= Len(L!Lists)
    /\ job.state = "driving" => job.list # 0
    /\ job.state = "driving" \/ (job.state = "ended" /\ job.out.ok)
         => job.driven # <<>> /\ job.driven[1].key # L!None

\* What the caller has when it waits for the job.
GuessInv ==
    /\ guess = [key |-> guess.key, perm |-> guess.perm]
    /\ step = "join" /\ guess.key # L!None =>
         guess.perm = L!Permutation(script, L!GuessedSites(script, guess.key))

\* The cells are as many as there are registrations, and one.  Each holds a registration
\* of a batch that was replayed or was never touched, and no two hold the same one.
CellsInv ==
    /\ L!IsPermutation(perm.perm, L!Registered + 1)
    /\ cells \in [1 .. L!Registered + 1 -> L!Registrations \cup {L!Untouched}]
    /\ replayed \in 0 .. Len(job.driven)
    /\ \A i \in DOMAIN cells : cells[i] # L!Untouched => cells[i][1] <= replayed
    /\ \A i, j \in DOMAIN cells : cells[i] # L!Untouched /\ cells[i] = cells[j] => i = j

LayoutInv ==
    /\ JobInv
    /\ GuessInv
    /\ step \in {"lists", "guess", "permute", "join"} => replayed = 0
    /\ step \in {"replay", "done"} => job.state = "ended"
    /\ step = "replay" => job.out.ok /\ CellsInv
    /\ L!SpeculationIsTransparent
    /\ L!EveryProbePlaced

\* A set of numbers up to n that is not empty has a greatest element.
LEMMA GreatestUpTo ==
  ASSUME NEW n \in Nat, NEW T, T \subseteq 1 .. n, T # {}
  PROVE  \E x \in T : \A y \in T : y <= x
  <1> DEFINE U == {n - x : x \in T}
  <1>1. U \subseteq Nat /\ U # {}
    <2>1. \A x \in T : n - x \in Nat
      OBVIOUS
    <2>2. PICK x : x \in T
      OBVIOUS
    <2>3. n - x \in U
      BY <2>2
    <2> QED
      BY <2>1, <2>3
  <1>2. PICK u \in U : \A v \in U : u <= v
    BY <1>1, LeastNumber
  <1>3. PICK x \in T : u = n - x
    BY <1>2
  <1>4. ASSUME NEW y \in T PROVE y <= x
    <2>1. n - y \in U
      OBVIOUS
    <2>2. u <= n - y
      BY <1>2, <2>1
    <2> QED
      BY <1>3, <2>2
  <1> QED
    BY <1>4

\* What is in a list can be driven.
LEMMA DrivenTypes ==
  ASSUME L!ScriptsAssumption, script \in Scripts, NEW n \in 1 .. Len(L!Lists)
  PROVE  /\ L!Lists[n] \in Seq(Int) /\ 1 \in 1 .. Len(L!Lists[n])
         /\ \A m \in 1 .. Len(L!Lists[n]) : L!Driven(L!Lists[n][m]) \in L!Drives
  <1>1. PICK lists : lists = L!Lists
    OBVIOUS
  <1>2. lists \in Seq(Seq(Int) \ {<<>>})
    BY <1>1 DEF L!ScriptsAssumption, L!Lists
  <1>3. n \in DOMAIN lists
    BY <1>1, <1>2
  <1>4. lists[n] \in Seq(Int) \ {<<>>}
    BY <1>2, <1>3, ItemOf
  <1>5. 1 \in 1 .. Len(lists[n])
    BY <1>4
  <1>6. \A list \in L!ToSet(lists) : \A e \in L!ToSet(list) : script.drives[e] \in L!Drives
    BY <1>1 DEF L!ScriptsAssumption, L!Lists
  <1>7. lists[n] \in L!ToSet(lists)
    BY <1>3 DEF L!ToSet
  <1>8. ASSUME NEW m \in 1 .. Len(lists[n]) PROVE L!Driven(lists[n][m]) \in L!Drives
    <2>1. m \in DOMAIN lists[n]
      BY <1>4
    <2>2. lists[n][m] \in L!ToSet(lists[n])
      BY <2>1 DEF L!ToSet
    <2> QED
      BY <1>6, <1>7, <2>2 DEF L!Driven
  <1> QED
    BY <1>1, <1>4, <1>5, <1>8

\* The registrations can be counted.
LEMMA RegistrationsFinite ==
  ASSUME job.driven \in Seq(L!Drives)
  PROVE  /\ IsFiniteSet(L!Registrations)
         /\ L!Registered \in Nat /\ L!Registered = Cardinality(L!Registrations)
  <1> DEFINE of(b) == {L!Cell(b, p) : p \in DOMAIN job.driven[b].slots}
             all == {of(b) : b \in DOMAIN job.driven}
  <1>1. DOMAIN job.driven = 1 .. Len(job.driven) /\ Len(job.driven) \in Nat
    OBVIOUS
  <1>2. ASSUME NEW b \in DOMAIN job.driven PROVE IsFiniteSet(of(b))
    <2>1. job.driven[b] \in L!Drives
      BY ItemOf
    <2>2. job.driven[b].slots \in Seq(Nat)
      BY <2>1 DEF L!Drives
    <2>3. PICK n \in Nat : DOMAIN job.driven[b].slots = 1 .. n
      BY <2>2
    <2>4. PICK f : f = [p \in 1 .. n |-> L!Cell(b, p)]
      OBVIOUS
    <2>5. of(b) = {L!Cell(b, p) : p \in 1 .. n}
      BY <2>3
    <2>6. f \in [1 .. n -> of(b)] /\ \A c \in of(b) : \E p \in 1 .. n : f[p] = c
      BY <2>4, <2>5
    <2>7. f \in Surjection(1 .. n, of(b))
      <3> HIDE DEF of
      <3> QED
        BY <2>6, Fun_IsSurj
    <2>8. IsFiniteSet(1 .. n)
      BY FS_Interval
    <2> HIDE DEF of
    <2> QED
      BY <2>7, <2>8, FS_Surjection
  <1>3. IsFiniteSet(all)
    <2>1. PICK f : f = [b \in 1 .. Len(job.driven) |-> of(b)]
      OBVIOUS
    <2> HIDE DEF of
    <2>2. f \in [1 .. Len(job.driven) -> all]
          /\ \A c \in all : \E b \in 1 .. Len(job.driven) : f[b] = c
      BY <1>1, <2>1
    <2> HIDE DEF all
    <2>3. f \in Surjection(1 .. Len(job.driven), all)
      BY <2>2, Fun_IsSurj
    <2>4. IsFiniteSet(1 .. Len(job.driven))
      BY <1>1, FS_Interval
    <2> QED
      BY <2>3, <2>4, FS_Surjection
  <1>4. \A T \in all : IsFiniteSet(T)
    <2> HIDE DEF of
    <2> QED
      BY <1>2
  <1>5. L!Registrations = UNION all
    BY DEF L!Registrations
  <1>6. IsFiniteSet(L!Registrations)
    <2> HIDE DEF all
    <2> QED
      BY <1>3, <1>4, <1>5, FS_UNION
  <1>7. Cardinality(L!Registrations) \in Nat
    BY <1>6, FS_CardinalityType
  <1>8. L!Registered = Cardinality(L!Registrations)
    BY DEF L!Registered, L!Cardinality, Cardinality, L!IsFiniteSet, IsFiniteSet
  <1> QED
    BY <1>6, <1>7, <1>8

\* When the job ends without an error it has a batch and a key.
LEMMA JobEnds ==
  ASSUME JobInv, script' = script, NEW out \in Outs, job' = L!EndJob(out),
         out.ok => job.driven # <<>> /\ job.driven[1].key # L!None
  PROVE  JobInv'
  <1>1. /\ job'.state = "ended" /\ job'.list = job.list /\ job'.driven = job.driven /\ job'.out = out
        /\ job' \in [state : {"none", "choosing", "driving", "ended"}, list : Nat,
                     driven : Seq(L!Drives), out : Outs]
    <2>1. job' = [job EXCEPT !.state = "ended", !.out = out]
      BY DEF L!EndJob
    <2>2. job \in [state : {"none", "choosing", "driving", "ended"}, list : Nat,
                   driven : Seq(L!Drives), out : Outs]
      BY DEF JobInv
    <2> QED
      BY <2>1, <2>2
  <1>2. L!Lists' = L!Lists
    BY DEF L!Lists
  <1> QED
    BY <1>1, <1>2 DEF JobInv

LEMMA JobFails ==
  ASSUME JobInv, script' = script, NEW what \in JobErrors, job' = L!EndJob(L!Err(what))
  PROVE  JobInv'
  <1>1. PICK out : out = L!Err(what)
    OBVIOUS
  <1>2. out = [ok |-> FALSE, what |-> what]
    BY <1>1 DEF L!Err
  <1>3. out \in Outs /\ ~out.ok
    BY <1>2 DEF Outs
  <1>4. job' = L!EndJob(out)
    BY <1>1
  <1> QED
    BY <1>3, <1>4, JobEnds

\* The job alone keeps the invariant of the job.
LEMMA JobKeeps ==
  ASSUME L!ScriptsAssumption, JobInv, L!TryList \/ L!DriveBatch \/ L!JobPanics
  PROVE  /\ JobInv' /\ job.state # "ended"
         /\ UNCHANGED <<script, guess, step, perm, cells, replayed, result>>
  <1>1. UNCHANGED <<script, guess, step, perm, cells, replayed, result>>
    BY DEF L!TryList, L!DriveBatch, L!JobPanics
  <1>2. L!Lists' = L!Lists
    BY <1>1 DEF L!Lists
  <1>3. script' = script
    BY <1>1
  <1>4. CASE L!TryList
    <2>1. job.state = "choosing" /\ job.state # "ended"
      BY <1>4 DEF L!TryList
    <2> DEFINE n == job.list + 1
               d == L!Driven(L!Lists[n][1])
    <2>2. job' = IF n > Len(L!Lists) THEN L!EndJob(L!Err("Batches"))
                 ELSE IF d.fault \/ d.slots = <<>> THEN [job EXCEPT !.list = n]
                 ELSE IF d.key = L!None THEN L!EndJob(L!Err("ShuffleKey"))
                 ELSE [job EXCEPT !.list = n, !.driven = <<d>>, !.state = "driving"]
      BY <1>4 DEF L!TryList
    <2>3. Len(L!Lists) \in Nat
      BY DEF JobInv, L!ScriptsAssumption, L!Lists
    <2>4. CASE n > Len(L!Lists)
      <3>1. job' = L!EndJob(L!Err("Batches"))
        BY <2>2, <2>4
      <3>2. JobInv'
        BY <1>3, <3>1, JobFails DEF JobErrors
      <3> QED
        BY <1>1, <2>1, <3>2
    <2>5. CASE ~(n > Len(L!Lists))
      <3>1. n \in 1 .. Len(L!Lists)
        BY <2>3, <2>5 DEF JobInv
      <3>2. d \in L!Drives
        BY <3>1, DrivenTypes DEF JobInv
      <3>3. CASE d.fault \/ d.slots = <<>>
        <4>1. job' = [job EXCEPT !.list = n]
          BY <2>2, <2>5, <3>3
        <4> QED
          BY <1>1, <1>2, <2>1, <3>1, <4>1 DEF JobInv
      <3>4. CASE ~(d.fault \/ d.slots = <<>>) /\ d.key = L!None
        <4>1. job' = L!EndJob(L!Err("ShuffleKey"))
          BY <2>2, <2>5, <3>4
        <4>2. JobInv'
          BY <1>3, <4>1, JobFails DEF JobErrors
        <4> QED
          BY <1>1, <2>1, <4>2
      <3>5. CASE ~(d.fault \/ d.slots = <<>>) /\ d.key # L!None
        <4>1. job' = [job EXCEPT !.list = n, !.driven = <<d>>, !.state = "driving"]
          BY <2>2, <2>5, <3>5
        <4> HIDE DEF d
        <4>2. <<d>> \in Seq(L!Drives) /\ <<d>> # <<>> /\ <<d>>[1] = d
          BY <3>2
        <4>3. job \in [state : {"none", "choosing", "driving", "ended"}, list : Nat,
                       driven : Seq(L!Drives), out : Outs]
          BY DEF JobInv
        <4>4. /\ job'.state = "driving" /\ job'.list = n /\ job'.driven = <<d>>
              /\ job' \in [state : {"none", "choosing", "driving", "ended"}, list : Nat,
                           driven : Seq(L!Drives), out : Outs]
          <5>1. job' = [state |-> "driving", list |-> n, driven |-> <<d>>, out |-> job.out]
            BY <4>1, <4>3
          <5>2. n \in Nat /\ job.out \in Outs
            BY <3>1, <4>3
          <5> HIDE DEF n
          <5> QED
            BY <4>2, <5>1, <5>2
        <4> QED
          BY <1>1, <1>2, <2>1, <3>1, <3>5, <4>2, <4>4 DEF JobInv
      <3> QED
        BY <3>3, <3>4, <3>5
    <2> QED
      BY <1>1, <2>1, <2>4, <2>5
  <1>5. CASE L!DriveBatch
    <2>1. job.state = "driving" /\ job.state # "ended"
      BY <1>5 DEF L!DriveBatch
    <2> DEFINE list == L!Lists[job.list]
               n == Len(job.driven) + 1
               d == L!Driven(list[n])
    <2>2. job' = IF n > Len(list) THEN L!EndJob([ok |-> TRUE])
                 ELSE IF d.fault THEN L!EndJob(L!Err("Drive"))
                 ELSE [job EXCEPT !.driven = Append(@, d)]
      BY <1>5 DEF L!DriveBatch
    <2>3. /\ Len(L!Lists) \in Nat /\ job.list \in 1 .. Len(L!Lists)
          /\ Len(job.driven) \in Nat /\ n \in Nat
      BY <2>1 DEF JobInv, L!ScriptsAssumption, L!Lists
    <2>4. CASE n > Len(list)
      <3>1. job' = L!EndJob([ok |-> TRUE]) /\ [ok |-> TRUE] \in Outs
        BY <2>2, <2>4 DEF Outs
      <3> QED
        BY <1>1, <2>1, <3>1, JobEnds DEF JobInv
    <2>5. CASE ~(n > Len(list)) /\ d.fault
      <3>1. job' = L!EndJob(L!Err("Drive"))
        BY <2>2, <2>5
      <3>2. JobInv'
        BY <1>3, <3>1, JobFails DEF JobErrors
      <3> QED
        BY <1>1, <2>1, <3>2
    <2>6. CASE ~(n > Len(list)) /\ ~d.fault
      <3>1. job' = [job EXCEPT !.driven = Append(@, d)]
        BY <2>2, <2>6
      <3>2. list \in Seq(Int)
        BY <2>3, DrivenTypes DEF JobInv
      <3>3. n \in 1 .. Len(list)
        <4> HIDE DEF list
        <4> QED
          BY <2>3, <2>6, <3>2
      <3>4. d \in L!Drives
        BY <2>3, <3>3, DrivenTypes DEF JobInv
      <3> HIDE DEF d
      <3>5. job.driven \in Seq(L!Drives) /\ job.driven # <<>>
        BY <2>1 DEF JobInv
      <3>6. /\ Append(job.driven, d) \in Seq(L!Drives)
            /\ Append(job.driven, d) # <<>> /\ Append(job.driven, d)[1] = job.driven[1]
        BY <3>4, <3>5
      <3> QED
        BY <1>1, <1>2, <2>1, <3>1, <3>6 DEF JobInv
    <2> QED
      BY <1>1, <2>1, <2>4, <2>5, <2>6
  <1>6. CASE L!JobPanics
    <2>1. job.state \in {"choosing", "driving"} /\ job' = L!EndJob(L!Err("Worker"))
      BY <1>6 DEF L!JobPanics
    <2>2. job.state # "ended"
      BY <2>1
    <2>3. JobInv'
      BY <1>3, <2>1, JobFails DEF JobErrors
    <2> QED
      BY <1>1, <2>2, <2>3
  <1> QED
    BY <1>4, <1>5, <1>6

\* A permutation that is given is one, and an error says what was wrong.
LEMMA PermutationIs ==
  ASSUME NEW s, NEW sites, NEW p, p = L!Permutation(s, sites)
  PROVE  IF p.ok THEN L!IsPermutation(p.perm, Len(p.perm)) ELSE p.what # "none"
  <1>1. ASSUME NEW what PROVE ~L!Err(what).ok /\ L!Err(what).what = what
    <2>1. PICK e : e = [ok |-> FALSE, what |-> what]
      OBVIOUS
    <2>2. ~e.ok /\ e.what = what
      BY <2>1
    <2> QED
      BY <2>1, <2>2 DEF L!Err
  <1> DEFINE good == {i \in DOMAIN sites : s.made[sites[i].call] = "closure"}
             site == sites[CHOOSE i \in good : \A j \in good : i <= j]
             len == L!TemplateLen(site.f)
             items == s.shuffled[site.call]
             given == [ok |-> TRUE, perm |-> items, site |-> site]
  <1>2. \/ p = L!Err("FactoryRun") \/ p = L!Err("Factory")
        \/ p = L!Err("Template") \/ p = L!Err("TemplateInit")
        \/ p = L!Err("Shuffle") \/ p = L!Err("Permutation")
        \/ p = given /\ L!IsPermutation(items, len)
    BY Zenon DEF L!Permutation
  <1> HIDE DEF items, len, site
  <1>3. CASE p = given /\ L!IsPermutation(items, len)
    <2>1. p.ok /\ p.perm = items /\ Len(items) = len
      BY <1>3 DEF L!IsPermutation
    <2> QED
      BY <1>3, <2>1
  <1> HIDE DEF given
  <1> QED
    BY <1>1, <1>2, <1>3

\* Join takes a permutation that was computed from the sites of the driven key: the one
\* that was guessed, or a new one.
LEMMA JoinTakes ==
  ASSUME L!ScriptsAssumption, JobInv, GuessInv, step = "join", job.state = "ended", job.out.ok,
         NEW p, p = L!PermFor(job.driven[1].key)
  PROVE  /\ \E sites : p = L!Permutation(script, sites)
         /\ L!OneWayOfSetting =>
              p = L!Permutation(script, L!FactorySites(script, job.driven[1].key))
  <1> DEFINE key == job.driven[1].key
  <1>1. key # L!None /\ script \in Scripts
    BY DEF JobInv
  <1>2. CASE guess.key = key
    <2>1. p = L!Permutation(script, L!GuessedSites(script, key))
      BY <1>1, <1>2 DEF L!PermFor, GuessInv
    <2>2. L!OneWayOfSetting => L!FactorySites(script, key) = L!GuessedSites(script, key)
      BY <1>1, SitesAgree
    <2> QED
      BY <2>1, <2>2
  <1>3. CASE guess.key # key
    BY <1>3 DEF L!PermFor
  <1> QED
    BY <1>2, <1>3

\* Nothing is left out of what is checked before the cells are filled.
LEMMA CheckedIs ==
  ASSUME NEW p, NEW sites, p = L!Permutation(script, sites), L!CheckedBefore(p) = "none"
  PROVE  L!IsPermutation(p.perm, L!Registered + 1)
  <1>1. IF p.ok THEN L!IsPermutation(p.perm, Len(p.perm)) ELSE p.what # "none"
    BY PermutationIs
  <1>2. p.ok /\ L!Registered + 1 = Len(p.perm)
    BY <1>1 DEF L!CheckedBefore
  <1> QED
    BY <1>1, <1>2

LEMMA JoinKeeps ==
  ASSUME L!ScriptsAssumption, LayoutInv, L!Join
  PROVE  LayoutInv'
  <1>1. /\ step = "join" /\ job.state = "ended"
        /\ UNCHANGED <<script, job, guess, replayed>>
    BY DEF L!Join
  <1>2. JobInv' /\ GuessInv' /\ job'.state = "ended" /\ step' # "join"
    <2>1. L!Lists' = L!Lists
      BY <1>1 DEF L!Lists
    <2>2. step' # "join"
      BY DEF L!Join, L!Fail
    <2> QED
      BY <1>1, <2>1, <2>2 DEF LayoutInv, JobInv, GuessInv
  <1>3. CASE ~job.out.ok
    <2>1. step' = "done" /\ ~result'.ok
      BY <1>3 DEF L!Join, L!Fail, L!Err
    <2> QED
      BY <1>1, <1>2, <1>3, <2>1 DEF LayoutInv, L!SpeculationIsTransparent, L!EveryProbePlaced
  <1>4. CASE job.out.ok
    <2>1. PICK p : p = L!PermFor(job.driven[1].key)
      OBVIOUS
    <2>2. perm' = p
      BY <1>4, <2>1 DEF L!Join
    <2>3. /\ \E sites : p = L!Permutation(script, sites)
          /\ L!OneWayOfSetting =>
               p = L!Permutation(script, L!FactorySites(script, job.driven[1].key))
      BY <1>1, <1>4, <2>1, JoinTakes DEF LayoutInv
    <2>4. L!SpeculationIsTransparent'
      <3>1. L!OneWayOfSetting' <=> L!OneWayOfSetting
        BY <1>1 DEF L!OneWayOfSetting
      <3> QED
        BY <1>1, <2>2, <2>3, <3>1 DEF L!SpeculationIsTransparent
    <2>5. CASE L!CheckedBefore(p) # "none"
      <3>1. step' = "done" /\ ~result'.ok
        BY <1>4, <2>2, <2>5 DEF L!Join, L!Fail, L!Err
      <3> QED
        BY <1>2, <2>4, <3>1 DEF LayoutInv, L!EveryProbePlaced
    <2>6. CASE L!CheckedBefore(p) = "none"
      <3>1. step' = "replay" /\ cells' = [i \in 1 .. Len(p.perm) |-> L!Untouched]
        BY <1>4, <2>2, <2>6 DEF L!Join
      <3>2. L!IsPermutation(p.perm, L!Registered + 1)
        BY <2>3, <2>6, CheckedIs
      <3>3. Len(p.perm) = L!Registered + 1
        BY <3>2 DEF L!IsPermutation
      <3>4. L!Registered' = L!Registered /\ L!Registrations' = L!Registrations
        BY <1>1 DEF L!Registered, L!Registrations
      <3>5. replayed = 0
        BY <1>1 DEF LayoutInv
      <3> QED
        BY <1>1, <1>2, <1>4, <2>2, <2>4, <3>1, <3>2, <3>3, <3>4, <3>5
           DEF LayoutInv, CellsInv, L!EveryProbePlaced
    <2> QED
      BY <2>5, <2>6
  <1> QED
    BY <1>3, <1>4

\* A batch is replayed: what was in the cells is shuffled, which takes nothing to two
\* places, and the registrations of the batch differ from all that were made before.
LEMMA ReplayCells ==
  ASSUME JobInv, CellsInv, L!Replay, step' # "done"
  PROVE  CellsInv'
  <1> DEFINE b == replayed + 1
             slot == job.driven[b].slots
             R == L!Registrations
             n == L!Registered + 1
             sh(i) == cells[perm.perm[i] + 1]
             tk(i) == {p \in DOMAIN slot : slot[p] + 1 = i}
             top(i) == CHOOSE p \in tk(i) : \A q \in tk(i) : q <= p
  <1>1. /\ replayed < Len(job.driven) /\ replayed' = b /\ UNCHANGED <<script, job, guess, perm>>
        /\ cells' = [i \in DOMAIN cells |->
                       IF tk(i) = {} THEN [j \in DOMAIN cells |-> sh(j)][i] ELSE L!Cell(b, top(i))]
    BY DEF L!Replay, L!Fail
  <1>2. n \in Nat /\ job.driven \in Seq(L!Drives) /\ b \in DOMAIN job.driven /\ b \in Nat
    <2>1. job.driven \in Seq(L!Drives)
      BY DEF JobInv
    <2>2. L!Registered \in Nat
      BY <2>1, RegistrationsFinite
    <2> QED
      BY <1>1, <2>1, <2>2 DEF CellsInv
  <1>3. slot \in Seq(Nat)
    <2>1. job.driven[b] \in L!Drives
      BY <1>2, ItemOf
    <2> QED
      BY <2>1 DEF L!Drives
  <1>4. /\ perm.perm \in [1 .. n -> 0 .. n - 1]
        /\ \A i, j \in 1 .. n : perm.perm[i] = perm.perm[j] => i = j
        /\ cells \in [1 .. n -> R \cup {L!Untouched}] /\ DOMAIN cells = 1 .. n
        /\ replayed \in Nat
        /\ \A i \in 1 .. n : cells[i] # L!Untouched => cells[i][1] <= replayed
        /\ \A i, j \in 1 .. n : cells[i] # L!Untouched /\ cells[i] = cells[j] => i = j
    <2>1. DOMAIN perm.perm = 1 .. n /\ DOMAIN cells = 1 .. n
      BY DEF CellsInv, L!IsPermutation
    <2>2. /\ perm.perm \in [1 .. n -> 0 .. n - 1]
          /\ \A i, j \in DOMAIN perm.perm : perm.perm[i] = perm.perm[j] => i = j
      BY DEF CellsInv, L!IsPermutation
    <2>3. replayed \in Nat
      BY <1>2 DEF CellsInv
    <2> QED
      BY <2>1, <2>2, <2>3 DEF CellsInv
  <1>5. ASSUME NEW i, tk(i) # {} PROVE top(i) \in DOMAIN slot /\ slot[top(i)] + 1 = i
    <2>1. tk(i) \subseteq 1 .. Len(slot) /\ Len(slot) \in Nat
      BY <1>3
    <2>2. \E p \in tk(i) : \A q \in tk(i) : q <= p
      <3> HIDE DEF slot, tk
      <3> QED
        BY <1>5, <2>1, GreatestUpTo
    <2>3. top(i) \in tk(i)
      <3> HIDE DEF tk
      <3> QED
        BY <2>2
    <2> QED
      BY <2>3
  <1>6. ASSUME NEW p \in DOMAIN slot
        PROVE  L!Cell(b, p) \in R /\ L!Cell(b, p) # L!Untouched /\ L!Cell(b, p)[1] = b
    BY <1>2 DEF L!Registrations, L!Cell, L!Untouched
  <1> HIDE DEF slot, R, n, tk, top
  <1>7. ASSUME NEW i \in 1 .. n PROVE perm.perm[i] + 1 \in 1 .. n
    <2>1. perm.perm[i] \in 0 .. n - 1
      BY <1>4
    <2> QED
      BY <1>2, <2>1
  <1>8. ASSUME NEW i \in 1 .. n
        PROVE  /\ tk(i) = {} => cells'[i] = sh(i)
               /\ tk(i) # {} => cells'[i] = L!Cell(b, top(i)) /\ top(i) \in DOMAIN slot
    BY <1>1, <1>4, <1>5
  <1>9. ASSUME NEW i \in 1 .. n
        PROVE  cells'[i] \in R \cup {L!Untouched} /\ (cells'[i] # L!Untouched => cells'[i][1] <= b)
    <2>1. CASE tk(i) = {}
      <3>1. PICK k \in 1 .. n : cells'[i] = cells[k]
        BY <1>7, <1>8, <2>1
      <3>2. /\ cells[k] \in R \cup {L!Untouched}
            /\ cells[k] # L!Untouched => cells[k][1] \in Nat /\ cells[k][1] <= replayed
        <4>1. cells[k] \in R \cup {L!Untouched}
          BY <1>4
        <4>2. \A c \in R : c[1] \in Nat
          BY <1>2 DEF R, L!Registrations, L!Cell
        <4> QED
          BY <1>4, <4>1, <4>2
      <3> QED
        BY <1>4, <3>1, <3>2
    <2>2. CASE tk(i) # {}
      BY <1>2, <1>6, <1>8, <2>2
    <2> QED
      BY <2>1, <2>2
  <1>10. ASSUME NEW i \in 1 .. n, NEW j \in 1 .. n, cells'[i] # L!Untouched, cells'[i] = cells'[j]
         PROVE  i = j
    <2>1. CASE tk(i) = {} /\ tk(j) = {}
      <3>1. perm.perm[i] + 1 = perm.perm[j] + 1
        BY <1>4, <1>7, <1>8, <1>10, <2>1
      <3>2. perm.perm[i] \in 0 .. n - 1 /\ perm.perm[j] \in 0 .. n - 1
        BY <1>4
      <3>3. perm.perm[i] = perm.perm[j]
        BY <1>2, <3>1, <3>2
      <3> QED
        BY <1>4, <3>3
    <2>2. CASE tk(i) # {} /\ tk(j) # {}
      <3>1. L!Cell(b, top(i)) = L!Cell(b, top(j))
        BY <1>8, <1>10, <2>2
      <3>2. top(i) = top(j)
        BY <3>1 DEF L!Cell
      <3> QED
        BY <1>5, <2>2, <3>2
    <2>3. ASSUME NEW x \in 1 .. n, NEW y \in 1 .. n, tk(x) = {}, tk(y) # {},
                 cells'[x] # L!Untouched, cells'[x] = cells'[y]
          PROVE  FALSE
      <3>1. cells'[x][1] <= replayed
        BY <1>4, <1>7, <1>8, <2>3
      <3>2. cells'[y][1] = b
        BY <1>6, <1>8, <2>3
      <3> QED
        BY <1>4, <2>3, <3>1, <3>2
    <2> QED
      BY <1>10, <2>1, <2>2, <2>3
  <1>11. L!Registrations' = R /\ L!Registered' + 1 = n
    BY <1>1 DEF L!Registered, L!Registrations, R, n
  <1>12. cells' \in [1 .. n -> R \cup {L!Untouched}] /\ DOMAIN cells' = 1 .. n
    BY <1>1, <1>4, <1>9
  <1>13. L!IsPermutation(perm.perm, L!Registered + 1)'
    BY <1>1, <1>11 DEF CellsInv, L!IsPermutation, n
  <1>14. replayed' \in 0 .. Len(job'.driven)
    BY <1>1, <1>2, <1>4
  <1> QED
    BY <1>1, <1>9, <1>10, <1>11, <1>12, <1>13, <1>14, ZenonT(30) DEF CellsInv

LEMMA ReplayKeeps ==
  ASSUME LayoutInv, L!Replay
  PROVE  LayoutInv'
  <1>1. step = "replay" /\ UNCHANGED <<script, job, guess, perm>>
    BY DEF L!Replay
  <1>2. step' = "replay" \/ (step' = "done" /\ ~result'.ok)
    BY <1>1 DEF L!Replay, L!Fail, L!Err
  <1>3. JobInv' /\ GuessInv'
    <2>1. L!Lists' = L!Lists
      BY <1>1 DEF L!Lists
    <2> QED
      BY <1>1, <1>2, <2>1 DEF LayoutInv, JobInv, GuessInv
  <1>4. L!SpeculationIsTransparent'
    <2>1. L!OneWayOfSetting' <=> L!OneWayOfSetting
      BY <1>1 DEF L!OneWayOfSetting
    <2> QED
      BY <1>1, <2>1 DEF LayoutInv, L!SpeculationIsTransparent
  <1>5. step' # "done" => CellsInv'
    BY <1>1, ReplayCells DEF LayoutInv
  <1> QED
    BY <1>1, <1>2, <1>3, <1>4, <1>5 DEF LayoutInv, L!EveryProbePlaced

\* When one cell is left untouched, there are as many cells that hold a registration as
\* there are registrations; as no two hold the same one, each registration is in one.
LEMMA AllHeld ==
  ASSUME JobInv, CellsInv, NEW m \in DOMAIN cells,
         {i \in DOMAIN cells : cells[i] = L!Untouched} = {m}
  PROVE  \A c \in L!Registrations : \E i \in DOMAIN cells \ {m} : cells[i] = c
  <1> DEFINE R == L!Registrations
             n == L!Registered + 1
  <1>1. IsFiniteSet(R) /\ n - 1 = Cardinality(R) /\ n \in Nat /\ n >= 1
    <2>1. /\ IsFiniteSet(L!Registrations)
          /\ L!Registered \in Nat /\ L!Registered = Cardinality(L!Registrations)
      BY RegistrationsFinite DEF JobInv
    <2> QED
      BY <2>1
  <1>2. /\ cells \in [1 .. n -> R \cup {L!Untouched}] /\ DOMAIN cells = 1 .. n
        /\ \A i, j \in 1 .. n : cells[i] # L!Untouched /\ cells[i] = cells[j] => i = j
    <2>1. DOMAIN cells = 1 .. n
      BY DEF CellsInv
    <2> QED
      BY <2>1 DEF CellsInv
  <1> HIDE DEF R, n
  <1>3. PICK S : S = (1 .. n) \ {m}
    OBVIOUS
  <1>4. IsFiniteSet(S) /\ Cardinality(S) = n - 1
    <2>1. n \in Int
      BY <1>1
    <2>2. IsFiniteSet(1 .. n) /\ Cardinality(1 .. n) = n
      BY <1>1, <2>1, FS_Interval
    <2>3. m \in 1 .. n
      BY <1>2
    <2>4. /\ IsFiniteSet((1 .. n) \ {m})
          /\ Cardinality((1 .. n) \ {m}) = Cardinality(1 .. n) - 1
      BY <2>2, <2>3, FS_RemoveElement
    <2> QED
      BY <1>3, <2>2, <2>4
  <1>5. \A i \in S : i \in 1 .. n /\ cells[i] # L!Untouched /\ cells[i] \in R
    BY <1>2, <1>3
  <1>6. PICK f : f = [i \in S |-> cells[i]]
    OBVIOUS
  <1>7. f \in [S -> R] /\ \A i, j \in S : f[i] = f[j] => i = j
    BY <1>2, <1>5, <1>6
  <1>8. f \in Injection(S, R)
    BY <1>7, Fun_IsInj
  <1>9. f \in Surjection(S, R)
    BY <1>1, <1>4, <1>8, FS_Injection
  <1>10. \A c \in R : \E i \in S : f[i] = c
    BY <1>9, Fun_SurjectionProperties
  <1>11. S = DOMAIN cells \ {m}
    BY <1>2, <1>3
  <1> QED
    BY <1>6, <1>10, <1>11 DEF R

\* So the registrations are told cells of their own.
LEMMA PlaceTells ==
  ASSUME JobInv, CellsInv, L!Place, result'.ok
  PROVE  L!EveryProbePlaced'
  <1> DEFINE left == {i \in DOMAIN cells : cells[i] = L!Untouched}
             held(c) == {i \in DOMAIN cells : cells[i] = c}
             where(c) == IF held(c) = {} THEN 0 ELSE CHOOSE i \in held(c) : \A j \in held(c) : j <= i
  <1>1. UNCHANGED <<script, job, guess, perm, cells, replayed>>
    BY DEF L!Place
  <1>2. \E i \in left : left = {i}
    BY DEF L!Place, L!Fail, L!Err
  <1>3. result' = [ok |-> TRUE, perm |-> perm, metadata |-> CHOOSE i \in left : TRUE,
                   placed |-> [b \in DOMAIN job.driven |->
                                 [p \in DOMAIN job.driven[b].slots |-> where(L!Cell(b, p))]]]
    BY <1>2 DEF L!Place
  <1>4. PICK m \in DOMAIN cells : left = {m}
    BY <1>2
  <1>5. result'.metadata = m
    BY <1>3, <1>4
  <1>6. ASSUME NEW c \in L!Registrations
        PROVE  where(c) \in DOMAIN cells \ {m} /\ cells[where(c)] = c
    <2>1. PICK i \in DOMAIN cells \ {m} : cells[i] = c
      BY <1>4, AllHeld
    <2>2. cells[i] # L!Untouched
      BY <1>4, <2>1
    <2>3. held(c) = {i}
      BY <2>1, <2>2 DEF CellsInv
    <2>4. i \in Int
      BY DEF CellsInv
    <2>5. where(c) = i
      BY <2>3, <2>4
    <2> QED
      BY <2>1, <2>5
  <1> HIDE DEF where
  <1>7. ASSUME NEW c \in L!Registrations PROVE result'.placed[c[1]][c[2]] = where(c)
    <2>1. PICK b \in DOMAIN job.driven : \E p \in DOMAIN job.driven[b].slots : c = L!Cell(b, p)
      BY DEF L!Registrations
    <2>2. PICK p \in DOMAIN job.driven[b].slots : c = L!Cell(b, p)
      BY <2>1
    <2>3. c[1] = b /\ c[2] = p
      BY <2>2 DEF L!Cell
    <2>4. result'.placed[b][p] = where(L!Cell(b, p))
      BY <1>3
    <2> QED
      BY <2>2, <2>3, <2>4
  <1>8. L!Registrations' = L!Registrations
    BY <1>1 DEF L!Registrations
  <1>9. \A c \in L!Registrations :
          result'.placed[c[1]][c[2]] \in DOMAIN cells' \ {result'.metadata}
    BY <1>1, <1>5, <1>6, <1>7
  <1>10. \A c, d \in L!Registrations :
           result'.placed[c[1]][c[2]] = result'.placed[d[1]][d[2]] => c = d
    BY <1>6, <1>7
  <1> QED
    BY <1>8, <1>9, <1>10 DEF L!EveryProbePlaced

LEMMA PlaceKeeps ==
  ASSUME LayoutInv, L!Place
  PROVE  LayoutInv'
  <1>1. step = "replay" /\ step' = "done" /\ UNCHANGED <<script, job, guess, perm>>
    BY DEF L!Place, L!Fail
  <1>2. JobInv' /\ GuessInv'
    <2>1. L!Lists' = L!Lists
      BY <1>1 DEF L!Lists
    <2> QED
      BY <1>1, <2>1 DEF LayoutInv, JobInv, GuessInv
  <1>3. L!SpeculationIsTransparent'
    <2>1. L!OneWayOfSetting' <=> L!OneWayOfSetting
      BY <1>1 DEF L!OneWayOfSetting
    <2> QED
      BY <1>1, <2>1 DEF LayoutInv, L!SpeculationIsTransparent
  <1>4. L!EveryProbePlaced'
    <2>1. CASE result'.ok
      BY <1>1, <2>1, PlaceTells DEF LayoutInv
    <2>2. CASE ~result'.ok
      BY <2>2 DEF L!EveryProbePlaced
    <2> QED
      BY <2>1, <2>2
  <1> QED
    BY <1>1, <1>2, <1>3, <1>4 DEF LayoutInv

\* Every step of the job and of the caller keeps the invariant.
LEMMA LayoutNext ==
  ASSUME L!ScriptsAssumption, LayoutInv, [L!Next]_L!vars
  PROVE  LayoutInv'
  <1>1. CASE L!TryList \/ L!DriveBatch \/ L!JobPanics
    <2>1. /\ JobInv' /\ job.state # "ended"
          /\ UNCHANGED <<script, guess, step, perm, cells, replayed, result>>
      BY <1>1, JobKeeps DEF LayoutInv
    <2>2. step \notin {"replay", "done"}
      BY <2>1 DEF LayoutInv
    <2> QED
      BY <2>1, <2>2 DEF LayoutInv, GuessInv, L!SpeculationIsTransparent, L!EveryProbePlaced
  <1>2. CASE L!Open
    <2>1. /\ job' = [job EXCEPT !.state = "choosing"] /\ step = "lists" /\ step' = "guess"
          /\ UNCHANGED <<script, guess, perm, cells, replayed, result>>
      BY <1>2 DEF L!Open
    <2>2. JobInv'
      <3>1. L!Lists' = L!Lists
        BY <2>1 DEF L!Lists
      <3>2. job \in [state : {"none", "choosing", "driving", "ended"}, list : Nat,
                     driven : Seq(L!Drives), out : Outs]
        BY DEF LayoutInv, JobInv
      <3>3. /\ job'.state = "choosing" /\ job'.list = job.list
            /\ job' \in [state : {"none", "choosing", "driving", "ended"}, list : Nat,
                         driven : Seq(L!Drives), out : Outs]
        BY <2>1, <3>2
      <3> QED
        BY <2>1, <3>1, <3>3 DEF LayoutInv, JobInv
    <2> QED
      BY <2>1, <2>2 DEF LayoutInv, GuessInv, L!SpeculationIsTransparent, L!EveryProbePlaced
  <1>3. CASE L!Speculate \/ L!Permute
    <2>1. /\ UNCHANGED <<script, job, perm, cells, replayed, result>>
          /\ step \in {"guess", "permute"} /\ step' \in {"permute", "join"}
      BY <1>3 DEF L!Speculate, L!Permute
    <2>2. JobInv'
      <3>1. L!Lists' = L!Lists
        BY <2>1 DEF L!Lists
      <3> QED
        BY <2>1, <3>1 DEF LayoutInv, JobInv
    <2>3. GuessInv'
      <3>1. guess = [key |-> guess.key, perm |-> guess.perm]
        BY DEF LayoutInv, GuessInv
      <3>2. CASE L!Speculate
        <4>1. PICK k : guess' = [guess EXCEPT !.key = k]
          BY <3>2 DEF L!Speculate
        <4>2. guess' = [key |-> k, perm |-> guess.perm]
          BY <3>1, <4>1
        <4>3. step' = "join" => guess'.key = L!None
          BY <3>2 DEF L!Speculate
        <4>4. L!None' = L!None
          BY DEF L!None
        <4> QED
          BY <4>2, <4>3, <4>4 DEF GuessInv
      <3>3. CASE L!Permute
        <4>1. PICK p : /\ p = L!Permutation(script, L!GuessedSites(script, guess.key))
                       /\ guess' = [guess EXCEPT !.perm = p]
          BY <3>3 DEF L!Permute
        <4>2. guess' = [key |-> guess.key, perm |-> p]
          BY <3>1, <4>1
        <4>3. guess'.key = guess.key /\ guess'.perm = p
          BY <4>2
        <4> QED
          BY <2>1, <4>1, <4>2, <4>3 DEF GuessInv
      <3> QED
        BY <1>3, <3>2, <3>3
    <2> QED
      BY <2>1, <2>2, <2>3 DEF LayoutInv, L!SpeculationIsTransparent, L!EveryProbePlaced
  <1>4. CASE L!Join
    BY <1>4, JoinKeeps
  <1>5. CASE L!Replay
    BY <1>5, ReplayKeeps
  <1>6. CASE L!Place
    BY <1>6, PlaceKeeps
  <1>7. CASE L!Returned \/ UNCHANGED L!vars
    <2>1. UNCHANGED <<script, job, guess, step, perm, cells, replayed, result>>
      BY <1>7 DEF L!Returned, L!vars
    <2>2. JobInv'
      <3>1. L!Lists' = L!Lists
        BY <2>1 DEF L!Lists
      <3> QED
        BY <2>1, <3>1 DEF LayoutInv, JobInv
    <2>3. /\ L!Registrations' = L!Registrations /\ L!Registered' = L!Registered
          /\ (L!OneWayOfSetting' <=> L!OneWayOfSetting)
      BY <2>1 DEF L!Registrations, L!Registered, L!OneWayOfSetting
    <2>4. GuessInv' /\ (step' = "replay" => CellsInv')
      BY <2>1, <2>3 DEF LayoutInv, GuessInv, CellsInv
    <2> QED
      BY <2>1, <2>2, <2>3, <2>4 DEF LayoutInv, L!SpeculationIsTransparent, L!EveryProbePlaced
  <1> QED
    BY <1>1, <1>2, <1>3, <1>4, <1>5, <1>6, <1>7 DEF L!Next

\* compute(): the permutation is the one that would have been found without guessing, and
\* a layout that is given out has a cell for every registration, whatever the script, the
\* guess and the order in which the job and the caller go on.
THEOREM LayoutIsRightHolds ==
  ASSUME L!ScriptsAssumption
  PROVE  L!Spec => []L!LayoutIsRight
  <1>1. L!Init => LayoutInv
    <2> SUFFICES ASSUME L!Init PROVE LayoutInv
      OBVIOUS
    <2>1. /\ script \in Scripts /\ step = "lists" /\ replayed = 0
          /\ job = [state |-> "none", list |-> 0, driven |-> <<>>,
                    out |-> [ok |-> FALSE, what |-> "Worker"]]
          /\ guess = [key |-> L!None, perm |-> L!Err("none")]
      BY DEF L!Init, L!NoJob, L!NoGuess, L!Err
    <2>2. Len(L!Lists) \in Nat
      BY <2>1 DEF L!ScriptsAssumption, L!Lists
    <2>3. job.out \in Outs /\ job.driven \in Seq(L!Drives)
      BY <2>1 DEF Outs, JobErrors
    <2>4. JobInv
      BY <2>1, <2>2, <2>3 DEF JobInv
    <2> QED
      BY <2>1, <2>4 DEF LayoutInv, GuessInv, L!SpeculationIsTransparent, L!EveryProbePlaced
  <1>2. LayoutInv /\ [L!Next]_L!vars => LayoutInv'
    BY LayoutNext
  <1>3. LayoutInv => L!LayoutIsRight
    BY DEF LayoutInv, L!LayoutIsRight
  <1> QED
    BY <1>1, <1>2, <1>3, PTL DEF L!Spec
=============================================================================
