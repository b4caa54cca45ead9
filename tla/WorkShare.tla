----------------------------- MODULE WorkShare -----------------------------
(***************************************************************************)
(* How the analysis of a script's functions is shared out: prepare() of    *)
(* src/payload/probe.rs.  Workers on the threads of rayon's pool take      *)
(* batches of indices from one atomic counter, keep what they find in an   *)
(* arena of their own, and may panic, which catch_unwind turns into an     *)
(* error.  When all have ended, the results are merged worker by worker    *)
(* and then assembled function by function.                                *)
(*                                                                         *)
(* What is found of a function is reduced to the functions it encloses and *)
(* the variables it binds to functions.                                    *)
(***************************************************************************)
EXTENDS Integers, Sequences, FiniteSets

CONSTANTS
    Total,       \* functions, all shards together
    Batch,       \* BATCH
    Workers,     \* number of workers: threads less RESERVED_THREADS, in 1 .. MAX_WORKERS
    Keys,        \* what functions and variables are known by
    ChildrenOf,  \* ChildrenOf[i]: the functions that function i encloses
    VarsOf       \* VarsOf[i]: the variables that function i binds to functions

ASSUME SizesAssumption ==
    Total \in Nat /\ Batch \in Nat \ {0} /\ Workers \in Nat \ {0}

Functions == 0 .. Total - 1
Ids == 0 .. Workers - 1
None == -1

ASSUME KeysAssumption ==
    /\ ChildrenOf \in [Functions -> SUBSET Keys]
    /\ VarsOf \in [Functions -> SUBSET Keys]
    /\ \A i \in Functions : IsFiniteSet(VarsOf[i])

VARIABLES
    next,     \* the atomic counter
    pc,       \* pc[w]: "ready", "busy", "stopped", "panicked"
    at, lim,  \* the rest of w's batch is at[w] .. lim[w] - 1
    outs,     \* indices whose result w holds, in arena w
    phase,    \* prepare(): "sharing", "merging", "seeding", "assembling", "ok", "error"
    merged,   \* workers merged so far, and the arenas collected
    slots,    \* slots[i]: the arena the result of function i points into
    done,     \* functions assembled so far
    parent,   \* the function that encloses a function
    varFn     \* the function whose binding of a variable counts

vars == <<next, pc, at, lim, outs, phase, merged, slots, done, parent, varFn>>
sharing == <<next, pc, at, lim, outs>>

Init ==
    /\ next = 0
    /\ pc = [w \in Ids |-> "ready"]
    /\ at = [w \in Ids |-> 0]
    /\ lim = [w \in Ids |-> 0]
    /\ outs = [w \in Ids |-> {}]
    /\ phase = "sharing"
    /\ merged = <<>>
    /\ slots = [i \in Functions |-> None]
    /\ done = 0
    /\ parent = [k \in Keys |-> None]
    /\ varFn = [k \in Keys |-> None]

----------------------------------------------------------------------------
(* One worker *)

Least(a, b) == IF a <= b THEN a ELSE b

\* Where the batch that starts at s ends.
Limit(s) == Least(s + Batch, Total)

\* Mutant: the counter is read and written in two steps, and another worker
\* may have read it in between.
GrabTorn(w) ==
    /\ phase = "sharing" /\ pc[w] = "ready"
    /\ \E s \in {next, next - Batch} \cap Nat :
         /\ next' = s + Batch
         /\ IF s >= Total
              THEN /\ pc' = [pc EXCEPT ![w] = "stopped"]
                   /\ UNCHANGED <<at, lim>>
              ELSE /\ pc' = [pc EXCEPT ![w] = "busy"]
                   /\ at' = [at EXCEPT ![w] = s]
                   /\ lim' = [lim EXCEPT ![w] = Limit(s)]
    /\ UNCHANGED <<outs, phase, merged, slots, done, parent, varFn>>

\* fetch_add: the next batch, or nothing left.
Grab(w) ==
    /\ phase = "sharing" /\ pc[w] = "ready"
    /\ next' = next + Batch
    /\ IF next >= Total
         THEN /\ pc' = [pc EXCEPT ![w] = "stopped"]
              /\ UNCHANGED <<at, lim>>
         ELSE /\ pc' = [pc EXCEPT ![w] = "busy"]
              /\ at' = [at EXCEPT ![w] = next]
              /\ lim' = [lim EXCEPT ![w] = Limit(next)]
    /\ UNCHANGED <<outs, phase, merged, slots, done, parent, varFn>>

\* One function of the batch.
Process(w) ==
    /\ phase = "sharing" /\ pc[w] = "busy"
    /\ outs' = [outs EXCEPT ![w] = @ \cup {at[w]}]
    /\ at' = [at EXCEPT ![w] = @ + 1]
    /\ pc' = [pc EXCEPT ![w] = IF at[w] + 1 = lim[w] THEN "ready" ELSE "busy"]
    /\ UNCHANGED <<next, lim, phase, merged, slots, done, parent, varFn>>

\* Mutant: the panic is caught around the function, and the worker goes on.
PanicSwallowed(w) ==
    /\ phase = "sharing" /\ pc[w] = "busy"
    /\ pc' = [pc EXCEPT ![w] = "ready"]
    /\ at' = [at EXCEPT ![w] = lim[w]]
    /\ UNCHANGED <<next, lim, outs, phase, merged, slots, done, parent, varFn>>

\* The function's analysis panics: what the worker held is dropped with it.
Panic(w) ==
    /\ phase = "sharing" /\ pc[w] = "busy"
    /\ pc' = [pc EXCEPT ![w] = "panicked"]
    /\ at' = [at EXCEPT ![w] = lim[w]]
    /\ outs' = [outs EXCEPT ![w] = {}]
    /\ UNCHANGED <<next, lim, phase, merged, slots, done, parent, varFn>>

----------------------------------------------------------------------------
(* After the scope *)

\* in_place_scope returns when the workers it spawned, and its own, have ended.
Join ==
    /\ phase = "sharing"
    /\ \A w \in Ids : pc[w] \in {"stopped", "panicked"}
    /\ phase' = "merging"
    /\ UNCHANGED <<sharing, merged, slots, done, parent, varFn>>

\* Mutant: the arena of a worker that got no batch is not collected.
MergeSkippingIdle ==
    /\ phase = "merging"
    /\ LET left == {w \in Ids : outs[w] # {} /\ \A j \in DOMAIN merged : merged[j] # w}
       IN  CASE \E w \in Ids : pc[w] = "panicked" ->
                  phase' = "error" /\ UNCHANGED <<slots, merged>>
             [] left = {} -> phase' = "seeding" /\ UNCHANGED <<slots, merged>>
             [] OTHER ->
                  LET w == CHOOSE w \in left : \A v \in left : w <= v
                  IN  /\ slots' = [i \in Functions |-> IF i \in outs[w] THEN w ELSE slots[i]]
                      /\ merged' = Append(merged, w)
                      /\ phase' = "merging"
    /\ UNCHANGED <<sharing, done, parent, varFn>>

\* The next worker's results go to their slots and its arena to the arenas; one
\* that panicked fails the whole.
Merge ==
    /\ phase = "merging"
    /\ LET w == Len(merged)
       IN  IF pc[w] = "panicked"
             THEN /\ phase' = "error"
                  /\ UNCHANGED <<slots, merged>>
             ELSE /\ slots' = [i \in Functions |-> IF i \in outs[w] THEN w ELSE slots[i]]
                  /\ merged' = Append(merged, w)
                  /\ phase' = IF w = Workers - 1 THEN "seeding" ELSE "merging"
    /\ UNCHANGED <<sharing, done, parent, varFn>>

\* Mutant: the last function that names a key keeps it.
InsertLast(map, keys, i) == [k \in Keys |-> IF k \in keys THEN i ELSE map[k]]

\* entry(k).or_insert(i): the first function that names a key keeps it.
OrInsert(map, keys, i) ==
    [k \in Keys |-> IF k \in keys /\ map[k] = None THEN i ELSE map[k]]

\* max_by_key: the last of those with the most bindings.
Richest(is) ==
    LET most == {i \in is : \A j \in is : Cardinality(VarsOf[j]) <= Cardinality(VarsOf[i])}
    IN  CHOOSE i \in most : \A j \in most : j <= i

\* The function with the most bindings goes first.
Seed ==
    /\ phase = "seeding"
    /\ LET present == {i \in Functions : slots[i] # None}
       IN  IF present = {}
             THEN UNCHANGED varFn
             ELSE varFn' = OrInsert(varFn, VarsOf[Richest(present)], Richest(present))
    /\ phase' = "assembling"
    /\ UNCHANGED <<sharing, merged, slots, done, parent>>

\* The functions in order; one without a result fails the whole.
Assemble ==
    /\ phase = "assembling" /\ done < Total
    /\ IF slots[done] = None
         THEN phase' = "error" /\ UNCHANGED <<done, parent, varFn>>
         ELSE /\ parent' = OrInsert(parent, ChildrenOf[done], done)
              /\ varFn' = OrInsert(varFn, VarsOf[done], done)
              /\ done' = done + 1
              /\ UNCHANGED phase
    /\ UNCHANGED <<sharing, merged, slots>>

Return ==
    /\ phase = "assembling" /\ done = Total
    /\ phase' = "ok"
    /\ UNCHANGED <<sharing, merged, slots, done, parent, varFn>>

Returned == phase \in {"ok", "error"} /\ UNCHANGED vars

WorkerStep(w) == Grab(w) \/ Process(w)
Finish == Join \/ Merge \/ Seed \/ Assemble \/ Return

Next ==
    \/ \E w \in Ids : WorkerStep(w) \/ Panic(w)
    \/ Finish
    \/ Returned

Spec == Init /\ [][Next]_vars

----------------------------------------------------------------------------

SharingType ==
    /\ next \in Nat
    /\ pc \in [Ids -> {"ready", "busy", "stopped", "panicked"}]
    /\ at \in [Ids -> 0 .. Total]
    /\ lim \in [Ids -> 0 .. Total]
    /\ outs \in [Ids -> SUBSET Functions]

MergingType ==
    /\ phase \in {"sharing", "merging", "seeding", "assembling", "ok", "error"}
    /\ merged \in Seq(Ids)
    /\ slots \in [Functions -> Ids \cup {None}]
    /\ done \in 0 .. Total

\* Type correctness; in particular a batch never reaches past the functions.
TypeOK ==
    /\ SharingType
    /\ MergingType
    /\ parent \in [Keys -> Functions \cup {None}]
    /\ varFn \in [Keys -> Functions \cup {None}]

\* What w has done or taken.
Holds(w) == outs[w] \cup (at[w] .. lim[w] - 1)

\* No function is ever in the hands of two workers, so that no result is
\* overwritten when they are merged.
EachOnce == \A v, w \in Ids : v # w => Holds(v) \cap Holds(w) = {}

\* A function's result points into the arena of the worker that made it, at the
\* place where the arenas have it.
ArenasMatch ==
    phase = "ok" =>
        \A i \in Functions : /\ slots[i] + 1 \in DOMAIN merged
                             /\ i \in outs[merged[slots[i] + 1]]

\* The whole or nothing: it fails exactly when a worker panicked.  In
\* particular no function is left without a result when none did.
FailsOnlyByPanic ==
    /\ phase = "error" => \E w \in Ids : pc[w] = "panicked"
    /\ phase = "ok" => /\ \A w \in Ids : pc[w] # "panicked"
                       /\ \A i \in Functions : slots[i] # None

\* The first of the functions that name k, None if there is none.
FirstNaming(k, namesOf) ==
    LET naming == {i \in Functions : k \in namesOf[i]}
    IN  IF naming = {} THEN None ELSE CHOOSE i \in naming : \A j \in naming : i <= j

\* The maps do not depend on how the work was shared and merged: a function's
\* parent is the first that encloses it; a variable counts as the function
\* with the most bindings has it, or else as the first that binds it.
MapsAreStable ==
    phase = "ok" =>
        \A k \in Keys :
            /\ parent[k] = FirstNaming(k, ChildrenOf)
            /\ varFn[k] =
                 IF Functions # {} /\ k \in VarsOf[Richest(Functions)]
                   THEN Richest(Functions)
                   ELSE FirstNaming(k, VarsOf)
=============================================================================
