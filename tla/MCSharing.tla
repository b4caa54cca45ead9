----------------------------- MODULE MCSharing -----------------------------
(***************************************************************************)
(* Work that is shared out to threads, for TLC: preparing the probe, the   *)
(* rounds of the devirtualiser and the layout that is guessed while a job  *)
(* runs.  They share no state, and are one part of the run each.           *)
(*                                                                         *)
(* Preparing: the last batch is a partial one, two keys have several       *)
(* candidates for a parent, in different batches, and two functions, in    *)
(* different batches, tie for the most bindings.  Devirtualising: four     *)
(* functions of every small combination of sizes, and summaries that need  *)
(* none, one or either of two others, or never come.  Layout: see MCLayout.*)
(***************************************************************************)
EXTENDS WorkShare

CONSTANTS k1, k2, k3, Scripts

VARIABLES
    part,
    prog, cores, stage, idx, start, acc, cuts, run, found, sums, fresh, round, failed,
    script, job, guess, perm, cells, replayed, step, result

MCKeys == {k1, k2, k3}
MCChildrenOf ==
    [i \in Functions |-> CASE i = 0 -> {}
                           [] i = 1 -> {k1}
                           [] i = 3 -> {k2}
                           [] OTHER -> {k1, k2}]
MCVarsOf ==
    [i \in Functions |-> CASE i \in {1, 3} -> {k1, k2}
                           [] OTHER -> {k3}]

Four == 1 .. 4
Alternatives == {{}, {{}}, {{1}}, {{4}}, {{2}, {3}}, {{1, 2}}}
FunctionSizes ==
    {[f \in Four |-> 1], [f \in Four |-> IF f = 2 THEN 3 ELSE 0], [f \in Four |-> f - 1]}
SmallPrograms ==
    {[size |-> z, enough |-> e, refs |-> [f \in Four |-> UNION e[f]]] :
        z \in FunctionSizes, e \in [Four -> Alternatives]}
D == INSTANCE Devirt WITH
    N <- 4, Programs <- SmallPrograms, Cores <- {1, 3}, MaxShards <- 2, MinShard <- 1,
    Rounds <- 2, Inline <- 2, phase <- stage, i <- idx
ASSUME D!SizesAssumption /\ D!ProgramsAssumption

Forms == INSTANCE MCLayout WITH
    Scripts <- {}, MinBatches <- 2, MaxBatches <- 2, MinTemplate <- 3, KeyDepth <- 2, phase <- step
MCScripts == Forms!SmallScripts
L == INSTANCE Layout WITH
    MinBatches <- 2, MaxBatches <- 2, MinTemplate <- 3, KeyDepth <- 2, phase <- step
ASSUME L!ScriptsAssumption

devirt == <<prog, cores, stage, idx, start, acc, cuts, run, found, sums, fresh, round, failed>>
layout == <<script, job, guess, perm, cells, replayed, step, result>>
NoDevirt ==
    /\ prog = 0 /\ cores = 0 /\ stage = 0 /\ idx = 0 /\ start = 0 /\ acc = 0 /\ cuts = 0
    /\ run = 0 /\ found = 0 /\ sums = 0 /\ fresh = 0 /\ round = 0 /\ failed = 0
NoLayout ==
    /\ script = 0 /\ job = 0 /\ guess = 0 /\ perm = 0 /\ cells = 0 /\ replayed = 0
    /\ step = 0 /\ result = 0

SharingInit ==
    \/ part = "probe" /\ NoDevirt /\ NoLayout /\ Init
    \/ part = "devirt" /\ NoLayout /\ Init /\ D!Init
    \/ part = "layout" /\ NoDevirt /\ Init /\ L!Init
SharingNext ==
    \/ part = "probe" /\ Next /\ UNCHANGED <<part, devirt, layout>>
    \/ part = "devirt" /\ D!Next /\ UNCHANGED <<part, vars, layout>>
    \/ part = "layout" /\ L!Next /\ UNCHANGED <<part, vars, devirt>>
SharingSpec == SharingInit /\ [][SharingNext]_<<part, vars, devirt, layout>>

\* The rounds find every summary there is to find (Devirt!SummariesAreAll), and an error
\* names the first worker that panicked (Devirt!ErrorNamesFirst).
RoundsAreWhole == part = "devirt" => D!SummariesAreAll /\ D!ErrorNamesFirst
\* Guessing is never noticed, and a layout is complete (Layout!LayoutIsRight).
LayoutIsRight == part = "layout" => L!LayoutIsRight
=============================================================================
