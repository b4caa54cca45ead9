------------------------------- MODULE Devirt -------------------------------
(***************************************************************************)
(* How the functions of a program are devirtualised in shards and their    *)
(* constant results ("summaries") are carried from one to the other:       *)
(* devirtualize(), shard(), redefer() and Refs::wants() of                 *)
(* src/payload/devirt.rs.                                                  *)
(*                                                                         *)
(* The functions are cut into shards; the shards are worked on side by     *)
(* side, without any summary; then, in a bounded number of rounds, the     *)
(* functions that refer to one summarised in the round before are tried    *)
(* again.  defer::function() is external to this module: a function has    *)
(* sets of functions it refers to, any one of which it is enough to have   *)
(* summaries of, to summarise it too.                                      *)
(***************************************************************************)
EXTENDS Integers, Sequences, FiniteSets, FiniteSetsExt

CONSTANTS
    N,          \* number of functions
    Programs,   \* programs: size, refs and enough of each function
    Cores,      \* numbers of threads the machine may have
    MaxShards,  \* MAX_SHARDS
    MinShard,   \* MIN_SHARD_INSTRS
    Rounds,     \* SUMMARY_ROUNDS
    Inline      \* INLINE_RECHECK

Funcs == 1 .. N

SizesAssumption ==
    /\ N \in Nat /\ Cores \subseteq Nat \ {0}
    /\ MaxShards \in Nat \ {0} /\ MinShard \in Nat \ {0}
    /\ Rounds \in Nat /\ Inline \in Nat

\* size: instructions; refs: the closures a function makes; enough: see above.
ProgramsAssumption ==
    \A p \in Programs :
        /\ p.size \in [Funcs -> Nat]
        /\ p.refs \in [Funcs -> SUBSET Funcs]
        /\ \A f \in Funcs : p.enough[f] \subseteq SUBSET p.refs[f]

VARIABLES
    prog, cores,      \* the program, and the threads there are
    phase,            \* see Phases
    i, start, acc,    \* the loop that cuts
    cuts,             \* <<first, last, instructions>> of each shard
    run,              \* run[s]: "none", "ready", "done", "panicked"
    found,            \* functions that shard s summarised in this phase
    sums, fresh,      \* functions with a summary; those of the last round
    round,            \* rounds begun
    failed            \* the shard an error names, 0 for none

vars == <<prog, cores, phase, i, start, acc, cuts, run, found, sums, fresh, round, failed>>
input == <<prog, cores>>
cutting == <<i, start, acc, cuts>>

\* "unwound": the panic of a recheck that is done inline is not caught here.
Phases == {"cutting", "shards", "round", "inline", "recheck", "ok", "error", "unwound"}

MaxIds == MaxShards
Ids == 1 .. MaxIds

Init ==
    /\ prog \in Programs /\ cores \in Cores
    /\ phase = "cutting"
    /\ i = 0 /\ start = 0 /\ acc = 0 /\ cuts = <<>>
    /\ run = [s \in Ids |-> "none"]
    /\ found = [s \in Ids |-> {}]
    /\ sums = {} /\ fresh = {} /\ round = 0 /\ failed = 0

----------------------------------------------------------------------------
(* Cutting the functions into shards *)

Least(a, b) == IF a <= b THEN a ELSE b
Most(a, b) == IF a >= b THEN a ELSE b
SizeOf(fs) == MapThenSumSet(LAMBDA f : prog.size[f], fs)

Shards == Most(Least(Least(cores, MaxShards), SizeOf(Funcs) \div MinShard), 1)
PerShard == (SizeOf(Funcs) + Shards - 1) \div Shards

\* One function: it fills the shard, if there is another shard to come, or not.
Measure ==
    /\ phase = "cutting" /\ i < N
    /\ LET a == acc + prog.size[i + 1]
       IN  IF a >= PerShard /\ Len(cuts) + 1 < Shards
             THEN /\ cuts' = Append(cuts, <<start + 1, i + 1, a>>)
                  /\ start' = i + 1
                  /\ acc' = 0
             ELSE acc' = a /\ UNCHANGED <<cuts, start>>
    /\ i' = i + 1
    /\ UNCHANGED <<input, phase, run, found, sums, fresh, round, failed>>

\* The last shard has the rest, and the workers start.
LastCut ==
    /\ phase = "cutting" /\ i = N
    /\ cuts' = Append(cuts, <<start + 1, N, acc>>)
    /\ phase' = "shards"
    /\ run' = [s \in Ids |-> IF s <= Len(cuts) + 1 THEN "ready" ELSE "none"]
    /\ UNCHANGED <<input, i, start, acc, found, sums, fresh, round, failed>>

----------------------------------------------------------------------------
(* The phases that run side by side *)

ShardOf(s) == cuts[s][1] .. cuts[s][2]

\* defer::function() finds a summary of f, given the summaries of known.
Summarised(f, known) == \E e \in prog.enough[f] : e \subseteq known

\* Refs::wants(): something that f refers to got its summary a round ago.
Wants(f) == prog.refs[f] \cap fresh # {}

\* redefer(): what shard s finds in a round, with the summaries of the rounds
\* before it.
Rechecked(s) == {f \in ShardOf(s) : Wants(f) /\ f \notin sums /\ Summarised(f, sums)}

Found(s) ==
    IF phase = "shards" THEN {f \in ShardOf(s) : Summarised(f, {})} ELSE Rechecked(s)

\* A worker ends.
Work(s) ==
    /\ phase \in {"shards", "recheck"} /\ run[s] = "ready"
    /\ found' = [found EXCEPT ![s] = Found(s)]
    /\ run' = [run EXCEPT ![s] = "done"]
    /\ UNCHANGED <<input, cutting, phase, sums, fresh, round, failed>>

\* A worker panics; catch_unwind keeps that in its slot.
Panic(s) ==
    /\ phase \in {"shards", "recheck"} /\ run[s] = "ready"
    /\ run' = [run EXCEPT ![s] = "panicked"]
    /\ UNCHANGED <<input, cutting, phase, found, sums, fresh, round, failed>>

Panicked == {s \in Ids : run[s] = "panicked"}

\* What the shards found joins the summaries, and is what the next round is
\* about; or the first worker that panicked is named in the error.
Gather ==
    IF Panicked # {}
      THEN /\ phase' = "error"
           /\ failed' = CHOOSE s \in Panicked : \A t \in Panicked : s <= t
           /\ UNCHANGED <<sums, fresh>>
      ELSE /\ fresh' = (UNION {found[s] : s \in Ids}) \ sums
           /\ sums' = sums \cup UNION {found[s] : s \in Ids}
           /\ phase' = "round"
           /\ UNCHANGED failed

\* The scope ends when all its workers have.
Join ==
    /\ phase \in {"shards", "recheck"}
    /\ \A s \in Ids : run[s] # "ready"
    /\ Gather
    /\ UNCHANGED <<input, cutting, run, found, round>>

----------------------------------------------------------------------------
(* The rounds *)

Pending == {f \in Funcs : Wants(f)}

\* Mutant: the rounds end when a round finds less than the one before.
Settled == round >= Rounds \/ Cardinality(fresh) < 2

\* No round is left, or nothing is new, or nobody refers to what is new.
Over == round >= Rounds \/ fresh = {} \/ Pending = {}

Return ==
    /\ phase = "round" /\ Over
    /\ phase' = "ok"
    /\ UNCHANGED <<input, cutting, run, found, sums, fresh, round, failed>>

\* The next round; a few rechecks are done on this thread, many side by side.
Begin ==
    /\ phase = "round" /\ ~Over
    /\ round' = round + 1
    /\ found' = [s \in Ids |-> {}]
    /\ IF Cardinality(Pending) < Inline
         THEN phase' = "inline" /\ UNCHANGED run
         ELSE /\ phase' = "recheck"
              /\ run' = [s \in Ids |-> IF s <= Len(cuts) THEN "ready" ELSE "none"]
    /\ UNCHANGED <<input, cutting, sums, fresh, failed>>

\* All shards in turn, on this thread.
RecheckInline ==
    /\ phase = "inline"
    /\ LET all == UNION {Rechecked(s) : s \in 1 .. Len(cuts)}
       IN  sums' = sums \cup all /\ fresh' = all
    /\ phase' = "round"
    /\ UNCHANGED <<input, cutting, run, found, round, failed>>

\* A panic on this thread goes on to the caller.
Unwind ==
    /\ phase = "inline"
    /\ phase' = "unwound"
    /\ UNCHANGED <<input, cutting, run, found, sums, fresh, round, failed>>

Returned == phase \in {"ok", "error", "unwound"} /\ UNCHANGED vars

Step == Measure \/ LastCut \/ Join \/ Return \/ Begin \/ RecheckInline

Next ==
    \/ Step
    \/ Unwind
    \/ \E s \in Ids : Work(s) \/ Panic(s)
    \/ Returned

Spec == Init /\ [][Next]_vars

----------------------------------------------------------------------------

\* Every function is in exactly one shard, whatever the sizes (functions may be
\* empty, or larger than a shard), and the instructions a shard is told to
\* expect are those it has.
CutsPartition ==
    phase # "cutting" =>
        /\ Len(cuts) \in 1 .. Shards
        /\ \A f \in Funcs : Cardinality({s \in 1 .. Len(cuts) : f \in ShardOf(s)}) = 1
        /\ \A s \in 1 .. Len(cuts) : cuts[s][3] = SizeOf(ShardOf(s))

\* What n rounds of trying every function again would give.
Naive ==
    LET level[n \in 0 .. Rounds] ==
          IF n = 0 THEN {f \in Funcs : Summarised(f, {})}
          ELSE level[n - 1] \cup {f \in Funcs : Summarised(f, level[n - 1])}
    IN  level

\* Trying only the functions that refer to something new, and stopping when
\* nothing is, finds what trying them all in every round would: neither more
\* nor less, however the functions are cut and the workers interleave.
NothingMissed ==
    /\ phase = "ok" => sums = Naive[Rounds]
    /\ phase = "round" => sums = Naive[round]

\* When the rounds end before their bound, there is nothing left to find.
EarlyEndIsFixpoint ==
    phase = "ok" /\ round < Rounds => \A f \in Funcs : Summarised(f, sums) => f \in sums

\* The shards cover the functions once, and the rounds find what there is.
SummariesAreAll == CutsPartition /\ NothingMissed /\ EarlyEndIsFixpoint

\* An error names the first worker that panicked, and nothing of its phase is
\* kept; without a panic there is no error.
ErrorNamesFirst ==
    /\ phase = "error" => /\ run[failed] = "panicked"
                          /\ \A s \in Ids : s < failed => run[s] = "done"
    /\ phase = "ok" => \A s \in Ids : run[s] # "panicked"
=============================================================================
