------------------------------- MODULE Passes -------------------------------
(***************************************************************************)
(* What becomes of one function: Pass::function() of src/payload/devirt.rs *)
(* (merge, registers, thread, defer), and redefer() when the function of   *)
(* its closure turns out to have a summary.  The function as it was and    *)
(* as it has become are then run side by side.                             *)
(***************************************************************************)
EXTENDS Simplify, Defer

CONSTANTS
    Programs,   \* blocks, handler (the block exceptions go to, or 0), sum
    Logs,       \* answers to the events of a run
    Fuel        \* bound: steps of a run

VARIABLES
    prog,     \* the function as it was
    handler,  \* the handler among the blocks as they have become
    stage     \* "merge", "registers", "thread", "defer", "redefer", "done"

vars == <<prog, handler, stage, dvars>>

Init ==
    /\ prog \in Programs
    /\ handler = 0 /\ stage = "merge"
    /\ fn = <<>> /\ sum = NoSummary /\ tracked = FALSE /\ dstage = "idle"
    /\ envs = <<>> /\ visited = {} /\ work = <<>> /\ rounds = 0 /\ left = {}
    /\ seen = NothingSeen /\ summary = NoSummary

Idle == <<sum, tracked, envs, visited, work, rounds, left, seen, summary>>

MergeBlocks ==
    /\ stage = "merge"
    /\ fn' = Merged(prog.blocks)
    /\ handler' = OutOf(Heads(prog.blocks), prog.handler)
    /\ stage' = "registers"
    /\ UNCHANGED <<prog, dstage, Idle>>

FoldRegisters ==
    /\ stage = "registers"
    /\ fn' = Registers(fn)
    /\ stage' = "thread"
    /\ UNCHANGED <<prog, handler, dstage, Idle>>

ThreadJumps ==
    /\ stage = "thread"
    /\ fn' = Thread(fn)
    /\ stage' = "defer" /\ dstage' = "start"
    /\ UNCHANGED <<prog, handler, Idle>>

Evaluate ==
    /\ stage \in {"defer", "redefer"} /\ dstage # "done"
    /\ DeferNext
    /\ UNCHANGED <<prog, handler, stage>>

\* The function has no summary yet, refers to one that has one now, and is
\* evaluated again, as it is by now.
Redefer ==
    /\ stage = "defer" /\ dstage = "done"
    /\ summary = NoSummary /\ prog.sum # NoSummary /\ MakesClosures(fn)
    /\ sum' = prog.sum
    /\ stage' = "redefer" /\ dstage' = "start"
    /\ UNCHANGED <<prog, handler, fn, tracked, envs, visited, work, rounds, left, seen, summary>>

Finish ==
    /\ dstage = "done"
    /\ stage = "redefer" \/ ~(summary = NoSummary /\ prog.sum # NoSummary /\ MakesClosures(fn))
    /\ stage # "done"
    /\ stage' = "done"
    /\ UNCHANGED <<prog, handler, dvars>>

Finished == stage = "done" /\ UNCHANGED vars

Next == MergeBlocks \/ FoldRegisters \/ ThreadJumps \/ Evaluate \/ Redefer \/ Finish \/ Finished

Spec == Init /\ [][Next]_vars

----------------------------------------------------------------------------
(* What the passes take for granted of a function and do not check *)

\* A handler is entered only by exceptions and dynamic jumps, and does something.
HandlerStandsAlone ==
    prog.handler # 0 => /\ prog.handler # 1
                        /\ Preds(prog.blocks, prog.handler) = 0
                        /\ ~Empty(prog.blocks, prog.handler)

\* No register that a handler reads is set twice in a block (after merging)
\* with something between that may throw: registers() takes the first for dead.
HandlerSeesLastOnly ==
    LET blocks == Merged(prog.blocks)
        h == OutOf(Heads(prog.blocks), prog.handler)
    IN  prog.handler # 0 =>
          \A r \in LiveIn(blocks)[h], b \in DOMAIN blocks :
            \A i, j \in DOMAIN blocks[b].body :
              i < j /\ blocks[b].body[i].k = "set" /\ blocks[b].body[i].r = r
                    /\ blocks[b].body[j].k = "set" /\ blocks[b].body[j].r = r
                => \A m \in i + 1 .. j : ~HasEffect(blocks[b].body[m])

RECURSIVE ReadsConditionally(_)
ReadsConditionally(e) ==
    \/ e[1] = "and" /\ ReadsIn(e[3]) # <<>>
    \/ \E i \in DOMAIN Children(e) : ReadsConditionally(Children(e)[i])

\* The second part of a conjunction reads no register: walk() does not see that
\* it may not be evaluated.
SecondPartsReadNothing ==
    \A b \in DOMAIN prog.blocks : \A e \in BlockExprs(prog.blocks[b]) : ~ReadsConditionally(e)

\* What an expression is made of, in the order of evaluation.
RECURSIVE Parts(_)
Parts(e) == FlattenSeq([i \in DOMAIN Children(e) |-> Parts(Children(e)[i])]) \o <<e[1]>>

\* No register is read after x or an item in one expression: walk() lets a call
\* that was put into the register move past what reads memory.
MemoryReadLast ==
    \A b \in DOMAIN prog.blocks : \A e \in BlockExprs(prog.blocks[b]) :
        \A i, j \in DOMAIN Parts(e) :
            i < j /\ Parts(e)[i] \in {"var", "idx"} => Parts(e)[j] # "reg"

\* An array stays in registers, so that nobody else writes to it.
ArraysStayHome ==
    \A b \in DOMAIN prog.blocks : \A i \in DOMAIN prog.blocks[b].body :
        LET st == prog.blocks[b].body[i]
        IN  /\ st.k \in {"decl", "setvar"} => st.es[1][1] \in {"num", "call"}
            /\ st.k = "put" => st.es[1][1] = "reg" /\ st.es[2][1] \in {"num", "call"}

TakenForGranted ==
    HandlerStandsAlone /\ HandlerSeesLastOnly /\ SecondPartsReadNothing /\ MemoryReadLast
      /\ ArraysStayHome

----------------------------------------------------------------------------
(* Properties *)

OwnsVar == DeclaresVar(prog.blocks) /\ ~MakesClosures(prog.blocks)
Before(regs, log) == RunOn(prog.blocks, prog.handler, Machine(prog.blocks, regs), log, Fuel, OwnsVar, prog.sum)
After(regs, log) == RunOn(fn, handler, Machine(fn, regs), log \o <<0, 0, 0>>, 2 * Fuel, OwnsVar, prog.sum)

Indistinguishable(o, n) ==
    /\ n.b # 0 => fn[n.b].live
    /\ IF o.b = 0
         THEN n.b = 0 /\ n.s.trace = o.s.trace /\ n.s.returned = o.s.returned
         ELSE IsPrefix(o.s.trace, n.s.trace) \/ IsPrefix(n.s.trace, o.s.trace)

\* Nobody outside can tell the function that came out from the one that went
\* in, whatever is in the registers, whatever its calls give back or throw:
\* the same calls and assignments with the same values in the same order, the
\* same result, and no step into a block taken for dead.
SameEffects ==
    stage = "done" /\ TakenForGranted =>
        \A regs \in [Regs -> {0, 1}], log \in Logs :
            Indistinguishable(Before(regs, log), After(regs, log))

GivesOnly(o, value) ==
    /\ \A i \in DOMAIN o.s.trace : o.s.trace[i][1] = "var" /\ OwnsVar
    /\ o.b = 0 => o.s.returned = value

\* A function that is given a summary has no effect on anyone and, whenever it
\* ends, has returned just that: calls of it may be replaced by it.
SummaryHolds ==
    stage = "done" /\ summary # NoSummary /\ TakenForGranted =>
        \A regs \in [Regs -> {0, 1}], log \in Logs : GivesOnly(Before(regs, log), summary)

TellsNothingNew(b, o) ==
    \A t \in TargetSet([fn EXCEPT ![b] = o.blk], b) :
        t \in visited /\ MeetEnv(envs[t], Leave(o.ev.env)) = envs[t]

\* As long as no block can have more than MAX_ROUNDS changes (two for each slot,
\* and the first visit), the budget of rounds is never used up, and what the
\* blocks are rewritten with is a fixpoint: evaluating any of them once more
\* tells their successors nothing new.
BudgetSuffices ==
    dstage = "rewrite" /\ left = DOMAIN fn /\ 2 * Width(fn) + 1 <= MaxRounds =>
        \A b \in visited : TellsNothingNew(b, BlockOf(fn[b], envs[b], tracked, sum))

\* What evaluation comes to is so: a summary, and the environments it ends with.
ConclusionsHold == SummaryHolds /\ BudgetSuffices
=============================================================================
