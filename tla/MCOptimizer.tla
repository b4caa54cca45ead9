----------------------------- MODULE MCOptimizer ----------------------------
(***************************************************************************)
(* How a function goes through the optimiser: the passes over its IR, its  *)
(* compilation, and the improvement of what it was compiled to, one part   *)
(* of the run each.                                                        *)
(*                                                                         *)
(* Functions for Compile: array runs with other statements in between,     *)
(* nested expressions, chains of decided branches, declarations that are   *)
(* hoisted, and functions that come to a summary.  Those for Passes are in *)
(* MCPasses.                                                               *)
(***************************************************************************)
EXTENDS Compile

CONSTANTS rx, ry, rth, rel, ra, rb, rf, c1, c2, ans, Functions, Bodies, Answers

VARIABLES
    part,
    code, pass, ops, keep, live, rounds, fin, opt, src, dst, over,
    body, handler, step, fn, sum, tracked, dstage, envs, visited, work, turns, left, seen, worth

\* A new array in register 1, another in register 2, and what may come between.
RunStatements ==
    {SetReg(2, Num(1)), SetReg(2, New(1)), SetReg(3, Reg(2)), SetReg(2, Reg(1)),
     SetProp(Reg(1), 0, Reg(2)), SetProp(Reg(1), 1, Reg(3)), SetProp(Reg(2), 0, Reg(3)),
     SetProp(Reg(1), 1, Call(Name, Reg(2)))}
Runs ==
    {<<Block(<<SetCatch(2), SetReg(1, New(2)), a, b, c, d, Return(Reg(1))>>, Exit),
       Block(<<Return(Reg(2))>>, Exit)>> : a, b, c, d \in RunStatements}

\* Nested expressions, in every place a value can be wanted.
Leaves == {Reg(1), Num(1), Var(1), Call(Name, Reg(2))}
Trees ==
    {And(a, b) : a, b \in Leaves} \cup {Equal(a, b) : a, b \in Leaves}
      \cup {Cond(a, b, Reg(1)) : a, b \in Leaves} \cup {Call(Item(Reg(1), Num(0)), a) : a \in Leaves}
      \cup {Pair(And(a, Reg(1)), b) : a, b \in Leaves} \cup {Not(a) : a \in Leaves}
Uses(e) ==
    {<<SetReg(1, e)>>, <<SetReg(1, Not(e)), SetReg(2, e)>>, <<SetVar(1, e)>>, <<SetProp(Reg(2), 0, e)>>,
     <<If(e, <<SetReg(2, e)>>, <<SetVar(1, Num(1)), Eval(e)>>)>>, <<SetReg(1, Cond(e, Reg(2), e))>>,
     <<Throw(e)>>, <<If(Reg(1), <<If(e, <<>>, <<SetReg(2, Num(1))>>)>>, <<>>), DeclVar(1, e)>>}
Nested ==
    {<<Block(u, Branch(c, TRUE, 2, 3)), Block(<<Return(Reg(2))>>, Exit), Block(<<Return(Call(Name, Reg(1)))>>, Exit)>> :
       u \in UNION {Uses(e) : e \in Trees}, c \in {Reg(1), Equal(Var(1), Num(1)), And(Reg(2), Var(1))}}

\* A variable is set at the end of a block and tested in the next ones; one of them
\* jumps back.
Tests == {Equal(Var(1), Num(1)), Not(Equal(Var(1), Num(0))), Not(Not(Equal(Var(1), Num(1)))), Equal(Var(2), Num(1)), Var(1)}
Chains ==
    {<<Block(<<a, b>>, Goto(2)), Block(<<>>, Branch(c, w, 3, 4)), Block(<<>>, t),
       Block(d, Branch(e, TRUE, 5, 2)), Block(<<Return(Var(1))>>, Exit)>> :
       a \in {DeclVar(1, Num(Undef)), DeclVar(2, Reg(1))}, b \in {SetVar(1, Num(1)), SetVar(1, Reg(1)), SetVar(2, Num(0))},
       c \in Tests, w \in BOOLEAN, t \in {Goto(5), Goto(3), Exit, Branch(Equal(Var(1), Num(1)), FALSE, 4, 5)},
       d \in {<<>>, <<SetVar(1, Call(Name, Var(1)))>>}, e \in {Equal(Var(1), Num(0)), Reg(1)}}

\* Declarations at the beginning of a function that is entered again.
Decls == {DeclVar(1, Num(Undef)), DeclVar(1, Num(0)), DeclVar(2, Reg(1)), DeclVar(3, Num(Undef)),
          DeclVar(2, Call(Name, Var(1))), SetVar(1, Num(1)), SetReg(1, Var(1))}
Hoisted ==
    {<<Block(<<a, b, c>>, Goto(2)), Block(<<Eval(Call(Name, Var(2))), SetVar(1, Num(1))>>, Branch(t, TRUE, 1, 3)),
       z>> : a, b, c \in Decls, t \in {Reg(1), Call(Name, Var(3))}, z \in {Block(<<Return(Var(1))>>, Exit), Pruned}}

\* Functions of their first argument alone.
Opaque == {Num(1), Not(Reg(1)), Not(Not(Reg(1))), Reg(1), Xor(Reg(1), Reg(2)), Or(Xor(Reg(2), Num(1)), Num(0)),
           Equal(Xor(Reg(1), Reg(2)), Xor(Reg(2), Xor(Num(1), Reg(1)))), Equal(Or(Num(0), Reg(2)), Or(Reg(2), Num(0))),
           Xor(Reg(2), Reg(2)), Call(Name, Num(0)), Closure, Equal(Reg(1), Num(1))}
Summaries ==
    {<<Block(<<DeclVar(1, Num(u)), SetVar(k, a), SetReg(3, b)>>, Branch(c, TRUE, 2, 3)),
       Block(<<Return(x)>>, Exit), Block(<<Return(y)>>, t)>> :
       u \in {Undef, 0}, k \in {1, 2}, a \in {Num(1), Reg(1)}, b \in Opaque, c \in {Reg(3), Var(1), Equal(Var(1), Num(1)), Equal(Reg(3), Num(1))},
       x \in {Num(1), Reg(3), Reg(1), Not(Var(1))}, y \in {Num(1), Not(Reg(1)), Reg(1)}, t \in {Exit}}

\* A function that is never left, and jumps out of a function.
Endless == {<<Block(<<Eval(Call(Name, Num(0)))>>, Goto(0))>>, <<Block(<<>>, Branch(Reg(1), TRUE, 1, 0))>>,
            <<Block(<<DeclVar(1, Num(Undef))>>, Goto(2)), Block(<<>>, Goto(3)), Block(<<>>, Goto(2))>>}

MCPrograms == Runs \cup Nested \cup Chains \cup Hoisted \cup Summaries \cup Endless
MCLogs == {<<a, b>> : a, b \in {0, 1, Throws}}

----------------------------------------------------------------------------
\* For Optimize: loops with handlers over two registers, chains of jumps, and an
\* apply of two arrays with something before, between and behind them.
OptRegs == {rx, ry, rth, rel, ra, rb, rf}

Instr(k, d, u, to, els, c) == [k |-> k, d |-> d, u |-> u, to |-> to, els |-> els, c |-> c]
Load(d, c) == Instr("num", d, <<>>, 0, 0, c)
Do(k, d, u) == Instr(k, d, u, 0, 0, c1)
Go(k, u, to, els) == Instr(k, rx, u, to, els, c1)

\* From a sequence to operations by index from 0.
Listed(s) == [i \in 0 .. Len(s) - 1 |-> s[i + 1]]
Listing(s, pcs, first) == [ops |-> Listed(s), pcs |-> pcs, entry |-> first]

\* Two blocks, of three and of two operations.
Straight == {Load(rx, c1), Load(ry, c2), Do("move", rx, <<ry>>), Do("call", rx, <<ry>>),
             Do("call", ry, <<rx>>), Do("store", rx, <<ry>>)}
Leaving == {Go("j", <<>>, 0, 0), Go("j", <<>>, 3, 0), Go("br", <<rx>>, 3, 0), Go("brk", <<ry>>, 0, 3),
            Do("ret", rx, <<rx>>), Do("jump", rx, <<ry>>)}
Looping ==
    {Listing(<<o1, o2, e1, o3, e2>>, <<0, 3>>, 0) :
        o1 \in Straight \cup {Go("jf", <<rx>>, 2, 0)}, o2 \in Straight, o3 \in Straight,
        e1 \in Leaving, e2 \in Leaving}

\* Four blocks of one operation.
Hops == {Go("j", <<>>, t, 0) : t \in 0 .. 3}
        \cup {Go("br", <<rx>>, 0, 3), Go("br", <<rx>>, 2, 1), Do("ret", rx, <<rx>>)}
Hopping == {Listing(<<o1, o2, o3, Do("put", rx, <<ry>>), o4>>, <<0, 1, 2, 3>>, first) :
              o1 \in Hops, o2 \in Hops, o3 \in Hops, o4 \in Hops \cup {Go("j", <<>>, 4, 0)},
              first \in {0, 2}}

\* rf.apply(rth, [rel]) with something in the gaps, and a block to be thrown to.
Gap == {Load(rth, c1), Load(rel, c2), Do("put", rx, <<ra>>), Do("put", rx, <<rb>>),
        Do("put", rx, <<rel>>), Do("array", rb, <<rth>>), Do("closure", rel, <<rth, rth>>)}
Applies ==
    {Listing(<<Do("array", rb, <<rel>>), g1, Do("array", ra, <<rth, rb>>), g2,
                Do("apply", rx, <<rf, ry, ra>>), g3, Do("ret", rx, <<rx>>), last,
                Do("fail", rx, <<>>)>>,
              <<0, 7>>, 0) :
        g1 \in Gap, g2 \in Gap, g3 \in Gap,
        last \in {Do("put", rx, <<rb>>), Do("throw", rx, <<ry>>)}}

MCFunctions == Looping \cup Hopping \cup Applies

Opt == INSTANCE Optimize WITH
    Programs <- Functions, Regs <- OptRegs, Answers <- {ans}, DseRounds <- 3, ThreadHops <- 2,
    prog <- code
ASSUME Opt!BoundsAssumption

Forms == INSTANCE MCPasses WITH
    MaxRegs <- 3, MaxGap <- 2, MaxSlots <- 3, MaxRounds <- 7, Slack <- 0, Programs <- {},
    Logs <- {}, Fuel <- 12, prog <- body, stage <- step, rounds <- turns, summary <- worth
MCBodies == Forms!MCPrograms
MCAnswers == Forms!MCLogs
Ps == INSTANCE Passes WITH
    MaxRegs <- 3, MaxGap <- 2, MaxSlots <- 3, MaxRounds <- 7, Slack <- 0, Programs <- Bodies,
    Logs <- Answers, Fuel <- 12, prog <- body, stage <- step, rounds <- turns, summary <- worth

optimize == <<code, pass, ops, keep, live, rounds, fin, opt, src, dst, over>>
passes ==
    <<body, handler, step, fn, sum, tracked, dstage, envs, visited, work, turns, left, seen, worth>>
NoOptimize ==
    /\ code = 0 /\ pass = 0 /\ ops = 0 /\ keep = 0 /\ live = 0 /\ rounds = 0 /\ fin = 0
    /\ opt = 0 /\ src = 0 /\ dst = 0 /\ over = 0
NoPasses ==
    /\ body = 0 /\ handler = 0 /\ step = 0 /\ fn = 0 /\ sum = 0 /\ tracked = 0 /\ dstage = 0
    /\ envs = 0 /\ visited = 0 /\ work = 0 /\ turns = 0 /\ left = 0 /\ seen = 0 /\ worth = 0
NoCompile == prog = <<Block(<<>>, Exit)>> /\ Blank

InOptimize == part = "optimize"
OptimizerInit ==
    \/ part = "compile" /\ NoOptimize /\ NoPasses /\ Init
    \/ InOptimize /\ NoCompile /\ NoPasses /\ Opt!Init
    \/ part = "passes" /\ NoCompile /\ NoOptimize /\ Ps!Init
OptimizerNext ==
    \/ part = "compile" /\ Next /\ UNCHANGED <<part, optimize, passes>>
    \/ InOptimize /\ Opt!Next /\ UNCHANGED <<part, vars, passes>>
    \/ part = "passes" /\ Ps!Next /\ UNCHANGED <<part, vars, optimize>>
\* Both runs of Optimize are one thread that goes on.
OptimizerSpec ==
    /\ OptimizerInit /\ [][OptimizerNext]_<<part, vars, optimize, passes>>
    /\ WF_optimize(InOptimize /\ Opt!QuietSrc) /\ WF_optimize(InOptimize /\ Opt!QuietDst)

\* What a function was compiled to does what the function does, called or skipped for
\* what it is known to come to (Compile!SameBehaviour, Compile!SkippedCallsDoNothing).
CompiledAlike == part = "compile" => SameBehaviour /\ SkippedCallsDoNothing
\* The optimised function does what the function does (Optimize!SameEffects).
SameEffects == InOptimize => Opt!SameEffects
\* So does the function that comes out of the passes, and what they concluded about it
\* is so (Passes!SameEffects, Passes!ConclusionsHold).
PassesKeepEffects == part = "passes" => Ps!SameEffects /\ Ps!ConclusionsHold
SrcWaits == InOptimize /\ Opt!SrcWaits
DstWaits == InOptimize /\ Opt!DstWaits
Over == InOptimize /\ over
\* Neither run waits for the other for ever: the optimiser makes no loop endless and ends
\* none.
KeepsPace == (SrcWaits ~> (DstWaits \/ Over)) /\ (DstWaits ~> (SrcWaits \/ Over))
=============================================================================
