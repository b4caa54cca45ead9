------------------------------ MODULE MCPasses ------------------------------
(***************************************************************************)
(* Functions for Passes: straight lines, loops, handlers, arrays, and      *)
(* functions that depend on a summary.                                     *)
(***************************************************************************)
EXTENDS Passes

Unknown == Num(0)     \* called, it is an event

Program(blocks, h, s) == [blocks |-> blocks, handler |-> h, sum |-> s]

\* Three statements in a row, in two blocks of which the second is merged.
LineStatements ==
    {SetReg(1, Num(1)), SetReg(1, Reg(2)), SetReg(2, Not(Reg(1))), SetReg(2, Var),
     SetReg(1, Call(Unknown, Reg(2))), SetIf(Reg(1), 2, Reg(1)), Eval(Call(Unknown, Reg(1))),
     SetReg(2, And(Reg(1), Call(Unknown, Num(1)))), SetVar(Num(1))}

Lines ==
    {Program(<<Block(<<a, b>>, Goto(3)), Block(<<>>, Goto(1)),
               Block(<<c, Return(Equal(Reg(1), Reg(2)))>>, Exit)>>, 0, NoSummary) :
       a, b, c \in LineStatements}

\* A loop, entered with something known, and a way out.
LoopStatements ==
    {SetReg(1, Num(0)), SetReg(1, Reg(2)), SetReg(2, Not(Reg(2))), SetIf(Reg(2), 1, Num(1)),
     DeclVar(Num(0)), SetVar(Call(Boolean, Reg(1)))}
Loops ==
    {Program(<<Block(<<a, SetReg(2, Num(k))>>, Goto(2)),
               Block(<<b>>, Branch(c, TRUE, 3, 4)),
               Block(<<d>>, Goto(2)),
               Block(<<Return(Reg(1))>>, Exit)>>, 0, NoSummary) :
       a, b, d \in LoopStatements, c \in {Reg(2), Var}, k \in {0, 1}}

\* Something throws; the handler reads a register.  A dynamic jump.
Handlers ==
    {Program(<<Block(<<a, SetReg(1, Num(0)), b, SetReg(2, Num(1)), c>>, t),
               Block(<<Return(Reg(1))>>, Exit),
               Block(<<Eval(Call(Unknown, Reg(2))), Return(Reg(2))>>, Exit)>>, 3, NoSummary) :
       a, b, c \in {SetReg(2, Num(0)), Eval(Call(Unknown, Reg(1))), SetReg(1, Call(Unknown, Num(0))), Throw(Num(0))},
       t \in {Goto(2), Dynamic(2), Branch(Reg(1), FALSE, 2, 2)}}

\* Arrays, read and written through two registers.
ArrayStatements ==
    {SetReg(1, ArrayOf(Num(1))), SetReg(2, Reg(1)), SetProp(Reg(1), Num(0)),
     SetReg(2, ItemOf(Reg(1))), SetIf(Var, 1, ArrayOf(Reg(2)))}
ArrayUses ==
    {Program(<<Block(<<SetReg(1, ArrayOf(Num(1))), a, b, c>>, Branch(ItemOf(Reg(1)), TRUE, 2, 3)),
               Block(<<Return(ItemOf(Reg(2)))>>, Exit),
               Block(<<Return(Num(0))>>, Exit)>>, 0, NoSummary) :
       a, b, c \in ArrayStatements}

\* The result depends on the function of a closure; a branch that is decided
\* makes a block dead; a ring of empty blocks.
Summaries ==
    {Program(<<Block(<<SetReg(1, Call(Closure, Num(0))), a>>, Branch(Reg(1), w, 2, 3)),
               Block(<<b>>, t),
               Block(<<Return(Num(k))>>, Exit),
               Block(<<>>, Goto(5)), Block(<<>>, Goto(4))>>, 0, s) :
       a \in {SetReg(2, Num(1)), DeclVar(Num(1)), Eval(Call(Boolean, Reg(1)))},
       b \in {Return(Reg(1)), SetReg(1, Not(Reg(1))), Eval(Call(Var, Num(0)))},
       t \in {Goto(3), Goto(4), Exit, Dynamic(0), Invalid, Goto(0)},
       w \in BOOLEAN, k \in {0, 1}, s \in {0, 1, NoSummary}}

\* A function of nothing but a jump out of it, and one with too many slots.
Limits ==
    {Program(<<Block(<<>>, Goto(0))>>, 0, NoSummary),
     Program(<<Block(<<DeclVar(Num(0)), SetReg(1, Num(1)), SetReg(2, Num(1)), SetReg(3, Var)>>,
                     Branch(Reg(3), TRUE, 1, 2)),
               Block(<<Return(Equal(Reg(1), Equal(Reg(2), Reg(3))))>>, Exit)>>, 0, NoSummary)}

MCPrograms == Limits \cup Lines \cup Loops \cup Handlers \cup ArrayUses \cup Summaries

\* Every way two events can be answered, then one answer.
MCLogs == {<<a, b, c>> : a, b \in {0, 1, Throws}, c \in {1}}
=============================================================================
