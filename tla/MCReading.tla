----------------------------- MODULE MCReading ------------------------------
(***************************************************************************)
(* The three readings of a script: the payload is disassembled, and so is  *)
(* the worktime script, of which a parameter is then followed through the  *)
(* program.  They are one part of the run each.                            *)
(*                                                                         *)
(* Of the payload: programs of four instructions of two words each, with   *)
(* targets between and inside instructions, and templates for each way     *)
(* control can go.  Of the worktime script: all programs of up to four     *)
(* words, and longer ones that begin with an instruction.  Those that are  *)
(* followed are in MCFlow.                                                 *)
(***************************************************************************)
EXTENDS Disasm

T(reads, seeks, branch, falls, dynamic, closures, targets) ==
    [ok |-> TRUE, reads |-> reads, seeks |-> seeks, branch |-> branch, falls |-> falls,
     dynamic |-> dynamic, closures |-> closures, targets |-> targets]
Nop == T(<<"value">>, <<>>, NoSlot, TRUE, FALSE, <<>>, <<>>)
Exit == T(<<"value">>, <<>>, NoSlot, FALSE, FALSE, <<>>, <<>>)
Jump == T(<<"value">>, <<[at |-> 1, slot |-> 0]>>, NoSlot, TRUE, FALSE, <<>>, <<>>)
Branch == T(<<"value">>, <<>>, 0, TRUE, FALSE, <<>>, <<>>)
Closure == T(<<"value">>, <<>>, NoSlot, TRUE, FALSE, <<0>>, <<>>)
Try == T(<<"value">>, <<>>, NoSlot, TRUE, FALSE, <<>>, <<0>>)
Dynamic == T(<<"dest">>, <<>>, NoSlot, TRUE, TRUE, <<>>, <<>>)
Trampoline == T(<<"value", "pc", "reg">>, <<[at |-> 1, slot |-> 0]>>, NoSlot, FALSE, FALSE, <<>>, <<1>>)

AllTemplates == <<Nop, Exit, Jump, Branch, Closure, Try, Dynamic, Trampoline, NoTemplate>>

\* Opcodes 0 to 8 are the handlers in order; a second generation swaps two of them.
TwoPerms == <<<<4, 2, 3, 1, 5, 6, 7, 8, 9>>, <<1, 2, 3, 4, 5, 6, 7, 8, 9>>>>
FirstGen == 4 :> 1
SmallTags == [string |-> 6, double |-> 20, true |-> 2, false |-> 22, null |-> 4, undefined |-> -2]

\* An instruction: an opcode and a word; an odd word is an address.
Addr(t) == 2 * t + 1
Flows(targets) == {<<0, 8>>, <<1, 2>>, <<6, 4>>, <<8, 0>>} \cup {<<o, Addr(t)>> : o \in {2, 3, 4, 5}, t \in targets}
Odd == {<<0, 6>>, <<1, 20>>, <<1, -2>>, <<0, 22>>, <<7, Addr(2)>>, <<6, -1>>, <<2, 8>>}

CodeOf(a, b, c, d) == [pc \in 0 .. 7 |-> (a \o b \o c \o d)[pc + 1]]
AllCodes ==
    {CodeOf(a, b, c, d) : a \in Flows({2, 4, 6}), b \in Flows({0, 4, 6}), c \in Flows({0, 2, 6}), d \in {<<1, 2>>, <<2, Addr(2)>>, <<3, Addr(4)>>, <<0, 8>>}}
    \cup {CodeOf(a, b, c, <<1, 2>>) : a \in Flows({3, 4}), b \in Odd, c \in Odd \cup Flows({2, 6})}

----------------------------------------------------------------------------
CONSTANTS Alphabet, SweepStarts, SweepPool, Followed, Firsts, Seconds, Bodies, None

VARIABLES part, words, pc, start, slots, swept, outcome, step, prog, x, verdict, m

\* Opcode 0 has no operands, 1 has one and a destination, 2 has a register and an operand.
Shape(ss, dest) == [slots |-> ss, dest |-> dest]
SmallShapes == <<Shape(<<>>, FALSE), Shape(<<"operand">>, TRUE), Shape(<<"register", "operand">>, FALSE)>>
MCAlphabet == {0, 1, 2, 6, 8, 20, -4}
SmallWords ==
    UNION {[1 .. n -> Alphabet] : n \in 1 .. 4}
    \cup {<<1>> \o w : w \in [1 .. 5 -> Alphabet]}

Sw == INSTANCE Sweep WITH
    Words <- SmallWords, Starts <- SweepStarts, Shapes <- SmallShapes, Span <- Shift,
    PoolLen <- SweepPool, code <- words, instrs <- swept

Forms == INSTANCE MCFlow WITH
    Programs <- {}, MaxRegister <- 14, MaxVariable <- 4, MaxIndex <- 4, MaxPaths <- 8,
    BindScan <- 8, MaxSteps <- 60, phase <- step
MCFollowed == Forms!Family
Fl == INSTANCE Flow WITH
    Programs <- Followed, MaxRegister <- 14, MaxVariable <- 4, MaxIndex <- 4, MaxPaths <- 8,
    BindScan <- 8, MaxSteps <- 60, phase <- step

sweep == <<words, pc, start, slots, swept, outcome>>
flow == <<step, prog, x, verdict, m>>
NoWords == words = <<>> /\ pc = 0 /\ start = 0 /\ slots = <<>> /\ swept = <<>> /\ outcome = Sw!Running
NoFlow == step = 0 /\ prog = 0 /\ x = 0 /\ verdict = 0 /\ m = 0
OneCode == CHOOSE c \in Codes : TRUE
NoProgram == code = OneCode /\ Init

ReadingInit ==
    \/ part = "payload" /\ NoWords /\ NoFlow /\ Init
    \/ part = "worktime" /\ NoProgram /\ NoFlow /\ Sw!Init
    \/ part = "flow" /\ NoProgram /\ NoWords /\ Fl!Init
ReadingNext ==
    \/ part = "payload" /\ Next /\ UNCHANGED <<part, sweep, flow>>
    \/ part = "worktime" /\ Sw!Next /\ UNCHANGED <<part, vars, flow>>
    \/ part = "flow" /\ Fl!Next /\ UNCHANGED <<part, vars, sweep>>
ReadingSpec == ReadingInit /\ [][ReadingNext]_<<part, vars, sweep, flow>>

\* Either reading of a program is that of the words it was given
\* (Disasm!DisassemblyIsExact, Sweep!SweepIsExact).
ReadingsAreExact == DisassemblyIsExact /\ (part = "worktime" => Sw!SweepIsExact)
\* What the solver says of a parameter is so (Flow!VerdictHolds).
VerdictHolds == part = "flow" => Fl!VerdictHolds
=============================================================================
