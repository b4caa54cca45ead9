-------------------------------- MODULE Sweep --------------------------------
(***************************************************************************)
(* disassemble() of src/worktime/disassembler.rs: a linear sweep over the  *)
(* words of the worktime script, from its entry to the key, its last word. *)
(* Each opcode has a fixed list of operands, and perhaps a destination.    *)
(***************************************************************************)
EXTENDS Integers, SequencesExt

CONSTANTS
    Words,      \* programs: sequences of words
    Starts,     \* addresses a sweep may begin at, from 0
    Shapes,     \* by opcode, from 1: [slots, dest]
    Tags,       \* words that stand for constants: [string, double, true, false, null, undefined]
    Span,       \* a register's word is divided by this
    PoolLen     \* characters of the string pool

VARIABLES
    code,      \* the program
    pc,        \* the address that is read next
    start,     \* the address the sweep began at
    slots,     \* what the instruction under way still reads
    instrs,    \* [pc, op, args, dest]; the last one may be under way
    outcome    \* "running", "ok" or [error, at, pc]

vars == <<code, pc, start, slots, instrs, outcome>>

Running == <<"running", 0>>
Done == <<"ok", 0>>
NoDest == -1
Key == Len(code) - 1
Word(a) == code[a + 1]
InCode(a) == a < Len(code)
Op(w) == Shapes[w + 1]

Init ==
    /\ code \in Words /\ start \in Starts
    /\ pc = start /\ slots = <<>> /\ instrs = <<>> /\ outcome = Running

Stop(what, at) == outcome' = <<what, at>> /\ UNCHANGED <<code, pc, start, slots, instrs>>
InBounds == Len(code) >= 2 /\ start <= Key

BadLength == outcome = Running /\ Len(code) < 2 /\ Stop("length", 0)
BadEntry == outcome = Running /\ Len(code) >= 2 /\ start > Key /\ Stop("entry", start)

----------------------------------------------------------------------------
(* Between instructions *)

Between == outcome = Running /\ InBounds /\ slots = <<>>

BadOpcode == Between /\ pc < Key /\ Word(pc) + 1 \notin DOMAIN Shapes /\ Stop("opcode", pc)
Opcode ==
    /\ Between /\ pc < Key /\ Word(pc) + 1 \in DOMAIN Shapes
    /\ instrs' = Append(instrs, [pc |-> pc, op |-> Word(pc), args |-> <<>>, dest |-> NoDest])
    /\ slots' = Op(Word(pc)).slots \o (IF Op(Word(pc)).dest THEN <<"dest">> ELSE <<>>)
    /\ pc' = pc + 1
    /\ UNCHANGED <<code, start, outcome>>

\* The sweep must end at the key, not beyond it.
AtKey == pc = Key
Complete == Between /\ pc >= Key /\ AtKey /\ Stop("ok", 0)
Desync == Between /\ pc >= Key /\ ~AtKey /\ Stop("desync", pc)

----------------------------------------------------------------------------
(* Within an instruction: Sweep::operand(), Sweep::register().             *)

Within == outcome = Running /\ slots # <<>>
Arg(k, v) == <<k, v>>
Names == {"true", "false", "null", "undefined"}

\* One slot is done with: n words read.
Took(n, instr) ==
    /\ instrs' = Append(Front(instrs), instr)
    /\ pc' = pc + n /\ slots' = Tail(slots)
    /\ UNCHANGED <<code, start, outcome>>
WithArg(a) == [Last(instrs) EXCEPT !.args = Append(@, a)]

Truncated == Within /\ ~InCode(pc) /\ Stop("truncated", pc)
BadRegister(w) == w < 0 /\ Stop("register", pc)

Register ==
    /\ Within /\ InCode(pc) /\ Head(slots) \in {"register", "dest"}
    /\ \/ BadRegister(Word(pc))
       \/ /\ Word(pc) >= 0
          /\ Took(1, IF Head(slots) = "dest" THEN [Last(instrs) EXCEPT !.dest = Word(pc) \div Span]
                     ELSE WithArg(Arg("register", Word(pc) \div Span)))

Reads(w) == Within /\ Head(slots) = "operand" /\ InCode(pc) /\ Word(pc) = w
Inline ==
    /\ Within /\ Head(slots) = "operand" /\ InCode(pc) /\ Word(pc) % 2 = 1
    /\ Took(1, WithArg(Arg("int", Word(pc) \div 2)))
Constant ==
    \E c \in Names : Reads(Tags[c]) /\ Took(1, WithArg(Arg(c, 0)))
\* Two more words.
Wide(tag) == Reads(tag) /\ InCode(pc + 1) /\ InCode(pc + 2)
Short(tag) ==
    /\ Reads(tag)
    /\ \E a \in {pc + 1, pc + 2} : ~InCode(a) /\ (\A b \in pc .. a - 1 : InCode(b)) /\ Stop("truncated", a)
InPool(len, off) == len >= 0 /\ off >= 0 /\ off + len <= PoolLen
Str ==
    \/ /\ Wide(Tags.string) /\ InPool(Word(pc + 1), Word(pc + 2))
       /\ Took(3, WithArg(Arg("string", <<Word(pc + 1), Word(pc + 2)>>)))
    \/ /\ Wide(Tags.string) /\ ~InPool(Word(pc + 1), Word(pc + 2))
       /\ Stop("pool", pc)
    \/ Short(Tags.string)
Dbl ==
    \/ /\ Wide(Tags.double)
       /\ Took(3, WithArg(Arg("double", <<Word(pc + 1), Word(pc + 2)>>)))
    \/ Short(Tags.double)
OperandRegister ==
    /\ Within /\ Head(slots) = "operand" /\ InCode(pc)
    /\ Word(pc) % 2 = 0 /\ Word(pc) \notin {Tags[t] : t \in DOMAIN Tags}
    /\ \/ BadRegister(Word(pc))
       \/ Word(pc) >= 0 /\ Took(1, WithArg(Arg("register", Word(pc) \div Span)))

Next ==
    \/ BadLength \/ BadEntry \/ BadOpcode \/ Opcode \/ Complete \/ Desync
    \/ Truncated \/ Register \/ Inline \/ Constant \/ Str \/ Dbl \/ OperandRegister

Spec == Init /\ [][Next]_vars

----------------------------------------------------------------------------
(* Assembling: the words an instruction stands for, a register's up to what *)
(* the division drops.                                                     *)

ArgWords(a) ==
    CASE a[1] = "int" -> <<2 * a[2] + 1>>
      [] a[1] \in {"string", "double"} -> <<Tags[a[1]]>> \o a[2]
      [] a[1] = "register" -> <<Span * a[2]>>
      [] OTHER -> <<Tags[a[1]]>>
InstrWords(i) ==
    <<i.op>> \o FlattenSeq([k \in DOMAIN i.args |-> ArgWords(i.args[k])])
             \o (IF i.dest = NoDest THEN <<>> ELSE <<Span * i.dest>>)
Assembled == FlattenSeq([k \in DOMAIN instrs |-> InstrWords(instrs[k])])

\* What a sweep returns assembles to the words from the entry to the key, and to
\* nothing else: no instruction swallows the key, skips or shares a word, or takes
\* an operand for one of another kind.
SweepIsExact ==
    outcome = Done =>
        /\ Len(Assembled) = Key - start
        /\ \A a \in DOMAIN Assembled :
              LET w == Word(start + a - 1) IN Assembled[a] \in {w, Span * (w \div Span)}
=============================================================================
