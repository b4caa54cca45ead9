------------------------------- MODULE Disasm -------------------------------
(***************************************************************************)
(* disassemble() of src/payload/disasm.rs and decompile() of               *)
(* src/payload/decompile.rs: from the words of a program to its            *)
(* instructions, found by following the control flow from the entry, and   *)
(* from those to functions made of basic blocks.                           *)
(*                                                                         *)
(* What an opcode reads and where it goes is a template; the templates     *)
(* are lifted from the script and are constants here.  Instructions are    *)
(* read by the fast decoder, which is compared with the plain one.         *)
(***************************************************************************)
EXTENDS Integers, FiniteSets, SequencesExt

CONSTANTS
    Codes,        \* programs: functions from addresses 0 .. n - 1 to words
    Templates,    \* by handler, from 1: [ok, reads, seeks, branch, falls, dynamic, closures, targets]
    Perms,        \* by generation, from 1: the handler of each opcode
    GenOf,        \* the generation of an address, where it is known
    Tags,         \* words that stand for constants: [string, double, true, false, null, undefined]
    TagSpan,      \* TAG_SPAN
    Shift,        \* a register's word is divided by this
    PoolLen       \* characters of the string pool

NoSlot == -1
NoInstr == 0
BadInstr == -1

----------------------------------------------------------------------------
(* Operands.  A decoder is at address at, and has read ops so far.         *)

Operand(k, v) == <<k, v>>
Failed == [ok |-> FALSE, at |-> 0, ops |-> <<>>]
Read(st, n, o) == [st EXCEPT !.at = @ + n, !.ops = Append(@, o)]

\* int_target()
IsTarget(o) == (o[1] = "int" /\ o[2] >= 0) \/ o[1] = "pc"

\* A string or a double takes two more words.
ReadString(code, st) ==
    LET len == code[st.at + 1]
        off == code[st.at + 2]
    IN  IF ~{st.at + 1, st.at + 2} \subseteq DOMAIN code THEN Failed
        ELSE IF len < 0 \/ off < 0 \/ off + len > PoolLen THEN Failed
        ELSE Read(st, 3, Operand("str", <<off, len>>))
ReadDouble(code, st) ==
    IF ~{st.at + 1, st.at + 2} \subseteq DOMAIN code THEN Failed
    ELSE Read(st, 3, Operand("dbl", <<code[st.at + 1], code[st.at + 2]>>))
ReadAs(code, st, w, kind) ==
    CASE kind = "string" -> ReadString(code, st)
      [] kind = "double" -> ReadDouble(code, st)
      [] kind = "register" -> Read(st, 1, Operand("reg", w \div Shift))
      [] OTHER -> Read(st, 1, Operand(kind, 0))
ReadWord(code, st, w, KindOf(_)) ==
    IF w % 2 = 1 THEN Read(st, 1, Operand("int", w \div 2)) ELSE ReadAs(code, st, w, KindOf(w))

\* Decoder::value(): the tags are compared one after the other.
KindInOrder(w) ==
    CASE w = Tags.string -> "string"
      [] w = Tags.double -> "double"
      [] w = Tags.true -> "true"
      [] w = Tags.false -> "false"
      [] w = Tags.null -> "null"
      [] w = Tags.undefined -> "undefined"
      [] OTHER -> "register"

\* Fast::kind(): a table for small words.
Table == [w \in 0 .. TagSpan - 1 |->
            IF \E t \in DOMAIN Tags : Tags[t] = w THEN CHOOSE t \in DOMAIN Tags : Tags[t] = w ELSE "register"]
KindByTable(w) == IF w \in DOMAIN Table THEN Table[w] ELSE KindInOrder(w)

ReadKind(code, st, kind, KindOf(_)) ==
    CASE ~st.ok -> st
      [] kind = "pc" -> Read(st, 1, Operand("pc", st.at))
      [] st.at \notin DOMAIN code -> Failed
      [] kind = "value" -> ReadWord(code, st, code[st.at], KindOf)
      [] kind = "reg" -> Read(st, 1, Operand("reg", code[st.at] \div Shift))
      [] kind = "dest" -> IF code[st.at] < 0 THEN Failed ELSE Read(st, 1, Operand("dest", code[st.at] \div Shift))

\* A seek goes on reading at an address that was read.
SeekTo(st, slot) ==
    IF ~st.ok THEN st
    ELSE IF slot + 1 \notin DOMAIN st.ops THEN Failed
    ELSE IF ~IsTarget(st.ops[slot + 1]) THEN Failed
    ELSE [st EXCEPT !.at = st.ops[slot + 1][2]]

\* What an instruction is: its operands, the next one, and its target or NoSlot.
Decoded(tpl, st) ==
    LET slot == tpl.branch + 1
    IN  CASE ~st.ok -> [ok |-> FALSE, ops |-> <<>>, next |-> 0, target |-> NoSlot]
          [] st.ok /\ tpl.branch = NoSlot -> [ok |-> TRUE, ops |-> st.ops, next |-> st.at, target |-> NoSlot]
          [] OTHER ->
               IF slot \in DOMAIN st.ops /\ IsTarget(st.ops[slot])
                 THEN [ok |-> TRUE, ops |-> st.ops, next |-> st.at, target |-> st.ops[slot][2]]
                 ELSE [ok |-> FALSE, ops |-> <<>>, next |-> 0, target |-> NoSlot]
Begin(pc) == [ok |-> TRUE, at |-> pc + 1, ops |-> <<>>]

\* Decoder::decode(): the reads, and before each of them the seeks that are due.
SeeksAt(tpl, i) == SelectSeq(tpl.seeks, LAMBDA s : s.at = i)
SeekAll(st, seeks) == FoldLeft(LAMBDA q, s : SeekTo(q, s.slot), st, seeks)
Decode(code, pc, tpl) ==
    Decoded(tpl,
            SeekAll(FoldLeft(LAMBDA st, i : ReadKind(code, SeekAll(st, SeeksAt(tpl, i - 1)), tpl.reads[i], KindInOrder),
                             Begin(pc), [i \in DOMAIN tpl.reads |-> i]),
                    SeeksAt(tpl, Len(tpl.reads))))

\* Shapes::new(): reads and seeks become one list.
Step(k, slot) == [k |-> k, slot |-> slot]
ShapeOf(tpl) ==
    LET seeks(i) == [k \in DOMAIN SeeksAt(tpl, i) |-> Step("seek", SeeksAt(tpl, i)[k].slot)]
    IN  FoldLeft(LAMBDA s, i : s \o seeks(i - 1) \o <<Step(tpl.reads[i], NoSlot)>>,
                 <<>>, [i \in DOMAIN tpl.reads |-> i]) \o seeks(Len(tpl.reads))

\* Fast::decode()
FastStep(code, st, s) ==
    IF s.k = "seek" THEN SeekTo(st, s.slot) ELSE ReadKind(code, st, s.k, KindByTable)
FastDecode(code, pc, tpl) ==
    Decoded(tpl, FoldLeft(LAMBDA st, s : FastStep(code, st, s), Begin(pc), ShapeOf(tpl)))

----------------------------------------------------------------------------
VARIABLES
    phase,      \* "disasm", "entry", "visit", "cut" or "done"
    code,
    index,      \* by address: the number of its instruction, NoInstr or BadInstr
    instrs,     \* Instr, in the order they were found
    entries,    \* where functions begin
    work,       \* a stack of addresses, then of instructions
    fi,         \* the function that is cut, as a number of entries
    owner, preds, leader,   \* by instruction; reused from function to function
    members,    \* the instructions of the function, as they were found
    functions   \* [entry, blocks], a block being [pc, instrs, term]

vars == <<phase, code, index, instrs, entries, work, fi, owner, preds, leader, members, functions>>
sweeping == <<index, instrs, entries>>
cutting == <<fi, owner, preds, leader, members, functions>>

----------------------------------------------------------------------------
(* disassemble() *)

NoTemplate == [ok |-> FALSE, reads |-> <<>>, seeks |-> <<>>, branch |-> NoSlot, falls |-> FALSE,
               dynamic |-> FALSE, closures |-> <<>>, targets |-> <<>>]
TemplateOf(h) == IF h \in DOMAIN Templates THEN Templates[h] ELSE NoTemplate
HandlerOf(pc) ==
    LET perm == Perms[IF pc \in DOMAIN GenOf THEN GenOf[pc] ELSE Len(Perms)]
    IN  IF code[pc] + 1 \in DOMAIN perm THEN perm[code[pc] + 1] ELSE 0

TargetsIn(ops, slots) ==
    [i \in DOMAIN SelectSeq(slots, LAMBDA s : s + 1 \in DOMAIN ops /\ IsTarget(ops[s + 1])) |->
       ops[SelectSeq(slots, LAMBDA s : s + 1 \in DOMAIN ops /\ IsTarget(ops[s + 1]))[i] + 1][2]]

Init ==
    /\ code \in Codes
    /\ phase = "disasm" /\ work = <<0>> /\ entries = {0}
    /\ index = [pc \in DOMAIN code |-> NoInstr] /\ instrs = <<>>
    /\ fi = 0 /\ owner = <<>> /\ preds = <<>> /\ leader = <<>> /\ members = <<>> /\ functions = <<>>

Known(pc) == pc \in DOMAIN code => index[pc] # NoInstr
Pop == Front(work)

\* An address that is past the end, or done.
Pass ==
    /\ phase = "disasm" /\ work # <<>> /\ Known(Last(work))
    /\ work' = Pop
    /\ UNCHANGED <<phase, code, sweeping, cutting>>

Spoil(pc) ==
    /\ index' = [index EXCEPT ![pc] = BadInstr]
    /\ work' = Pop
    /\ UNCHANGED <<phase, code, instrs, entries, cutting>>
Found(pc, h, tpl, d) ==
    /\ index' = [index EXCEPT ![pc] = Len(instrs) + 1]
    /\ instrs' = Append(instrs, [pc |-> pc, handler |-> h, ops |-> d.ops, next |-> d.next, target |-> d.target])
    /\ entries' = entries \cup ToSet(TargetsIn(d.ops, tpl.closures))
    /\ work' = Pop \o TargetsIn(d.ops, tpl.closures \o tpl.targets)
                   \o (IF d.target = NoSlot THEN <<>> ELSE <<d.target>>)
                   \o (IF tpl.falls THEN <<d.next>> ELSE <<>>)
    /\ UNCHANGED <<phase, code, cutting>>
Disassemble ==
    /\ phase = "disasm" /\ work # <<>> /\ ~Known(Last(work))
    /\ LET pc == Last(work)
           tpl == TemplateOf(HandlerOf(pc))
       IN  \E d \in {FastDecode(code, pc, tpl)} :
              IF tpl.ok /\ d.ok THEN Found(pc, HandlerOf(pc), tpl, d) ELSE Spoil(pc)

----------------------------------------------------------------------------
(* decompile() *)

\* flow_of()
Ender(t) == t.branch # NoSlot \/ ~t.falls \/ t.dynamic \/ t.seeks # <<>>
At(pc) == IF pc \in DOMAIN code /\ index[pc] > 0 THEN index[pc] ELSE 0
FlowOf(i) == TemplateOf(instrs[i].handler)
EntrySeq == SetToSortSeq(entries, <)

Disassembled ==
    /\ phase = "disasm" /\ work = <<>>
    /\ phase' = "entry" /\ fi' = 1
    /\ owner' = [i \in DOMAIN instrs |-> 0]
    /\ preds' = [i \in DOMAIN instrs |-> 0]
    /\ leader' = [i \in DOMAIN instrs |-> FALSE]
    /\ UNCHANGED <<code, sweeping, work, members, functions>>

\* The next function, unless its entry is no instruction.
SkipEntry ==
    /\ phase = "entry" /\ fi \in DOMAIN EntrySeq /\ At(EntrySeq[fi]) = 0
    /\ fi' = fi + 1
    /\ UNCHANGED <<phase, code, sweeping, work, owner, preds, leader, members, functions>>
EnterFunction ==
    /\ phase = "entry" /\ fi \in DOMAIN EntrySeq /\ At(EntrySeq[fi]) # 0
    /\ LET root == At(EntrySeq[fi])
       IN  /\ work' = <<root>> /\ members' = <<>>
           /\ owner' = [owner EXCEPT ![root] = fi]
           /\ preds' = [preds EXCEPT ![root] = 0]
           /\ leader' = [leader EXCEPT ![root] = TRUE]
    /\ phase' = "visit"
    /\ UNCHANGED <<code, sweeping, fi, functions>>
Finish ==
    /\ phase = "entry" /\ fi \notin DOMAIN EntrySeq
    /\ phase' = "done"
    /\ UNCHANGED <<code, sweeping, work, cutting>>

\* visit(): s is [work, owner, preds, leader].
Edge(pc, forced) == [pc |-> pc, forced |-> forced]
EdgesOf(i, t) ==
    (IF t.falls THEN <<Edge(instrs[i].next, Ender(t))>> ELSE <<>>)
      \o (IF instrs[i].target = NoSlot THEN <<>> ELSE <<Edge(instrs[i].target, TRUE)>>)
      \o [k \in DOMAIN TargetsIn(instrs[i].ops, t.targets) |-> Edge(TargetsIn(instrs[i].ops, t.targets)[k], TRUE)]

Fresh(s, j) ==
    IF s.owner[j] = fi THEN s
    ELSE [s EXCEPT !.owner[j] = fi, !.preds[j] = 0, !.leader[j] = FALSE, !.work = Append(@, j)]
\* Mutant: only where paths meet.
CountedUnforced(s, j, forced) == [s EXCEPT !.preds[j] = @ + 1]

Counted(s, j, forced) == [s EXCEPT !.preds[j] = @ + 1, !.leader[j] = @ \/ forced]
VisitEdge(s, e) == IF At(e.pc) = 0 THEN s ELSE Counted(Fresh(s, At(e.pc)), At(e.pc), e.forced)

Visit ==
    /\ phase = "visit" /\ work # <<>>
    /\ \E s \in {FoldLeft(VisitEdge,
                          [work |-> Pop, owner |-> owner, preds |-> preds, leader |-> leader],
                          EdgesOf(Last(work), FlowOf(Last(work))))} :
          work' = s.work /\ owner' = s.owner /\ preds' = s.preds /\ leader' = s.leader
    /\ members' = Append(members, Last(work))
    /\ UNCHANGED <<phase, code, sweeping, fi, functions>>

\* Where paths meet a block begins, and at the entry.
Lead ==
    /\ phase = "visit" /\ work = <<>>
    /\ phase' = "cut"
    /\ leader' = [i \in DOMAIN leader |->
                    leader[i] \/ (Contains(members, i) /\ preds[i] # 1) \/ i = At(EntrySeq[fi])]
    /\ UNCHANGED <<code, sweeping, work, fi, owner, preds, members, functions>>

\* The blocks: from a leader to the first instruction that ends one.
Term(k, next, target) == [k |-> k, next |-> next, target |-> target]
Goes(j) == j # 0 /\ owner[j] = fi /\ ~leader[j]
TermOf(i, t) ==
    CASE t.branch # NoSlot -> Term("branch", instrs[i].next, instrs[i].target)
      [] ~t.falls -> Term(IF t.dynamic THEN "dynamic" ELSE "exit", NoSlot, NoSlot)
      [] t.dynamic -> Term("dynamic", instrs[i].next, NoSlot)
      [] t.seeks # <<>> -> Term("jump", instrs[i].next, NoSlot)
      [] At(instrs[i].next) = 0 -> Term("invalid", NoSlot, NoSlot)
      [] OTHER -> Term("next", instrs[i].next, NoSlot)
GoesOn(i, t) == ~Ender(t) /\ Goes(At(instrs[i].next))
RECURSIVE RunFrom(_)
RunFrom(i) == IF GoesOn(i, FlowOf(i)) THEN <<i>> \o RunFrom(At(instrs[i].next)) ELSE <<i>>
BlockFrom(i) ==
    [pc |-> instrs[i].pc, instrs |-> RunFrom(i), term |-> TermOf(Last(RunFrom(i)), FlowOf(Last(RunFrom(i))))]

CutBlocks ==
    /\ phase = "cut"
    /\ functions' = Append(functions,
         [entry |-> EntrySeq[fi],
          blocks |-> LET starts == SelectSeq(members, LAMBDA i : leader[i])
                     IN  [k \in DOMAIN starts |-> BlockFrom(starts[k])]])
    /\ phase' = "entry" /\ fi' = fi + 1
    /\ UNCHANGED <<code, sweeping, work, owner, preds, leader, members>>

Next ==
    \/ Pass \/ Disassemble \/ Disassembled
    \/ SkipEntry \/ EnterFunction \/ Finish \/ Visit \/ Lead \/ CutBlocks

Spec == Init /\ [][Next]_vars

----------------------------------------------------------------------------
\* The fast decoder reads what the plain one reads, at every address it is used at
\* and for words that are tags below and beyond its table.
FastIsExact ==
    phase = "done" =>
        \A pc \in DOMAIN code : index[pc] # NoInstr =>
            LET tpl == TemplateOf(HandlerOf(pc))
                d == Decode(code, pc, tpl)
            IN  IF index[pc] = BadInstr THEN ~(tpl.ok /\ d.ok)
                ELSE /\ tpl.ok /\ d.ok
                     /\ instrs[index[pc]].ops = d.ops
                     /\ instrs[index[pc]].next = d.next /\ instrs[index[pc]].target = d.target

\* The blocks of a function partition the instructions that can be reached from its
\* entry, whichever functions were cut before and whatever they share with it.
InBlock(b) == ToSet(b.instrs)
Follow(i) == {At(e.pc) : e \in ToSet(EdgesOf(i, FlowOf(i)))} \ {0}
RECURSIVE Closed(_)
Closed(is) == LET more == is \cup UNION {Follow(i) : i \in is} IN IF more = is THEN is ELSE Closed(more)
BlocksPartition ==
    phase = "done" => \A f \in ToSet(functions) :
        /\ UNION {InBlock(b) : b \in ToSet(f.blocks)} = Closed({At(f.entry)})
        /\ \A k, l \in DOMAIN f.blocks : k # l => InBlock(f.blocks[k]) \cap InBlock(f.blocks[l]) = {}

\* A block begins exactly where it must in its own function: at the entry, where an
\* edge ends that is more than falling through, and where paths meet.  Nothing of
\* this is left over from a function that shares instructions with it.
EdgesInto(is, j) ==
    {<<i, k>> \in is \X (1 .. 4) : k \in DOMAIN EdgesOf(i, FlowOf(i)) /\ At(EdgesOf(i, FlowOf(i))[k].pc) = j}
MustLead(is, j) ==
    \/ Cardinality(EdgesInto(is, j)) # 1
    \/ \E e \in EdgesInto(is, j) : EdgesOf(e[1], FlowOf(e[1]))[e[2]].forced
HeadsAreExact ==
    phase = "done" => \A f \in ToSet(functions) :
        LET is == Closed({At(f.entry)})
        IN  {b.instrs[1] : b \in ToSet(f.blocks)} = {At(f.entry)} \cup {j \in is : MustLead(is, j)}

\* The instructions, and the blocks they are cut into, are those of the program.
DisassemblyIsExact == FastIsExact /\ BlocksPartition /\ HeadsAreExact
=============================================================================
