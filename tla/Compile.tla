------------------------------- MODULE Compile ------------------------------
(***************************************************************************)
(* How a function of the intermediate language becomes operations:         *)
(* compile() of src/payload/exec.rs with lower_expr(), lower_stmts(),      *)
(* array_run(), lower_run(), lower_block(), follow() and the hoisting of   *)
(* declarations, and summarize(), by which calls of a function may be      *)
(* skipped.  The optimiser between the two is Optimize.                    *)
(*                                                                         *)
(* The function and its operations are both run, over the same meaning of  *)
(* each operator, to be compared.  A call is an event that whoever runs    *)
(* the function answers, and that may throw.                               *)
(***************************************************************************)
EXTENDS Integers, Sequences, FiniteSets, SequencesExt

CONSTANTS
    Programs,      \* functions: sequences of blocks, the first is entered
    Logs,          \* answers to the events of a run
    Keys,          \* variables
    ArrayRunSpan,  \* ARRAY_RUN_SPAN
    ThreadHops,    \* 32, the length of a chain of jumps that is followed
    FollowHops,    \* 64, the length of a chain of decided branches
    SummarySteps,  \* SUMMARY_STEPS
    Fuel           \* bound: blocks entered in a run

\* Values: 0, 1, undefined, a function; beyond Arrays, the arrays.  None: a
\* variable not declared yet.  Stale: what an earlier call left in a slot.
Undef == 2
FnValue == 5
Stale == 8
None == 9
Arrays == 10
Truthy(v) == v \notin {0, Undef}
AsBool(b) == IF b THEN 1 ELSE 0
ToInt(v) == IF v = 1 THEN 1 ELSE 0

\* Expr.  A name is a global that is a known function.
Num(k) == <<"num", k>>
Reg(r) == <<"reg", r>>
Var(k) == <<"var", k>>
Closure == <<"fn">>
Name == <<"name">>
New(n) == <<"new", n>>
Not(a) == <<"not", a>>
Equal(a, b) == <<"eq", a, b>>
Xor(a, b) == <<"xor", a, b>>
Or(a, b) == <<"or", a, b>>
Item(a, b) == <<"idx", a, b>>
Pair(a, b) == <<"arr", a, b>>
Call(f, a) == <<"call", f, a>>
And(a, b) == <<"and", a, b>>
Cond(c, a, b) == <<"cond", c, a, b>>
Children(e) == IF e[1] \in {"num", "reg", "var", "new"} THEN <<>> ELSE Tail(e)

\* Stmt: r is the register, the variable or the index that is set.
Stmt(k, r, es) == [k |-> k, r |-> r, es |-> es, then |-> <<>>, els |-> <<>>]
SetReg(r, e) == Stmt("set", r, <<e>>)
SetProp(o, i, e) == Stmt("put", i, <<o, e>>)
SetVar(k, e) == Stmt("setvar", k, <<e>>)
DeclVar(k, e) == Stmt("decl", k, <<e>>)
SetCatch(b) == Stmt("catch", 0, <<Num(b)>>)
Eval(e) == Stmt("eval", 0, <<e>>)
Return(e) == Stmt("ret", 0, <<e>>)
Throw(e) == Stmt("throw", 0, <<e>>)
If(c, then, els) == [Stmt("if", 0, <<c>>) EXCEPT !.then = then, !.els = els]

\* DTerm and DBlock.  Block 0 is outside the function.
Term(k, c, when, then, els) == [k |-> k, c |-> c, when |-> when, then |-> then, els |-> els]
Goto(t) == Term("goto", Num(0), TRUE, t, 0)
Branch(c, w, t, f) == Term("branch", c, w, t, f)
Exit == Term("exit", Num(0), TRUE, 0, 0)
Block(body, term) == [body |-> body, term |-> term, live |-> TRUE]
Pruned == [body |-> <<>>, term |-> Exit, live |-> FALSE]

----------------------------------------------------------------------------
(* What operators do.  A store has the registers (beyond those of the function,
   slots), its variables, those of the functions around it, the arrays, the block
   that catches, the answers to come, the events so far, and how the function was
   left ("" if it was not). *)

Result(v, s) == [v |-> v, s |-> s]
Lookup(k, s) == IF s.own[k] # None THEN s.own[k] ELSE s.outer[k]
Assign(k, v, s) ==
    IF s.own[k] # None THEN [s EXCEPT !.own[k] = v] ELSE [s EXCEPT !.outer[k] = v]

Throws == 3          \* the answer of an event that throws
Shown(v, s) == IF v > Arrays THEN s.heap[v - Arrays] ELSE <<v>>

Event(f, a, s) ==
    LET r == IF s.answers = <<>> THEN 0 ELSE Head(s.answers)
    IN  Result(IF r = Throws THEN Undef ELSE r,
               [s EXCEPT !.trace = Append(@, <<f, Shown(a, s), s.own, s.outer>>),
                         !.answers = IF @ = <<>> THEN @ ELSE Tail(@),
                         !.left = IF r = Throws THEN "throw" ELSE @])

Fresh(items, s) == Result(Arrays + Len(s.heap) + 1, [s EXCEPT !.heap = Append(@, items)])

\* An operator applied to what its operands came to.
Apply(what, a, b, s) ==
    CASE what = "not" -> Result(AsBool(~Truthy(a)), s)
      [] what = "eq" -> Result(AsBool(a = b), s)
      [] what = "xor" -> Result(AsBool(ToInt(a) # ToInt(b)), s)
      [] what = "or" -> Result(AsBool(ToInt(a) + ToInt(b) > 0), s)
      [] what = "arr" -> Fresh(<<a, b>>, s)
      [] what = "new" -> Fresh([i \in 1 .. a |-> Undef], s)
      [] what = "fn" -> Result(FnValue, s)
      [] what = "idx" -> Result(IF a > Arrays /\ b + 1 \in DOMAIN s.heap[a - Arrays]
                                  THEN s.heap[a - Arrays][b + 1] ELSE Undef, s)
      [] what = "call" -> Event(a, b, s)

PutItem(o, i, v, s) ==
    IF o > Arrays /\ i + 1 \in DOMAIN s.heap[o - Arrays]
      THEN [s EXCEPT !.heap[o - Arrays][i + 1] = v] ELSE s

----------------------------------------------------------------------------
(* The function as it is *)

\* The value of an expression, from left to right, and the store after it.
RECURSIVE Value(_, _)
AndThen(a, e) == IF a.s.left # "" \/ ~Truthy(a.v) THEN a ELSE Value(e[3], a.s)
Either(c, e) == IF c.s.left # "" THEN c ELSE Value(IF Truthy(c.v) THEN e[3] ELSE e[4], c.s)
ApplyTo(what, a, b) == IF b.s.left # "" THEN b ELSE Apply(what, a, b.v, b.s)
WithFirst(e, a) ==
    IF a.s.left # "" THEN a
    ELSE ApplyTo(e[1], a.v, IF Len(e) = 2 THEN a ELSE Value(e[3], a.s))
Value(e, s) ==
    CASE e[1] = "num" -> Result(e[2], s)
      [] e[1] = "reg" -> Result(s.regs[e[2]], s)
      [] e[1] = "var" -> Result(Lookup(e[2], s), s)
      [] e[1] = "name" -> Result(FnValue, s)
      [] e[1] = "fn" -> Apply("fn", 0, 0, s)
      [] e[1] = "new" -> Apply("new", e[2], 0, s)
      [] e[1] = "and" -> AndThen(Value(e[2], s), e)
      [] e[1] = "cond" -> Either(Value(e[2], s), e)
      [] OTHER -> WithFirst(e, Value(e[2], s))

Ended(s, how, v) == [s EXCEPT !.left = how, !.result = Shown(v, s)]

RECURSIVE Execute(_, _)
PutWith(o, i, b) == IF b.s.left # "" THEN b.s ELSE PutItem(o, i, b.v, b.s)
ExecuteWith(st, a) ==
    CASE a.s.left # "" -> a.s
      [] st.k = "set" -> [a.s EXCEPT !.regs[st.r] = a.v]
      [] st.k = "put" -> PutWith(a.v, st.r, Value(st.es[2], a.s))
      [] st.k = "setvar" -> Assign(st.r, a.v, a.s)
      [] st.k = "decl" -> [a.s EXCEPT !.own[st.r] = a.v]
      [] st.k = "catch" -> [a.s EXCEPT !.catch = a.v]
      [] st.k = "eval" -> a.s
      [] st.k = "if" -> Execute(IF Truthy(a.v) THEN st.then ELSE st.els, a.s)
      [] st.k = "ret" -> Ended(a.s, "ret", a.v)
      [] st.k = "throw" -> Ended(a.s, "throw", Undef)
Execute(stmts, s) ==
    IF stmts = <<>> \/ s.left # "" THEN s
    ELSE Execute(Tail(stmts), ExecuteWith(Head(stmts), Value(Head(stmts).es[1], s)))

\* exec(): what is thrown goes on at the block that catches.
Caught(s) == s.left = "throw" /\ s.catch # 0
Resumed(s) == [s EXCEPT !.left = ""]

\* From block b until the function is left.
RECURSIVE RunBlocks(_, _, _, _)
RunTerm(blocks, term, c, fuel) ==
    CASE Caught(c.s) -> RunBlocks(blocks, c.s.catch, Resumed(c.s), fuel)
      [] c.s.left # "" -> c.s
      [] term.k = "goto" -> RunBlocks(blocks, term.then, c.s, fuel)
      [] term.k = "branch" /\ term.then # 0 /\ term.els # 0 ->
           RunBlocks(blocks, IF Truthy(c.v) = term.when THEN term.then ELSE term.els, c.s, fuel)
      [] OTHER -> Ended(c.s, "fail", Undef)
Condition(term, t) ==
    IF t.left = "" /\ term.k = "branch" /\ term.then # 0 /\ term.els # 0 THEN Value(term.c, t)
    ELSE Result(Undef, t)
RunBlocks(blocks, b, s, fuel) ==
    IF fuel = 0 THEN s
    ELSE IF b = 0 \/ ~blocks[b].live THEN Ended(s, "fail", Undef)
    ELSE RunTerm(blocks, blocks[b].term,
                 Condition(blocks[b].term, Execute(blocks[b].body, s)), fuel - 1)

----------------------------------------------------------------------------
(* Lowering.  lw: the variables that the function declares, the operations so far,
   the next free slot, the most slots in use, and which operation is to be patched
   with which block. *)

Slot(r) == [slot |-> r, k |-> 0]     \* an operand: a slot,
Konst(n) == [slot |-> 0, k |-> n]    \* or a constant in the operation

Op(k, what, d, u) ==
    [k |-> k, what |-> what, d |-> d, u |-> u, to |-> 0, els |-> 0, when |-> TRUE]
Jump(k, u) == Op(k, "", 0, u)
Push(lw, op) == [lw EXCEPT !.ops = Append(@, op)]
Temp(lw) == [lw EXCEPT !.next = @ + 1, !.max = IF lw.next > @ THEN lw.next ELSE @]
Retarget(lw, at, to) == [lw EXCEPT !.ops[at].to = to]
Here(lw) == Len(lw.ops) + 1

\* dest() and the push at the end of lower_expr().
Into(lw, dst, k, what, u) ==
    IF dst # 0 THEN [lw |-> Push(lw, Op(k, what, dst, u)), slot |-> dst]
    ELSE [lw |-> Push(Temp(lw), Op(k, what, lw.next, u)), slot |-> lw.next]

\* lower_expr(): e into dst, or if dst is 0 anywhere; the slot it is in then.
RECURSIVE LowerExpr(_, _, _)
MoveTo(x, dst) ==
    IF dst \in {0, x.slot} THEN x ELSE Into(x.lw, dst, "move", "", <<Slot(x.slot)>>)
EndAt(b, at, t) == [lw |-> Retarget(b.lw, at, Here(b.lw)), slot |-> t]
LowerSecond(a, e, t) ==
    EndAt(LowerExpr(Push(a.lw, Jump("jf", <<Slot(t)>>)), e[3], t), Here(a.lw), t)
LowerElse(a, at, e, t) ==
    EndAt(LowerExpr(Retarget(Push(a.lw, Jump("j", <<>>)), at, Here(a.lw) + 1), e[4], t),
          Here(a.lw), t)
LowerThen(c, e, t) ==
    LowerElse(LowerExpr(Push(c.lw, Jump("jf", <<Slot(c.slot)>>)), e[3], t), Here(c.lw), e, t)
LowerDo(b, a, what, dst) == Into(b.lw, dst, "do", what, <<a, Slot(b.slot)>>)
LowerTwo(a, e, dst) == LowerDo(LowerExpr(a.lw, e[3], 0), Slot(a.slot), e[1], dst)
LowerLeft(a, k, what, dst) == Into(a.lw, dst, "do", what, <<Slot(a.slot), Konst(k)>>)
\* A method: the object, the function in it, then the argument.
LowerMember(k, o, f) == Push(k.lw, Op("do", "idx", f, <<Slot(o), Slot(k.slot)>>))
LowerMethod(o, e, dst) ==
    LowerDo(LowerExpr(LowerMember(LowerExpr(Temp(o.lw), e[2][3], 0), o.slot, o.lw.next), e[3], 0),
            Slot(o.lw.next), "call", dst)
LowerExpr(lw, e, dst) ==
    CASE e[1] = "reg" -> MoveTo([lw |-> lw, slot |-> e[2]], dst)
      [] e[1] = "num" -> Into(lw, dst, "move", "", <<Konst(e[2])>>)
      [] e[1] = "name" -> Into(lw, dst, "move", "", <<Konst(FnValue)>>)
      [] e[1] = "var" -> Into(lw, dst, "var", "", <<Konst(e[2])>>)
      [] e[1] = "fn" -> Into(lw, dst, "do", "fn", <<Konst(0), Konst(0)>>)
      [] e[1] = "new" -> Into(lw, dst, "do", "new", <<Konst(e[2]), Konst(0)>>)
      [] e[1] = "and" ->
           MoveTo(LowerSecond(LowerExpr(Temp(lw), e[2], lw.next), e, lw.next), dst)
      [] e[1] = "cond" ->
           MoveTo(LowerThen(LowerExpr(Temp(lw), e[2], 0), e, lw.next), dst)
      [] e[1] = "not" -> LowerLeft(LowerExpr(lw, e[2], 0), 0, "not", dst)
      [] e[1] \in {"eq", "xor", "or"} /\ e[3][1] = "num" ->
           LowerLeft(LowerExpr(lw, e[2], 0), e[3][2], e[1], dst)
      [] e[1] \in {"eq", "xor", "or"} /\ e[2][1] = "num" /\ e[3][1] # "num" ->
           LowerDo(LowerExpr(lw, e[3], 0), Konst(e[2][2]), e[1], dst)
      [] e[1] = "call" /\ e[2][1] = "idx" -> LowerMethod(LowerExpr(lw, e[2][2], 0), e, dst)
      [] OTHER -> LowerTwo(LowerExpr(lw, e[2], 0), e, dst)

\* uses_reg()
RECURSIVE UsesReg(_, _)
UsesReg(e, r) ==
    e = Reg(r) \/ \E i \in DOMAIN Children(e) : UsesReg(Children(e)[i], r)

NoRun == [n |-> 0, used |-> 0]

\* Mutant: a register may be set again after an item was taken from it.
LeavesRunAloneOnly(st, reg, vals) ==
    /\ \A i \in DOMAIN st.es : ~UsesReg(st.es[i], reg)
    /\ st.k = "set" => st.r # reg

\* A statement between those of a run does not touch the array, nor a register
\* that an item is to be taken from.
LeavesRunAlone(st, reg, vals) ==
    /\ \A i \in DOMAIN st.es : ~UsesReg(st.es[i], reg)
    /\ st.k = "set" => st.r # reg /\ \A i \in DOMAIN vals : ~UsesReg(vals[i], st.r)

\* array_run(): a register is set to a new array whose items are then set one by
\* one; other registers may be set in between.
RECURSIVE ArrayRun(_), RunFrom(_, _, _, _, _)
RunPast(stmts, reg, n, used, vals, span) ==
    IF \A j \in used + 1 .. used + span : LeavesRunAlone(stmts[j], reg, vals)
      THEN RunFrom(stmts, reg, n, used + span, vals) ELSE NoRun
SpanOf(run) == IF run = NoRun THEN 1 ELSE run.used
RunWith(stmts, reg, n, used, vals, st) ==
    CASE st.k = "put" ->
           IF st.es[1] = Reg(reg) /\ st.r = Len(vals) /\ ~UsesReg(st.es[2], reg)
             THEN RunFrom(stmts, reg, n, used + 1, Append(vals, st.es[2])) ELSE NoRun
      [] st.k = "set" ->
           RunPast(stmts, reg, n, used, vals, SpanOf(ArrayRun(SubSeq(stmts, used + 1, Len(stmts)))))
      [] OTHER -> NoRun
RunFrom(stmts, reg, n, used, vals) ==
    IF Len(vals) = n THEN [n |-> n, used |-> used]
    ELSE IF used > ArrayRunSpan \/ used = Len(stmts) THEN NoRun
    ELSE RunWith(stmts, reg, n, used, vals, stmts[used + 1])
ArrayRun(stmts) ==
    IF stmts = <<>> THEN NoRun
    ELSE IF stmts[1].k # "set" \/ stmts[1].es[1][1] # "new" THEN NoRun
    ELSE IF stmts[1].es[1][2] \notin 1 .. 16 THEN NoRun
    ELSE RunFrom(stmts, stmts[1].r, stmts[1].es[1][2], 1, <<>>)

\* lower_run(): the items are evaluated in their order, then the array is made of
\* them at once.
RECURSIVE LowerRun(_, _, _, _)
RunItem(v, reg, stmts, items) == LowerRun(v.lw, reg, Tail(stmts), Append(items, Slot(v.slot)))
RunInner(lw, reg, stmts, items, inner) ==
    IF inner = NoRun
      THEN LowerRun(LowerExpr(lw, stmts[1].es[1], stmts[1].r).lw, reg, Tail(stmts), items)
      ELSE LowerRun(LowerRun(lw, stmts[1].r, SubSeq(stmts, 2, inner.used), <<>>),
                    reg, SubSeq(stmts, inner.used + 1, Len(stmts)), items)
LowerRun(lw, reg, stmts, items) ==
    IF stmts = <<>> THEN Push(lw, Op("array", "", reg, items))
    ELSE IF stmts[1].k = "put" THEN RunItem(LowerExpr(lw, stmts[1].es[2], 0), reg, stmts, items)
    ELSE RunInner(lw, reg, stmts, items, ArrayRun(stmts))

\* A statement that begins no run and nests none.
LowerPut(b, o, i) == Push(b.lw, Op("put", "", 0, <<o, Konst(i), Slot(b.slot)>>))
LowerStmt(lw, st, a) ==
    CASE st.k \in {"set", "eval"} -> a.lw
      [] st.k = "put" -> LowerPut(LowerExpr(a.lw, st.es[2], 0), Slot(a.slot), st.r)
      [] st.k = "setvar" /\ st.es[1][1] = "num" /\ st.r \in lw.keys ->
           Push(lw, Op("setvar", "", st.r, <<Konst(st.es[1][2])>>))
      [] OTHER -> Push(a.lw, Op(st.k, "", st.r, <<Slot(a.slot)>>))

\* lower_stmts()
RECURSIVE LowerStmts(_, _, _)
LowerEls(then, at, st, nregs) ==
    LET close(els) == Retarget(els, Here(then), Here(els))
    IN  close(LowerStmts(Retarget(Push(then, Jump("j", <<>>)), at, Here(then) + 1), st.els, nregs))
LowerIf(c, st, nregs) ==
    LowerEls(LowerStmts(Push(c.lw, Jump("jf", <<Slot(c.slot)>>)), st.then, nregs), Here(c.lw), st, nregs)
LowerOne(lw, st, nregs) ==
    IF st.k = "if" THEN LowerIf(LowerExpr(lw, st.es[1], 0), st, nregs)
    ELSE LowerStmt(lw, st, LowerExpr(lw, st.es[1], IF st.k = "set" THEN st.r ELSE 0))
LowerFirst(lw, stmts, run, nregs) ==
    IF run = NoRun THEN LowerStmts(LowerOne(lw, stmts[1], nregs), Tail(stmts), nregs)
    ELSE LowerStmts(LowerRun(lw, stmts[1].r, SubSeq(stmts, 2, run.used), <<>>),
                    SubSeq(stmts, run.used + 1, Len(stmts)), nregs)
LowerStmts(lw, stmts, nregs) ==
    IF stmts = <<>> THEN lw
    ELSE LowerFirst([lw EXCEPT !.next = nregs + 1], stmts, ArrayRun(stmts), nregs)

\* thread(): a jump to t ends behind blocks that only jump.
RECURSIVE ThreadFrom(_, _, _)
ThreadFrom(blocks, t, hops) ==
    IF t = 0 \/ hops = 0 THEN t
    ELSE IF /\ blocks[t].live /\ blocks[t].body = <<>>
            /\ blocks[t].term.k = "goto" /\ blocks[t].term.then # t
      THEN ThreadFrom(blocks, blocks[t].term.then, hops - 1) ELSE t
ThreadTo(blocks, t) == ThreadFrom(blocks, t, ThreadHops)

\* The condition without its negations, and whether it is to hold.
RECURSIVE Plain(_, _)
Plain(c, when) == IF c[1] = "not" THEN Plain(c[2], ~when) ELSE [c |-> c, when |-> when]

\* The condition compares variable key with a number.
Decides(p, key) == p.c[1] = "eq" /\ p.c[2] = Var(key) /\ p.c[3][1] = "num"

Taken(p, c) == (p.c[3][2] = c) = p.when

\* follow(): where a jump to t ends if variable key is known to be c.
RECURSIVE FollowFrom(_, _, _, _, _)
FollowFrom(blocks, t, key, c, hops) ==
    IF t = 0 \/ hops = 0 THEN t
    ELSE IF ~blocks[t].live \/ blocks[t].body # <<>> \/ blocks[t].term.k # "branch" THEN t
    ELSE LET p == Plain(blocks[t].term.c, blocks[t].term.when)
         IN  IF ~Decides(p, key) THEN t
             ELSE FollowFrom(blocks, ThreadTo(blocks, IF Taken(p, c) THEN blocks[t].term.then
                                                      ELSE blocks[t].term.els),
                             key, c, hops - 1)

\* The block that a jump at the end of body to t really goes to.
GoesTo(blocks, body, t, keys) ==
    LET last == Last(body)
    IN  IF body = <<>> THEN ThreadTo(blocks, t)
        ELSE IF last.k = "setvar" /\ last.r \in keys /\ last.es[1][1] = "num"
          THEN FollowFrom(blocks, ThreadTo(blocks, t), last.r, last.es[1][2], FollowHops)
        ELSE ThreadTo(blocks, t)

FailOp == Op("fail", "", 0, <<>>)
Patched(lw, t, first) == [lw EXCEPT !.patches = Append(@, <<Here(lw), t, first>>)]

\* The operation of a branch, whether p.when, behind what it needs.
BranchOn(x, k, u, when) == Push(x, [Op(k, "", 0, u) EXCEPT !.when = when])
Branches(lw, then, els, k, u, when) ==
    BranchOn(Patched(Patched(lw, then, TRUE), els, FALSE), k, u, when)
BranchSlot(x, then, els, k, more, when) ==
    Branches(x.lw, then, els, k, <<Slot(x.slot)>> \o more, when)
LowerBranch(lw, p, then, els) ==
    IF then = 0 \/ els = 0 THEN Push(lw, FailOp)
    ELSE IF p.c[1] # "eq" THEN BranchSlot(LowerExpr(lw, p.c, 0), then, els, "br", <<>>, p.when)
    ELSE IF p.c[3][1] # "num" THEN BranchSlot(LowerExpr(lw, p.c, 0), then, els, "br", <<>>, p.when)
    ELSE IF p.c[2][1] = "var" /\ p.c[2][2] \in lw.keys
      THEN Branches(lw, then, els, "brvar", <<Konst(p.c[2][2]), Konst(p.c[3][2])>>, p.when)
    ELSE BranchSlot(LowerExpr(lw, p.c[2], 0), then, els, "brk", <<Konst(p.c[3][2])>>, p.when)

LowerTerm(lw, blocks, body, term) ==
    CASE term.k = "goto" ->
           LET jump(to) == IF to = 0 THEN Push(lw, FailOp) ELSE Push(Patched(lw, to, TRUE), Jump("j", <<>>))
           IN  jump(GoesTo(blocks, body, term.then, lw.keys))
      [] term.k = "branch" ->
           LowerBranch(lw, Plain(term.c, term.when), ThreadTo(blocks, term.then), ThreadTo(blocks, term.els))
      [] OTHER -> Push(lw, FailOp)

\* lower_block(): body is that of block b, or the rest of it.
LowerBlock(lw, blocks, b, body, nregs) ==
    LowerTerm([LowerStmts(lw, body, nregs) EXCEPT !.next = nregs + 1], blocks, body, blocks[b].term)

----------------------------------------------------------------------------
(* compile() *)

VARIABLES
    prog,     \* the function
    stage,    \* "scan", "lower", "hoist", "patch", "summarize", "done"
    cf,       \* the operations, as far as they are made (lw)
    starts,   \* the index at which each block begins
    entry,    \* the index at which the function begins, 0 if not known yet
    init,     \* the variables' values at the beginning, None if not declared
    summary   \* what a call comes to

vars == <<prog, stage, cf, starts, entry, init, summary>>

NoSummary == [k |-> "none", v |-> Undef]

Blank ==
    /\ stage = "scan"
    /\ cf = [keys |-> {}, ops |-> <<>>, next |-> 1, max |-> 0, patches |-> <<>>]
    /\ starts = <<>> /\ entry = 0
    /\ init = [k \in Keys |-> None]
    /\ summary = NoSummary
Init == prog \in Programs /\ Blank

\* All statements of a block, and all expressions of a statement.
RECURSIVE Flat(_)
Flat(stmts) ==
    FlattenSeq([i \in DOMAIN stmts |-> <<stmts[i]>> \o Flat(stmts[i].then) \o Flat(stmts[i].els)])
RECURSIVE Parts(_)
Parts(e) == {e} \cup UNION {Parts(Children(e)[i]) : i \in DOMAIN Children(e)}
ExprsOf(blk) ==
    (IF blk.term.k = "branch" THEN Parts(blk.term.c) ELSE {})
      \cup UNION {UNION {Parts(st.es[i]) : i \in DOMAIN st.es} : st \in ToSet(Flat(blk.body))}

\* scan_stmts(), scan_expr(): the registers and the variables that are declared.
NumRegs(blocks) ==
    LET regs == {1} \cup UNION {{e[2] : e \in {x \in ExprsOf(blocks[b]) : x[1] = "reg"}}
                                  \cup {st.r : st \in {x \in ToSet(Flat(blocks[b].body)) : x.k = "set"}}
                                : b \in {c \in DOMAIN blocks : blocks[c].live}}
    IN  CHOOSE r \in regs : \A q \in regs : q <= r
Declared(blocks) ==
    UNION {{st.r : st \in {x \in ToSet(Flat(blocks[b].body)) : x.k = "decl"}}
           : b \in {c \in DOMAIN blocks : blocks[c].live}}

Scan ==
    /\ stage = "scan"
    /\ cf' = [cf EXCEPT !.keys = Declared(prog), !.next = NumRegs(prog) + 1, !.max = NumRegs(prog)]
    /\ stage' = "lower"
    /\ UNCHANGED <<prog, starts, entry, init, summary>>

\* The next block; one that was found dead fails.
LowerNext ==
    /\ stage = "lower" /\ Len(starts) < Len(prog)
    /\ LET b == Len(starts) + 1
       IN  cf' = IF prog[b].live THEN LowerBlock(cf, prog, b, prog[b].body, NumRegs(prog))
                 ELSE Push(cf, FailOp)
    /\ starts' = Append(starts, Here(cf))
    /\ UNCHANGED <<prog, stage, entry, init, summary>>

\* The declarations that the first block begins with, up to one of a variable that
\* was declared already or with a value that takes work.
Hoistable(body, i) ==
    /\ body[i].k = "decl"
    /\ body[i].es[1][1] \in {"num", "reg"}
    /\ \A j \in 1 .. i - 1 : body[j].r # body[i].r
Leading(body) ==
    CHOOSE m \in 0 .. Len(body) :
        /\ \A i \in 1 .. m : Hoistable(body, i)
        /\ m < Len(body) => ~Hoistable(body, m + 1)

\* Declarations without a value become the values that a call begins with, and
\* the function begins at a second copy of its first block without them.
Hoist ==
    /\ stage = "lower" /\ Len(starts) = Len(prog)
    /\ LET body == prog[1].body
           m == Leading(body)
           bare(st) == st.es[1] = Num(Undef)
           kept == SelectSeq(SubSeq(body, 1, m), LAMBDA st : ~bare(st))
       IN  IF ~prog[1].live \/ Len(kept) = m
             THEN entry' = starts[1] /\ UNCHANGED <<cf, init>>
             ELSE /\ entry' = Here(cf)
                  /\ init' = [k \in Keys |-> IF \E i \in 1 .. m : body[i].r = k /\ bare(body[i])
                                               THEN Undef ELSE None]
                  /\ cf' = LowerBlock(LowerStmts(cf, kept, NumRegs(prog)), prog, 1,
                                      SubSeq(body, m + 1, Len(body)), NumRegs(prog))
    /\ stage' = "patch"
    /\ UNCHANGED <<prog, starts, summary>>

Patch ==
    /\ stage = "patch"
    /\ cf' = [cf EXCEPT !.ops = FoldLeft(LAMBDA ops, p :
                                  IF p[3] THEN [ops EXCEPT ![p[1]].to = starts[p[2]]]
                                  ELSE [ops EXCEPT ![p[1]].els = starts[p[2]]],
                                  @, cf.patches)]
    /\ stage' = "summarize"
    /\ UNCHANGED <<prog, starts, entry, init, summary>>

----------------------------------------------------------------------------
(* summarize().  A value is a constant ("num", "bool", "undef" or "fn"), an argument,
   the exclusive or of some arguments as integers and a number ("xor"), or unknown. *)

Unknown == <<"unk", 0>>
Gone == <<"gone", 0>>      \* summarize_case() gives up
Const(v) == <<CASE v = Undef -> "undef" [] v = FnValue -> "fn" [] OTHER -> "num", v>>
IsConst(v) == v[1] \in {"num", "bool", "undef", "fn"}
BoolOf(b) == <<"bool", AsBool(b)>>

\* av_truth(): 1, 0, or None if it is not known.
AvTruth(v, assume) ==
    IF IsConst(v) THEN AsBool(Truthy(v[2]))
    ELSE IF v = <<"arg", 1>> THEN assume ELSE None

\* av_int()
HasInt(v) == v[1] \in {"arg", "xor", "num"}
Atoms(v) == CASE v[1] = "arg" -> {v[2]} [] v[1] = "xor" -> v[2] [] OTHER -> {}
Offset(v) == CASE v[1] = "arg" -> 0 [] v[1] = "xor" -> v[3] [] OTHER -> ToInt(v[2])

SameXor(a, b) == Offset(a) = Offset(b)

\* av_binary()
AvBinary(what, a, b) ==
    IF a[1] = "num" /\ b[1] = "num"
      THEN CASE what = "eq" -> BoolOf(a[2] = b[2])
             [] what = "xor" -> Const(AsBool(ToInt(a[2]) # ToInt(b[2])))
             [] what = "or" -> Const(AsBool(ToInt(a[2]) + ToInt(b[2]) > 0))
    ELSE CASE what = "or" /\ HasInt(a) /\ b = Const(0) -> <<"xor", Atoms(a), Offset(a)>>
           [] what = "or" /\ a = Const(0) /\ HasInt(b) -> <<"xor", Atoms(b), Offset(b)>>
           [] what = "xor" /\ HasInt(a) /\ HasInt(b) ->
                LET atoms == (Atoms(a) \cup Atoms(b)) \ (Atoms(a) \cap Atoms(b))
                    c == AsBool(Offset(a) # Offset(b))
                IN  IF atoms = {} THEN Const(c) ELSE <<"xor", atoms, c>>
           [] what = "eq" /\ a[1] = "xor" /\ b[1] = "xor" ->
                IF Atoms(a) = Atoms(b) THEN BoolOf(SameXor(a, b)) ELSE Unknown
           [] OTHER -> Unknown

\* summarize_case(): the operations from ip on, the first argument being true or not.
RECURSIVE CaseFrom(_, _, _, _, _)
CaseFrom(ip, regs, locals, assume, steps) ==
    IF steps = 0 \/ ip \notin DOMAIN cf.ops THEN Gone
    ELSE LET op == cf.ops[ip]
             read(i) == IF op.u[i].slot = 0 THEN Const(op.u[i].k) ELSE regs[op.u[i].slot]
             set(v) == CaseFrom(ip + 1, [regs EXCEPT ![op.d] = v], locals, assume, steps - 1)
             put(k, v) == CaseFrom(ip + 1, regs, [locals EXCEPT ![k] = v], assume, steps - 1)
             go(to) == CaseFrom(to, regs, locals, assume, steps - 1)
             when(t) == go(IF t = op.when THEN op.to ELSE op.els)
         IN  CASE op.k = "move" -> set(read(1))
               [] op.k = "var" /\ op.u[1].k \in cf.keys -> set(locals[op.u[1].k])
               [] op.k \in {"decl", "setvar"} /\ op.d \in cf.keys -> put(op.d, read(1))
               [] op.k = "do" /\ op.what = "not" ->
                    set(IF AvTruth(read(1), assume) = None THEN Unknown
                        ELSE BoolOf(AvTruth(read(1), assume) = 0))
               [] op.k = "do" /\ op.what \in {"eq", "xor", "or"} ->
                    set(AvBinary(op.what, read(1), read(2)))
               [] op.k = "br" /\ AvTruth(read(1), assume) # None -> when(AvTruth(read(1), assume) = 1)
               [] op.k = "brk" /\ read(1)[1] = "num" -> when(read(1)[2] = op.u[2].k)
               [] op.k = "brvar" /\ locals[op.u[1].k][1] = "num" ->
                    when(locals[op.u[1].k][2] = op.u[2].k)
               [] op.k = "jf" /\ AvTruth(read(1), assume) # None ->
                    go(IF AvTruth(read(1), assume) = 0 THEN op.to ELSE ip + 1)
               [] op.k = "j" -> go(op.to)
               [] op.k = "ret" -> read(1)
               [] OTHER -> Gone

SummaryCase(assume) ==
    CaseFrom(entry,
             [r \in 1 .. cf.max |-> IF r <= NumRegs(prog) THEN <<"arg", r>> ELSE Const(Undef)],
             [k \in Keys |-> IF init[k] = None THEN Unknown ELSE Const(init[k])],
             assume, SummarySteps)

\* What the two cases come to.
Concluded(t, f) ==
    CASE t = BoolOf(TRUE) /\ f = BoolOf(FALSE) -> [k |-> "notnot", v |-> Undef]
      [] t = BoolOf(FALSE) /\ f = BoolOf(TRUE) -> [k |-> "not", v |-> Undef]
      [] IsConst(t) /\ t = f -> [k |-> "const", v |-> t[2]]
      [] t = <<"arg", 1>> /\ f = t -> [k |-> "arg", v |-> Undef]
      [] OTHER -> NoSummary

\* A function that makes closures has no summary.
Leaf == ~\E i \in DOMAIN cf.ops : cf.ops[i].k = "do" /\ cf.ops[i].what = "fn"

Summarize ==
    /\ stage = "summarize"
    /\ summary' = IF Leaf THEN Concluded(SummaryCase(1), SummaryCase(0)) ELSE NoSummary
    /\ stage' = "done"
    /\ UNCHANGED <<prog, cf, starts, entry, init>>

Done == stage = "done" /\ UNCHANGED vars

Next == Scan \/ LowerNext \/ Hoist \/ Patch \/ Summarize \/ Done
Spec == Init /\ [][Next]_vars

----------------------------------------------------------------------------
(* ops(), over what compile() made *)

Operand(o, s) == IF o.slot = 0 THEN o.k ELSE s.regs[o.slot]

\* The operation at ip, which neither jumps nor leaves.
Perform(op, s) ==
    LET v(i) == Operand(op.u[i], s)
        put(r) == IF r.s.left # "" THEN r.s ELSE [r.s EXCEPT !.regs[op.d] = r.v]
    IN  CASE op.k = "move" -> put(Result(v(1), s))
          [] op.k = "var" -> put(Result(Lookup(op.u[1].k, s), s))
          [] op.k = "do" -> put(Apply(op.what, v(1), v(2), s))
          [] op.k = "array" -> put(Fresh([i \in DOMAIN op.u |-> v(i)], s))
          [] op.k = "put" -> PutItem(v(1), v(2), v(3), s)
          [] op.k = "setvar" -> Assign(op.d, v(1), s)
          [] op.k = "decl" -> [s EXCEPT !.own[op.d] = v(1)]
          [] op.k = "catch" -> [s EXCEPT !.catch = v(1)]
          [] op.k = "ret" -> Ended(s, "ret", v(1))
          [] op.k = "throw" -> Ended(s, "throw", Undef)
          [] op.k = "fail" -> Ended(s, "fail", Undef)
          [] OTHER -> s

\* The index of the operation behind that at ip.
Onward(op, ip, s) ==
    LET when(t) == IF t = op.when THEN op.to ELSE op.els
    IN  CASE op.k = "j" -> op.to
          [] op.k = "jf" -> IF Truthy(Operand(op.u[1], s)) THEN ip + 1 ELSE op.to
          [] op.k = "br" -> when(Truthy(Operand(op.u[1], s)))
          [] op.k = "brk" -> when(Operand(op.u[1], s) = op.u[2].k)
          [] op.k = "brvar" -> when(Lookup(op.u[1].k, s) = op.u[2].k)
          [] OTHER -> ip + 1

RECURSIVE RunOps(_, _, _)
RunOps(ip, s, fuel) ==
    IF fuel = 0 THEN s
    ELSE LET op == cf.ops[ip]
             t == Perform(op, s)
             cost == IF op.k \in {"j", "br", "brk", "brvar"} THEN 1 ELSE 0
         IN  CASE Caught(t) -> RunOps(starts[t.catch], Resumed(t), fuel - 1)
               [] t.left # "" -> t
               [] OTHER -> RunOps(Onward(op, ip, s), t, fuel - cost)

Outside == [k \in Keys |-> 0]
Undeclared == [k \in Keys |-> None]

\* run(): a call with args in the registers; the slots behind them hold what was
\* there before.
Called(args, log, own) ==
    [regs |-> args \o [i \in 1 .. cf.max - Len(args) |-> Stale],
     own |-> own, outer |-> Outside, heap |-> <<>>, catch |-> 0, answers |-> log,
     trace |-> <<>>, left |-> "", result |-> <<>>]

----------------------------------------------------------------------------
(* Properties *)

Args == [1 .. NumRegs(prog) -> {0, 1}]
Before(args, log) == RunBlocks(prog, 1, Called(args, log, Undeclared), Fuel)
After(args, log) == RunOps(entry, Called(args, log, init), 3 * Fuel)

\* array_run() makes an array only when its items are there: a handler must not
\* read the register in between.
HandlersReadNoArray ==
    \A b, c \in DOMAIN prog :
        \A st \in ToSet(prog[b].body), made \in ToSet(prog[c].body) :
            st.k = "catch" /\ made.k = "set" /\ made.es[1][1] = "new" =>
                Reg(made.r) \notin ExprsOf(prog[st.es[1][2]])

Indistinguishable(o, n) ==
    IF o.left # ""
      THEN /\ n.left = o.left /\ n.trace = o.trace /\ n.result = o.result
           /\ o.left # "fail" => n.own = o.own /\ n.outer = o.outer
      ELSE IsPrefix(o.trace, n.trace) \/ IsPrefix(n.trace, o.trace)

\* The operations do what the function does: whatever the arguments, whatever its
\* calls answer or throw, they make the same calls with the same values while the
\* variables are the same, and end in the same way with the same result.  No slot
\* is read that this call has not written.
SameBehaviour ==
    stage = "done" /\ HandlersReadNoArray =>
        \A args \in Args, log \in Logs : Indistinguishable(Before(args, log), After(args, log))

\* A variable is declared at the beginning, before anything else is done with it.
DeclaredFirst ==
    \A k \in Declared(prog) :
        \E i \in DOMAIN prog[1].body :
            /\ prog[1].body[i].k = "decl" /\ prog[1].body[i].r = k
            /\ \A j \in 1 .. i : LET st == prog[1].body[j]
                                 IN  st.k \in {"decl", "set"} /\ Var(k) \notin Parts(st.es[1])

Expected(first) ==
    CASE summary.k = "const" -> summary.v
      [] summary.k = "arg" -> first
      [] summary.k = "not" -> AsBool(~Truthy(first))
      [] summary.k = "notnot" -> AsBool(Truthy(first))

GivesJust(o, value) ==
    o.left = "ret" /\ o.trace = <<>> /\ o.result = <<value>> /\ o.outer = Outside

\* A call that run() skips because the function has a summary would have ended,
\* called nothing, changed no variable of another function, and returned just what
\* the summary says, whatever the first argument is.
SkippedCallsDoNothing ==
    stage = "done" /\ summary # NoSummary /\ DeclaredFirst =>
        \A args \in Args, first \in {0, 1, Undef, FnValue} :
            GivesJust(After([args EXCEPT ![1] = first], <<>>), Expected(first))
=============================================================================
