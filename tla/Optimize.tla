------------------------------ MODULE Optimize ------------------------------
(***************************************************************************)
(* The optimiser of compiled functions, optimize() of src/payload/exec.rs, *)
(* pass by pass: dead stores, fusing of apply, threading of jumps, dropping*)
(* of jumps and compaction; then the interpreter's loop over operations,   *)
(* ops(), run over the function as it was and as it became side by side.   *)
(*                                                                         *)
(* The some fifty operations are classed by what the optimiser asks of     *)
(* them: what they define and use, whether they are pure, whether they may *)
(* throw, where they continue.  A value is a constant, the answer of a     *)
(* call or an array of values.  Silent operations only move values or      *)
(* control; at the others the two runs wait for each other and must agree. *)
(* The budget of steps, which ends endless loops, is left out, and so is   *)
(* the case of more than 128 registers, in which only jumps are improved.  *)
(***************************************************************************)
EXTENDS Integers, Sequences, FiniteSets, SequencesExt, FiniteSetsExt

CONSTANTS
    Programs,    \* [ops, pcs, entry]: operations by index from 0, the index at which
                 \* each block begins, and the index to begin at
    Regs,        \* registers of the frame
    Answers,     \* what calls can answer
    DseRounds,   \* DSE_ROUNDS
    ThreadHops   \* THREAD_HOPS

BoundsAssumption == DseRounds \in Nat \ {0} /\ ThreadHops \in Nat

\* Kinds of operations:
\*   num, move, array  pure: define d from nothing, a register, or several
\*   closure           safe but not pure: defines d from registers
\*   call, apply       define d from registers and may throw; apply is given its
\*                     receiver and its arguments in an array
\*   applyL            apply with receiver and arguments in registers
\*   put               SetFrameField and its like: safe, defines nothing
\*   store             SetProp and its like: may throw, defines nothing
\*   jf                Jf, Jt, Jn: to or on
\*   br, brk           Br; BrK and BrVarK, which may throw: to or els
\*   j                 to
\*   jump, ret, throw  leave for a block given by a value, or the function
\*   fail              a fault
Pure == {"num", "move", "array"}
Safe == Pure \cup {"closure", "j", "jf", "br", "put", "fail"}
Handled == {"jump", "ret", "throw"}
Defining == Pure \cup {"closure", "call", "apply", "applyL"}
Silent == Pure \cup {"j"}

Def(op) == IF op.k \in Defining THEN {op.d} ELSE {}
Uses(op) == ToSet(op.u)

\* Where control may go from the operation at i, other than to a handler.
Targets(op) ==
    CASE op.k \in {"j", "jf"} -> {op.to}
      [] op.k \in {"br", "brk"} -> {op.to, op.els}
      [] OTHER -> {}
Falls(op) == op.k \notin {"j", "br", "brk", "fail"} \cup Handled
Throws(op) == op.k \notin Safe

VARIABLES
    prog,    \* the function as lowered
    pass,    \* what comes next: "dead", "fuse", "thread", "drop", "compact" or "run"
    ops,     \* the operations, as changed so far
    keep,    \* which of them are kept
    live,    \* the registers live before each
    rounds,  \* rounds of dead_stores() so far
    fin,     \* the first kept operation from each index on
    opt,     \* the function as optimised
    src,     \* [ip, regs] of the run of prog
    dst,     \* [ip, regs] of the run of opt
    over     \* the function was left

passes == <<prog, pass, ops, keep, live, rounds, fin, opt>>
vars == <<passes, src, dst, over>>

n == Cardinality(DOMAIN prog.ops)
Down == [i \in 1 .. n |-> n - i]

Init ==
    /\ prog \in Programs
    /\ pass = "dead"
    /\ ops = prog.ops
    /\ keep = [i \in DOMAIN prog.ops |-> TRUE]
    /\ live = [i \in DOMAIN prog.ops |-> {}]
    /\ rounds = 0
    /\ fin = [i \in 0 .. n |-> n]
    /\ opt = prog
    /\ src = [ip |-> prog.entry, regs |-> [r \in Regs |-> r]]
    /\ dst = src
    /\ over = FALSE

----------------------------------------------------------------------------
(* optimize() *)

\* What is live where blocks begin, any of which may be a handler.
HandlerLive == UNION {live[prog.pcs[b]] : b \in DOMAIN prog.pcs}

\* Mutant: forgets that what throws goes on at a handler.
LiveOutOfNoThrow(l, i) ==
    UNION {l[t] : t \in Targets(ops[i]) \cap DOMAIN l}
    \cup (IF Falls(ops[i]) /\ i + 1 \in DOMAIN l THEN l[i + 1] ELSE {})

\* What is live after the operation at i.
LiveOut(l, i) ==
    UNION {l[t] : t \in Targets(ops[i]) \cap DOMAIN l}
    \cup (IF Falls(ops[i]) /\ i + 1 \in DOMAIN l THEN l[i + 1] ELSE {})
    \cup (IF Throws(ops[i]) THEN HandlerLive ELSE {})

Dead(l, i) == ops[i].k \in Pure /\ Def(ops[i]) \cap LiveOut(l, i) = {}

\* One round over the operations, from the last to the first.
LiveRound ==
    FoldLeft(LAMBDA l, i :
                [l EXCEPT ![i] = IF Dead(l, i) THEN LiveOut(l, i)
                                 ELSE (LiveOut(l, i) \ Def(ops[i])) \cup Uses(ops[i])],
             live, Down)

\* dead_stores(), one round: the last is one that changes nothing, unless there
\* are too many, when everything is kept and nothing fused.
DeadStores ==
    /\ pass = "dead"
    /\ IF LiveRound = live
       THEN /\ keep' = [i \in DOMAIN ops |-> ~Dead(live, i)]
            /\ pass' = "fuse"
            /\ UNCHANGED <<live, rounds>>
       ELSE /\ live' = IF rounds + 1 = DseRounds THEN [i \in DOMAIN ops |-> {}] ELSE LiveRound
            /\ pass' = IF rounds + 1 = DseRounds THEN "thread" ELSE "dead"
            /\ rounds' = rounds + 1
            /\ UNCHANGED keep
    /\ UNCHANGED <<prog, ops, fin, opt, src, dst, over>>

\* targets_of()
Labels ==
    UNION {Targets(ops[i]) : i \in DOMAIN ops}
    \cup {prog.pcs[b] : b \in DOMAIN prog.pcs} \cup {prog.entry}

\* def_before(): the last kept definition of reg before from that nothing jumps
\* in behind of; -1 if there is none.
DefBefore(from, reg) ==
    LET found == {j \in 0 .. from - 1 : /\ keep[j]
                                        /\ Def(ops[j]) = {reg}
                                        /\ (j + 1 .. from) \cap Labels = {}}
    IN  IF found = {} THEN -1 ELSE Max(found)

\* i1 and i2 make the two arrays of the apply at i, in registers that nothing else
\* reads, and what they were made from is still there.
Fusible(i1, i2, i) ==
    LET a == ops[i].u[3]
        b == ops[i2].u[2]
        th == ops[i2].u[1]
        elems == Uses(ops[i1])
        after == HandlerLive \cup (IF i + 1 \in DOMAIN live THEN live[i + 1] ELSE {})
    IN  /\ DefBefore(i, a) = i2 /\ DefBefore(i2, b) = i1
        /\ a # b
        /\ {a, b} \cap ({th, ops[i].u[1], ops[i].u[2]} \cup elems \cup after) = {}
        /\ \A j \in i1 + 1 .. i - 1 :
              keep[j] /\ j # i2 =>
                 /\ Uses(ops[j]) \cap {a, b} = {}
                 /\ Def(ops[j]) \cap ({a, b} \cup elems \cup (IF j > i2 THEN {th} ELSE {})) = {}

\* The applies behind the last one fused that can be, each with its arrays.
Fusings ==
    LET arrays == {i \in DOMAIN ops : ops[i].k = "array"}
        ahead == {i \in DOMAIN ops : /\ ops[i].k = "apply" /\ keep[i]
                                     /\ \A j \in DOMAIN ops : ops[j].k = "applyL" => j < i}
    IN  {p \in arrays \X arrays \X ahead : Len(ops[p[2]].u) = 2 /\ Fusible(p[1], p[2], p[3])}

\* fuse_apply(): the first that can be, until there are none.
FuseApply ==
    /\ pass = "fuse"
    /\ IF Fusings = {}
       THEN pass' = "thread" /\ UNCHANGED <<ops, keep>>
       ELSE LET fu == CHOOSE p \in Fusings : \A q \in Fusings : p[3] <= q[3]
            IN  /\ ops' = [ops EXCEPT
                             ![fu[3]].k = "applyL",
                             ![fu[3]].u = <<@[1], @[2], ops[fu[2]].u[1]>> \o ops[fu[1]].u]
                /\ keep' = [keep EXCEPT ![fu[1]] = FALSE, ![fu[2]] = FALSE]
                /\ UNCHANGED pass
    /\ UNCHANGED <<prog, live, rounds, fin, opt, src, dst, over>>

\* The first kept operation at t or behind it.
NextKept(t) == IF t > n THEN n ELSE Min({i \in t .. n : i = n \/ keep[i]})

\* Where a jump to each index ends after at most ThreadHops further jumps.
Threaded ==
    LET f[k \in 0 .. ThreadHops, t \in 0 .. n] ==
            IF k = ThreadHops \/ t = n THEN t
            ELSE IF ops[t].k # "j" THEN t
            ELSE f[k + 1, NextKept(ops[t].to)]
    IN  [t \in 0 .. n |-> f[0, NextKept(t)]]

\* retarget(): every target of op mapped by at, one beyond the end to the end's.
Retarget(op, at) ==
    LET new(t) == IF t \in DOMAIN at THEN at[t] ELSE at[n]
    IN  CASE op.k \in {"j", "jf"} -> [op EXCEPT !.to = new(@)]
          [] op.k \in {"br", "brk"} -> [op EXCEPT !.to = new(@), !.els = new(@)]
          [] OTHER -> op

ThreadJumps ==
    /\ pass = "thread"
    /\ ops' = [i \in DOMAIN ops |-> IF keep[i] THEN Retarget(ops[i], Threaded) ELSE ops[i]]
    /\ pass' = "drop"
    /\ UNCHANGED <<prog, keep, live, rounds, fin, opt, src, dst, over>>

\* Mutant: a jump to itself counts as a jump forward.
LeadsOnIncludingSelf(i, to, f) == to >= i /\ f[IF to > n THEN n ELSE to] = f[i + 1]

\* A jump from i forward to what follows anyway, f being fin so far.
LeadsOn(i, to, f) == to > i /\ f[IF to > n THEN n ELSE to] = f[i + 1]

\* Jumps that lead on are dropped, from the last to the first.
DropJumps ==
    /\ pass = "drop"
    /\ LET drops(s, i) == ops[i].k = "j" /\ LeadsOn(i, ops[i].to, s)
           f == FoldLeft(LAMBDA s, i :
                            [s EXCEPT ![i] = IF keep[i] /\ ~drops(s, i) THEN i ELSE s[i + 1]],
                         fin, Down)
       IN  /\ fin' = f
           /\ keep' = [i \in DOMAIN ops |-> f[i] = i]
    /\ pass' = "compact"
    /\ UNCHANGED <<prog, ops, live, rounds, opt, src, dst, over>>

\* How many operations before i are kept: the new index of i.
Remap(i) == Cardinality({j \in DOMAIN keep : j < i /\ keep[j]})

\* The new index of what is kept at each index or behind it.
Moved == [t \in 0 .. n |-> Remap(fin[t])]

\* What is dropped goes, targets, blocks and the entry move; both functions start.
Compact ==
    /\ pass = "compact"
    /\ LET old == [i \in 0 .. Remap(n) - 1 |->
                     CHOOSE j \in DOMAIN keep : keep[j] /\ Remap(j) = i]
       IN  opt' = [ops |-> [i \in DOMAIN old |-> Retarget(ops[old[i]], Moved)],
                   pcs |-> [b \in DOMAIN prog.pcs |-> Moved[prog.pcs[b]]],
                   entry |-> Moved[prog.entry]]
    /\ dst' = [dst EXCEPT !.ip = opt'.entry]
    /\ pass' = "run"
    /\ UNCHANGED <<prog, ops, keep, live, rounds, fin, src, over>>

----------------------------------------------------------------------------
(* ops(), over the function as it was and as it became *)

Off == [k |-> "off", d |-> 0, u |-> <<>>]  \* beyond the last operation
At(p, frame) == IF frame.ip \in DOMAIN p.ops THEN p.ops[frame.ip] ELSE Off

Reads(op, regs) == [i \in DOMAIN op.u |-> regs[op.u[i]]]

\* A pure operation or a jump.
Quiet(p, frame) ==
    LET op == At(p, frame)
        next == [frame EXCEPT !.ip = @ + 1]
        read == Reads(op, frame.regs)
    IN  CASE op.k = "num" -> [next EXCEPT !.regs[op.d] = op.c]
          [] op.k = "move" -> [next EXCEPT !.regs[op.d] = read[1]]
          [] op.k = "array" -> [next EXCEPT !.regs[op.d] = read]
          [] op.k = "j" -> [frame EXCEPT !.ip = op.to]

QuietSrc ==
    /\ pass = "run" /\ At(prog, src).k \in Silent
    /\ src' = Quiet(prog, src)
    /\ UNCHANGED <<passes, dst, over>>

QuietDst ==
    /\ pass = "run" /\ At(opt, dst).k \in Silent
    /\ dst' = Quiet(opt, dst)
    /\ UNCHANGED <<passes, src, over>>

\* What an operation is seen to be: fused, apply makes the arrays it is given.
Seen(op, regs) ==
    LET read == Reads(op, regs)
    IN  IF op.k = "applyL"
        THEN <<"apply", Def(op), <<read[1], read[2], <<read[3], SubSeq(read, 4, Len(read))>> >> >>
        ELSE <<op.k, Def(op), read>>

SrcWaits == pass = "run" /\ ~over /\ At(prog, src).k \notin Silent
DstWaits == pass = "run" /\ ~over /\ At(opt, dst).k \notin Silent
Agree == Seen(At(prog, src), src.regs) = Seen(At(opt, dst), dst.regs)
Meet == SrcWaits /\ DstWaits /\ Agree

\* A call is answered.
Answer ==
    /\ Meet
    /\ At(prog, src).k \in Defining
    /\ LET d == At(prog, src).d
       IN  \E v \in Answers :
             /\ src' = [src EXCEPT !.ip = @ + 1, !.regs[d] = v]
             /\ dst' = [dst EXCEPT !.ip = @ + 1, !.regs[d] = v]
    /\ UNCHANGED <<passes, over>>

\* A property, field or variable is set, or a conditional jump is not taken.
Pass ==
    /\ Meet
    /\ At(prog, src).k \in {"put", "store", "jf"}
    /\ src' = [src EXCEPT !.ip = @ + 1]
    /\ dst' = [dst EXCEPT !.ip = @ + 1]
    /\ UNCHANGED <<passes, over>>

\* A branch or a conditional jump is taken.
Branch ==
    /\ Meet
    /\ \/ /\ At(prog, src).k \in {"jf", "br", "brk"}
          /\ src' = [src EXCEPT !.ip = At(prog, src).to]
          /\ dst' = [dst EXCEPT !.ip = At(opt, dst).to]
       \/ /\ At(prog, src).k \in {"br", "brk"}
          /\ src' = [src EXCEPT !.ip = At(prog, src).els]
          /\ dst' = [dst EXCEPT !.ip = At(opt, dst).els]
    /\ UNCHANGED <<passes, over>>

\* exec() goes on at the catch block after a throw; ret goes on at the finally
\* block, jump where its value says.
Handle ==
    /\ Meet
    /\ Throws(At(prog, src))
    /\ \E b \in DOMAIN prog.pcs :
          /\ src' = [src EXCEPT !.ip = prog.pcs[b]]
          /\ dst' = [dst EXCEPT !.ip = opt.pcs[b]]
    /\ UNCHANGED <<passes, over>>

\* The function returns, throws or faults.
Leave ==
    /\ Meet
    /\ Throws(At(prog, src)) \/ At(prog, src).k = "fail"
    /\ over' = TRUE
    /\ UNCHANGED <<passes, src, dst>>

\* The function was left, or the two runs have parted for good.
Left ==
    /\ over \/ (SrcWaits /\ DstWaits /\ ~Agree)
    /\ UNCHANGED vars

Improve == DeadStores \/ FuseApply \/ ThreadJumps \/ DropJumps \/ Compact

Next == Improve \/ QuietSrc \/ QuietDst \/ Answer \/ Pass \/ Branch \/ Handle \/ Leave \/ Left

Spec == Init /\ [][Next]_vars

----------------------------------------------------------------------------
(* Properties *)

\* No operation that may throw defines a register that a block needs when it begins.
\* dead_stores() takes a definition to happen even when its operation throws: in
\* other functions it drops a store before such an operation that a handler reads.
CatchesReadNoResult ==
    \A i \in DOMAIN prog.ops : Throws(prog.ops[i]) => Def(prog.ops[i]) \cap HandlerLive = {}

\* Whatever calls answer, wherever they throw to and however branches go, the
\* optimised function makes the same calls with the same values, sets the same
\* things and leaves in the same way as the function it was made from, provided
\* handlers read no register whose last definition threw.
SameEffects == CatchesReadNoResult /\ SrcWaits /\ DstWaits => Agree
=============================================================================
