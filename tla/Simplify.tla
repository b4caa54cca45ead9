------------------------------ MODULE Simplify ------------------------------
(***************************************************************************)
(* The passes of Pass::function() of src/payload/devirt.rs over the blocks *)
(* of one function: empty blocks are skipped and chains merged             *)
(* (function()), registers that are read once are replaced by what was put *)
(* into them and dead ones are dropped (registers()), jumps to jumps are   *)
(* shortened (thread()).                                                   *)
(***************************************************************************)
EXTENDS Ir, SequencesExt

CONSTANT MaxGap    \* MAX_GAP: how far an expression is moved

----------------------------------------------------------------------------
(* Merging *)

\* A block that does nothing but jump.
Empty(blocks, b) == blocks[b].body = <<>> /\ blocks[b].term.k = "goto"

\* resolve(): the block a jump to b ends at; a ring of empty blocks ends
\* somewhere on it.
RECURSIVE SkipEmpty(_, _, _)
SkipEmpty(blocks, b, steps) ==
    IF b = 0 \/ steps = 0 \/ ~Empty(blocks, b) THEN b
    ELSE SkipEmpty(blocks, blocks[b].term.then, steps - 1)
Resolve(blocks, b) == SkipEmpty(blocks, b, Len(blocks))

Entry(blocks) == Resolve(blocks, 1)

\* rsucc: the targets of a block that is not empty, empty ones skipped.
Succs(blocks, b) ==
    IF Empty(blocks, b) THEN <<>>
    ELSE [i \in DOMAIN Targets(blocks[b].term) |-> Resolve(blocks, Targets(blocks[b].term)[i])]

Jumps(blocks, t) ==
    Cardinality({<<b, i>> \in (DOMAIN blocks) \X {1, 2} :
                    i \in DOMAIN Succs(blocks, b) /\ Succs(blocks, b)[i] = t})

\* next: the block that b is continued with, if b is the only way into it.
Absorbs(blocks, b) ==
    LET t == Succs(blocks, b)[1]
    IN  IF /\ ~Empty(blocks, b) /\ blocks[b].term.k = "goto"
           /\ t \notin {0, b, Entry(blocks)} /\ Jumps(blocks, t) = 1 /\ ~Empty(blocks, t)
          THEN t ELSE 0

\* heads: the entry, then the other blocks that stay, in their order.
Heads(blocks) ==
    LET entry == Entry(blocks)
        absorbed == {Absorbs(blocks, b) : b \in DOMAIN blocks}
        stays(b) == ~Empty(blocks, b) /\ b \notin absorbed /\ b # entry
    IN  (IF entry = 0 THEN <<>> ELSE <<entry>>)
          \o SelectSeq([b \in DOMAIN blocks |-> b], stays)

\* The blocks that head h is made of.
RECURSIVE Chain(_, _)
Chain(blocks, h) ==
    IF Absorbs(blocks, h) = 0 THEN <<h>> ELSE <<h>> \o Chain(blocks, Absorbs(blocks, h))

\* Where block b is among the heads, 0 if it is not.
OutOf(heads, b) == IF \E i \in DOMAIN heads : heads[i] = b
                     THEN CHOOSE i \in DOMAIN heads : heads[i] = b ELSE 0

MergedTerm(blocks, heads, last) ==
    LET s == Succs(blocks, last)
        out(i) == IF i \in DOMAIN s /\ s[i] # 0 THEN OutOf(heads, s[i]) ELSE 0
        term == blocks[last].term
    IN  CASE term.k = "goto" /\ out(1) # 0 -> Goto(out(1))
          [] term.k = "branch" /\ out(1) # 0 /\ out(2) # 0 ->
               Branch(term.c, term.when, out(1), out(2))
          [] term.k = "exit" -> Exit
          [] term.k = "dynamic" -> Dynamic(out(1))
          [] OTHER -> Invalid

Merged(blocks) ==
    LET heads == Heads(blocks)
        body(h) == FlattenSeq([i \in DOMAIN Chain(blocks, h) |-> blocks[Chain(blocks, h)[i]].body])
    IN  [i \in DOMAIN heads |->
           Block(body(heads[i]), MergedTerm(blocks, heads, Last(Chain(blocks, heads[i]))))]

----------------------------------------------------------------------------
(* Registers *)

\* expr_class(): what may happen between an expression and where it is moved to.
Pure == 0
Mem == 1
Effect == 2
RECURSIVE Class(_)
Class(e) ==
    LET own == CASE Effectful(e) -> Effect
                 [] e[1] \in {"var", "fn", "bool", "idx"} -> Mem
                 [] OTHER -> Pure
    IN  FoldLeft(LAMBDA c, d : IF d > c THEN d ELSE c, own,
                 [i \in DOMAIN Children(e) |-> Class(Children(e)[i])])

\* The registers an expression reads, one item for each place it does.
RECURSIVE ReadsIn(_)
ReadsIn(e) ==
    IF e[1] = "reg" THEN <<e[2]>>
    ELSE FlattenSeq([i \in DOMAIN Children(e) |-> ReadsIn(Children(e)[i])])

\* A block as registers() sees it: its statements, and its condition as one that
\* is not there ("cond"); what is dropped becomes "gone".
Gone == [k |-> "gone", r |-> 0, es |-> <<>>]
WithCond(blk) ==
    IF blk.term.k = "branch"
      THEN Append(blk.body, [k |-> "cond", r |-> 0, es |-> <<blk.term.c>>]) ELSE blk.body

ReadsOf(st) == FlattenSeq([i \in DOMAIN st.es |-> ReadsIn(st.es[i])])
Count(seq, r) == Cardinality({i \in DOMAIN seq : seq[i] = r})

\* The registers read in a block before it writes them.
Uses(stmts) ==
    {r \in Regs : \E i \in DOMAIN stmts :
        /\ Count(ReadsOf(stmts[i]), r) > 0
        /\ \A j \in 1 .. i - 1 : ~(stmts[j].k = "set" /\ stmts[j].r = r)}
Defs(stmts) == {stmts[i].r : i \in {j \in DOMAIN stmts : stmts[j].k = "set"}}

\* The loop over the blocks until nothing changes.  live[b]: the registers
\* read on some way from the start of b; what blocks without a way in read may
\* be read from anywhere.
HandlerLive(blocks, live) ==
    UNION {live[b] : b \in {c \in DOMAIN blocks : c # 1 /\ Preds(blocks, c) = 0}}

\* Mutant: what handlers read is forgotten.
LiveOutNoHandler(blocks, live, b) ==
    (IF blocks[b].term.k = "dynamic" THEN Regs ELSE {})
      \cup UNION {live[t] : t \in TargetSet(blocks, b)}

LiveOut(blocks, live, b) ==
    HandlerLive(blocks, live)
      \cup (IF blocks[b].term.k = "dynamic" THEN Regs ELSE {})
      \cup UNION {live[t] : t \in TargetSet(blocks, b)}

RECURSIVE LiveFrom(_, _)
LiveFrom(blocks, live) ==
    LET again == [b \in DOMAIN blocks |->
                    Uses(WithCond(blocks[b]))
                      \cup (LiveOut(blocks, live, b) \ Defs(blocks[b].body))]
    IN  IF again = live THEN live ELSE LiveFrom(blocks, again)
LiveIn(blocks) == LiveFrom(blocks, [b \in DOMAIN blocks |-> {}])

\* walk(): whether register r is read in e before anything with an effect.
RECURSIVE WalkTo(_, _)
WalkTo(e, r) ==
    LET first == FoldLeft(LAMBDA state, d : IF state = "missing" THEN WalkTo(d, r) ELSE state,
                          "missing", Children(e))
    IN  CASE e = Reg(r) -> "found"
          [] first # "missing" -> first
          [] Effectful(e) -> "effect"
          [] OTHER -> "missing"
FirstEffectFree(st, r) ==
    "found" = FoldLeft(LAMBDA state, d : IF state = "missing" THEN WalkTo(d, r) ELSE state,
                       "missing", IF st.k = "if" THEN <<st.es[1]>> ELSE st.es)

RECURSIVE Replace(_, _, _)
Replace(e, r, by) ==
    IF e = Reg(r) THEN by
    ELSE IF Children(e) = <<>> THEN e
    ELSE <<e[1]>> \o [i \in DOMAIN Children(e) |-> Replace(Children(e)[i], r, by)]

\* Where the life of what statement i sets ends: at a statement that sets the
\* register again, or that may do so, or after the block.
Ends(stmts, i) ==
    {j \in i + 1 .. Len(stmts) : stmts[j].k \in {"set", "if"} /\ stmts[j].r = stmts[i].r}
End(stmts, i) == IF Ends(stmts, i) = {} THEN Len(stmts) + 1
                 ELSE CHOOSE j \in Ends(stmts, i) : \A l \in Ends(stmts, i) : j <= l
MaybeSetAgain(stmts, i) == End(stmts, i) <= Len(stmts) /\ stmts[End(stmts, i)].k = "if"
ReadAt(stmts, i) ==
    {j \in i + 1 .. Len(stmts) : j <= End(stmts, i) /\ Count(ReadsOf(stmts[j]), stmts[i].r) > 0}
LiveAfter(stmts, i, out) ==
    IF End(stmts, i) > Len(stmts) THEN stmts[i].r \in out ELSE MaybeSetAgain(stmts, i)

HasEffect(st) == st.k \notin {"set", "cond", "gone"} \/ (st.k = "set" /\ Class(st.es[1]) = Effect)

\* Nothing between i and j keeps the expression of i from being moved to j.
Movable(stmts, i, j) ==
    LET e == stmts[i].es[1]
        class == Class(e)
    IN  \A m \in i + 1 .. j - 1 :
            stmts[m].k \in {"gone", "cond"} \/
            /\ class # Effect
            /\ class = Mem => ~HasEffect(stmts[m])
            /\ stmts[m].k \in {"set", "if"} => Count(ReadsIn(e), stmts[m].r) = 0

\* One statement of the second loop: dropped, kept for its effect alone, moved
\* to the one place that reads it, or left.
Forward(stmts, i, out) ==
    LET st == stmts[i]
        e == st.es[1]
        js == ReadAt(stmts, i)
        j == CHOOSE l \in js : TRUE
        nested == stmts[j].k = "if" /\ Count(ReadsIn(stmts[j].es[2]), st.r) > 0
    IN  IF st.k # "set" THEN stmts
        ELSE IF js = {} /\ ~LiveAfter(stmts, i, out)
          THEN [stmts EXCEPT ![i] = IF Class(e) = Effect THEN Eval(e) ELSE Gone]
        ELSE IF /\ Cardinality(js) = 1 /\ Count(ReadsOf(stmts[j]), st.r) = 1
                /\ ~LiveAfter(stmts, i, out)
                /\ j - i <= MaxGap
                /\ nested => Class(e) = Pure
                /\ Movable(stmts, i, j)
                /\ Class(e) # Pure => FirstEffectFree(stmts[j], st.r)
          THEN [stmts EXCEPT ![i] = Gone,
                             ![j].es = [l \in DOMAIN @ |-> Replace(@[l], st.r, e)]]
          ELSE stmts

RECURSIVE ForwardFrom(_, _, _)
ForwardFrom(stmts, i, out) ==
    IF i > Len(stmts) THEN stmts ELSE ForwardFrom(Forward(stmts, i, out), i + 1, out)

Registers(blocks) ==
    LET live == LiveIn(blocks)
        done(b) == ForwardFrom(WithCond(blocks[b]), 1, LiveOut(blocks, live, b))
        real(st) == st.k \notin {"gone", "cond"}
    IN  [b \in DOMAIN blocks |->
           [blocks[b] EXCEPT !.body = SelectSeq(done(b), real),
                             !.term.c = IF blocks[b].term.k = "branch" THEN Last(done(b)).es[1] ELSE @]]

----------------------------------------------------------------------------
(* Threading *)

RECURSIVE Follow(_, _, _)
Follow(blocks, t, steps) ==
    IF t = 0 \/ steps = 0 \/ ~Empty(blocks, t) \/ blocks[t].term.then = t THEN t
    ELSE Follow(blocks, blocks[t].term.then, steps - 1)

\* Block after block, each with what was shortened before it.
Thread(blocks) ==
    FoldLeft(LAMBDA bs, b : [bs EXCEPT ![b].term.then = Follow(bs, @, Len(bs)),
                                       ![b].term.els = Follow(bs, @, Len(bs))],
             blocks, [b \in DOMAIN blocks |-> b])
=============================================================================
