------------------------------- MODULE Defer --------------------------------
(***************************************************************************)
(* The evaluation of what is constant in a function: function() of         *)
(* src/payload/defer.rs.  Registers, and x if only this function changes   *)
(* it, have an abstract value at the start of each block.  A function      *)
(* without loops is evaluated and rewritten in one pass; else a worklist   *)
(* finds the values, in a bounded number of rounds, and a second pass      *)
(* rewrites.  A function that has no effect and always returns the same    *)
(* scalar has that as its summary.                                         *)
(***************************************************************************)
EXTENDS Ir, SequencesExt

CONSTANTS
    MaxSlots,    \* MAX_SLOTS: registers and variables of a function
    MaxRounds,   \* MAX_ROUNDS
    Slack        \* what is added to the rounds of all blocks, 64 in the code

\* AV: a value that is known (as in Ir, arrays by their number), or one of
Top == -1    \* nothing known to reach this place
Bot == -2    \* any value

Arr(v) == v > Arrays
Scalar(v) == v \in {0, 1, Undef}

\* AV::same: arrays are never the same.
Same(v, w) == v = w /\ ~Arr(v)

\* AV::meet
Meet(v, w) ==
    CASE v = Top -> w
      [] w = Top -> v
      [] Same(v, w) -> v
      [] OTHER -> Bot

\* truthy(): 1, 0, or Bot if it is not known.
Truth(v) == IF v \in {Top, Bot} THEN Bot ELSE AsBool(Truthy(v))

\* An environment: the registers, and x in slot 0.
XSlot == 0
Slots == {XSlot} \cup Regs
MeetEnv(v, w) == [r \in Slots |-> Meet(v[r], w[r])]
AnyEnv(x) == [r \in Slots |-> IF r = XSlot THEN x ELSE Bot]
NoEnv == [r \in Slots |-> Top]

\* Between blocks arrays are forgotten.
Leave(env) == [r \in Slots |-> IF Arr(env[r]) THEN Bot ELSE env[r]]

----------------------------------------------------------------------------
(* Evaluating.  ev: the environment, the arrays of this block, and what was
   seen (impure, diverges, what is returned).  tracked: x has a slot.  sum: the
   summary of the closure's function. *)

NoReturn == -4
Evaluator(env) ==
    [env |-> env, arrays |-> <<>>, impure |-> FALSE, diverges |-> FALSE, returns |-> NoReturn]

\* put(): what is known to be a scalar is rewritten as one.
Put(e, v) == IF Scalar(v) /\ e # Num(v) THEN Num(v) ELSE e

\* call(): of the closure, of Boolean, or of something unknown.
CallOf(f, a, ev, sum) ==
    CASE f = FnValue /\ sum # NoSummary -> [v |-> sum, impure |-> ev.impure]
      [] f = BoolValue -> [v |-> Truth(a), impure |-> ev.impure]
      [] OTHER -> [v |-> Bot, impure |-> TRUE]

\* What eval() makes of expression e, given what it makes of its parts; the
\* second of a conjunction only if the first is not known to be false.
EvalWith(e, ev, a, b, tracked, sum) ==
    LET out(v, f, after) == [v |-> v, e |-> Put(f, v), ev |-> after]
        constant(v) == Scalar(v) \/ v \in {FnValue, BoolValue}
    IN  CASE e[1] = "num" -> out(e[2], e, ev)
          [] e[1] = "reg" -> out(ev.env[e[2]], e, ev)
          [] e[1] = "var" -> out(IF tracked THEN ev.env[XSlot] ELSE Bot, e, ev)
          [] e[1] = "fn" -> out(FnValue, e, ev)
          [] e[1] = "bool" -> out(BoolValue, e, ev)
          [] e[1] = "not" ->
               out(IF Truth(a.v) = Bot THEN Bot ELSE 1 - Truth(a.v), Not(a.e), a.ev)
          [] e[1] = "eq" ->
               out(IF constant(a.v) /\ constant(b.v) /\ Scalar(a.v) = Scalar(b.v)
                     THEN AsBool(a.v = b.v) ELSE Bot,
                   Equal(a.e, b.e), b.ev)
          [] e[1] = "and" ->
               CASE Truth(a.v) = 0 -> out(a.v, And(a.e, e[3]), a.ev)
                 [] Truth(a.v) = 1 -> out(b.v, And(a.e, b.e), b.ev)
                 [] OTHER -> out(Bot, And(a.e, b.e), b.ev)
          [] e[1] = "arr" ->
               out(Arrays + Len(a.ev.arrays) + 1, ArrayOf(a.e),
                   [a.ev EXCEPT !.arrays = Append(@, a.v)])
          [] e[1] = "idx" ->
               out(IF Arr(a.v) THEN a.ev.arrays[a.v - Arrays] ELSE Bot, ItemOf(a.e), a.ev)
          [] e[1] = "call" ->
               LET c == CallOf(a.v, b.v, b.ev, sum)
               IN  out(c.v, Call(a.e, b.e), [b.ev EXCEPT !.impure = c.impure])

\* eval(): the value, the expression rewritten, the evaluator after it.
RECURSIVE EvalOf(_, _, _, _)
EvalOf(e, ev, tracked, sum) ==
    LET a == EvalOf(e[2], ev, tracked, sum)
    IN  EvalWith(e, ev, a, EvalOf(e[3], a.ev, tracked, sum), tracked, sum)

\* What several returns come to.
JoinReturn(v, w) == IF v = NoReturn \/ Same(v, w) THEN w ELSE Bot

\* stmt(): the statement rewritten and the evaluator after it, given what eval()
\* makes of its expressions.
StmtWith(st, a, b, tracked) ==
    LET one(after) == [st |-> [st EXCEPT !.es = <<a.e>>], ev |-> after]
        two(after) == [st |-> [st EXCEPT !.es = <<a.e, b.e>>], ev |-> after]
        kept(v) == IF Arr(v) THEN Bot ELSE v
    IN  CASE st.k = "set" -> one([a.ev EXCEPT !.env[st.r] = a.v])
          [] st.k = "if" ->
               CASE Truth(a.v) = 0 -> [st |-> [st EXCEPT !.es = <<a.e, st.es[2]>>], ev |-> a.ev]
                 [] Truth(a.v) = 1 -> two([b.ev EXCEPT !.env[st.r] = b.v])
                 [] OTHER -> two([b.ev EXCEPT !.env = MeetEnv(a.ev.env, [@ EXCEPT ![st.r] = b.v])])
          [] st.k = "eval" -> one(a.ev)
          [] st.k = "put" ->
               IF Arr(a.v) THEN two([b.ev EXCEPT !.arrays[a.v - Arrays] = kept(b.v)])
               ELSE two([b.ev EXCEPT !.impure = TRUE])
          [] st.k \in {"decl", "setvar"} ->
               IF tracked THEN one([a.ev EXCEPT !.env[XSlot] = kept(a.v)])
               ELSE one([a.ev EXCEPT !.impure = TRUE])
          [] st.k = "ret" -> one([a.ev EXCEPT !.returns = JoinReturn(@, a.v)])
          [] st.k = "throw" -> one([a.ev EXCEPT !.diverges = TRUE])

StmtOf(st, ev, tracked, sum) ==
    LET a == EvalOf(st.es[1], ev, tracked, sum)
    IN  StmtWith(st, a, EvalOf(st.es[2], a.ev, tracked, sum), tracked)

\* list()
Listed(body, ev, tracked, sum) ==
    FoldLeft(LAMBDA l, st :
                 LET s == StmtOf(st, l.ev, tracked, sum)
                 IN  [body |-> Append(l.body, s.st), ev |-> s.ev],
             [body |-> <<>>, ev |-> ev], body)

\* A branch is decided if its condition is known.
Decided(term, c) ==
    CASE Truth(c.v) = Bot -> [term EXCEPT !.c = c.e]
      [] (Truth(c.v) = 1) = term.when -> Goto(term.then)
      [] OTHER -> Goto(term.els)

Closed(blk, l, c) ==
    [blk |-> [blk EXCEPT !.body = l.body,
                         !.term = IF @.k = "branch" THEN Decided(@, c) ELSE @],
     ev |-> IF blk.term.k = "branch" THEN c.ev ELSE l.ev]

\* A block from env: itself rewritten, and the evaluator after it.
BlockOf(blk, env, tracked, sum) ==
    LET l == Listed(blk.body, Evaluator(env), tracked, sum)
    IN  Closed(blk, l, EvalOf(blk.term.c, l.ev, tracked, sum))

----------------------------------------------------------------------------
(* The state of one call of function() *)

VARIABLES
    fn,       \* the blocks
    sum,      \* the summary of the closure's function, or NoSummary
    tracked,  \* track_vars, and x is declared
    dstage,   \* "start", "acyclic", "worklist", "rewrite", "done"
    envs,     \* the environment at the start of each block
    visited,  \* blocks that are reached
    work,     \* the stack of blocks to evaluate
    rounds,
    left,     \* blocks still to be passed over
    seen,     \* impure, diverges, returns of the blocks passed over
    summary   \* what was found, or NoSummary

dvars == <<fn, sum, tracked, dstage, envs, visited, work, rounds, left, seen, summary>>

NothingSeen == [impure |-> FALSE, diverges |-> FALSE, returns |-> NoReturn]

Roots(blocks) ==
    {b \in DOMAIN blocks : blocks[b].live /\ (b = 1 \/ Preds(blocks, b) = 0)}

\* The live blocks that may follow block b.
LiveTargets(blocks, b) == {t \in TargetSet(blocks, b) : blocks[t].live}

RECURSIVE ReachFrom(_, _)
ReachFrom(blocks, from) ==
    LET more == from \cup UNION {LiveTargets(blocks, b) : b \in from}
    IN  IF more = from THEN from ELSE ReachFrom(blocks, more)

\* The depth-first search finds a way back to a block that is being searched.
Cyclic(blocks) ==
    \E b \in ReachFrom(blocks, Roots(blocks)) :
        b \in ReachFrom(blocks, LiveTargets(blocks, b))

\* The registers and variables that get a slot.
RECURSIVE RegsOf(_)
RegsOf(e) == IF e[1] = "reg" THEN {e[2]} ELSE UNION {RegsOf(Children(e)[i]) : i \in DOMAIN Children(e)}
Width(blocks) ==
    Cardinality({r \in Regs : \E b \in DOMAIN blocks :
                    \/ \E e \in BlockExprs(blocks[b]) : r \in RegsOf(e)
                    \/ \E i \in DOMAIN blocks[b].body : blocks[b].body[i].r = r})
      + (IF DeclaresVar(blocks) /\ ~MakesClosures(blocks) THEN 1 ELSE 0)

\* function() up to the passes.
DeferStart ==
    /\ dstage = "start"
    /\ fn # <<>> /\ Width(fn) <= MaxSlots
    /\ tracked' = (DeclaresVar(fn) /\ ~MakesClosures(fn))
    /\ LET roots == Roots(fn)
           x(b) == IF b = 1 /\ tracked' THEN Undef ELSE Bot
       IN  /\ envs' = [b \in DOMAIN fn |-> IF b \in roots THEN AnyEnv(x(b)) ELSE NoEnv]
           /\ work' = SelectSeq([b \in DOMAIN fn |-> b], LAMBDA b : b \in roots)
           /\ IF Cyclic(fn)
                THEN dstage' = "worklist" /\ visited' = {} /\ left' = {}
                ELSE /\ dstage' = "acyclic" /\ visited' = roots
                     /\ left' = ReachFrom(fn, roots)
    /\ rounds' = 0
    /\ seen' = NothingSeen
    /\ summary' = NoSummary
    /\ UNCHANGED <<fn, sum>>

\* No block, or more slots than are tracked: left as it is, without a summary.
Nothing ==
    /\ dstage = "start"
    /\ ~(fn # <<>> /\ Width(fn) <= MaxSlots)
    /\ dstage' = "done"
    /\ UNCHANGED <<fn, sum, tracked, envs, visited, work, rounds, left, seen, summary>>

See(b, ev) ==
    [impure |-> seen.impure \/ ev.impure,
     diverges |-> seen.diverges \/ ev.diverges \/ fn[b].term.k \in {"dynamic", "invalid"},
     returns |-> IF ev.returns = NoReturn THEN seen.returns ELSE JoinReturn(seen.returns, ev.returns)]

\* One block of a function without loops, after all that lead to it; a block
\* nothing led to is passed over.
AcyclicBlock ==
    /\ dstage = "acyclic" /\ left # {}
    /\ LET b == CHOOSE c \in left : \A d \in left \ {c} : c \notin LiveTargets(fn, d)
           o == BlockOf(fn[b], envs[b], tracked, sum)
           next == LiveTargets([fn EXCEPT ![b] = o.blk], b)
       IN  /\ left' = left \ {b}
           /\ IF b \notin visited
                THEN UNCHANGED <<fn, envs, visited, seen>>
                ELSE /\ fn' = [fn EXCEPT ![b] = o.blk]
                     /\ seen' = See(b, o.ev)
                     /\ visited' = visited \cup next
                     /\ envs' = [t \in DOMAIN fn |->
                                   IF t \in next THEN MeetEnv(envs[t], Leave(o.ev.env)) ELSE envs[t]]
    /\ UNCHANGED <<sum, tracked, dstage, work, rounds, summary>>

Budget(nb) == MaxRounds * nb + Slack

\* A target of the block just evaluated: its environment, and whether it has to
\* be evaluated again.
Changed(t, env) == t \notin visited' \/ MeetEnv(envs[t], env) # envs[t]

Pushed(stack, t, env) ==
    IF Changed(t, env) /\ ~Contains(stack, t) THEN Append(stack, t) ELSE stack

\* One round of the worklist; beyond the budget the rest is left.
PopBlock ==
    /\ dstage = "worklist" /\ work # <<>>
    /\ rounds' = rounds + 1
    /\ visited' = visited \cup {Last(work)}
    /\ IF rounds' > Budget(Len(fn))
         THEN work' = Front(work) /\ dstage' = "rewrite" /\ UNCHANGED envs
         ELSE LET b == Last(work)
                  o == BlockOf(fn[b], envs[b], tracked, sum)
                  env == Leave(o.ev.env)
                  ts == SelectSeq(Targets(o.blk.term), LAMBDA t : t # 0)
              IN  /\ envs' = [t \in DOMAIN fn |->
                                IF Contains(ts, t) THEN MeetEnv(envs[t], env) ELSE envs[t]]
                  /\ work' = FoldLeft(LAMBDA w, t : Pushed(w, t, env), Front(work), ts)
                  /\ UNCHANGED dstage
    /\ left' = DOMAIN fn
    /\ UNCHANGED <<fn, sum, tracked, seen, summary>>

WorklistEmpty ==
    /\ dstage = "worklist" /\ work = <<>>
    /\ dstage' = "rewrite"
    /\ UNCHANGED <<fn, sum, tracked, envs, visited, work, rounds, left, seen, summary>>

\* The blocks in their order: one that was not reached is dead, another is
\* rewritten with the environment found for it.
RewriteBlock ==
    /\ dstage = "rewrite" /\ left # {}
    /\ LET b == CHOOSE c \in left : \A d \in left : c <= d
           o == BlockOf(fn[b], envs[b], tracked, sum)
       IN  /\ left' = left \ {b}
           /\ CASE ~fn[b].live -> UNCHANGED <<fn, seen>>
                [] b \notin visited -> fn' = [fn EXCEPT ![b].live = FALSE] /\ UNCHANGED seen
                [] OTHER -> fn' = [fn EXCEPT ![b] = o.blk] /\ seen' = See(b, o.ev)
    /\ UNCHANGED <<sum, tracked, dstage, envs, visited, work, rounds, summary>>

\* No effect, no way out but returning, and always the same scalar.
Conclusion(s) == IF ~s.impure /\ ~s.diverges /\ Scalar(s.returns) THEN s.returns ELSE NoSummary

\* The end of function(); without loops, what was not reached is dead.
Conclude ==
    /\ dstage \in {"acyclic", "rewrite"} /\ left = {}
    /\ summary' = Conclusion(seen)
    /\ fn' = IF dstage = "acyclic"
               THEN [b \in DOMAIN fn |-> [fn[b] EXCEPT !.live = @ /\ b \in visited]]
               ELSE fn
    /\ dstage' = "done"
    /\ UNCHANGED <<sum, tracked, envs, visited, work, rounds, left, seen>>

DeferNext ==
    DeferStart \/ Nothing \/ AcyclicBlock \/ PopBlock \/ WorklistEmpty \/ RewriteBlock \/ Conclude
=============================================================================
