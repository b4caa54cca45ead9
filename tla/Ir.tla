--------------------------------- MODULE Ir ---------------------------------
(***************************************************************************)
(* The intermediate language of src/payload/ir.rs, reduced to one form per *)
(* kind of behaviour that the passes over it tell apart, and what a        *)
(* function in it does when it runs.                                       *)
(*                                                                         *)
(* An expression is a tree: a constant, a register, the variable x, a      *)
(* closure, the function Boolean, a negation, a comparison, a conjunction, *)
(* an array of one item, the item of an array, a call with one argument.   *)
(* A call of something unknown is an event: whoever runs the function      *)
(* decides what it gives back, and it may throw.  Unless the function      *)
(* declares x and makes no closure, an event may also change x.            *)
(***************************************************************************)
EXTENDS Integers, Sequences, FiniteSets

CONSTANT MaxRegs    \* bound: registers of a function
Regs == 1 .. MaxRegs

\* Values: numbers 0 and 1, undefined, a closure, the function Boolean; beyond
\* Arrays, the arrays.
Undef == 2
FnValue == 5
BoolValue == 6
Arrays == 10
Truthy(v) == v \notin {0, Undef}
AsBool(b) == IF b THEN 1 ELSE 0

Num(k) == <<"num", k>>
Reg(r) == <<"reg", r>>
Var == <<"var">>
Closure == <<"fn">>
Boolean == <<"bool">>
Not(a) == <<"not", a>>
Equal(a, b) == <<"eq", a, b>>
And(a, b) == <<"and", a, b>>
ArrayOf(a) == <<"arr", a>>
ItemOf(a) == <<"idx", a>>
Call(f, a) == <<"call", f, a>>

\* Expr::for_each_child
Children(e) == IF e[1] \in {"num", "reg"} THEN <<>> ELSE Tail(e)

\* Expr::effectful
Effectful(e) == e[1] = "call"

\* Stmt: set a register, only if a condition holds or always; evaluate; set
\* the item of an array; declare or set x; return; throw.
SetReg(r, e) == [k |-> "set", r |-> r, es |-> <<e>>]
SetIf(c, r, e) == [k |-> "if", r |-> r, es |-> <<c, e>>]
Eval(e) == [k |-> "eval", r |-> 0, es |-> <<e>>]
SetProp(o, e) == [k |-> "put", r |-> 0, es |-> <<o, e>>]
DeclVar(e) == [k |-> "decl", r |-> 0, es |-> <<e>>]
SetVar(e) == [k |-> "setvar", r |-> 0, es |-> <<e>>]
Return(e) == [k |-> "ret", r |-> 0, es |-> <<e>>]
Throw(e) == [k |-> "throw", r |-> 0, es |-> <<e>>]

\* Term and DTerm.  Block 0 is a target outside the function.
Goto(t) == [k |-> "goto", c |-> Num(0), when |-> TRUE, then |-> t, els |-> 0]
Branch(c, w, t, f) == [k |-> "branch", c |-> c, when |-> w, then |-> t, els |-> f]
Dynamic(fall) == [k |-> "dynamic", c |-> Num(0), when |-> TRUE, then |-> fall, els |-> 0]
Exit == [k |-> "exit", c |-> Num(0), when |-> TRUE, then |-> 0, els |-> 0]
Invalid == [k |-> "invalid", c |-> Num(0), when |-> TRUE, then |-> 0, els |-> 0]

Block(body, term) == [body |-> body, term |-> term, live |-> TRUE]

\* Where control may go from a block, in the order of the code.
Targets(term) ==
    CASE term.k = "goto" -> <<term.then>>
      [] term.k = "branch" -> <<term.then, term.els>>
      [] term.k = "dynamic" /\ term.then # 0 -> <<term.then>>
      [] OTHER -> <<>>

TargetSet(blocks, b) ==
    {t \in DOMAIN blocks : \E i \in DOMAIN Targets(blocks[b].term) :
                               Targets(blocks[b].term)[i] = t}

\* How often a block is jumped to.
Preds(blocks, t) ==
    Cardinality({<<b, i>> \in (DOMAIN blocks) \X {1, 2} :
                    /\ i \in DOMAIN Targets(blocks[b].term)
                    /\ Targets(blocks[b].term)[i] = t})

\* The expressions of a block, that of its branch last.
BlockExprs(blk) ==
    UNION {{blk.body[i].es[j] : j \in DOMAIN blk.body[i].es} : i \in DOMAIN blk.body}
      \cup (IF blk.term.k = "branch" THEN {blk.term.c} ELSE {})

RECURSIVE Mentions(_, _)
Mentions(e, form) ==
    e[1] = form \/ \E i \in DOMAIN Children(e) : Mentions(Children(e)[i], form)

MakesClosures(blocks) ==
    \E b \in DOMAIN blocks : blocks[b].live /\ \E e \in BlockExprs(blocks[b]) : Mentions(e, "fn")
DeclaresVar(blocks) ==
    \E b \in DOMAIN blocks : blocks[b].live /\ \E i \in DOMAIN blocks[b].body : blocks[b].body[i].k = "decl"

----------------------------------------------------------------------------
(* What a function does.  A store has the registers, x, the arrays made, the
   answers to the events to come, the events so far (trace) and whether
   something has been thrown.  `own`: only this function changes x.  `sum`: what
   the closure's function always gives, or NoSummary if it is unknown. *)

NoSummary == -3
Throws == 3         \* the answer of an event that throws

Shown(v, s) == IF v > Arrays THEN 20 + (IF s.heap[v - Arrays] < Arrays THEN s.heap[v - Arrays] ELSE 9)
               ELSE v

Event(s, what, own) ==
    LET a == IF s.answers = <<>> THEN 0 ELSE Head(s.answers)
    IN  [v |-> IF a = Throws THEN Undef ELSE a,
         s |-> [s EXCEPT !.trace = Append(@, what),
                         !.answers = IF @ = <<>> THEN @ ELSE Tail(@),
                         !.asked = @ + 1,
                         !.thrown = (a = Throws),
                         !.x = IF own \/ a = Throws THEN @ ELSE a]]

\* What expression e comes to, given what its first and its second part do.
ValueWith(e, s, a, b, own, sum) ==
    LET pure(v, t) == [v |-> v, s |-> t]
    IN  CASE s.thrown -> pure(Undef, s)
          [] e[1] = "num" -> pure(e[2], s)
          [] e[1] = "reg" -> pure(s.regs[e[2]], s)
          [] e[1] = "var" -> pure(s.x, s)
          [] e[1] = "fn" -> pure(FnValue, s)
          [] e[1] = "bool" -> pure(BoolValue, s)
          [] e[1] = "not" -> pure(AsBool(~Truthy(a.v)), a.s)
          [] e[1] = "eq" -> pure(AsBool(a.v = b.v), b.s)
          [] e[1] = "and" -> IF Truthy(a.v) THEN b ELSE a
          [] e[1] = "arr" -> pure(Arrays + Len(a.s.heap) + 1, [a.s EXCEPT !.heap = Append(@, a.v)])
          [] e[1] = "idx" -> pure(IF a.v > Arrays THEN a.s.heap[a.v - Arrays] ELSE Undef, a.s)
          [] e[1] = "call" ->
               CASE b.s.thrown -> pure(Undef, b.s)
                 [] a.v = BoolValue -> pure(AsBool(Truthy(b.v)), b.s)
                 [] a.v = FnValue /\ sum # NoSummary -> pure(sum, b.s)
                 [] OTHER -> Event(b.s, <<"call", a.v, Shown(b.v, b.s)>>, own)

\* The value of an expression and the store after it, from left to right; once
\* something is thrown nothing more happens.
RECURSIVE Value(_, _, _, _)
Value(e, s, own, sum) ==
    LET a == Value(e[2], s, own, sum)
    IN  ValueWith(e, s, a, Value(e[3], a.s, own, sum), own, sum)

\* One statement, given what its expressions come to.
ExecuteWith(st, a, b) ==
    LET note(t, what) == [t EXCEPT !.trace = Append(@, what)]
    IN  CASE a.s.thrown -> a.s
          [] st.k = "set" -> [a.s EXCEPT !.regs[st.r] = a.v]
          [] st.k = "if" ->
               IF ~Truthy(a.v) THEN a.s
               ELSE IF b.s.thrown THEN b.s ELSE [b.s EXCEPT !.regs[st.r] = b.v]
          [] st.k = "eval" -> a.s
          [] st.k = "put" ->
               IF b.s.thrown THEN b.s
               ELSE IF a.v > Arrays THEN [b.s EXCEPT !.heap[a.v - Arrays] = b.v]
               ELSE note(b.s, <<"put", a.v, Shown(b.v, b.s)>>)
          [] st.k \in {"decl", "setvar"} ->
               note([a.s EXCEPT !.x = a.v], <<"var", Shown(a.v, a.s), 0>>)
          [] st.k = "ret" -> [a.s EXCEPT !.returned = Shown(a.v, a.s)]
          [] st.k = "throw" -> [a.s EXCEPT !.thrown = TRUE]

Execute(st, s, own, sum) ==
    LET a == Value(st.es[1], s, own, sum)
    IN  ExecuteWith(st, a, Value(st.es[2], a.s, own, sum))

\* How many events an expression or a statement may ask for.
RECURSIVE Calls(_)
Calls(e) ==
    (IF Effectful(e) THEN 1 ELSE 0)
      + (CASE Len(Children(e)) = 0 -> 0
           [] Len(Children(e)) = 1 -> Calls(e[2])
           [] OTHER -> Calls(e[2]) + Calls(e[3]))
CallsOf(st) == IF Len(st.es) = 1 THEN Calls(st.es[1]) ELSE Calls(st.es[1]) + Calls(st.es[2])

\* A machine at statement i of block b; b = 0 once it has left.
Machine(blocks, regs) ==
    [b |-> IF blocks = <<>> THEN 0 ELSE 1, i |-> 1, steps |-> 0,
     s |-> [regs |-> regs, x |-> Undef, heap |-> <<>>, answers |-> <<>>, asked |-> 0,
            trace |-> <<>>, thrown |-> FALSE, returned |-> NoSummary]]

\* Where the end of a block leads, given what its condition comes to.  A dynamic
\* jump asks for an answer: it falls through, lands on the handler, or leaves.
NextBlock(term, s, c, handler) ==
    CASE term.k = "goto" -> [b |-> term.then, i |-> 1, s |-> s]
      [] term.k = "branch" ->
           [b |-> IF Truthy(c.v) = term.when THEN term.then ELSE term.els, i |-> 1, s |-> c.s]
      [] term.k = "dynamic" ->
           LET a == IF s.answers = <<>> THEN 0 ELSE Head(s.answers)
           IN  [b |-> CASE a = 0 -> 0 [] a = 1 -> term.then [] OTHER -> handler, i |-> 1,
                s |-> [Event(s, <<"jump", 0, 0>>, TRUE).s EXCEPT !.thrown = FALSE]]
      [] OTHER -> [b |-> 0, i |-> 1, s |-> s]

\* What is thrown lands on the handler.
Caught(to, handler, steps) ==
    [b |-> IF to.s.thrown THEN handler ELSE to.b, i |-> IF to.s.thrown THEN 1 ELSE to.i,
     steps |-> steps, s |-> [to.s EXCEPT !.thrown = FALSE, !.answers = <<>>]]

\* One statement, or the end of a block.
Advance(blk, handler, m, s, own, sum) ==
    Caught(IF m.i <= Len(blk.body)
             THEN [b |-> m.b, i |-> m.i + 1, s |-> Execute(blk.body[m.i], s, own, sum)]
             ELSE NextBlock(blk.term, s, Value(blk.term.c, s, own, sum), handler),
           handler, m.steps + 1)

\* How many answers the next step of a machine may need.
Asks(blocks, m) ==
    IF m.i <= Len(blocks[m.b].body) THEN CallsOf(blocks[m.b].body[m.i])
    ELSE CASE blocks[m.b].term.k = "dynamic" -> 1
           [] blocks[m.b].term.k = "branch" -> Calls(blocks[m.b].term.c)
           [] OTHER -> 0

\* A machine until it leaves, gets into a block taken for dead, or would need
\* more steps or answers than there are.
RECURSIVE RunOn(_, _, _, _, _, _, _)
RunOn(blocks, handler, m, log, fuel, own, sum) ==
    IF \/ m.b = 0 \/ fuel = 0 \/ ~blocks[m.b].live
       \/ m.s.asked + Asks(blocks, m) > Len(log)
      THEN m
      ELSE RunOn(blocks, handler,
                 Advance(blocks[m.b], handler, m,
                         [m.s EXCEPT !.answers = SubSeq(log, m.s.asked + 1, Len(log))], own, sum),
                 log, fuel - 1, own, sum)
=============================================================================
