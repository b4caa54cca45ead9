------------------------------ MODULE Promises ------------------------------
(***************************************************************************)
(* Promises of the script interpreter (src/payload/exec.rs).  There is no  *)
(* queue of jobs: settle() runs the reactions of a promise at once, one    *)
(* inside the other, and a reaction that is a function of the script can   *)
(* make, settle and chain promises while others wait for their turn.       *)
(*                                                                         *)
(* The native calls under way are a stack of frames.  The script is in     *)
(* control when the stack is empty or when one of its functions is on top. *)
(* What the script does then is any choice of its operations.              *)
(***************************************************************************)
EXTENDS Integers, FiniteSets, SequencesExt

CONSTANTS
    Plain,        \* values that are no promises; Undef is one more
    Undef,        \* Val::Undef
    None,         \* NONE, no derived promise
    MaxPromises,  \* bound on the promises made
    MaxCalls      \* bound on the operations of the script

VARIABLES
    ps,       \* the promises, by number: [state, value, reactions]
    stack,    \* frames, the innermost last
    made,     \* promises whose resolving functions the script has
    chained,  \* history: [p, d] for each then() that made d from p
    ran,      \* history: by promise, how often the reaction it derives from ran
    calls,    \* operations so far
    faulted   \* a fault unwound everything

vars == <<ps, stack, made, chained, ran, calls, faulted>>

\* Values and handlers are pairs: a promise, a plain value, a function of the script,
\* a resolving function, or something that cannot be called.
Ref(p) == <<"promise", p>>
Lit(v) == <<"plain", v>>
Fn == <<"function", Undef>>
Junk == <<"junk", Undef>>
Settler(p, ok) == <<IF ok THEN "resolve" ELSE "reject", p>>
IsPromise(v) == v[1] = "promise"

NoPromise == [state |-> "pending", value |-> Lit(Undef), reactions |-> <<>>]
Reaction(h, e, d) == [ok |-> h, err |-> e, derived |-> d]

\* A loop of settle() or then() over reactions; a function of the script; a resolving
\* function called by a reaction; the executor of a new promise.
Running(ok, v, rest) == [k |-> "loop", ok |-> ok, v |-> v, rest |-> rest, p |-> None]
Calling(k, p) == [k |-> k, ok |-> TRUE, v |-> Lit(Undef), rest |-> <<>>, p |-> p]

Init ==
    /\ ps = <<>> /\ stack = <<>> /\ made = {} /\ chained = {} /\ ran = <<>>
    /\ calls = 0 /\ faulted = FALSE

----------------------------------------------------------------------------
(* A world is [ps, stack].  settle() changes it, and leaves on the stack   *)
(* the reactions that are to run.                                          *)

World == [ps |-> ps, stack |-> stack]
WithFrame(w, f) == [w EXCEPT !.stack = Append(@, f)]
Await(w, src, p) ==
    [w EXCEPT !.ps[src].reactions = Append(@, Reaction(Settler(p, TRUE), Settler(p, FALSE), None))]

\* Only the first settlement counts; the reactions are taken out before they run.
SettleWith(w, p, ok, v) ==
    IF w.ps[p].state # "pending" THEN w
    ELSE WithFrame([w EXCEPT !.ps[p] = [state |-> IF ok THEN "fulfilled" ELSE "rejected",
                                        value |-> v, reactions |-> <<>>]],
                   Running(ok, v, w.ps[p].reactions))

Follows(w, ok, v) == ok /\ IsPromise(v)

\* settle(): a promise is followed, without locking p.
RECURSIVE Settle(_, _, _, _)
Settle(w, p, ok, v) ==
    IF ~Follows(w, ok, v) THEN SettleWith(w, p, ok, v)
    ELSE LET src == v[2]
         IN  IF w.ps[src].state = "pending" THEN Await(w, src, p)
             ELSE Settle(w, p, w.ps[src].state = "fulfilled", w.ps[src].value)
SettleDerived(w, d, ok, v) == IF d = None THEN w ELSE Settle(w, d, ok, v)

\* new_promise()
NewPromise(w) == [w EXCEPT !.ps = Append(@, NoPromise)]
Newest(w) == Len(w.ps)

\* promise_of()
PromiseOf(w, v) == IF IsPromise(v) THEN w ELSE Settle(NewPromise(w), Newest(w) + 1, TRUE, v)
PromiseIn(w, v) == IF IsPromise(v) THEN v[2] ELSE Newest(w) + 1

----------------------------------------------------------------------------
(* The interpreter goes on with the innermost loop. *)

Top == Last(stack)
Below == [ps |-> ps, stack |-> Front(stack)]
Becomes(w) == ps' = w.ps /\ stack' = w.stack

\* Mutant: without a handler the derived promise is left alone.
PassOnNothing(w, d, ok, v) == w
PassOn(w, d, ok, v) == SettleDerived(w, d, ok, v)

\* react(): a handler that is no function makes the call throw.
React(w, ok, v, h, d) ==
    CASE h = Lit(Undef) -> PassOn(w, d, ok, v)
      [] h = Fn -> WithFrame(w, Calling("script", d))
      [] h = Junk -> SettleDerived(w, d, FALSE, Lit(Undef))
      [] OTHER -> Settle(WithFrame(w, Calling("native", d)), h[2], h[1] = "resolve", v)

\* The next reaction of the loop.
RunReaction ==
    /\ stack # <<>> /\ Top.k = "loop" /\ Top.rest # <<>>
    /\ LET r == Head(Top.rest)
           h == IF Top.ok THEN r.ok ELSE r.err
           w == [ps |-> ps, stack |-> Append(Front(stack), [Top EXCEPT !.rest = Tail(@)])]
       IN  /\ Becomes(React(w, Top.ok, Top.v, h, r.derived))
           /\ ran' = IF r.derived = None THEN ran ELSE [ran EXCEPT ![r.derived] = @ + 1]
    /\ UNCHANGED <<made, chained, calls, faulted>>

EndLoop ==
    /\ stack # <<>> /\ Top.k = "loop" /\ Top.rest = <<>>
    /\ Becomes(Below)
    /\ UNCHANGED <<made, chained, ran, calls, faulted>>

\* A resolving function that was a handler returns undefined.
ReturnNative ==
    /\ stack # <<>> /\ Top.k = "native"
    /\ Becomes(SettleDerived(Below, Top.p, TRUE, Lit(Undef)))
    /\ UNCHANGED <<made, chained, ran, calls, faulted>>

----------------------------------------------------------------------------
(* The script *)

InControl == ~faulted /\ (stack # <<>> => Top.k \in {"script", "executor"})
Call == InControl /\ calls < MaxCalls /\ calls' = calls + 1 /\ UNCHANGED faulted
Room(n) == Len(ps) + n <= MaxPromises
Values == {Lit(v) : v \in Plain} \cup {Ref(p) : p \in DOMAIN ps}
Handlers == {Fn, Junk, Lit(Undef)} \cup {Settler(p, ok) : p \in made, ok \in BOOLEAN}
Made(w) == ran' = ran \o [i \in 1 .. Len(w.ps) - Len(ps) |-> 0]

\* new Promise(): the executor is called with the resolving functions.
Construct ==
    /\ Call /\ Room(1)
    /\ LET w == NewPromise(World)
       IN  Becomes(WithFrame(w, Calling("executor", Newest(w)))) /\ Made(w)
    /\ made' = made \cup {Len(ps) + 1}
    /\ UNCHANGED chained

\* A resolving function.
Resolve ==
    /\ Call
    /\ \E p \in made, ok \in BOOLEAN, v \in Values : Becomes(Settle(World, p, ok, v))
    /\ UNCHANGED <<made, chained, ran>>

\* then() and catch(): on a settled promise the reaction runs at once.
Then ==
    /\ Call /\ Room(1)
    /\ \E p \in DOMAIN ps, h, e \in Handlers :
          LET w == NewPromise(World)
              r == Reaction(h, e, Newest(w))
          IN  /\ IF ps[p].state = "pending"
                 THEN Becomes([w EXCEPT !.ps[p].reactions = Append(@, r)])
                 ELSE Becomes(WithFrame(w, Running(ps[p].state = "fulfilled", ps[p].value, <<r>>)))
              /\ chained' = chained \cup {[p |-> p, d |-> Newest(w)]}
              /\ Made(w)
    /\ UNCHANGED made

\* Promise.resolve() and Promise.reject()
ResolveStatic ==
    /\ Call /\ Room(1)
    /\ \E v \in Values : Becomes(PromiseOf(World, v)) /\ Made(PromiseOf(World, v))
    /\ UNCHANGED <<made, chained>>
RejectStatic ==
    /\ Call /\ Room(1)
    /\ \E v \in Values : Becomes(Settle(NewPromise(World), Len(ps) + 1, FALSE, v))
    /\ Made(NewPromise(World))
    /\ UNCHANGED <<made, chained>>

\* Promise.all() and Promise.race() go by what is settled now: s is [w, pending, over].
Look(s, v, out, race) ==
    LET w == PromiseOf(s.w, v)
        p == w.ps[PromiseIn(s.w, v)]
    IN  CASE s.over -> s
          [] p.state = "rejected" -> [w |-> Settle(w, out, FALSE, p.value), pending |-> FALSE, over |-> TRUE]
          [] p.state = "fulfilled" /\ race -> [w |-> Settle(w, out, TRUE, p.value), pending |-> FALSE, over |-> TRUE]
          [] OTHER -> [w |-> w, pending |-> s.pending \/ p.state = "pending", over |-> FALSE]
Combined(list, race) ==
    LET w == NewPromise(World)
        out == Newest(w)
        s == FoldLeft(LAMBDA q, v : Look(q, v, out, race), [w |-> w, pending |-> FALSE, over |-> FALSE], list)
    IN  IF s.over \/ s.pending \/ race THEN s.w ELSE Settle(s.w, out, TRUE, Lit(Undef))
Combine ==
    /\ Call
    /\ \E list \in {<<>>} \cup (Values \X Values), race \in BOOLEAN :
          /\ Room(1 + Len(SelectSeq(list, LAMBDA v : ~IsPromise(v))))
          /\ Becomes(Combined(list, race)) /\ Made(Combined(list, race))
    /\ UNCHANGED <<made, chained>>

\* The function on top of the stack returns, throws, or meets a fault of the interpreter.
Return ==
    /\ InControl /\ stack # <<>>
    /\ \E v \in Values \cup {Lit(Undef)} :
          Becomes(IF Top.k = "executor" THEN Below ELSE SettleDerived(Below, Top.p, TRUE, v))
    /\ UNCHANGED <<made, chained, ran, calls, faulted>>
Throw ==
    /\ InControl /\ stack # <<>>
    /\ \E v \in Values : Becomes(SettleDerived(Below, Top.p, FALSE, v))
    /\ UNCHANGED <<made, chained, ran, calls, faulted>>
Fault ==
    /\ InControl /\ stack # <<>>
    /\ stack' = <<>> /\ faulted' = TRUE
    /\ UNCHANGED <<ps, made, chained, ran, calls>>

Next ==
    \/ RunReaction \/ EndLoop \/ ReturnNative
    \/ Construct \/ Resolve \/ Then \/ ResolveStatic \/ RejectStatic \/ Combine
    \/ Return \/ Throw \/ Fault

Spec == Init /\ [][Next]_vars

----------------------------------------------------------------------------
\* No reaction is lost or run twice, however reactions that run settle and chain other
\* promises: it has run, waits in its promise while that is pending, or is in a loop
\* under way.  And once no call is under way a derived promise is pending only while
\* another pending promise has a reaction that will settle it.
Waiting(rs, d) == Cardinality({i \in DOMAIN rs : rs[i].derived = d})
InLoops(d) == Cardinality({<<f, i>> \in (DOMAIN stack) \X (1 .. calls) :
                             i \in DOMAIN stack[f].rest /\ stack[f].rest[i].derived = d})
WillSettle(r, d) == r.derived = d \/ {r.ok, r.err} = {Settler(d, TRUE), Settler(d, FALSE)}
NoReactionLost ==
    ~faulted => \A c \in chained :
        /\ Waiting(ps[c.p].reactions, c.d) + InLoops(c.d) + ran[c.d] = 1
        /\ Waiting(ps[c.p].reactions, c.d) > 0 => ps[c.p].state = "pending"
        /\ stack = <<>> /\ ps[c.d].state = "pending" =>
              \E q \in DOMAIN ps : /\ ps[q].state = "pending"
                                   /\ \E r \in ToSet(ps[q].reactions) : WillSettle(r, c.d)

\* No promise is fulfilled with a promise: a reaction never gets one for a value.
FulfilledIsPlain ==
    /\ \A p \in DOMAIN ps : ps[p].state = "fulfilled" => ~IsPromise(ps[p].value)
    /\ \A f \in DOMAIN stack : stack[f].k = "loop" /\ stack[f].ok => ~IsPromise(stack[f].v)

\* Each reaction runs once, and with a value that is none but its own.
ReactionsRunOnce == NoReactionLost /\ FulfilledIsPlain
=============================================================================
