-------------------------------- MODULE Flow --------------------------------
(***************************************************************************)
(* analyze() of src/worktime/fc.rs: which parameters of a program are read *)
(* from a document, and at which path in it.  Program::build() cuts the    *)
(* instructions into blocks and functions and finds out under which name a *)
(* closure is called; the Solver runs one function after the other over    *)
(* abstract values until no location changes any more.                     *)
(*                                                                         *)
(* Then the program itself is run, each value with where it really comes   *)
(* from, to be compared with the verdict.                                  *)
(***************************************************************************)
EXTENDS Integers, FiniteSets, SequencesExt

CONSTANTS
    Programs,      \* sequences of instructions
    MaxRegister,   \* MAX_REGISTER
    MaxVariable,   \* MAX_VARIABLE
    MaxIndex,      \* MAX_INDEX
    MaxPaths,      \* MAX_PATHS
    BindScan,      \* BIND_SCAN
    MaxSteps,      \* bound: instructions of a run of the program
    None           \* no value yet

\* Operands and keys.
R(r) == <<"reg", r>>
IntK(n) == <<"int", n>>
Str(s) == <<"str", s>>
Hdr == Str("hdr")      \* FC_HEADER, also a key
Dyn == Str("dyn")      \* DYNAMIC_CONFIG, FEATURE_FLAGS
Pow == Str("pow")      \* a key of PowKeys
Wild == <<"wild", 0>>  \* any key

\* Instr; d is the destination, or NoReg.
NoReg == -1
I(op, d, args) == [op |-> op, d |-> d, a |-> args]
IsReg(o) == o[1] = "reg"

----------------------------------------------------------------------------
(* Abstract values *)

\* Taint
Clean == [k |-> "clean", p |-> <<>>, d |-> FALSE]
Opaque == [k |-> "opaque", p |-> <<>>, d |-> FALSE]
Path(p, derived) == [k |-> "path", p |-> p, d |-> derived]
Root == Path(<<>>, FALSE)
JoinTaint(t, u) ==
    CASE t = u \/ u = Clean -> t
      [] t = Clean -> u
      [] t.k = "path" /\ u.k = "path" /\ t.p = u.p -> Path(t.p, t.d \/ u.d)
      [] OTHER -> Opaque
Derive(t) == IF t.k = "path" THEN Path(t.p, TRUE) ELSE t

\* Tag: a function by its number, by the variable or by the property it is in; the
\* site of an array; the header's name.
Bottom == <<"bottom", 0>>
Conflict == <<"conflict", 0>>
Yes == <<"yes", 0>>
Entry(f) == <<"entry", f>>
InVar(x) == <<"var", x>>
Method(k) == <<"method", k>>
Site(s) == <<"site", s>>
JoinTag(t, u) ==
    CASE t = u \/ u = Bottom -> t [] t = Bottom -> u [] OTHER -> Conflict
LiveTag(t) == IF t = Bottom THEN Conflict ELSE t

\* Val
Val(t, c, a, h) == [t |-> t, c |-> c, a |-> a, h |-> h]
NoVal == Val(Clean, Bottom, Bottom, Bottom)
Plain == Val(Clean, Conflict, Conflict, Conflict)
Tainted(t) == [Plain EXCEPT !.t = t]
FieldOf(t) == [NoVal EXCEPT !.t = t]
Join(v, w) == Val(JoinTaint(v.t, w.t), JoinTag(v.c, w.c), JoinTag(v.a, w.a), JoinTag(v.h, w.h))
Live(v) == Val(v.t, LiveTag(v.c), LiveTag(v.a), LiveTag(v.h))
HasSite(v) == v.a[1] = "site"

----------------------------------------------------------------------------
(* Program::build() *)

\* Where control goes after instruction i; 0 is nowhere.
Targeted == {"jump", "branch", "catch"}
TargetOf(code, i) == IF code[i].op = "branch" THEN code[i].a[2][2] ELSE code[i].a[1][2]
Follows(code, i) == IF i < Len(code) THEN i + 1 ELSE 0
SuccOf(code, i) ==
    CASE code[i].op = "jump" -> <<TargetOf(code, i), 0>>
      [] code[i].op \in {"branch", "catch"} -> <<Follows(code, i), TargetOf(code, i)>>
      [] code[i].op \in {"ret", "throw"} -> <<0, 0>>
      [] OTHER -> <<Follows(code, i), 0>>

Closures(code) == {i \in DOMAIN code : code[i].op = "closure"}
EntryAt(code, i) == code[i].a[1][2]

\* Mutant: what follows a jump begins no block.
LeadersAtTargets(code) ==
    {1} \cup {EntryAt(code, i) : i \in Closures(code)}
      \cup {TargetOf(code, i) : i \in {j \in DOMAIN code : code[j].op \in Targeted}}

Leaders(code) ==
    LET cut == {i \in DOMAIN code : SuccOf(code, i) # <<Follows(code, i), 0>>}
    IN  {1} \cup {EntryAt(code, i) : i \in Closures(code)}
          \cup (UNION {{SuccOf(code, i)[1], SuccOf(code, i)[2], Follows(code, i)} : i \in cut} \ {0})

\* The last instruction of each block, and the blocks after it.
LastOf(code, leaders, b) ==
    CHOOSE i \in b .. Len(code) : (i = Len(code) \/ i + 1 \in leaders) /\ \A j \in b + 1 .. i : j \notin leaders
Blocks(code, leaders) == [b \in leaders |-> LastOf(code, leaders, b)]
BlockSuccs(code, last, b) == ToSet(SuccOf(code, last[b])) \ {0}

RECURSIVE Reached(_, _, _)
Reached(code, last, bs) ==
    LET more == bs \cup UNION {BlockSuccs(code, last, b) : b \in bs}
    IN  IF more = bs THEN bs ELSE Reached(code, last, more)

\* The functions, by their first instruction: the program itself, then those that
\* closures are made of, in the order of the text.
Entries(code) ==
    FoldLeft(LAMBDA es, i : IF i \in Closures(code) /\ ~Contains(es, EntryAt(code, i))
                              THEN Append(es, EntryAt(code, i)) ELSE es,
             <<1>>, [i \in DOMAIN code |-> i])
IndexIn(seq, e) == CHOOSE i \in DOMAIN seq : seq[i] = e

\* The instructions of some blocks, and the registers they name.
InstrsOf(last, bs) == UNION {b .. last[b] : b \in bs}
RegsAt(code, i) == {o[2] : o \in {q \in ToSet(code[i].a) : IsReg(q)}} \cup ({code[i].d} \ {NoReg})
MaxReg(code, is) ==
    LET regs == {3} \cup UNION {RegsAt(code, i) : i \in is}
    IN  CHOOSE r \in regs : \A q \in regs : q <= r

\* BIND_SCAN: from where a closure is made, the first instruction that uses its
\* register; what it is bound to, if it is.
NotBound == <<"not", 0>>
RECURSIVE BoundFrom(_, _, _, _)
BoundFrom(code, j, r, steps) ==
    IF j = 0 \/ steps = 0 THEN NotBound
    ELSE IF Contains(code[j].a, R(r))
      THEN CASE code[j].op = "setvar" /\ code[j].a[2] = R(r) -> InVar(code[j].a[1][2])
             [] /\ code[j].op = "setprop" /\ code[j].a[3] = R(r) /\ code[j].a[1] # R(r)
                /\ code[j].a[2][1] = "str" -> Method(code[j].a[2])
             [] OTHER -> NotBound
    ELSE IF code[j].d = r \/ (code[j].op = "callm" /\ r = 2) THEN NotBound
    ELSE IF code[j].op \in {"branch", "ret", "throw"} THEN NotBound
    ELSE BoundFrom(code, SuccOf(code, j)[1], r, steps - 1)
BoundAs(code, i) == BoundFrom(code, SuccOf(code, i)[1], code[i].d, BindScan)

\* The functions that are bound to a variable or a property.
BoundTo(code, fn, body, tag) ==
    {f \in DOMAIN body :
        \/ \E i \in DOMAIN fn : fn[i] = f /\ BoundAs(code, i) = tag
        \/ \E i \in body[f] : code[i].op = "setself" /\ InVar(code[i].a[1][2]) = tag}

KeysIn(code) ==
    {code[i].a[2] : i \in {j \in DOMAIN code : code[j].op \in {"getprop", "setprop"} /\ ~IsReg(code[j].a[2])}}
VarOps == {"getvar", "setvar", "setself", "varexc"}
VarsIn(code) == {code[i].a[1][2] : i \in {j \in DOMAIN code : code[j].op \in VarOps}}

\* The document is mentioned at all.
Seeded(code) ==
    \E i \in DOMAIN code : Contains(code[i].a, Hdr) \/ (code[i].op = "getprop" /\ code[i].a[2] = Dyn)

\* What the scan of the instructions refuses first; "none" if nothing.
Misplaced(code) ==
    {i \in DOMAIN code : code[i].op \in Targeted \cup {"closure"} /\ TargetOf(code, i) \notin DOMAIN code}
Excessive(code) ==
    {i \in DOMAIN code : code[i].op \in VarOps /\ code[i].a[1][2] >= MaxVariable}
ScanError(code) ==
    LET bad == Misplaced(code) \cup Excessive(code)
        first == CHOOSE i \in bad : \A j \in bad : i <= j
    IN  CASE code = <<>> -> "Empty"
          [] bad = {} -> "none"
          [] first \in Excessive(code) -> "Variable"
          [] code[first].op = "closure" -> "Entry"
          [] OTHER -> "Target"

\* Program.  body[f] are the instructions of function f.
Locations(code, nf, len) ==
    {<<"var", x>> : x \in VarsIn(code)} \cup {<<"field", k>> : k \in KeysIn(code)}
      \cup {<<"any">>, <<"exc">>}
      \cup {<<l, f>> : l \in {"ret", "this"}, f \in 1 .. nf}
      \cup {<<"sum", s>> : s \in DOMAIN len}
      \cup UNION {{<<"elem", s, i>> : i \in 0 .. len[s]} : s \in DOMAIN len}
\* elem_len: the items of an array, or the arguments, that are told apart.
ElemLen(code, nregs) ==
    [s \in {i \in DOMAIN code : code[i].op = "newarr"} \cup {Len(code) + f : f \in DOMAIN nregs} |->
       IF s > Len(code) THEN nregs[s - Len(code)] - 4 ELSE Min({code[s].a[1][2], MaxIndex})]
\* The blocks; the functions and their blocks; their instructions and registers; and
\* what they are bound to.
Scanned(code) == [code |-> code, last |-> Blocks(code, Leaders(code)), entry |-> Entries(code)]
Traversed(p) ==
    p @@ [reach |-> [f \in DOMAIN p.entry |-> Reached(p.code, p.last, {p.entry[f]})],
          fn |-> [i \in Closures(p.code) |-> IndexIn(p.entry, EntryAt(p.code, i))]]
Measured(p) ==
    p @@ [body |-> [f \in DOMAIN p.entry |-> InstrsOf(p.last, p.reach[f])],
          blocks |-> [f \in DOMAIN p.entry |-> SetToSortSeq(p.reach[f], <)],
          nregs |-> [f \in DOMAIN p.entry |-> MaxReg(p.code, InstrsOf(p.last, p.reach[f])) + 1]]
Linked(p) ==
    p @@ [len |-> ElemLen(p.code, p.nregs),
          locs |-> Locations(p.code, Len(p.entry), ElemLen(p.code, p.nregs)),
          invar |-> [x \in VarsIn(p.code) |-> SetToSortSeq(BoundTo(p.code, p.fn, p.body, InVar(x)), <)],
          method |-> [k \in KeysIn(p.code) |-> SetToSortSeq(BoundTo(p.code, p.fn, p.body, Method(k)), <)]]

----------------------------------------------------------------------------
(* Solver: the locations.  x is the state of the solver; an operator that  *)
(* also returns a value returns Got(x, value).                             *)

Got(x, v) == [x |-> x, v |-> v]

\* child(): a path one key longer, unless there are too many.
Child(x, path, key, derived) ==
    IF path \o <<key>> \notin x.paths /\ Cardinality(x.paths) >= MaxPaths
      THEN Got(x, Opaque)
      ELSE Got([x EXCEPT !.paths = @ \cup {path \o <<key>>}], Path(path \o <<key>>, derived))
\* The document itself counts as parsed once something is read from it.
Ext(x, t, key) ==
    IF t.k = "path" THEN Child(x, t.p, key, t.d /\ t.p # <<>>) ELSE Got(x, t)
\* What was copied under a computed key is read under a constant one.
FromAny(x, any, key) ==
    IF any.k = "path" /\ any.p # <<>> /\ Last(any.p) = Wild
      THEN Child(x, Front(any.p), key, any.d)
      ELSE Got(x, any)

\* rd(): function f depends on l from now on.  The newest reader comes first.
Read(x, f, l) ==
    IF Contains(x.readers[l], f) THEN x ELSE [x EXCEPT !.readers[l] = <<f>> \o @]

Notify(x, l) ==
    [x EXCEPT !.queue = @ \o SelectSeq(x.readers[l], LAMBDA f : ~Contains(x.queue, f))]

\* Whether readers of l can tell the new value from the old one.
Observable(l, new, old) ==
    CASE l[1] = "var" -> Live(new) # Live(old)
      [] l[1] \in {"ret", "elem"} -> TRUE
      [] OTHER -> new.t # old.t

Stored(x, l, new, old) ==
    IF Observable(l, new, old) THEN Notify([x EXCEPT !.vals[l] = new], l)
    ELSE [x EXCEPT !.vals[l] = new]

\* wr()
WriteNew(x, l, new) == IF new = x.vals[l] THEN x ELSE Stored(x, l, new, x.vals[l])
Write(x, l, v) == WriteNew(x, l, Join(x.vals[l], v))

\* The items of an array: find(), rd_elem(), wr_elem().  The last one stands for all
\* that are not told apart.
AnyItem == -1
Find(p, site, i) == <<"elem", site, IF i \in 0 .. p.len[site] - 1 THEN i ELSE p.len[site]>>
WriteElem(p, x, site, i, v) == Write(Write(x, Find(p, site, i), v), <<"sum", site>>, v)
ArgSite(p, f) == Len(p.code) + f

----------------------------------------------------------------------------
(* Solver: calls.  g is Got(x, taint), f the function that is run.         *)

Targets(p, c) ==
    CASE c[1] = "entry" -> <<c[2]>>
      [] c[1] = "var" -> p.invar[c[2]]
      [] c[1] = "method" -> p.method[c[2]]
      [] OTHER -> <<>>

JoinInto(g, t) == Got(g.x, JoinTaint(g.v, t))

\* spread(): a value and what it holds.
Spread(g, f, v) ==
    IF HasSite(v)
      THEN JoinInto(Got(Read(g.x, f, <<"sum", v.a[2]>>), g.v), JoinTaint(v.t, g.x.vals[<<"sum", v.a[2]>>].t))
      ELSE JoinInto(g, v.t)

\* invoke(): the host calls back a function with input in any of its arguments.
Invoke(p, g, f, c, input) ==
    FoldLeft(LAMBDA h, k : JoinInto(Got(Read(WriteElem(p, h.x, ArgSite(p, k), AnyItem, Tainted(input)),
                                             f, <<"ret", k>>), h.v),
                                    Derive(h.x.vals[<<"ret", k>>].t)),
             g, Targets(p, c))
CallbackElem(p, g, f, l, input) ==
    Invoke(p, Got(Read(g.x, f, l), g.v), f, g.x.vals[l].c, input)
Callback(p, g, f, v, input) ==
    FoldLeft(LAMBDA h, i : CallbackElem(p, h, f, <<"elem", v.a[2], i - 1>>, input),
             Invoke(p, g, f, v.c, input),
             IF HasSite(v) THEN [i \in 1 .. p.len[v.a[2]] + 1 |-> i] ELSE <<>>)

\* One function that may be called: its arguments, its this, what it returns.
PassArgs(p, x, k, args, rest) ==
    LET n == Len(args) + (IF rest = NoVal THEN 0 ELSE 1)
    IN  FoldLeft(LAMBDA y, i : WriteElem(p, y, ArgSite(p, k), IF i > Len(args) THEN AnyItem ELSE i - 1,
                                         IF i > Len(args) THEN rest ELSE args[i]),
                 x, [i \in 1 .. n |-> i])
PassThis(x, k, this) ==
    IF this = <<>> THEN x ELSE Write(x, <<"this", k>>, FieldOf(this[1].t))
CallOne(p, h, f, k, this, args, rest) ==
    Got(Read(PassThis(PassArgs(p, h.x, k, args, rest), k, this), f, <<"ret", k>>),
        Join(h.v, h.x.vals[<<"ret", k>>]))

\* A function of the host: all that goes in comes out, and into its callbacks and
\* the array it is a method of.
DeriveGot(g) == Got(g.x, Derive(g.v))
HostTaint(p, x, f, fnv, this, args, rest) ==
    DeriveGot(FoldLeft(LAMBDA g, v : Spread(g, f, v),
                       Got(x, IF this # <<>> /\ fnv.c[1] = "method" THEN Clean ELSE fnv.t),
                       this \o args \o <<rest>>))
StoreInThis(p, g, v, t) ==
    IF HasSite(v) THEN Got(WriteElem(p, g.x, v.a[2], AnyItem, Tainted(t)), g.v) ELSE g
HostUse(p, g, f, v, t, isThis) ==
    IF isThis THEN StoreInThis(p, Callback(p, g, f, v, t), v, t) ELSE Callback(p, g, f, v, t)
HostCall(p, g, f, this, args, rest) ==
    FoldLeft(LAMBDA h, i : HostUse(p, h, f, (this \o args \o <<rest>>)[i], g.v, i <= Len(this)),
             g, [i \in 1 .. Len(this \o args) + 1 |-> i])

\* The header is asked for by name.
Asked(args, rest) == rest.h = Yes \/ \E i \in DOMAIN args : args[i].h = Yes
Answered(g, asked) ==
    IF asked THEN Got([g.x EXCEPT !.fired = TRUE], [g.v EXCEPT !.t = JoinTaint(@, Root)]) ELSE g

\* call(); this is <<>> or <<value>>.
LiveGot(g) == Got(g.x, Live(g.v))
CallKnown(p, x, f, fnv, this, args, rest) ==
    LiveGot(FoldLeft(LAMBDA h, k : CallOne(p, h, f, k, this, args, rest), Got(x, NoVal), Targets(p, fnv.c)))
MayBe(known, r, any) ==
    Got(r.x, IF any THEN [known EXCEPT !.t = JoinTaint(@, r.v)] ELSE Tainted(r.v))
CallUnknown(p, g, f, fnv, this, args, rest) ==
    IF Targets(p, fnv.c) # <<>> /\ fnv.c[1] # "method" THEN g
    ELSE MayBe(g.v, HostCall(p, HostTaint(p, g.x, f, fnv, this, args, rest), f, this, args, rest),
               Targets(p, fnv.c) # <<>>)
Call(p, f, fnv, this, e) ==
    Answered(CallUnknown(p, CallKnown(p, e.x, f, fnv, this, e.args, e.rest), f, fnv, this, e.args, e.rest),
             Asked(e.args, e.rest))

\* expand(): the items of the array of arguments, and the rest.
Arguments(x, args, rest) == [x |-> x, args |-> args, rest |-> rest]
ReadAll(x, f, ls) == FoldLeft(LAMBDA y, l : Read(y, f, l), x, ls)
ItemsOf(p, site) == [i \in 1 .. p.len[site] |-> <<"elem", site, i - 1>>]
Expand(p, x, f, arr) ==
    IF ~HasSite(arr) THEN Arguments(x, <<>>, Tainted(arr.t))
    ELSE LET items == ItemsOf(p, arr.a[2])
             rest == Find(p, arr.a[2], AnyItem)
         IN  Arguments(ReadAll(x, f, Append(items, rest)), [i \in DOMAIN items |-> x.vals[items[i]]], x.vals[rest])

----------------------------------------------------------------------------
(* Solver: instructions and functions *)

\* opv()
Opv(regs, o, hdr) ==
    IF IsReg(o) THEN regs[o[2]] ELSE [Plain EXCEPT !.h = IF hdr /\ o = Hdr THEN Yes ELSE Conflict]
Opvs(regs, os) == [i \in DOMAIN os |-> Opv(regs, os[i], TRUE)]

IndexKey(key) == key[1] = "int"
InArray(o, key) == HasSite(o) /\ IndexKey(key) /\ key[2] \in 0 .. MaxIndex - 1

\* get_prop() with a computed key
GetComputed(x, f, o, key, any) ==
    LET g == JoinInto(Ext(x, o.t, Wild), any)
        sum == <<"sum", o.a[2]>>
        h == IF HasSite(o) THEN JoinInto(Got(Read(g.x, f, sum), g.v), x.vals[sum].t) ELSE g
    IN  Answered(Got(h.x, Tainted(h.v)), key.h = Yes)

\* ... and with a constant one
GetBase(x, o, key, any) == IF o.t = Clean THEN FromAny(x, any, key) ELSE Ext(x, o.t, key)
GetItem(p, g, f, site, i) ==
    LET e == Live(Join(g.x.vals[Find(p, site, i)], g.x.vals[Find(p, site, AnyItem)]))
    IN  Got(Read(Read(g.x, f, Find(p, site, i)), f, Find(p, site, AnyItem)), [e EXCEPT !.t = JoinTaint(g.v, @)])
GetField(p, g, f, o, key) ==
    IF InArray(o, key) THEN GetItem(p, g, f, o.a[2], key[2])
    ELSE Got(Read(g.x, f, <<"field", key>>),
             [Tainted(JoinTaint(g.v, g.x.vals[<<"field", key>>].t))
                EXCEPT !.c = IF IndexKey(key) THEN Conflict ELSE Method(key)])
\* The document's own keys.
GetSeed(g, key) ==
    CASE key = Dyn -> Got([g.x EXCEPT !.fired = TRUE], [g.v EXCEPT !.t = JoinTaint(@, Path(<<Dyn>>, FALSE))])
      [] OTHER -> Answered(g, key = Hdr)
Query(g, key) ==
    IF key = Pow THEN Got([g.x EXCEPT !.query = JoinTaint(@, g.v.t)], g.v) ELSE g
GetConstant(p, x, f, o, key, any) ==
    Query(GetSeed(GetField(p, GetBase(x, o, key, any), f, o, key), key), key)
GetProp(p, x, f, regs, o, key) ==
    IF IsReg(key)
      THEN GetComputed(Read(x, f, <<"any">>), f, o, regs[key[2]], x.vals[<<"any">>].t)
      ELSE GetConstant(p, Read(x, f, <<"any">>), f, o, key, x.vals[<<"any">>].t)

\* set_prop()
SetProp(p, x, o, key, v) ==
    CASE IsReg(key) /\ HasSite(o) -> WriteElem(p, x, o.a[2], AnyItem, v)
      [] IsReg(key) /\ ~HasSite(o) -> Write(x, <<"any">>, FieldOf(v.t))
      [] ~IsReg(key) /\ InArray(o, key) -> WriteElem(p, x, o.a[2], key[2], v)
      [] OTHER -> Write(x, <<"field", key>>, FieldOf(v.t))

\* transfer(): an instruction that has a value
GetVar(p, x, f, var) ==
    Got(Read(x, f, <<"var", var>>),
        [Live(x.vals[<<"var", var>>]) EXCEPT !.c = IF p.invar[var] = <<>> THEN @ ELSE InVar(var)])
TaintAt(x, f, l) == Got(Read(x, f, l), Tainted(x.vals[l].t))
Computed(x, regs, args) ==
    Got(x, Tainted(Derive(FoldLeft(LAMBDA t, o : JoinTaint(t, Opv(regs, o, FALSE).t), Clean, args))))
ValueOf(p, x, f, i, regs, ins) ==
    CASE ins.op = "mov" -> Got(x, Opv(regs, ins.a[1], TRUE))
      [] ins.op = "getvar" -> GetVar(p, x, f, ins.a[1][2])
      [] ins.op = "getexc" -> TaintAt(x, f, <<"exc">>)
      [] ins.op = "this" -> TaintAt(x, f, <<"this", f>>)
      [] ins.op = "closure" -> Got(x, [Plain EXCEPT !.c = Entry(p.fn[i])])
      [] ins.op = "newarr" -> Got(x, [Plain EXCEPT !.a = Site(i)])
      [] ins.op = "newobj" -> Got(x, Plain)
      [] ins.op = "getprop" -> GetProp(p, x, f, regs, Opv(regs, ins.a[1], FALSE), ins.a[2])
      [] ins.op \in {"call", "callm", "new"} ->
           Call(p, f, Opv(regs, ins.a[IF ins.op = "callm" THEN 2 ELSE 1], FALSE),
                IF ins.op = "callm" THEN <<Opv(regs, ins.a[1], FALSE)>> ELSE <<>>,
                IF ins.op = "call" THEN Arguments(x, Opvs(regs, Tail(ins.a)), NoVal)
                ELSE Expand(p, x, f, Opv(regs, Last(ins.a), FALSE)))
      [] OTHER -> Computed(x, regs, ins.a)
\* ... and one that has none
Effect(p, x, f, regs, ins) ==
    CASE ins.op = "setvar" -> Write(x, <<"var", ins.a[1][2]>>, Opv(regs, ins.a[2], TRUE))
      [] ins.op = "varexc" -> Write(Read(x, f, <<"exc">>), <<"var", ins.a[1][2]>>, Tainted(x.vals[<<"exc">>].t))
      [] ins.op = "throw" -> Write(x, <<"exc">>, FieldOf(Opv(regs, ins.a[1], FALSE).t))
      [] ins.op = "ret" -> Write(x, <<"ret", f>>, Opv(regs, ins.a[1], TRUE))
      [] ins.op = "setprop" -> SetProp(p, x, Opv(regs, ins.a[1], FALSE), ins.a[2], Opv(regs, ins.a[3], TRUE))
      [] OTHER -> x
\* A method call leaves its value in register 2.
DestOf(ins) == IF ins.op = "callm" THEN 2 ELSE ins.d
Put(g, regs, d) == Got(g.x, [regs EXCEPT ![d] = g.v])

Transfer(p, x, f, i, regs, ins) ==
    IF DestOf(ins) = NoReg THEN Got(Effect(p, x, f, regs, ins), regs)
    ELSE Put(ValueOf(p, x, f, i, regs, ins), regs, DestOf(ins))
\* g is the solver and the registers; the instructions are those of a block.
TransferAll(p, g, f, b) ==
    FoldLeft(LAMBDA h, i : Transfer(p, h.x, f, i, h.v, p.code[i]), g, [i \in 1 .. p.last[b] + 1 - b |-> b + i - 1])

\* run(): the registers at the entry, and a sweep over the blocks until none of them
\* is entered with more than before.
EntryRegs(p, x, f) ==
    LET rest == x.vals[Find(p, ArgSite(p, f), AnyItem)]
    IN  [r \in 0 .. p.nregs[f] - 1 |->
           CASE r < 3 -> Plain
             [] r = 3 -> [Plain EXCEPT !.a = Site(ArgSite(p, f))]
             [] OTHER -> Join(x.vals[Find(p, ArgSite(p, f), r - 4)], rest)]
Entered(x, p, f) ==
    ReadAll(x, f, <<Find(p, ArgSite(p, f), AnyItem)>> \o ItemsOf(p, ArgSite(p, f)))

Enter(s, b, regs) ==
    IF b \notin DOMAIN s.st THEN [s EXCEPT !.st = @ @@ (b :> regs), !.dirty = @ \cup {b}]
    ELSE LET joined == [r \in DOMAIN regs |-> Join(s.st[b][r], regs[r])]
         IN  IF joined = s.st[b] THEN s ELSE [s EXCEPT !.st[b] = joined, !.dirty = @ \cup {b}]

Leave(p, s, b, g) ==
    FoldLeft(LAMBDA q, c : IF c = 0 THEN q ELSE Enter(q, c, g.v),
             [s EXCEPT !.x = g.x, !.dirty = @ \ {b}], SuccOf(p.code, p.last[b]))
RECURSIVE Sweep(_, _, _, _)
Sweep(p, s, f, k) ==
    IF s.dirty = {} THEN s.x
    ELSE LET b == p.blocks[f][k]
         IN  Sweep(p, IF b \in s.dirty THEN Leave(p, s, b, TransferAll(p, Got(s.x, s.st[b]), f, b)) ELSE s,
                   f, (k % Len(p.blocks[f])) + 1)
Run(p, x, f) ==
    Sweep(p, [x |-> Entered(x, p, f), st |-> p.entry[f] :> EntryRegs(p, x, f), dirty |-> {p.entry[f]}], f, 1)

\* Solver::new()
NewSolver(p) ==
    [vals |-> [l \in p.locs |-> NoVal], readers |-> [l \in p.locs |-> <<>>],
     queue |-> [f \in DOMAIN p.entry |-> f],
     paths |-> {<<>>} \cup (IF Dyn \in KeysIn(p.code) THEN {<<Dyn>>} ELSE {}),
     query |-> Clean, fired |-> FALSE]

\* verdict()
Independent == [kind |-> "independent", path |-> <<>>, derived |-> FALSE]
Untrackable == [Independent EXCEPT !.kind = "untrackable"]
Verdict(x) ==
    CASE ~x.fired \/ x.query = Clean -> Independent
      [] x.query.k = "path" /\ ~Contains(x.query.p, Wild) ->
           [kind |-> "dependent", path |-> x.query.p, derived |-> x.query.d]
      [] OTHER -> Untrackable

----------------------------------------------------------------------------
(* The program itself.  A value has a kind, an identity, and where it      *)
(* comes from: the paths of the document it was made of, and whether       *)
(* anything was computed on the way.                                       *)

Value(k, id, ps, d) == [k |-> k, id |-> id, ps |-> ps, d |-> d]
Literal(o) == Value("prim", o, {}, FALSE)
Undefined == Literal(IntK(-1))
HostValue == Value("host", IntK(0), {}, FALSE)
FromDocument(ps, d) == Value("prim", IntK(-1), ps, d)
Made(vs) ==
    LET ps == UNION {v.ps : v \in vs} IN FromDocument(ps, ps # {})

Frame(p, f, args, this, dest, host) ==
    [fn |-> f, pc |-> p.entry[f],
     regs |-> [r \in 0 .. p.nregs[f] - 1 |->
                 CASE r < 3 -> HostValue
                   [] r = 3 -> args[1]
                   [] OTHER -> IF r - 2 \in DOMAIN args THEN args[r - 2] ELSE Undefined],
     handlers |-> <<>>, this |-> this, dest |-> dest, host |-> host]

Empty == [k \in {} |-> Undefined]
Top(m) == Last(m.frames)
Goto(m, pc) == [m EXCEPT !.frames[Len(m.frames)].pc = pc]
Next1(m) == Goto(m, Top(m).pc + 1)
SetReg(m, d, v) == [m EXCEPT !.frames[Len(m.frames)].regs[d] = v]
Alloc(m, k, cells) ==
    Got([m EXCEPT !.heap = Append(@, cells)], Value(k, IntK(Len(m.heap) + 1), {}, FALSE))
InHeap(v) == v.k \in {"obj", "arr"}
CellsOf(m, v) == m.heap[v.id[2]]
SetCell(m, o, key, v) ==
    IF InHeap(o) THEN [m EXCEPT !.heap[o.id[2]] = (key :> v) @@ @] ELSE m

\* The document has every key.
ReadProp(m, o, key) ==
    CASE o.ps # {} -> FromDocument({Append(q, key) : q \in o.ps}, o.d /\ o.ps # {<<>>})
      [] o.k = "host" /\ key = Dyn -> FromDocument({<<Dyn>>}, FALSE)
      [] o.k = "host" /\ key = Hdr -> FromDocument({<<>>}, FALSE)
      [] o.k = "host" -> HostValue
      [] InHeap(o) /\ key \in DOMAIN CellsOf(m, o) -> CellsOf(m, o)[key]
      [] OTHER -> Undefined

\* The arguments of a call are also an array, in register 3.
Enters(p, m, f, args, this, dest, host) ==
    LET cells == [k \in {IntK(i - 1) : i \in DOMAIN args} |-> args[k[2] + 1]]
        a == Alloc(m, "arr", cells)
    IN  [a.x EXCEPT !.frames = Append(@, Frame(p, f, <<a.v>> \o args, this, dest, host))]

\* A function of the host returns something made of all it is given, or the document
\* when it is asked for the header; it may call back a function it is given, and
\* store in the array it is a method of.
NoHost == {}
Contents(m, v) == {v} \cup (IF v.k = "arr" THEN {CellsOf(m, v)[k] : k \in DOMAIN CellsOf(m, v)} ELSE {})
HostResult(m, this, args) ==
    LET given == Made(UNION {Contents(m, v) : v \in ToSet(args) \cup ToSet(this)})
    IN  IF \E v \in ToSet(args) : v.id = Hdr
          THEN FromDocument(given.ps \cup {<<>>}, given.d) ELSE given
HostStores(m, this, args) ==
    IF this # <<>> /\ this[1].k = "arr" /\ args # <<>> THEN SetCell(m, this[1], IntK(1), args[1]) ELSE m
Calls(p, m, fnv, this, args, dest) ==
    IF fnv.k = "fn" THEN {Enters(p, Next1(m), fnv.id[2], args, this, dest, NoHost)}
    ELSE LET v == HostResult(m, this, args)
             n == Next1(HostStores(m, this, args))
         IN  {SetReg(n, dest, v)}
             \cup {Enters(p, n, c.id[2], <<Made({v})>>, <<>>, dest, {v}) : c \in {a \in ToSet(args) : a.k = "fn"}}
ArgsIn(m, arr) ==
    LET cells == CellsOf(m, arr)
    IN  [i \in 1 .. Cardinality(DOMAIN cells) |-> cells[IntK(i - 1)]]

Returns(m, v) ==
    LET n == [m EXCEPT !.frames = Front(@)]
        r == IF Top(m).host = NoHost THEN v ELSE Made({v} \cup Top(m).host)
    IN  IF n.frames = <<>> THEN n ELSE SetReg(n, Top(m).dest, r)

RECURSIVE Throws(_, _)
Throws(m, v) ==
    CASE m.frames = <<>> -> m
      [] Top(m).handlers # <<>> ->
           Goto([m EXCEPT !.exc = v, !.frames[Len(m.frames)].handlers = Front(@)], Last(Top(m).handlers))
      [] OTHER -> Throws([m EXCEPT !.frames = Front(@)], v)

\* What the machine may be after one more instruction.
After(p, m, ins, val(_)) ==
    LET key == IF IsReg(ins.a[2]) THEN val(ins.a[2]).id ELSE ins.a[2]
        alloc == Alloc(m, IF ins.op = "newarr" THEN "arr" ELSE "obj", Empty)
        read == ReadProp(m, val(ins.a[1]), key)
        put(v) == {Next1(SetReg(m, ins.d, v))}
        setvar(v) == {Next1([m EXCEPT !.vars[ins.a[1][2]] = v])}
    IN  CASE ins.op = "mov" -> put(val(ins.a[1]))
          [] ins.op = "getvar" -> put(m.vars[ins.a[1][2]])
          [] ins.op = "setvar" -> setvar(val(ins.a[2]))
          [] ins.op = "setself" -> setvar(Value("fn", IntK(Top(m).fn), {}, FALSE))
          [] ins.op = "varexc" -> setvar(m.exc)
          [] ins.op = "getexc" -> put(m.exc)
          [] ins.op = "this" -> put(IF Top(m).this = <<>> THEN Undefined ELSE Top(m).this[1])
          [] ins.op = "throw" -> {Throws(m, val(ins.a[1]))}
          [] ins.op = "ret" -> {Returns(m, val(ins.a[1]))}
          [] ins.op = "closure" -> put(Value("fn", IntK(p.fn[Top(m).pc]), {}, FALSE))
          [] ins.op \in {"newarr", "newobj"} -> {Next1(SetReg(alloc.x, ins.d, alloc.v))}
          [] ins.op = "getprop" ->
               {Next1([SetReg(m, ins.d, read) EXCEPT !.seen = IF key = Pow THEN read ELSE @])}
          [] ins.op = "setprop" -> {Next1(SetCell(m, val(ins.a[1]), key, val(ins.a[3])))}
          [] ins.op = "call" ->
               Calls(p, m, val(ins.a[1]), <<>>, [i \in 1 .. Len(ins.a) - 1 |-> val(ins.a[i + 1])], ins.d)
          [] ins.op = "callm" -> Calls(p, m, val(ins.a[2]), <<val(ins.a[1])>>, ArgsIn(m, val(ins.a[3])), 2)
          [] ins.op = "new" -> Calls(p, m, val(ins.a[1]), <<>>, ArgsIn(m, val(ins.a[2])), ins.d)
          [] ins.op = "jump" -> {Goto(m, ins.a[1][2])}
          [] ins.op = "branch" -> {Next1(m), Goto(m, ins.a[2][2])}
          [] ins.op = "catch" -> {Next1([m EXCEPT !.frames[Len(m.frames)].handlers = Append(@, ins.a[1][2])])}
          [] OTHER -> put(Made({val(ins.a[i]) : i \in DOMAIN ins.a}))

Machine(p) ==
    Enters(p, [frames |-> <<>>, heap |-> <<>>, vars |-> [v \in VarsIn(p.code) |-> Undefined],
               exc |-> Undefined, seen |-> Undefined, steps |-> 0],
           1, <<>>, <<>>, NoReg, NoHost)

----------------------------------------------------------------------------
VARIABLES
    phase,    \* how far analyze() is; "run" once the program itself runs
    prog,     \* the program, and what build() has made of it so far
    x,        \* the solver
    verdict,  \* what analyze() answers
    m         \* the machine that runs the program, from "run" on

vars == <<phase, prog, x, verdict, m>>

Init ==
    /\ phase = "build" /\ x = None /\ verdict = None /\ m = None
    /\ prog \in {[code |-> c] : c \in Programs}

\* analyze(): build() refuses the program, or there is nothing to analyse, ...
Refuse ==
    /\ phase = "build" /\ ScanError(prog.code) # "none"
    /\ phase' = "refused" /\ verdict' = ScanError(prog.code)
    /\ UNCHANGED <<prog, x, m>>
Scan ==
    /\ phase = "build" /\ ScanError(prog.code) = "none"
    /\ phase' = "scanned" /\ prog' = Scanned(prog.code)
    /\ UNCHANGED <<x, verdict, m>>
Traverse ==
    /\ phase = "scanned" /\ phase' = "traversed" /\ prog' = Traversed(prog)
    /\ UNCHANGED <<x, verdict, m>>
Measure ==
    /\ phase = "traversed" /\ phase' = "measured" /\ prog' = Measured(prog)
    /\ UNCHANGED <<x, verdict, m>>
TooManyRegisters == \E f \in DOMAIN prog.nregs : prog.nregs[f] > MaxRegister
RefuseRegister ==
    /\ phase = "measured" /\ TooManyRegisters
    /\ phase' = "refused" /\ verdict' = "Register"
    /\ UNCHANGED <<prog, x, m>>
Link ==
    /\ phase = "measured" /\ ~TooManyRegisters
    /\ phase' = "built" /\ prog' = Linked(prog)
    /\ UNCHANGED <<x, verdict, m>>
Skip ==
    /\ phase = "built" /\ ~Seeded(prog.code)
    /\ phase' = "run" /\ verdict' = Independent /\ m' = Machine(prog)
    /\ UNCHANGED <<prog, x>>
Begin ==
    /\ phase = "built" /\ Seeded(prog.code)
    /\ phase' = "solve" /\ x' = NewSolver(prog)
    /\ UNCHANGED <<prog, verdict, m>>
\* ... or the solver runs the functions that are due, one after the other, ...
Step ==
    /\ phase = "solve" /\ x.queue # <<>>
    /\ x' = Run(prog, [x EXCEPT !.queue = Tail(@)], Head(x.queue))
    /\ UNCHANGED <<phase, prog, verdict, m>>
Settle ==
    /\ phase = "solve" /\ x.queue = <<>>
    /\ phase' = "settled" /\ verdict' = Verdict(x)
    /\ UNCHANGED <<prog, x, m>>
\* ... and the program is run, to be compared with the verdict.
Start ==
    /\ phase = "settled"
    /\ phase' = "run" /\ x' = None /\ m' = Machine(prog)
    /\ UNCHANGED <<prog, verdict>>
Execute ==
    /\ phase = "run" /\ m.frames # <<>> /\ m.steps < MaxSteps
    /\ \E n \in After(prog, m, prog.code[Top(m).pc],
                      LAMBDA o : IF IsReg(o) THEN Top(m).regs[o[2]] ELSE Literal(o)) :
           m' = [n EXCEPT !.steps = m.steps + 1]
    /\ UNCHANGED <<phase, prog, x, verdict>>

Analyze ==
    \/ Refuse \/ Scan \/ Traverse \/ Measure \/ RefuseRegister \/ Link
    \/ Skip \/ Begin \/ Step \/ Settle
Next == Analyze \/ Start \/ Execute

Spec == Init /\ [][Next]_vars

----------------------------------------------------------------------------
\* What a parameter is really made of is what the verdict says: a value from the
\* document is never called independent of it, and a path that is given is the only
\* one, and exact unless it is called derived.
VerdictCovers ==
    phase = "run" /\ m.seen.ps # {} =>
        \/ verdict.kind = "untrackable"
        \/ /\ verdict.kind = "dependent"
           /\ m.seen.ps = {verdict.path}
           /\ m.seen.d => verdict.derived

\* When the queue is empty, running any function once more would change nothing:
\* no function was left out because a write was taken for invisible to it.
NothingLeftToRun ==
    phase = "settled" => \A f \in DOMAIN prog.entry : Run(prog, x, f) = x

\* The solver ends where it must, and what it says then is so.
VerdictHolds == VerdictCovers /\ NothingLeftToRun
=============================================================================
