------------------------------- MODULE Layout -------------------------------
(***************************************************************************)
(* compute() of src/payload/compute.rs: where in a shuffled array the      *)
(* results of the functions that a script registers end up.  A job drives  *)
(* the batches of registrations and learns under which key they shuffle;   *)
(* meanwhile the caller guesses the key, finds where it is set and has the *)
(* permutation computed.  A wrong guess is done again.  Then the batches   *)
(* are replayed on an array of cells.                                      *)
(*                                                                         *)
(* A script is a sequence of shards of functions of one block each.  What  *)
(* running a closure gives (the interpreter is not part of this module) is *)
(* in the script: drives, made, shuffled.                                  *)
(***************************************************************************)
EXTENDS Integers, FiniteSets, SequencesExt

CONSTANTS
    Scripts,      \* shards, drives, made, shuffled, fields
    MinBatches, MaxBatches,    \* MIN_BATCHES, MAX_BATCHES
    MinTemplate,  \* MIN_TEMPLATE
    KeyDepth      \* STATIC_KEY_DEPTH

None == -1

\* Statements: a register set to a new array or to something else, an item of
\* the array in a register set to a closure or to a constant, a property or a
\* variable set, a method called, a closure mentioned.
NewArray(r, n) == [k |-> "array", r |-> r, n |-> n, v |-> <<"none", 0>>]
Other(r) == [k |-> "other", r |-> r, n |-> 0, v |-> <<"none", 0>>]
Item(r, i, v) == [k |-> "item", r |-> r, n |-> i, v |-> v]
Prop(key, v) == [k |-> "prop", r |-> 0, n |-> key, v |-> v]
SetVar(x, v) == [k |-> "var", r |-> 0, n |-> x, v |-> v]
Method(key) == [k |-> "method", r |-> 0, n |-> key, v |-> <<"none", 0>>]
Mention(e) == [k |-> "mention", r |-> 0, n |-> 0, v |-> <<"closure", e>>]

\* Values: a closure by its entry, the result of calling a closure by the number
\* of the call, a variable, a constant.
Closure(e) == <<"closure", e>>
CallResult(c) == <<"call", c>>
Variable(x) == <<"variable", x>>
Constant == <<"constant", 0>>

Function(entry, body) == [entry |-> entry, body |-> body]

----------------------------------------------------------------------------
(* Reading the script *)

\* shard_lists(): the arrays of which every item is set to a closure, in a row.
NoArray == [open |-> None, slots |-> <<>>, out |-> <<>>]
ListStep(a, s) ==
    CASE s.k = "array" /\ s.n \in MinBatches .. MaxBatches ->
           [a EXCEPT !.open = s.r, !.slots = [i \in 1 .. s.n |-> None]]
      [] s.k \in {"array", "other"} /\ a.open = s.r -> [a EXCEPT !.open = None]
      [] s.k = "item" /\ a.open = s.r ->
           IF s.v[1] # "closure" \/ s.n + 1 \notin DOMAIN a.slots
             THEN [a EXCEPT !.open = None]
             ELSE LET slots == [a.slots EXCEPT ![s.n + 1] = s.v[2]]
                  IN  IF None \in ToSet(slots)
                        THEN [a EXCEPT !.slots = slots]
                        ELSE [a EXCEPT !.open = None, !.slots = slots, !.out = Append(@, slots)]
      [] OTHER -> a
ListsOf(f) == FoldLeft(ListStep, NoArray, f.body).out

AllFunctions(script) == FlattenSeq(script.shards)

\* static_keys(): the methods called in a function and in those it mentions, to
\* a depth; the last one mentioned is looked at first.
KeysFrom(script, a) ==
    LET e == Last(a.todo).e
        depth == Last(a.todo).depth
        f == SelectSeq(AllFunctions(script), LAMBDA g : g.entry = e)
        body == IF f = <<>> THEN <<>> ELSE f[1].body
        called == SelectSeq(body, LAMBDA s : s.k = "method")
        mentioned == SelectSeq(body, LAMBDA s : s.v[1] = "closure")
    IN  IF depth > KeyDepth \/ e \in a.seen
          THEN [a EXCEPT !.todo = Front(@)]
          ELSE [todo |-> Front(a.todo) \o [i \in DOMAIN mentioned |->
                                             [e |-> mentioned[i].v[2], depth |-> depth + 1]],
                seen |-> a.seen \cup {e},
                out |-> a.out \o [i \in DOMAIN called |-> called[i].n]]

\* No function is looked into twice, so that no more is to do in all than the
\* first one and all that is mentioned.
StaticKeys(script, e) ==
    LET fs == AllFunctions(script)
        statements == FlattenSeq([i \in DOMAIN fs |-> fs[i].body])
        nothing == [todo |-> <<[e |-> e, depth |-> 0]>>, seen |-> {}, out |-> <<>>]
    IN  FoldLeft(LAMBDA a, n : IF a.todo = <<>> THEN a ELSE KeysFrom(script, a),
                 nothing, [n \in 1 .. Len(statements) + 1 |-> n]).out

\* batch_lists()
BatchLists(script) ==
    FlattenSeq([i \in DOMAIN AllFunctions(script) |-> ListsOf(AllFunctions(script)[i])])
Candidates(script) ==
    LET lists == BatchLists(script)
        keys == FlattenSeq([i \in DOMAIN lists |-> StaticKeys(script, lists[i][1])])
    IN  FoldLeft(LAMBDA ks, k : IF Contains(ks, k) THEN ks ELSE Append(ks, k), <<>>, keys)

\* What the variable x of a function is set to, if to the result of a call.
SetTo(f, x) ==
    LET at(s) == IF s.k = "var" /\ s.n = x /\ s.v[1] = "call" THEN <<s.v[2]>> ELSE <<>>
    IN  FlattenSeq([i \in DOMAIN f.body |-> at(f.body[i])])
SiteOf(f, call) == [f |-> f, call |-> call]
Sites(f, calls) == [i \in DOMAIN calls |-> SiteOf(f, calls[i])]

\* What a statement that sets property `key` sets it to, if to the result of a
\* call, and if to a variable.
Direct(s, key) ==
    IF s.k = "prop" /\ s.n = key /\ s.v[1] = "call" THEN <<s.v[2]>> ELSE <<>>
Through(f, s, key) ==
    IF s.k = "prop" /\ s.n = key /\ s.v[1] = "variable" THEN SetTo(f, s.v[2]) ELSE <<>>

\* factory_sites(): the calls whose result becomes property `key`, in the order
\* of the statements that set the property.
FactorySitesIn(f, key) ==
    Sites(f, FlattenSeq([i \in DOMAIN f.body |->
                           IF f.body[i].v[1] = "call" THEN Direct(f.body[i], key)
                                                      ELSE Through(f, f.body[i], key)]))
FactorySites(script, key) ==
    LET fs == AllFunctions(script)
    IN  FlattenSeq([i \in DOMAIN fs |-> FactorySitesIn(fs[i], key)])

\* shard_factories(): the same in one pass; within a function, those through a
\* variable come last.
GuessedSitesIn(f, key) ==
    Sites(f, FlattenSeq([i \in DOMAIN f.body |-> Direct(f.body[i], key)])
               \o FlattenSeq([i \in DOMAIN f.body |-> Through(f, f.body[i], key)]))
GuessedSites(script, key) ==
    LET fs == AllFunctions(script)
    IN  FlattenSeq([i \in DOMAIN fs |-> GuessedSitesIn(fs[i], key)])

\* speculate(): the first candidate that is set anywhere, None if there is none.
Guess(script, cands) ==
    LET set == {i \in DOMAIN cands : GuessedSites(script, cands[i]) # <<>>}
    IN  IF set = {} THEN None ELSE cands[CHOOSE i \in set : \A j \in set : i <= j]

\* What is in a list are entries of functions, and each can be driven.
Drives == [fault : BOOLEAN, slots : Seq(Nat), key : Int]
Statements ==
    [k : {"array", "other", "item", "prop", "var", "method", "mention"}, r : Int, n : Int,
     v : {"closure", "call", "variable", "constant", "none"} \X Int]
ScriptsAssumption ==
    \A s \in Scripts :
        /\ AllFunctions(s) \in Seq([entry : Int, body : Seq(Statements)])
        /\ BatchLists(s) \in Seq(Seq(Int) \ {<<>>})
        /\ \A list \in ToSet(BatchLists(s)) : \A e \in ToSet(list) :
              e \in DOMAIN s.drives /\ s.drives[e] \in Drives

----------------------------------------------------------------------------
(* The permutation *)

\* template_len(): the longest array, None if there is none long enough.
TemplateLen(f) ==
    LET ns == {f.body[i].n : i \in {j \in DOMAIN f.body : f.body[j].k = "array"}}
        long == {n \in ns : n >= MinTemplate}
    IN  IF long = {} THEN None ELSE CHOOSE n \in long : \A m \in long : m <= n

\* template(): whether there is an array of that length, or an item of one is
\* not a constant.
TemplateStep(a, s, len) ==
    CASE s.k = "array" /\ s.n = len -> [a EXCEPT !.open = s.r, !.found = TRUE]
      [] s.k \in {"array", "other"} /\ a.open = s.r -> [a EXCEPT !.open = None]
      [] s.k = "item" /\ a.open = s.r /\ s.n < len /\ s.v # Constant -> [a EXCEPT !.bad = TRUE]
      [] OTHER -> a
TemplateOf(f, len) ==
    FoldLeft(LAMBDA a, s : TemplateStep(a, s, len), [open |-> None, found |-> FALSE, bad |-> FALSE],
             f.body)

\* Every index once.
IsPermutation(items, len) ==
    /\ Len(items) = len
    /\ items \in [1 .. len -> 0 .. len - 1]
    /\ \A i, j \in DOMAIN items : items[i] = items[j] => i = j

Err(what) == [ok |-> FALSE, what |-> what]

Faulted == <<None>>    \* what a shuffle gives that faults

\* permutation(): the first site whose call makes a closure is taken.
Permutation(script, sites) ==
    LET good == {i \in DOMAIN sites : script.made[sites[i].call] = "closure"}
        site == sites[CHOOSE i \in good : \A j \in good : i <= j]
        len == TemplateLen(site.f)
        items == script.shuffled[site.call]
    IN  IF good = {}
          THEN Err(IF \E i \in DOMAIN sites : script.made[sites[i].call] = "fault"
                     THEN "FactoryRun" ELSE "Factory")
        ELSE IF len = None \/ ~TemplateOf(site.f, len).found THEN Err("Template")
        ELSE IF TemplateOf(site.f, len).bad THEN Err("TemplateInit")
        ELSE IF items = Faulted THEN Err("Shuffle")
        ELSE IF ~IsPermutation(items, len) THEN Err("Permutation")
        ELSE [ok |-> TRUE, perm |-> items, site |-> site]

\* prop_literal(): a function sets the field to a constant.
HasField(f, field) == \E i \in DOMAIN f.body : f.body[i] = Prop(field, Constant)

----------------------------------------------------------------------------
(* compute() *)

VARIABLES
    script,
    job,      \* drive_all(): the list tried (0 before the first), the batches driven
    guess,    \* what the caller speculates: the key, and the permutation once it has it
    phase,    \* "lists", "guess", "permute", "join", "replay", "done"
    perm,     \* what permutation() gave for the key
    cells,    \* what is in the array: Untouched, or the batch and the number of a registration
    replayed, \* batches replayed
    result

vars == <<script, job, guess, phase, perm, cells, replayed, result>>

NoJob == [state |-> "none", list |-> 0, driven |-> <<>>, out |-> Err("Worker")]
NoGuess == [key |-> None, perm |-> Err("none")]

Init ==
    /\ script \in Scripts
    /\ job = NoJob /\ guess = NoGuess /\ phase = "lists" /\ perm = Err("none")
    /\ cells = <<>> /\ replayed = 0 /\ result = Err("none")

\* The scope opens: the job is spawned.
Open ==
    /\ phase = "lists"
    /\ job' = [job EXCEPT !.state = "choosing"]
    /\ phase' = "guess"
    /\ UNCHANGED <<script, guess, perm, cells, replayed, result>>

Lists == BatchLists(script)
Driven(e) == script.drives[e]
EndJob(out) == [job EXCEPT !.state = "ended", !.out = out]

\* drive_all(): the first batch of each list, until one registers something.
TryList ==
    /\ job.state = "choosing"
    /\ LET n == job.list + 1
           d == Driven(Lists[n][1])
       IN  job' = IF n > Len(Lists) THEN EndJob(Err("Batches"))
                  ELSE IF d.fault \/ d.slots = <<>> THEN [job EXCEPT !.list = n]
                  ELSE IF d.key = None THEN EndJob(Err("ShuffleKey"))
                  ELSE [job EXCEPT !.list = n, !.driven = <<d>>, !.state = "driving"]
    /\ UNCHANGED <<script, guess, phase, perm, cells, replayed, result>>

\* ... then the others of that list.
DriveBatch ==
    /\ job.state = "driving"
    /\ LET list == Lists[job.list]
           n == Len(job.driven) + 1
       IN  job' = IF n > Len(list) THEN EndJob([ok |-> TRUE])
                  ELSE IF Driven(list[n]).fault THEN EndJob(Err("Drive"))
                  ELSE [job EXCEPT !.driven = Append(@, Driven(list[n]))]
    /\ UNCHANGED <<script, guess, phase, perm, cells, replayed, result>>

JobPanics ==
    /\ job.state \in {"choosing", "driving"}
    /\ job' = EndJob(Err("Worker"))
    /\ UNCHANGED <<script, guess, phase, perm, cells, replayed, result>>

Speculate ==
    /\ phase = "guess"
    /\ guess' = [guess EXCEPT !.key = Guess(script, Candidates(script))]
    /\ phase' = IF guess'.key = None THEN "join" ELSE "permute"
    /\ UNCHANGED <<script, job, perm, cells, replayed, result>>

Permute ==
    /\ phase = "permute"
    /\ guess' = [guess EXCEPT !.perm = Permutation(script, GuessedSites(script, guess.key))]
    /\ phase' = "join"
    /\ UNCHANGED <<script, job, perm, cells, replayed, result>>

Cell(b, p) == <<b, p>>
Untouched == Cell(0, 0)

\* Mutant: any guess is taken.
PermForAny(key) ==
    IF guess.key # None THEN guess.perm ELSE Permutation(script, FactorySites(script, key))

\* A guess of the right key is taken, else the permutation is computed now.
PermFor(key) ==
    IF guess.key = key THEN guess.perm ELSE Permutation(script, FactorySites(script, key))

\* What is checked before the cells are filled: the error, or "none".
Registrations ==
    UNION {{Cell(b, p) : p \in DOMAIN job.driven[b].slots} : b \in DOMAIN job.driven}
Registered == Cardinality(Registrations)
CheckedBefore(p) ==
    IF ~p.ok THEN p.what
    ELSE IF \E i \in DOMAIN job.driven : job.driven[i].slots = <<>> THEN "EmptyBatch"
    ELSE IF \E i \in DOMAIN job.driven : job.driven[i].key # job.driven[1].key THEN "ShuffleKey"
    ELSE IF Registered + 1 # Len(p.perm) THEN "Count"
    ELSE IF script.fields = <<>> THEN "Serializer"
    ELSE IF \E i \in DOMAIN script.fields : ~HasField(p.site.f, script.fields[i]) THEN "Prefix"
    ELSE "none"

Fail(what) == phase' = "done" /\ result' = Err(what)

\* The scope has ended: both have.
Join ==
    /\ phase = "join" /\ job.state = "ended"
    /\ IF ~job.out.ok
         THEN Fail(job.out.what) /\ UNCHANGED <<perm, cells>>
         ELSE /\ perm' = PermFor(job.driven[1].key)
              /\ IF CheckedBefore(perm') # "none"
                   THEN Fail(CheckedBefore(perm')) /\ UNCHANGED cells
                   ELSE /\ cells' = [i \in 1 .. Len(perm'.perm) |-> Untouched]
                        /\ phase' = "replay" /\ UNCHANGED result
    /\ UNCHANGED <<script, job, guess, replayed>>

\* The next batch: the cells are shuffled, and each registration takes its slot.
Replay ==
    /\ phase = "replay" /\ replayed < Len(job.driven)
    /\ LET b == replayed + 1
           slots == job.driven[b].slots
           shuffled == [i \in DOMAIN cells |-> cells[perm.perm[i] + 1]]
           taken(i) == {p \in DOMAIN slots : slots[p] + 1 = i}
       IN  IF \E p \in DOMAIN slots : slots[p] >= Len(cells)
             THEN Fail("Slot") /\ UNCHANGED <<cells, replayed>>
             ELSE /\ cells' = [i \in DOMAIN cells |->
                                 IF taken(i) = {} THEN shuffled[i]
                                 ELSE Cell(b, CHOOSE p \in taken(i) : \A q \in taken(i) : q <= p)]
                  /\ replayed' = b
                  /\ UNCHANGED <<phase, result>>
    /\ UNCHANGED <<script, job, guess, perm>>

\* Exactly one cell must be left.  Then every registration is told its cell; one
\* that has none would keep cell 0.
Place ==
    /\ phase = "replay" /\ replayed = Len(job.driven)
    /\ LET left == {i \in DOMAIN cells : cells[i] = Untouched}
           where(c) == LET at == {i \in DOMAIN cells : cells[i] = c}
                       IN  IF at = {} THEN 0 ELSE CHOOSE i \in at : \A j \in at : j <= i
       IN  IF \E i \in left : left = {i}
             THEN /\ phase' = "done"
                  /\ result' = [ok |-> TRUE, perm |-> perm, metadata |-> CHOOSE i \in left : TRUE,
                                placed |-> [b \in DOMAIN job.driven |->
                                              [p \in DOMAIN job.driven[b].slots |-> where(Cell(b, p))]]]
             ELSE Fail("Metadata")
    /\ UNCHANGED <<script, job, guess, perm, cells, replayed>>

Returned == phase = "done" /\ UNCHANGED vars

Next ==
    \/ Open \/ TryList \/ DriveBatch \/ JobPanics
    \/ Speculate \/ Permute \/ Join \/ Replay \/ Place \/ Returned

Spec == Init /\ [][Next]_vars

----------------------------------------------------------------------------
(* Properties *)

\* No function sets one property both to a call's result and to a variable: in
\* such a function the two searches for sites differ in their order.
OneWayOfSetting ==
    \A i \in DOMAIN AllFunctions(script) :
        LET body == AllFunctions(script)[i].body
        IN  \A m, n \in DOMAIN body :
              body[m].k = "prop" /\ body[n].k = "prop" /\ body[m].n = body[n].n
                => ~(body[m].v[1] = "call" /\ body[n].v[1] = "variable")

\* Guessing is never noticed: whatever the key was guessed to be, and whether
\* the job ends before or after the caller, the permutation used is the one
\* that looking for it after the batches were driven would have given.
SpeculationIsTransparent ==
    OneWayOfSetting /\ phase \in {"replay", "done"} /\ job.out.ok =>
        perm = Permutation(script, FactorySites(script, job.driven[1].key))

\* A layout that is given out is complete: every registration of every batch has
\* a cell of its own, and none has that of the metadata, although a later
\* registration may take the slot of an earlier one and only the number of
\* cells left is checked.
EveryProbePlaced ==
    phase = "done" /\ result.ok =>
        LET at(c) == result.placed[c[1]][c[2]]
        IN  /\ \A c \in Registrations : at(c) \in DOMAIN cells \ {result.metadata}
            /\ \A c, d \in Registrations : at(c) = at(d) => c = d

\* What is given out is what was looked for, guessed or not, and complete.
LayoutIsRight == SpeculationIsTransparent /\ EveryProbePlaced
=============================================================================
