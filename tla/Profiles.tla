------------------------------ MODULE Profiles ------------------------------
(***************************************************************************)
(* Start-up loading of the device profiles: load() and pair() of           *)
(* src/utils/profiles.rs.  Two paged listings run side by side; every      *)
(* listed object is fetched by a task of its own, at most Concurrency at a *)
(* time; what could be parsed is collected in the order the tasks end and  *)
(* then paired across the two buckets.                                     *)
(*                                                                         *)
(* An object is a model value with the bucket it is in, the time it was    *)
(* collected and its user agent and renderer as one identity.              *)
(***************************************************************************)
EXTENDS Integers, Sequences, FiniteSets, SequencesExt

CONSTANTS
    Objects,      \* keys in the buckets
    BucketOf,     \* "px" or "reese"
    Times,        \* functions that give each object its collected_ms
    DeviceOf,     \* user agent and renderer
    IsJson,       \* does the key end in ".json"?
    PagesOf,      \* PagesOf[b]: the pages of b's listing, each a set of objects
    Concurrency,  \* CONCURRENCY: permits of the gate
    Window        \* PAIR_WINDOW_MS

Buckets == {"px", "reese"}
None == "none"    \* Option::None of an object

ASSUME ObjectsAssumption ==
    /\ IsFiniteSet(Objects)
    /\ BucketOf \in [Objects -> Buckets]
    /\ Times \subseteq [Objects -> Nat]
    /\ IsJson \in [Objects -> BOOLEAN]
    /\ PagesOf \in [Buckets -> Seq(SUBSET Objects)]
    /\ \A b \in Buckets : Len(PagesOf[b]) > 0
    /\ None \notin Objects

ASSUME BoundsAssumption == Concurrency \in Nat \ {0} /\ Window \in Nat

VARIABLES
    TimeOf,   \* when each object was collected
    pc,       \* load(): "start", "listing", "collecting", "done"
    page,     \* pages read of each listing
    listed,   \* keys found in each listing
    job,      \* the task of each object
    permits,  \* permits left in the gate
    parsed,   \* what was collected of each bucket, in order
    result    \* [status, devices]

vars == <<TimeOf, pc, page, listed, job, permits, parsed, result>>

JobStates == {"none", "queued", "running", "some", "nothing", "panicked", "joined", "aborted"}
NoResult == [status |-> "none", devices |-> {}]

Init ==
    /\ TimeOf \in Times
    /\ pc = "start"
    /\ page = [b \in Buckets |-> 0]
    /\ listed = [b \in Buckets |-> {}]
    /\ job = [o \in Objects |-> "none"]
    /\ permits = Concurrency
    /\ parsed = [b \in Buckets |-> <<>>]
    /\ result = NoResult

\* The credentials are read and the client is built, or load() ends here.
Start ==
    /\ pc = "start"
    /\ \/ pc' = "listing" /\ UNCHANGED result
       \/ /\ pc' = "done"
          /\ \E why \in {"env", "s3"} : result' = [NoResult EXCEPT !.status = why]
    /\ UNCHANGED <<TimeOf, page, listed, job, permits, parsed>>

----------------------------------------------------------------------------
(* list(), twice, under try_join! *)

\* The last page read was not truncated.
Complete(b) == page[b] = Len(PagesOf[b])

\* A page arrives; the listing goes on while the page says it is truncated.
ReadPage(b) ==
    /\ pc = "listing" /\ ~Complete(b)
    /\ page' = [page EXCEPT ![b] = @ + 1]
    /\ listed' = [listed EXCEPT ![b] = @ \cup PagesOf[b][page[b] + 1]]
    /\ UNCHANGED <<TimeOf, pc, job, permits, parsed, result>>

\* A listing fails (transport, status, malformed XML): load() fails at once.
ListingFails(b) ==
    /\ pc = "listing" /\ ~Complete(b)
    /\ pc' = "done"
    /\ result' = [NoResult EXCEPT !.status = "s3"]
    /\ UNCHANGED <<TimeOf, page, listed, job, permits, parsed>>

\* Both listings are in: a task is spawned for every key that ends in .json.
Spawn ==
    /\ pc = "listing" /\ \A b \in Buckets : Complete(b)
    /\ pc' = "collecting"
    /\ job' = [o \in Objects |->
                 IF o \in listed[BucketOf[o]] /\ IsJson[o] THEN "queued" ELSE "none"]
    /\ UNCHANGED <<TimeOf, page, listed, permits, parsed, result>>

----------------------------------------------------------------------------
(* The task of an object *)

\* acquire_owned(): the task may fetch.
Acquire(o) ==
    /\ job[o] = "queued" /\ permits > 0
    /\ permits' = permits - 1
    /\ job' = [job EXCEPT ![o] = "running"]
    /\ UNCHANGED <<TimeOf, pc, page, listed, parsed, result>>

\* Mutant: a fetch that failed is queued again, without end.
FetchedRetrying(o) ==
    /\ job[o] = "running"
    /\ \E outcome \in {"some", "queued"} :
         job' = [job EXCEPT ![o] = outcome]
    /\ permits' = permits + 1
    /\ UNCHANGED <<TimeOf, pc, page, listed, parsed, result>>

\* The object is parsed, or could not be fetched or parsed, or parsing panicked;
\* the permit is dropped whichever it is.
Fetched(o) ==
    /\ job[o] = "running"
    /\ \E outcome \in {"some", "nothing", "panicked"} :
         job' = [job EXCEPT ![o] = outcome]
    /\ permits' = permits + 1
    /\ UNCHANGED <<TimeOf, pc, page, listed, parsed, result>>

----------------------------------------------------------------------------
(* join_next() *)

\* A task that ended is collected.  A panic fails the load, and dropping the
\* set aborts the tasks that are left.
Join(o) ==
    /\ pc = "collecting"
    /\ \/ /\ job[o] \in {"some", "nothing"}
          /\ parsed' = IF job[o] = "some"
                         THEN [parsed EXCEPT ![BucketOf[o]] = Append(@, o)]
                         ELSE parsed
          /\ job' = [job EXCEPT ![o] = "joined"]
          /\ UNCHANGED <<pc, permits, result>>
       \/ /\ job[o] = "panicked"
          /\ pc' = "done"
          /\ result' = [NoResult EXCEPT !.status = "join"]
          /\ job' = [x \in Objects |-> IF job[x] = "none" THEN "none" ELSE "aborted"]
          /\ permits' = Concurrency
          /\ UNCHANGED parsed
    /\ UNCHANGED <<TimeOf, page, listed>>

----------------------------------------------------------------------------
(* pair() *)

Distance(a, b) == IF TimeOf[a] >= TimeOf[b] THEN TimeOf[a] - TimeOf[b] ELSE TimeOf[b] - TimeOf[a]

\* What sort_unstable_by_key may make of s, whose members differ: objects
\* collected at the same time come in any order.
Sorted(s) ==
    {t \in [DOMAIN s -> ToSet(s)] :
        /\ ToSet(t) = ToSet(s)
        /\ \A i, j \in DOMAIN t : i < j => t[i] # t[j] /\ TimeOf[t[i]] <= TimeOf[t[j]]}

\* The partners still free for px profile p, within the window on either side.
Candidates(p, rs, taken) ==
    {i \in DOMAIN rs : /\ i \notin taken
                       /\ DeviceOf[rs[i]] = DeviceOf[p]
                       /\ Distance(p, rs[i]) <= Window}

\* Mutant: the first candidate is taken, not the nearest.
BestIsFirst(p, rs, taken) ==
    LET c == Candidates(p, rs, taken)
    IN  IF c = {} THEN 0 ELSE CHOOSE i \in c : \A j \in c : i <= j

\* The nearest one, the earlier of two equally near; 0 for none.
Best(p, rs, taken) ==
    LET c == Candidates(p, rs, taken)
        nearest == {i \in c : \A j \in c : Distance(p, rs[i]) <= Distance(p, rs[j])}
    IN  IF c = {} THEN 0 ELSE CHOOSE i \in nearest : \A j \in nearest : i <= j

\* The devices made of the sorted profiles: each px profile in turn with its
\* best partner, then the reese profiles that are left.  (The code sorts them by
\* time in the end, which a set of devices leaves out.)
Pair(ps, rs) ==
    LET taken[n \in 0 .. Len(ps)] ==
          IF n = 0 THEN {} ELSE taken[n - 1] \cup {Best(ps[n], rs, taken[n - 1])}
        partner(n) == Best(ps[n], rs, taken[n - 1])
    IN  {[px |-> ps[n], reese |-> IF partner(n) = 0 THEN None ELSE rs[partner(n)]] :
            n \in DOMAIN ps}
        \cup {[px |-> None, reese |-> rs[i]] : i \in DOMAIN rs \ taken[Len(ps)]}

\* Every task is joined: nothing usable is an error, anything else is paired.
Finish ==
    /\ pc = "collecting"
    /\ \A o \in Objects : job[o] \in {"none", "joined"}
    /\ pc' = "done"
    /\ \/ /\ parsed["px"] = <<>> /\ parsed["reese"] = <<>>
          /\ result' = [NoResult EXCEPT !.status = "empty"]
       \/ /\ parsed["px"] # <<>> \/ parsed["reese"] # <<>>
          /\ \E ps \in Sorted(parsed["px"]), rs \in Sorted(parsed["reese"]) :
               result' = [status |-> "ok", devices |-> Pair(ps, rs)]
    /\ UNCHANGED <<TimeOf, page, listed, job, permits, parsed>>

Loaded == pc = "done" /\ UNCHANGED vars

JobStep(o) == Acquire(o) \/ Fetched(o) \/ Join(o)

ListStep == \E b \in Buckets : ReadPage(b) \/ ListingFails(b)

Next ==
    \/ Start
    \/ ListStep
    \/ Spawn
    \/ \E o \in Objects : JobStep(o)
    \/ Finish
    \/ Loaded

Spec == Init /\ [][Next]_vars

\* Requests to the store end (the client has a timeout) and tasks are polled;
\* join_next() sees every task that ended.
FairSpec == Spec /\ WF_vars(Start) /\ WF_vars(ListStep) /\ WF_vars(Spawn)
                 /\ WF_vars(Finish) /\ \A o \in Objects : WF_vars(JobStep(o))

----------------------------------------------------------------------------

\* No more than Concurrency objects are fetched at once, and no permit is lost
\* to a fetch that failed or a parser that panicked.
PermitsBalance ==
    /\ permits \in 0 .. Concurrency
    /\ Cardinality({o \in Objects : job[o] = "running"}) + permits = Concurrency

Used(o) == {d \in result.devices : o \in {d.px, d.reese}}

\* A successful load accounts for everything: all pages of both listings were
\* read, and an object that was parsed is in exactly one device, one that was
\* not is in none.
NothingLost ==
    result.status = "ok" =>
        /\ \A b \in Buckets : listed[b] = UNION {PagesOf[b][i] : i \in DOMAIN PagesOf[b]}
        /\ \A o \in Objects :
             Cardinality(Used(o)) = IF o \in ToSet(parsed[BucketOf[o]]) THEN 1 ELSE 0

Unpaired(b) == {o \in Objects : \E d \in Used(o) : d[b] = o /\ None \in {d.px, d.reese}}
Fits(p, r) == DeviceOf[p] = DeviceOf[r] /\ Distance(p, r) <= Window

\* Whatever order the tasks ended in, and however ties were sorted: partners are
\* of one device and within the window; no two that would fit are left apart;
\* and no partner was passed over for one farther away.
PairingIsTight ==
    /\ \A d \in result.devices : None \notin {d.px, d.reese} => Fits(d.px, d.reese)
    /\ \A p \in Unpaired("px"), r \in Unpaired("reese") : ~Fits(p, r)
    /\ \A d \in result.devices, r \in Unpaired("reese") :
          None \notin {d.px, d.reese} /\ Fits(d.px, r) =>
              Distance(d.px, d.reese) <= Distance(d.px, r)

\* The service gets its profiles or a reason why not: loading ends.
LoadEnds == <>(pc = "done")

\* A load neither loses nor makes up anything, permits included.
LoadIsExact == PermitsBalance /\ NothingLost /\ PairingIsTight
=============================================================================
