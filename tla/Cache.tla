------------------------------- MODULE Cache -------------------------------
(***************************************************************************)
(* The single-flight, stale-while-revalidate cache of the worktime service *)
(* (src/worktime/cache.rs) together with the life of the fetch task it     *)
(* spawns (fetch::fetch in src/worktime/fetch.rs).                         *)
(*                                                                         *)
(* Requests run `Cache::resolve` on the worker threads of the HTTP server; *)
(* every claimed flight is a tokio task running `run`.  A step is what one *)
(* of them does between two points where another can get in: one critical  *)
(* section of the table's RwLock, one reading of the clock, the work       *)
(* between two awaits, one operation on the watch channel.                 *)
(*                                                                         *)
(* Data is abstracted to identities: a host's spelling is an element of    *)
(* Domains, and the value a flight extracts is named by the flight's       *)
(* generation, which is unique.                                            *)
(***************************************************************************)
EXTENDS Integers

CONSTANTS
    Domains,         \* host spellings a request may carry
    Lower,           \* Lower[d]: the ASCII-lowercased spelling of d
    Requests,        \* calls of resolve
    Lifetimes,       \* <<fresh, stale>> spans that lifetime() may grant
    MaxTime,         \* bound: last instant of the monotonic clock
    MaxGeneration,   \* bound: number of flights ever opened
    MayDropUnpolled  \* may a runtime drop a spawned task before its first poll?

ASSUME LowerAssumption ==
    /\ Domains # {}
    /\ Lower \in [Domains -> Domains]
    /\ \A d \in Domains : Lower[Lower[d]] = Lower[d]

\* What lifetime() guarantees of the Some(Lifetime) it returns: it has returned
\* None when stale_total <= age, and ttl <= stale_total.
ASSUME LifetimesAssumption ==
    \A l \in Lifetimes : /\ l \in Nat \X Nat
                         /\ l[1] <= l[2]
                         /\ l[2] > 0

ASSUME BoundsAssumption ==
    /\ MaxTime \in Nat
    /\ MaxGeneration \in Nat
    /\ MayDropUnpolled \in BOOLEAN

VARIABLES
    now,      \* the monotonic clock, Instant::now()
    slots,    \* keys of Table.slots
    entry,    \* Slot.entry of each key (NoEntry: None)
    flight,   \* generation of Slot.flight of each key (NoGen: None)
    nextGen,  \* Table.next_generation
    task,     \* the task of each generation, with its watch channel
    req       \* the state of each call of resolve

vars == <<now, slots, entry, flight, nextGen, task, req>>

----------------------------------------------------------------------------
(* The shape of the state. *)

Gens == 0 .. MaxGeneration - 1
NoGen == -1
NoEntry == [gen |-> NoGen, fresh |-> 0, stale |-> 0]

\* Where a task is: not opened; opened by claim but not yet spawned; spawned;
\* awaiting the response; awaiting the body; about to settle; settled; its
\* watch channel holding an outcome; its sender dropped without one; dropped
\* unpolled, with neither settle nor outcome.
TaskPCs == {"none", "opened", "spawned", "fetching", "body", "landing",
            "settled", "sent", "closed", "orphaned"}

\* How a task ended: Ok with a lifetime, Ok without one, Err, or unwound or
\* cancelled (the Abandon guard).
Kinds == {"pending", "cached", "uncached", "failed", "aborted"}

NoTask == [pc |-> "none", key |-> CHOOSE d \in Domains : TRUE, kind |-> "pending",
           received |-> 0, fresh |-> 0, stale |-> 0]

\* Where a call of resolve is: not started; about to take the read lock; about
\* to take the write lock; about to spawn; awaiting the flight; returned; its
\* future dropped by the server.
ReqPCs == {"idle", "planning", "claiming", "launching", "waiting", "answered", "gone"}

Results == {"none", "ok", "failed", "aborted"}

NoReq == [pc |-> "idle", domain |-> CHOOSE d \in Domains : TRUE, now |-> 0,
          gen |-> NoGen, res |-> "none", val |-> NoGen,
          before |-> {}]

\* A request keeps one history: the generations already over when it arrived.
EntryType == [gen : Gens \cup {NoGen}, fresh : Nat, stale : Nat]
TaskType == [pc : TaskPCs, key : Domains, kind : Kinds,
             received : Nat, fresh : Nat, stale : Nat]
ReqType == [pc : ReqPCs, domain : Domains, now : Nat,
            gen : Gens \cup {NoGen}, res : Results, val : Gens \cup {NoGen},
            before : SUBSET Gens]

\* Type correctness of the table, the tasks and the requests; the generation
\* counter of Table never passes the bound, so `generation + 1` stays in range.
TypeOK ==
    /\ now \in 0 .. MaxTime
    /\ slots \subseteq Domains
    /\ entry \in [Domains -> EntryType]
    /\ flight \in [Domains -> Gens \cup {NoGen}]
    /\ nextGen \in 0 .. MaxGeneration
    /\ task \in [Gens -> TaskType]
    /\ req \in [Requests -> ReqType]

Init ==
    /\ now = 0
    /\ slots = {}
    /\ entry = [k \in Domains |-> NoEntry]
    /\ flight = [k \in Domains |-> NoGen]
    /\ nextGen = 0
    /\ task = [g \in Gens |-> NoTask]
    /\ req = [r \in Requests |-> NoReq]

----------------------------------------------------------------------------
(* Helpers. *)

\* A task whose flight is over: settled, or never to settle.
IsOver(g) == task[g].pc \in {"settled", "sent", "closed", "orphaned"}

\* A task that has not settled, from the moment claim opened its flight.
InFlight(g) == task[g].pc \in {"opened", "spawned", "fetching", "body", "landing",
                               "orphaned"}

\* Mutant: the host is not case-folded.
KeyOfVerbatim(d) == d

\* lower(): the key of the table for a spelling of the host.
KeyOf(d) == Lower[d]

\* Mutant: an entry is served at the very instant it expires.
PlanOffByOne(k, t) ==
    LET e == entry[k]
    IN  CASE e.gen # NoGen /\ t <= e.stale -> "serve"
          [] OTHER -> IF flight[k] # NoGen THEN "join" ELSE "fetch"

\* plan(): what the slot of key k has for a caller that read the clock at t.
\* An absent slot is NoEntry and NoGen, for which the answer is "fetch".
PlanOf(k, t) ==
    LET e == entry[k]
        f == flight[k]
    IN  CASE e.gen # NoGen /\ t < e.fresh -> "serve"
          [] e.gen # NoGen /\ e.fresh <= t /\ t < e.stale ->
                IF f # NoGen THEN "serve" ELSE "refresh"
          [] OTHER -> IF f # NoGen THEN "join" ELSE "fetch"

\* resolve returns Ok(value), the value of generation v.
AnswerOk(r, v) ==
    req' = [req EXCEPT ![r].pc = "answered", ![r].res = "ok", ![r].val = v]

\* wait() is entered with the receiver of generation g.
JoinFlight(r, g) ==
    req' = [req EXCEPT ![r].pc = "waiting", ![r].gen = g]

----------------------------------------------------------------------------
(* Cache::resolve *)

\* The request arrives; resolve reads the clock before it takes any lock, and
\* both critical sections below plan with that reading.
Arrive(r, d) ==
    /\ req[r].pc = "idle"
    /\ req' = [req EXCEPT ![r] =
                 [NoReq EXCEPT !.pc = "planning", !.domain = d, !.now = now,
                               !.before = {g \in Gens : IsOver(g)}]]
    /\ UNCHANGED <<now, slots, entry, flight, nextGen, task>>

\* The first plan, under the read lock.
PlanStep(r) ==
    /\ req[r].pc = "planning"
    /\ LET k == KeyOf(req[r].domain)
           p == PlanOf(k, req[r].now)
       IN  \/ p = "serve" /\ AnswerOk(r, entry[k].gen)
           \/ p = "join" /\ JoinFlight(r, flight[k])
           \/ p \in {"refresh", "fetch"} /\ req' = [req EXCEPT ![r].pc = "claiming"]
    /\ UNCHANGED <<now, slots, entry, flight, nextGen, task>>

\* open(): a new flight of key k, with the channel that task g will answer on.
Open(k, g) ==
    /\ slots' = slots \cup {k}
    /\ flight' = [flight EXCEPT ![k] = g]
    /\ nextGen' = g + 1
    /\ task' = [task EXCEPT ![g].pc = "opened", ![g].key = k]

\* Mutant: claim opens a flight without planning again.
ClaimBlindly(r) ==
    /\ req[r].pc = "claiming"
    /\ nextGen < MaxGeneration
    /\ Open(KeyOf(req[r].domain), nextGen)
    /\ req' = [req EXCEPT ![r].pc = "launching", ![r].gen = nextGen]
    /\ UNCHANGED <<now, entry>>

\* claim(): the second plan, under the write lock.  The slot is inserted first;
\* when it was absent the plan is "fetch", which fills it.
ClaimStep(r) ==
    /\ req[r].pc = "claiming"
    /\ LET k == KeyOf(req[r].domain)
           p == PlanOf(k, req[r].now)
       IN  \/ /\ p = "serve" /\ AnswerOk(r, entry[k].gen)
              /\ slots' = slots \cup {k}
              /\ UNCHANGED <<flight, nextGen, task>>
           \/ /\ p = "join" /\ JoinFlight(r, flight[k])
              /\ slots' = slots \cup {k}
              /\ UNCHANGED <<flight, nextGen, task>>
           \/ /\ p \in {"refresh", "fetch"}
              /\ nextGen < MaxGeneration
              /\ Open(k, nextGen)
              /\ req' = [req EXCEPT ![r].pc = "launching", ![r].gen = nextGen,
                           ![r].val = IF p = "refresh" THEN entry[k].gen ELSE NoGen]
    /\ UNCHANGED <<now, entry>>

\* launch(): the task is spawned.  A refresher returns the stale value it took
\* under the lock; a fetcher waits on its own flight.
LaunchStep(r) ==
    /\ req[r].pc = "launching"
    /\ task' = [task EXCEPT ![req[r].gen].pc = "spawned"]
    /\ IF req[r].val # NoGen THEN AnswerOk(r, req[r].val)
                             ELSE JoinFlight(r, req[r].gen)
    /\ UNCHANGED <<now, slots, entry, flight, nextGen>>

\* wait(): the channel of the flight has an outcome, or has lost its sender.
Wake(r) ==
    /\ req[r].pc = "waiting"
    /\ LET g == req[r].gen
       IN  \/ /\ task[g].pc = "sent"
              /\ task[g].kind \in {"cached", "uncached"}
              /\ AnswerOk(r, g)
           \/ /\ task[g].pc = "sent"
              /\ task[g].kind = "failed"
              /\ req' = [req EXCEPT ![r].pc = "answered", ![r].res = "failed"]
           \/ /\ task[g].pc \in {"closed", "orphaned"}
              /\ req' = [req EXCEPT ![r].pc = "answered", ![r].res = "aborted"]
    /\ UNCHANGED <<now, slots, entry, flight, nextGen, task>>

\* The client goes away; the server drops the future at its only await.
Disconnect(r) ==
    /\ req[r].pc = "waiting"
    /\ req' = [req EXCEPT ![r] = [NoReq EXCEPT !.pc = "gone"]]
    /\ UNCHANGED <<now, slots, entry, flight, nextGen, task>>

----------------------------------------------------------------------------
(* run(), the task of one flight, and fetch() inside it *)

\* First poll: the Abandon guard is armed and the request is sent.
Poll(g) ==
    /\ task[g].pc = "spawned"
    /\ task' = [task EXCEPT ![g].pc = "fetching"]
    /\ UNCHANGED <<now, slots, entry, flight, nextGen, req>>

\* The response's head is in: `received` is read before the body is awaited.
Respond(g) ==
    /\ task[g].pc = "fetching"
    /\ task' = [task EXCEPT ![g].pc = "body", ![g].received = now]
    /\ UNCHANGED <<now, slots, entry, flight, nextGen, req>>

\* fetch() ends in an error: a malformed URL, a transport error or timeout, a
\* status or content type it refuses, a body that is empty or not extractable.
FetchFails(g) ==
    /\ task[g].pc \in {"fetching", "body"}
    /\ task' = [task EXCEPT ![g].pc = "landing", ![g].kind = "failed", ![g].received = 0]
    /\ UNCHANGED <<now, slots, entry, flight, nextGen, req>>

\* Mutant: the age is subtracted from the time to live without saturating.
SucceedUnsaturated(g) ==
    /\ task[g].pc = "body"
    /\ \E l \in Lifetimes :
         task' = [task EXCEPT ![g].pc = "landing", ![g].kind = "cached",
                              ![g].fresh = task[g].received + l[1] - 1,
                              ![g].stale = task[g].received + l[2]]
    /\ UNCHANGED <<now, slots, entry, flight, nextGen, req>>

\* The body is in and extracted; lifetime() counts from `received`, or is None.
FetchSucceeds(g) ==
    /\ task[g].pc = "body"
    /\ \/ \E l \in Lifetimes :
            task' = [task EXCEPT ![g].pc = "landing", ![g].kind = "cached",
                                 ![g].fresh = task[g].received + l[1],
                                 ![g].stale = task[g].received + l[2],
                                 ![g].received = 0]
       \/ task' = [task EXCEPT ![g].pc = "landing", ![g].kind = "uncached",
                               ![g].received = 0]
    /\ UNCHANGED <<now, slots, entry, flight, nextGen, req>>

\* Mutant: no guard, so an unwound task never settles.
AbandonUnguarded(g) ==
    /\ task[g].pc \in {"fetching", "body"}
    /\ task' = [task EXCEPT ![g].pc = "settled", ![g].kind = "aborted"]
    /\ UNCHANGED <<now, slots, entry, flight, nextGen, req>>

\* The task is unwound by a panic, or dropped at an await: the guard runs.
Abandon(g) ==
    /\ task[g].pc \in {"fetching", "body"}
    /\ task' = [task EXCEPT ![g].pc = "landing", ![g].kind = "aborted", ![g].received = 0]
    /\ UNCHANGED <<now, slots, entry, flight, nextGen, req>>

\* The task is dropped before its first poll: there is no guard yet, only the
\* sender goes, and the flight stays in its slot.
DropUnpolled(g) ==
    /\ MayDropUnpolled
    /\ task[g].pc = "spawned"
    /\ task' = [task EXCEPT ![g].pc = "orphaned", ![g].kind = "aborted"]
    /\ UNCHANGED <<now, slots, entry, flight, nextGen, req>>

\* Mutant: a failure drops the entry it meant to refresh.
SettledEntryDropping(g, e) ==
    IF task[g].kind = "cached"
      THEN [gen |-> g, fresh |-> task[g].fresh, stale |-> task[g].stale]
      ELSE NoEntry

\* settle(), the three arms: what becomes of the slot's entry e.
SettledEntry(g, e) ==
    LET newer == e.gen > g
        t == task[g]
    IN  CASE t.kind = "cached" ->
               IF newer THEN e ELSE [gen |-> g, fresh |-> t.fresh, stale |-> t.stale]
          [] t.kind = "uncached" -> IF newer THEN e ELSE NoEntry
          [] OTHER -> IF now >= e.stale THEN NoEntry ELSE e

\* Mutant: the flight of a failed task is left in its slot.
SettledFlightKept(g, f) ==
    IF f = g /\ task[g].kind \in {"cached", "uncached"} THEN NoGen ELSE f

\* settle(): what becomes of the slot's flight f.
SettledFlight(g, f) == IF f = g THEN NoGen ELSE f

\* Mutant: an emptied slot is left in the table.
SettleKeepingSlot(g) ==
    /\ task[g].pc = "landing"
    /\ task' = [task EXCEPT ![g].pc = "settled"]
    /\ entry' = [entry EXCEPT ![task[g].key] = SettledEntry(g, @)]
    /\ flight' = [flight EXCEPT ![task[g].key] = SettledFlight(g, @)]
    /\ UNCHANGED <<now, slots, nextGen, req>>

\* settle(), under the write lock: the flight is cleared, the entry updated,
\* and a slot left with neither is removed.
Settle(g) ==
    /\ task[g].pc = "landing"
    /\ task' = [task EXCEPT ![g].pc = "settled"]
    /\ LET k == task[g].key
           e == SettledEntry(g, entry[k])
           f == SettledFlight(g, flight[k])
       IN  IF k \notin slots
             THEN UNCHANGED <<slots, entry, flight>>
             ELSE /\ entry' = [entry EXCEPT ![k] = e]
                  /\ flight' = [flight EXCEPT ![k] = f]
                  /\ slots' = IF e.gen = NoGen /\ f = NoGen THEN slots \ {k} ELSE slots
    /\ UNCHANGED <<now, nextGen, req>>

\* The end of run(): the outcome is sent.  An abandoned task drops its sender.
Publish(g) ==
    /\ task[g].pc = "settled"
    /\ task' = [task EXCEPT ![g].pc = IF task[g].kind = "aborted" THEN "closed" ELSE "sent"]
    /\ UNCHANGED <<now, slots, entry, flight, nextGen, req>>

----------------------------------------------------------------------------
(* The environment and the specification. *)

Tick ==
    /\ now < MaxTime
    /\ now' = now + 1
    /\ UNCHANGED <<slots, entry, flight, nextGen, task, req>>

\* Every request has its answer and every task is over: the server idles.
Idle ==
    /\ \A r \in Requests : req[r].pc \in {"answered", "gone"}
    /\ \A g \in Gens : task[g].pc \in {"none", "sent", "closed", "orphaned"}
    /\ UNCHANGED vars

RequestStep(r) == PlanStep(r) \/ ClaimStep(r) \/ LaunchStep(r) \/ Wake(r)

FetchStep(g) == Poll(g) \/ Respond(g) \/ FetchFails(g) \/ FetchSucceeds(g)

TaskStep(g) == FetchStep(g) \/ Settle(g) \/ Publish(g)

Next ==
    \/ \E r \in Requests, d \in Domains : Arrive(r, d)
    \/ \E r \in Requests : RequestStep(r) \/ Disconnect(r)
    \/ \E g \in Gens : TaskStep(g) \/ Abandon(g) \/ DropUnpolled(g)
    \/ Tick
    \/ Idle

Spec == Init /\ [][Next]_vars

\* A worker polls the futures it owns, and a fetch ends: the client has a
\* timeout.  Nothing makes requests arrive, clients leave or tasks panic.
Fairness ==
    /\ \A r \in Requests : WF_vars(RequestStep(r))
    /\ \A g \in Gens : WF_vars(TaskStep(g))

FairSpec == Spec /\ Fairness

----------------------------------------------------------------------------
(* Safety *)

\* At most one fetch of a host is ever under way, however its name is spelled
\* and however many requests race between the read and the write lock.
SingleFlight ==
    \A g, h \in Gens :
        InFlight(g) /\ InFlight(h) /\ Lower[task[g].key] = Lower[task[h].key] => g = h

\* The guard `newer` of settle never has to fire: a task that has yet to settle
\* is younger than the entry of its host, so no entry is ever overtaken.
SettleInOrder ==
    \A g \in Gens : InFlight(g) => entry[task[g].key].gen < g

\* The table holds no slot that is empty: a slot exists exactly while its host
\* has an entry or a flight, so failures do not make the table grow.
NoEmptySlot ==
    slots = {k \in Domains : entry[k].gen # NoGen \/ flight[k] # NoGen}

\* A value is given out only if it had not expired when the request read the
\* clock, or if it landed while the request was being served.
FreshEnough ==
    \A r \in Requests : req[r].res = "ok" =>
        LET t == task[req[r].val]
        IN  \/ req[r].val \notin req[r].before
            \/ t.kind = "cached" /\ req[r].now < t.stale

\* A request is never given an older value than one that had landed for its host
\* when it arrived, be it one that may not be stored: an entry does not outlive
\* the response that was fetched to replace it.
ReadsLatest ==
    \A r \in Requests : req[r].res = "ok" =>
        \A g \in req[r].before :
            task[g].key = Lower[req[r].domain] /\ task[g].kind \in {"cached", "uncached"}
                => req[r].val >= g

\* An error is never cached: the flight it comes from was still under way when
\* the request arrived.
FailureIsCurrent ==
    \A r \in Requests :
        req[r].res \in {"failed", "aborted"} =>
            req[r].gen \notin req[r].before

\* What a request is given, value or error, is what it would be given now.
AnswersAreCurrent == ReadsLatest /\ FailureIsCurrent

----------------------------------------------------------------------------
(* Liveness *)

\* Every request is answered (or its client leaves): nobody waits for ever,
\* whatever happens to the task he waits for.
EveryRequestAnswered ==
    \A r \in Requests :
        req[r].pc = "planning" ~> req[r].pc \in {"answered", "gone"}

\* Every flight lands: no host is left behind a fetch that is over, even when
\* the fetch panicked or was cancelled.  The one exception is a task that the
\* runtime dropped before its first poll.
FlightLands ==
    \A k \in Domains :
        flight[k] # NoGen ~>
            flight[k] = NoGen \/ \E g \in Gens : task[g].key = k /\ task[g].pc = "orphaned"

\* Whatever was begun, by a client or for one, ends.
NothingHangs == EveryRequestAnswered /\ FlightLands

----------------------------------------------------------------------------
(* Refinement.  A fetch lands when its task settles; a call is answered when
   its value is fixed, which for a refresher is under the write lock, before it
   spawns the task. *)

OutcomeOf(g) ==
    IF ~IsOver(g) THEN "none"
    ELSE IF task[g].kind \in {"cached", "uncached"} THEN "ok" ELSE task[g].kind

IsAnswered(r) ==
    \/ req[r].pc = "answered"
    \/ req[r].pc = "launching" /\ req[r].val # NoGen

CallOf(r) ==
    LET q == req[r]
        ok == q.pc = "launching" \/ q.res = "ok"
    IN  [pc |-> IF q.pc = "idle" THEN "idle" ELSE IF q.pc = "gone" THEN "left"
                ELSE IF IsAnswered(r) THEN "done" ELSE "open",
         host |-> IF q.pc \in {"idle", "gone"} THEN NoGen ELSE Lower[q.domain],
         since |-> q.now,
         before |-> q.before,
         outcome |-> IF ~IsAnswered(r) THEN "none" ELSE IF ok THEN "ok" ELSE q.res,
         gen |-> IF ~IsAnswered(r) THEN NoGen ELSE IF ok THEN q.val ELSE q.gen]

\* The contract's hosts are the keys of the table.
Hosts == {Lower[d] : d \in Domains}

StoredOf == [h \in Hosts |-> [gen |-> entry[h].gen, expires |-> entry[h].stale]]

LandedOf == [g \in Gens |-> [host |-> IF IsOver(g) THEN Lower[task[g].key] ELSE NoGen,
                             outcome |-> OutcomeOf(g)]]

CallsOf == [r \in Requests |-> CallOf(r)]

Contract == INSTANCE CacheContract WITH
    None <- NoGen, clock <- now, stored <- StoredOf, landed <- LandedOf, call <- CallsOf

\* The cache implements its contract: every answer is the unexpired stored value
\* or the outcome of a fetch that landed during the call, over all
\* interleavings of requests, refreshes, failures and abandoned tasks.
ImplementsContract == Contract!Spec
=============================================================================
