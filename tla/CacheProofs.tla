---------------------------- MODULE CacheProofs ----------------------------
(***************************************************************************)
(* Proofs about Cache, for any number of hosts, requests, flights and      *)
(* lifetimes and any clock bound: the table, its tasks and its waiters     *)
(* first, whether or not tasks may be dropped unpolled; then what          *)
(* Cache::resolve answers, and that Cache implements CacheContract; at the *)
(* end how long a response may be cached (Lifetime), for headers of any    *)
(* length and any cap.                                                     *)
(***************************************************************************)
EXTENDS Cache, Lifetime, SequenceTheorems, WellFoundedInduction, TLAPS

(* The inductive invariant of the table *)

\* A slot's flight is the task that has yet to settle, and conversely; keys are
\* lowered spellings; generations at or above the counter are unused.
FlightsMatch ==
    /\ \A g \in Gens : task[g].pc # "none" => g < nextGen
    /\ \A g \in Gens : InFlight(g) => flight[task[g].key] = g
    /\ \A k \in Domains : flight[k] # NoGen =>
          /\ InFlight(flight[k])
          /\ task[flight[k]].key = k
    /\ \A g \in Gens : task[g].pc # "none" => Lower[task[g].key] = task[g].key

\* The stored entry is older than the flight, and has been given out by the
\* counter.
EntriesOlder ==
    \A k \in Domains :
        /\ entry[k].gen < nextGen
        /\ flight[k] # NoGen => entry[k].gen < flight[k]

\* A request about to spawn owns the flight it opened: the task is still as
\* claim left it, and no other request is about to spawn it.
LaunchersOwn ==
    \A r \in Requests : req[r].pc = "launching" =>
        /\ req[r].gen \in Gens
        /\ task[req[r].gen].pc = "opened"
        /\ \A s \in Requests : req[s].pc = "launching" /\ req[s].gen = req[r].gen => s = r

\* A request that waits, waits on a flight that was opened.
WaitersJoined ==
    \A r \in Requests : req[r].pc = "waiting" => req[r].gen \in Gens

IInv == TypeOK /\ FlightsMatch /\ EntriesOlder /\ NoEmptySlot /\ LaunchersOwn /\ WaitersJoined

----------------------------------------------------------------------------
(* Lemmas *)

\* A plan that opens a flight is made only when there is none.
LEMMA PlanOpens ==
    ASSUME NEW k \in Domains, NEW t,
           PlanOf(k, t) \in {"refresh", "fetch"}
    PROVE  flight[k] = NoGen
  BY DEF PlanOf

\* A plan that serves or refreshes has an entry to give; one that joins has a
\* flight.
LEMMA PlanHas ==
    ASSUME NEW k \in Domains, NEW t
    PROVE  /\ PlanOf(k, t) \in {"serve", "refresh"} => entry[k].gen # NoGen
           /\ PlanOf(k, t) = "join" => flight[k] # NoGen
  BY DEF PlanOf

\* Generations are naturals, NoGen is none of them, and the counter stays in its
\* bound when claim takes one.
LEMMA GensFacts == /\ Gens \subseteq Nat
                   /\ NoGen \notin Gens /\ NoGen \in Int
                   /\ \A n \in 0 .. MaxGeneration : n < MaxGeneration => n \in Gens
                   /\ \A g \in Gens : g + 1 \in 0 .. MaxGeneration
  BY BoundsAssumption DEF Gens, NoGen

\* Nothing is stored, in flight or asked for when the service starts.
LEMMA InitIInv == Init => IInv
  <1> SUFFICES ASSUME Init PROVE IInv
    OBVIOUS
  <1>0. (CHOOSE d \in Domains : TRUE) \in Domains
    BY LowerAssumption
  <1>1. TypeOK
    <2>1. NoEntry \in EntryType
      BY DEF NoEntry, EntryType
    <2>2. NoTask \in TaskType
      BY <1>0 DEF NoTask, TaskType, TaskPCs, Kinds
    <2>3. NoReq \in ReqType
      BY <1>0 DEF NoReq, ReqType, ReqPCs, Results
    <2>4. now \in 0 .. MaxTime /\ nextGen \in 0 .. MaxGeneration
      BY BoundsAssumption DEF Init
    <2>5. slots \subseteq Domains
      BY DEF Init
    <2>6. entry \in [Domains -> EntryType] /\ task \in [Gens -> TaskType]
      BY <2>1, <2>2 DEF Init
    <2>7. req \in [Requests -> ReqType]
      BY <2>3 DEF Init
    <2>8. flight \in [Domains -> Gens \cup {NoGen}]
      BY DEF Init
    <2> QED
      BY <2>4, <2>5, <2>6, <2>7, <2>8 DEF TypeOK
  <1>2. FlightsMatch
    BY DEF Init, FlightsMatch, InFlight, NoTask, NoGen
  <1>3. EntriesOlder
    <2>1. \A k \in Domains : entry[k].gen = NoGen /\ flight[k] = NoGen
      BY DEF Init, NoEntry
    <2>2. NoGen < nextGen
      BY DEF Init, NoGen
    <2> QED
      BY <2>1, <2>2 DEF EntriesOlder
  <1>4. NoEmptySlot
    BY DEF Init, NoEmptySlot, NoEntry, NoGen
  <1>5. LaunchersOwn /\ WaitersJoined
    BY DEF Init, LaunchersOwn, WaitersJoined, NoReq
  <1> QED
    BY <1>1, <1>2, <1>3, <1>4, <1>5 DEF IInv

----------------------------------------------------------------------------
(* Steps *)

\* A step of a task between its spawning and its settle moves only that task's
\* record, and leaves its flight open.
LEMMA TaskMove ==
    ASSUME IInv, NEW g \in Gens, NEW t \in TaskType,
           InFlight(g), task[g].pc # "opened",
           t.key = task[g].key,
           t.pc \in {"spawned", "fetching", "body", "landing", "orphaned"},
           task' = [task EXCEPT ![g] = t],
           UNCHANGED <<now, slots, entry, flight, nextGen, req>>
    PROVE  IInv'
  <1>0. /\ task'[g] = t
        /\ \A h \in Gens : h # g => task'[h] = task[h]
        /\ \A h \in Gens : task'[h].key = task[h].key
        /\ \A h \in Gens : InFlight(h)' <=> InFlight(h)
        /\ \A h \in Gens : task'[h].pc = "none" <=> task[h].pc = "none"
    BY DEF IInv, TypeOK, InFlight
  <1>1. TypeOK'
    BY DEF IInv, TypeOK
  <1>2. FlightsMatch'
    <2>1. \A h \in Gens : task'[h].pc # "none" => h < nextGen /\ Lower[task'[h].key] = task'[h].key
      BY <1>0 DEF IInv, FlightsMatch
    <2>2. \A h \in Gens : InFlight(h)' => flight[task'[h].key] = h
      BY <1>0 DEF IInv, FlightsMatch
    <2>3. \A k \in Domains : flight[k] # NoGen => flight[k] \in Gens
      BY DEF IInv, TypeOK
    <2>4. ASSUME NEW k \in Domains, flight[k] # NoGen
          PROVE  InFlight(flight[k])' /\ task'[flight[k]].key = k
      BY <1>0, <2>3, <2>4 DEF IInv, FlightsMatch, InFlight
    <2> QED
      BY <2>1, <2>2, <2>4 DEF FlightsMatch, InFlight
  <1>3. EntriesOlder' /\ NoEmptySlot' /\ WaitersJoined'
    BY DEF IInv, EntriesOlder, NoEmptySlot, WaitersJoined
  <1>4. LaunchersOwn'
    BY <1>0 DEF IInv, LaunchersOwn
  <1> QED
    BY <1>1, <1>2, <1>3, <1>4 DEF IInv

\* A step of a request that neither opens nor spawns a flight.
LEMMA RequestMove ==
    ASSUME IInv, NEW r \in Requests, NEW q \in ReqType,
           q.pc # "launching",
           q.pc = "waiting" => q.gen \in Gens,
           req' = [req EXCEPT ![r] = q],
           UNCHANGED <<now, slots, entry, flight, nextGen, task>>
    PROVE  IInv'
  <1>0. /\ req'[r] = q
        /\ \A s \in Requests : s # r => req'[s] = req[s]
    BY DEF IInv, TypeOK
  <1>1. TypeOK'
    BY DEF IInv, TypeOK
  <1>2. FlightsMatch' /\ EntriesOlder' /\ NoEmptySlot'
    BY DEF IInv, FlightsMatch, InFlight, EntriesOlder, NoEmptySlot
  <1>3. LaunchersOwn'
    BY <1>0 DEF IInv, LaunchersOwn
  <1>4. WaitersJoined'
    BY <1>0 DEF IInv, WaitersJoined
  <1> QED
    BY <1>1, <1>2, <1>3, <1>4 DEF IInv

\* claim opens a flight for a host that has none.
LEMMA OpenMove ==
    ASSUME IInv, NEW r \in Requests, NEW k \in Domains, NEW v \in Gens \cup {NoGen},
           Lower[k] = k, flight[k] = NoGen, nextGen < MaxGeneration,
           Open(k, nextGen),
           req' = [req EXCEPT ![r].pc = "launching", ![r].gen = nextGen, ![r].val = v],
           UNCHANGED <<now, entry>>
    PROVE  IInv'
  <1>g. nextGen \in Gens /\ nextGen + 1 \in 0 .. MaxGeneration /\ nextGen # NoGen /\ nextGen \in Nat
    BY GensFacts DEF IInv, TypeOK
  <1>0. /\ task[nextGen].pc = "none"
        /\ task'[nextGen].pc = "opened" /\ task'[nextGen].key = k
        /\ \A h \in Gens : h # nextGen => task'[h] = task[h]
        /\ flight'[k] = nextGen
        /\ \A j \in Domains : j # k => flight'[j] = flight[j]
        /\ nextGen' = nextGen + 1
        /\ slots' = slots \cup {k}
    <2>1. task[nextGen].pc = "none"
      BY <1>g DEF IInv, TypeOK, FlightsMatch
    <2> QED
      BY <1>g, <2>1 DEF IInv, TypeOK, Open
  <1>r. /\ req'[r].pc = "launching" /\ req'[r].gen = nextGen
        /\ \A s \in Requests : s # r => req'[s] = req[s]
    BY <1>g DEF IInv, TypeOK, ReqType
  <1>1. TypeOK'
    <2>1. req' \in [Requests -> ReqType]
      <3> DEFINE q == [req[r] EXCEPT !.pc = "launching", !.gen = nextGen, !.val = v]
      <3>1. req[r] \in ReqType
        BY DEF IInv, TypeOK
      <3>2. q \in ReqType
        BY <1>g, <3>1 DEF ReqType, ReqPCs
      <3>3. req' = [req EXCEPT ![r] = q]
        OBVIOUS
      <3> QED
        BY <3>2, <3>3 DEF IInv, TypeOK
    <2>2. task' \in [Gens -> TaskType]
      <3> DEFINE t == [task[nextGen] EXCEPT !.pc = "opened", !.key = k]
      <3>1. task[nextGen] \in TaskType
        BY <1>g DEF IInv, TypeOK
      <3>2. t \in TaskType
        BY <3>1 DEF TaskType, TaskPCs
      <3>3. task' = [task EXCEPT ![nextGen] = t]
        BY DEF Open
      <3> QED
        BY <3>2, <3>3 DEF IInv, TypeOK
    <2>3. flight' \in [Domains -> Gens \cup {NoGen}] /\ slots' \subseteq Domains
      BY <1>g DEF IInv, TypeOK, Open
    <2> QED
      BY <1>g, <1>0, <2>1, <2>2, <2>3 DEF IInv, TypeOK
  <1>2. FlightsMatch'
    <2>1. ASSUME NEW h \in Gens, task'[h].pc # "none"
          PROVE  h < nextGen' /\ Lower[task'[h].key] = task'[h].key
      BY <1>0, <1>g, <2>1, GensFacts DEF IInv, FlightsMatch
    <2>2. ASSUME NEW h \in Gens, InFlight(h)'
          PROVE  flight'[task'[h].key] = h
      <3>1. CASE h = nextGen
        BY <1>0, <3>1
      <3>2. CASE h # nextGen
        <4>1. InFlight(h) /\ task'[h].key = task[h].key /\ task[h].key \in Domains
          BY <1>0, <2>2, <3>2 DEF InFlight, IInv, TypeOK, TaskType
        <4>2. flight[task[h].key] = h /\ h # NoGen
          BY <4>1, GensFacts DEF IInv, FlightsMatch
        <4> QED
          BY <1>0, <4>1, <4>2
      <3> QED
        BY <3>1, <3>2
    <2>3. ASSUME NEW j \in Domains, flight'[j] # NoGen
          PROVE  InFlight(flight[j])' /\ task'[flight'[j]].key = j
      <3>1. CASE j = k
        BY <1>0, <3>1 DEF InFlight
      <3>2. CASE j # k
        <4>1. flight'[j] = flight[j] /\ flight[j] \in Gens
          BY <1>0, <2>3, <3>2 DEF IInv, TypeOK
        <4>2. InFlight(flight[j]) /\ task[flight[j]].key = j
          BY <2>3, <4>1 DEF IInv, FlightsMatch
        <4>3. flight[j] # nextGen
          BY <1>0, <4>2 DEF InFlight
        <4> QED
          BY <1>0, <4>1, <4>2, <4>3 DEF InFlight
      <3> QED
        BY <3>1, <3>2
    <2> QED
      BY <2>1, <2>2, <2>3 DEF FlightsMatch, InFlight
  <1>3. EntriesOlder'
    <2>1. \A j \in Domains : entry[j].gen \in Int
      BY GensFacts DEF IInv, TypeOK, EntryType
    <2> QED
      BY <1>0, <1>g, <2>1 DEF IInv, EntriesOlder
  <1>4. NoEmptySlot'
    BY <1>0, <1>g DEF IInv, NoEmptySlot
  <1>5. LaunchersOwn'
    <2>1. \A s \in Requests : s # r /\ req[s].pc = "launching" => req[s].gen # nextGen
      BY <1>0 DEF IInv, LaunchersOwn
    <2>2. ASSUME NEW s \in Requests, req'[s].pc = "launching"
          PROVE  /\ req'[s].gen \in Gens
                 /\ task'[req'[s].gen].pc = "opened"
                 /\ \A u \in Requests :
                       req'[u].pc = "launching" /\ req'[u].gen = req'[s].gen => u = s
      <3>1. CASE s = r
        BY <1>0, <1>r, <1>g, <2>1, <3>1
      <3>2. CASE s # r
        <4>1. req'[s] = req[s] /\ req[s].pc = "launching" /\ req[s].gen \in Gens
          BY <1>r, <2>2, <3>2 DEF IInv, LaunchersOwn
        <4>2. task[req[s].gen].pc = "opened" /\ req[s].gen # nextGen
          BY <2>1, <3>2, <4>1 DEF IInv, LaunchersOwn
        <4>3. ASSUME NEW u \in Requests, req'[u].pc = "launching", req'[u].gen = req'[s].gen
              PROVE  u = s
          <5>1. u # r
            BY <1>r, <4>1, <4>2, <4>3
          <5> QED
            BY <1>r, <4>1, <4>3, <5>1 DEF IInv, LaunchersOwn
        <4> QED
          BY <1>0, <4>1, <4>2, <4>3
      <3> QED
        BY <3>1, <3>2
    <2> QED
      BY <2>2 DEF LaunchersOwn
  <1>6. WaitersJoined'
    BY <1>r DEF IInv, WaitersJoined
  <1> QED
    BY <1>1, <1>2, <1>3, <1>4, <1>5, <1>6 DEF IInv

\* launch: the request's own task is spawned, and the request answers or waits.
LEMMA LaunchMove ==
    ASSUME IInv, NEW r \in Requests, LaunchStep(r)
    PROVE  IInv'
  <1> DEFINE g == req[r].gen
  <1>g. g \in Gens /\ task[g].pc = "opened" /\ req[r].pc = "launching"
    BY DEF LaunchStep, IInv, LaunchersOwn
  <1>0. /\ task'[g].pc = "spawned" /\ task'[g].key = task[g].key
        /\ \A h \in Gens : h # g => task'[h] = task[h]
        /\ \A h \in Gens : task'[h].key = task[h].key
        /\ \A h \in Gens : InFlight(h)' <=> InFlight(h)
        /\ \A h \in Gens : task'[h].pc = "none" <=> task[h].pc = "none"
        /\ UNCHANGED <<now, slots, entry, flight, nextGen>>
    BY <1>g DEF LaunchStep, IInv, TypeOK, TaskType, InFlight
  <1>q. \E q \in ReqType : /\ q.pc \in {"answered", "waiting"} /\ q.gen = g
                           /\ req' = [req EXCEPT ![r] = q]
    <2>1. req[r] \in ReqType
      BY DEF IInv, TypeOK
    <2>2. CASE req[r].val # NoGen
      <3> DEFINE q == [req[r] EXCEPT !.pc = "answered", !.res = "ok", !.val = req[r].val]
      <3>1. q \in ReqType /\ q.pc = "answered" /\ q.gen = g
        BY <2>1 DEF ReqType, ReqPCs, Results
      <3>2. req' = [req EXCEPT ![r] = q]
        BY <2>2 DEF LaunchStep, AnswerOk
      <3> QED
        BY <3>1, <3>2
    <2>3. CASE req[r].val = NoGen
      <3> DEFINE q == [req[r] EXCEPT !.pc = "waiting", !.gen = g]
      <3>1. q \in ReqType /\ q.pc = "waiting" /\ q.gen = g
        BY <2>1, <1>g DEF ReqType, ReqPCs
      <3>2. req' = [req EXCEPT ![r] = q]
        BY <2>3 DEF LaunchStep, JoinFlight
      <3> QED
        BY <3>1, <3>2
    <2> QED
      BY <2>2, <2>3
  <1>r. /\ req'[r].pc \in {"answered", "waiting"} /\ req'[r].gen = g
        /\ \A s \in Requests : s # r => req'[s] = req[s]
        /\ req' \in [Requests -> ReqType]
    BY <1>q DEF IInv, TypeOK
  <1>1. TypeOK'
    <2>1. task' \in [Gens -> TaskType]
      <3> DEFINE t == [task[g] EXCEPT !.pc = "spawned"]
      <3>1. t \in TaskType
        BY <1>g DEF IInv, TypeOK, TaskType, TaskPCs
      <3>2. task' = [task EXCEPT ![g] = t]
        BY DEF LaunchStep
      <3> QED
        BY <3>1, <3>2 DEF IInv, TypeOK
    <2> QED
      BY <1>0, <1>r, <2>1 DEF IInv, TypeOK
  <1>2. FlightsMatch'
    <2>1. \A h \in Gens : task'[h].pc # "none" => h < nextGen /\ Lower[task'[h].key] = task'[h].key
      BY <1>0 DEF IInv, FlightsMatch
    <2>2. \A h \in Gens : InFlight(h)' => flight[task'[h].key] = h
      BY <1>0 DEF IInv, FlightsMatch
    <2>3. ASSUME NEW k \in Domains, flight[k] # NoGen
          PROVE  InFlight(flight[k])' /\ task'[flight[k]].key = k
      <3>1. flight[k] \in Gens
        BY <2>3 DEF IInv, TypeOK
      <3>2. InFlight(flight[k]) /\ task[flight[k]].key = k
        BY <2>3 DEF IInv, FlightsMatch
      <3> QED
        BY <1>0, <3>1, <3>2 DEF InFlight
    <2> QED
      BY <1>0, <2>1, <2>2, <2>3 DEF FlightsMatch, InFlight
  <1>3. EntriesOlder' /\ NoEmptySlot'
    BY <1>0 DEF IInv, EntriesOlder, NoEmptySlot
  <1>4. LaunchersOwn'
    BY <1>0, <1>r, <1>g DEF IInv, LaunchersOwn
  <1>5. WaitersJoined'
    BY <1>r, <1>g DEF IInv, WaitersJoined
  <1> QED
    BY <1>1, <1>2, <1>3, <1>4, <1>5 DEF IInv

\* settle closes the flight of its host, and never meets a younger entry.
LEMMA SettleMove ==
    ASSUME IInv, NEW g \in Gens, Settle(g)
    PROVE  IInv'
  <1> DEFINE k == task[g].key
             e == SettledEntry(g, entry[k])
  <1>g. /\ k \in Domains /\ flight[k] = g /\ g # NoGen /\ g \in Nat
        /\ k \in slots /\ task[g].pc = "landing"
        /\ entry[k].gen < g /\ g < nextGen
    <2>1. k \in Domains /\ g # NoGen /\ g \in Nat /\ task[g].pc = "landing"
      BY GensFacts DEF Settle, IInv, TypeOK, TaskType
    <2>2. flight[k] = g /\ g < nextGen
      BY <2>1 DEF IInv, FlightsMatch, InFlight
    <2> QED
      BY <2>1, <2>2 DEF IInv, NoEmptySlot, EntriesOlder
  <1>e. /\ e \in EntryType
        /\ e.gen \in {g, NoGen, entry[k].gen}
    <2>1. entry[k] \in EntryType /\ task[g] \in TaskType
      BY <1>g DEF IInv, TypeOK
    <2>2. NoEntry \in EntryType /\ NoEntry.gen = NoGen
      BY DEF NoEntry, EntryType
    <2>3. [gen |-> g, fresh |-> task[g].fresh, stale |-> task[g].stale] \in EntryType
      BY <2>1 DEF EntryType, TaskType
    <2> QED
      BY <2>1, <2>2, <2>3 DEF SettledEntry
  <1>0. /\ task'[g].pc = "settled" /\ task'[g].key = k
        /\ \A h \in Gens : h # g => task'[h] = task[h]
        /\ \A h \in Gens : task'[h].key = task[h].key
        /\ flight'[k] = NoGen
        /\ \A j \in Domains : j # k => flight'[j] = flight[j]
        /\ entry'[k] = e
        /\ \A j \in Domains : j # k => entry'[j] = entry[j]
        /\ slots' = IF e.gen = NoGen THEN slots \ {k} ELSE slots
        /\ UNCHANGED <<now, nextGen, req>>
    BY <1>g DEF Settle, SettledFlight, IInv, TypeOK, TaskType
  <1>1. TypeOK'
    <2>1. task' \in [Gens -> TaskType]
      <3> DEFINE t == [task[g] EXCEPT !.pc = "settled"]
      <3>1. t \in TaskType
        BY DEF IInv, TypeOK, TaskType, TaskPCs
      <3>2. task' = [task EXCEPT ![g] = t]
        BY DEF Settle
      <3> QED
        BY <3>1, <3>2 DEF IInv, TypeOK
    <2>2. entry' \in [Domains -> EntryType]
      BY <1>g, <1>e DEF Settle, IInv, TypeOK
    <2>3. flight' \in [Domains -> Gens \cup {NoGen}] /\ slots' \subseteq Domains
      BY <1>g, <1>0 DEF Settle, SettledFlight, IInv, TypeOK
    <2> QED
      BY <1>0, <2>1, <2>2, <2>3 DEF IInv, TypeOK
  <1>2. FlightsMatch'
    <2>1. \A h \in Gens : task'[h].pc # "none" => h < nextGen /\ Lower[task'[h].key] = task'[h].key
      BY <1>0, <1>g DEF IInv, FlightsMatch
    <2>2. ASSUME NEW h \in Gens, InFlight(h)'
          PROVE  flight'[task'[h].key] = h
      <3>1. h # g
        BY <1>0, <2>2 DEF InFlight
      <3>2. InFlight(h) /\ flight[task[h].key] = h /\ task[h].key \in Domains
        BY <1>0, <2>2, <3>1 DEF InFlight, IInv, FlightsMatch, TypeOK, TaskType
      <3>3. task[h].key # k
        BY <1>g, <3>1, <3>2
      <3> QED
        BY <1>0, <3>2, <3>3
    <2>3. ASSUME NEW j \in Domains, flight'[j] # NoGen
          PROVE  InFlight(flight[j])' /\ task'[flight'[j]].key = j
      <3>1. j # k /\ flight'[j] = flight[j] /\ flight[j] \in Gens
        BY <1>0, <2>3 DEF IInv, TypeOK
      <3>2. InFlight(flight[j]) /\ task[flight[j]].key = j
        BY <2>3, <3>1 DEF IInv, FlightsMatch
      <3>3. flight[j] # g
        BY <3>1, <3>2
      <3> QED
        BY <1>0, <3>1, <3>2, <3>3 DEF InFlight
    <2> QED
      BY <1>0, <2>1, <2>2, <2>3 DEF FlightsMatch, InFlight
  <1>3. EntriesOlder'
    <2>1. NoGen < nextGen /\ entry[k].gen < nextGen /\ g < nextGen
      BY <1>g DEF IInv, TypeOK, EntriesOlder, NoGen
    <2> QED
      BY <1>0, <1>g, <1>e, <2>1 DEF IInv, EntriesOlder
  <1>4. NoEmptySlot'
    BY <1>0, <1>g DEF IInv, NoEmptySlot, TypeOK
  <1>5. LaunchersOwn'
    BY <1>0, <1>g DEF IInv, LaunchersOwn
  <1>6. WaitersJoined'
    BY <1>0 DEF IInv, WaitersJoined
  <1> QED
    BY <1>1, <1>2, <1>3, <1>4, <1>5, <1>6 DEF IInv

\* The channel of a settled task gets its outcome, or loses its sender.
LEMMA PublishMove ==
    ASSUME IInv, NEW g \in Gens, Publish(g)
    PROVE  IInv'
  <1> DEFINE p == IF task[g].kind = "aborted" THEN "closed" ELSE "sent"
             t == [task[g] EXCEPT !.pc = p]
  <1>t. t \in TaskType /\ task' = [task EXCEPT ![g] = t]
    BY DEF Publish, IInv, TypeOK, TaskType, TaskPCs
  <1>0. /\ task[g].pc = "settled"
        /\ task'[g].pc \in {"closed", "sent"}
        /\ \A h \in Gens : h # g => task'[h] = task[h]
        /\ \A h \in Gens : task'[h].key = task[h].key
        /\ \A h \in Gens : InFlight(h)' <=> InFlight(h)
        /\ \A h \in Gens : task'[h].pc = "none" <=> task[h].pc = "none"
        /\ UNCHANGED <<now, slots, entry, flight, nextGen, req>>
    BY DEF Publish, IInv, TypeOK, TaskType, InFlight
  <1>1. TypeOK'
    BY <1>t, <1>0 DEF IInv, TypeOK
  <1>2. FlightsMatch'
    <2>1. \A h \in Gens : task'[h].pc # "none" => h < nextGen /\ Lower[task'[h].key] = task'[h].key
      BY <1>0 DEF IInv, FlightsMatch
    <2>2. \A h \in Gens : InFlight(h)' => flight[task'[h].key] = h
      BY <1>0 DEF IInv, FlightsMatch
    <2>3. ASSUME NEW k \in Domains, flight[k] # NoGen
          PROVE  InFlight(flight[k])' /\ task'[flight[k]].key = k
      <3>1. flight[k] \in Gens
        BY <2>3 DEF IInv, TypeOK
      <3>2. InFlight(flight[k]) /\ task[flight[k]].key = k
        BY <2>3 DEF IInv, FlightsMatch
      <3> QED
        BY <1>0, <3>1, <3>2 DEF InFlight
    <2> QED
      BY <1>0, <2>1, <2>2, <2>3 DEF FlightsMatch, InFlight
  <1>3. EntriesOlder' /\ NoEmptySlot' /\ WaitersJoined'
    BY <1>0 DEF IInv, EntriesOlder, NoEmptySlot, WaitersJoined
  <1>4. LaunchersOwn'
    BY <1>0 DEF IInv, LaunchersOwn
  <1> QED
    BY <1>1, <1>2, <1>3, <1>4 DEF IInv

\* A request is answered with a value.
LEMMA AnswerMove ==
    ASSUME IInv, NEW r \in Requests, NEW v \in Gens \cup {NoGen}, AnswerOk(r, v),
           UNCHANGED <<now, slots, entry, flight, nextGen, task>>
    PROVE  IInv'
  <1> DEFINE q == [req[r] EXCEPT !.pc = "answered", !.res = "ok", !.val = v]
  <1>1. q \in ReqType /\ q.pc = "answered"
    BY DEF IInv, TypeOK, ReqType, ReqPCs, Results
  <1>2. req' = [req EXCEPT ![r] = q]
    BY DEF AnswerOk
  <1> QED
    BY <1>1, <1>2, RequestMove

\* A request joins the flight of its host.
LEMMA JoinMove ==
    ASSUME IInv, NEW r \in Requests, NEW g \in Gens, JoinFlight(r, g),
           UNCHANGED <<now, slots, entry, flight, nextGen, task>>
    PROVE  IInv'
  <1> DEFINE q == [req[r] EXCEPT !.pc = "waiting", !.gen = g]
  <1>1. q \in ReqType /\ q.pc = "waiting" /\ q.gen = g
    BY DEF IInv, TypeOK, ReqType, ReqPCs
  <1>2. req' = [req EXCEPT ![r] = q]
    BY DEF JoinFlight
  <1> QED
    BY <1>1, <1>2, RequestMove

\* The steps of a request preserve the invariant.
LEMMA RequestStepIInv ==
    ASSUME IInv, NEW r \in Requests, RequestStep(r) \/ Disconnect(r)
    PROVE  IInv'
  <1> DEFINE k == KeyOf(req[r].domain)
  <1>k. k \in Domains /\ Lower[k] = k /\ req[r] \in ReqType
    BY LowerAssumption DEF IInv, TypeOK, ReqType, KeyOf
  <1>e. entry[k].gen \in Gens \cup {NoGen} /\ flight[k] \in Gens \cup {NoGen}
    BY <1>k DEF IInv, TypeOK, EntryType
  <1>1. CASE PlanStep(r)
    <2> DEFINE p == PlanOf(k, req[r].now)
    <2>1. CASE p = "serve"
      <3>1. AnswerOk(r, entry[k].gen) /\ UNCHANGED <<now, slots, entry, flight, nextGen, task>>
        BY <1>1, <2>1 DEF PlanStep
      <3> QED
        BY <3>1, <1>e, AnswerMove
    <2>2. CASE p = "join"
      <3>1. JoinFlight(r, flight[k]) /\ UNCHANGED <<now, slots, entry, flight, nextGen, task>>
        BY <1>1, <2>2 DEF PlanStep
      <3>2. flight[k] \in Gens
        BY <1>k, <1>e, <2>2, PlanHas
      <3> QED
        BY <3>1, <3>2, JoinMove
    <2>3. CASE p \notin {"serve", "join"}
      <3> DEFINE q == [req[r] EXCEPT !.pc = "claiming"]
      <3>1. q \in ReqType /\ q.pc = "claiming"
        BY <1>k DEF ReqType, ReqPCs
      <3>2. req' = [req EXCEPT ![r] = q]
            /\ UNCHANGED <<now, slots, entry, flight, nextGen, task>>
        BY <1>1, <2>3 DEF PlanStep
      <3> QED
        BY <3>1, <3>2, RequestMove
    <2> QED
      BY <2>1, <2>2, <2>3
  <1>2. CASE ClaimStep(r)
    <2> DEFINE p == PlanOf(k, req[r].now)
    <2>0. entry[k].gen # NoGen \/ flight[k] # NoGen => slots \cup {k} = slots
      BY <1>k DEF IInv, NoEmptySlot
    <2>1. CASE p = "serve"
      <3>1. AnswerOk(r, entry[k].gen) /\ UNCHANGED <<now, slots, entry, flight, nextGen, task>>
        BY <1>2, <2>0, <2>1, <1>k, PlanHas DEF ClaimStep
      <3> QED
        BY <3>1, <1>e, AnswerMove
    <2>2. CASE p = "join"
      <3>1. JoinFlight(r, flight[k]) /\ UNCHANGED <<now, slots, entry, flight, nextGen, task>>
        BY <1>2, <2>0, <2>2, <1>k, PlanHas DEF ClaimStep
      <3>2. flight[k] \in Gens
        BY <1>k, <1>e, <2>2, PlanHas
      <3> QED
        BY <3>1, <3>2, JoinMove
    <2>3. CASE p \notin {"serve", "join"}
      <3> DEFINE v == IF p = "refresh" THEN entry[k].gen ELSE NoGen
      <3>1. /\ p \in {"refresh", "fetch"} /\ nextGen < MaxGeneration /\ Open(k, nextGen)
            /\ req' = [req EXCEPT ![r].pc = "launching", ![r].gen = nextGen, ![r].val = v]
            /\ UNCHANGED <<now, entry>>
        BY <1>2, <2>3 DEF ClaimStep
      <3>2. flight[k] = NoGen
        BY <1>k, <3>1, PlanOpens
      <3>3. v \in Gens \cup {NoGen}
        BY <1>e
      <3> HIDE DEF k, p, v
      <3> QED
        BY <1>k, <3>1, <3>2, <3>3, OpenMove
    <2> QED
      BY <2>1, <2>2, <2>3
  <1>3. CASE LaunchStep(r)
    BY <1>3, LaunchMove
  <1>4. CASE Wake(r)
    <2>1. req[r].gen \in Gens /\ UNCHANGED <<now, slots, entry, flight, nextGen, task>>
      BY <1>4 DEF Wake, IInv, WaitersJoined
    <2>2. CASE AnswerOk(r, req[r].gen)
      BY <2>1, <2>2, AnswerMove
    <2>3. CASE \E x \in {"failed", "aborted"} :
                 req' = [req EXCEPT ![r].pc = "answered", ![r].res = x]
      <3>1. PICK x \in {"failed", "aborted"} :
                 req' = [req EXCEPT ![r].pc = "answered", ![r].res = x]
        BY <2>3
      <3> DEFINE q == [req[r] EXCEPT !.pc = "answered", !.res = x]
      <3>2. q \in ReqType /\ q.pc = "answered"
        BY <1>k DEF ReqType, ReqPCs, Results
      <3>3. req' = [req EXCEPT ![r] = q]
        BY <3>1
      <3> QED
        BY <2>1, <3>1, <3>2, <3>3, RequestMove
    <2> QED
      BY <1>4, <2>2, <2>3 DEF Wake
  <1>5. CASE Disconnect(r)
    <2> DEFINE q == [NoReq EXCEPT !.pc = "gone"]
    <2>1. q \in ReqType /\ q.pc = "gone"
      BY LowerAssumption DEF NoReq, ReqType, ReqPCs, Results
    <2>2. req' = [req EXCEPT ![r] = q] /\ UNCHANGED <<now, slots, entry, flight, nextGen, task>>
      BY <1>5 DEF Disconnect
    <2> QED
      BY <2>1, <2>2, RequestMove
  <1> QED
    BY <1>1, <1>2, <1>3, <1>4, <1>5 DEF RequestStep

\* The steps of a task preserve the invariant.
LEMMA TaskStepIInv ==
    ASSUME IInv, NEW g \in Gens, TaskStep(g) \/ Abandon(g) \/ DropUnpolled(g)
    PROVE  IInv'
  <1>t. task[g] \in TaskType /\ now \in Nat
    BY BoundsAssumption DEF IInv, TypeOK
  <1>1. CASE Settle(g)
    BY <1>1, SettleMove
  <1>2. CASE Publish(g)
    BY <1>2, PublishMove
  <1>3. CASE FetchStep(g) \/ Abandon(g) \/ DropUnpolled(g)
    <2>0. /\ UNCHANGED <<now, slots, entry, flight, nextGen, req>>
          /\ InFlight(g) /\ task[g].pc # "opened"
      BY <1>3 DEF FetchStep, Poll, Respond, FetchFails, FetchSucceeds, Abandon, DropUnpolled, InFlight
    <2>1. \E t \in TaskType :
             /\ t.key = task[g].key
             /\ t.pc \in {"spawned", "fetching", "body", "landing", "orphaned"}
             /\ task' = [task EXCEPT ![g] = t]
      <3>1. CASE Poll(g)
        <4> DEFINE t == [task[g] EXCEPT !.pc = "fetching"]
        <4>1. t \in TaskType /\ t.key = task[g].key /\ t.pc = "fetching"
          BY <1>t DEF TaskType, TaskPCs
        <4>2. task' = [task EXCEPT ![g] = t]
          BY <3>1 DEF Poll
        <4> QED
          BY <4>1, <4>2
      <3>2. CASE Respond(g)
        <4> DEFINE t == [task[g] EXCEPT !.pc = "body", !.received = now]
        <4>1. t \in TaskType /\ t.key = task[g].key /\ t.pc = "body"
          BY <1>t DEF TaskType, TaskPCs
        <4>2. task' = [task EXCEPT ![g] = t]
          BY <3>2 DEF Respond
        <4> QED
          BY <4>1, <4>2
      <3>3. CASE FetchFails(g) \/ Abandon(g)
        <4>1. PICK x \in {"failed", "aborted"} :
                task' = [task EXCEPT ![g].pc = "landing", ![g].kind = x, ![g].received = 0]
          BY <3>3 DEF FetchFails, Abandon
        <4> DEFINE t == [task[g] EXCEPT !.pc = "landing", !.kind = x, !.received = 0]
        <4>2. t \in TaskType /\ t.key = task[g].key /\ t.pc = "landing"
          BY <1>t DEF TaskType, TaskPCs, Kinds
        <4>3. task' = [task EXCEPT ![g] = t]
          BY <4>1
        <4> QED
          BY <4>2, <4>3
      <3>4. CASE FetchSucceeds(g)
        <4>1. CASE \E l \in Lifetimes :
                     task' = [task EXCEPT ![g].pc = "landing", ![g].kind = "cached",
                                          ![g].fresh = task[g].received + l[1],
                                          ![g].stale = task[g].received + l[2],
                                          ![g].received = 0]
          <5>1. PICK l \in Lifetimes :
                     task' = [task EXCEPT ![g].pc = "landing", ![g].kind = "cached",
                                          ![g].fresh = task[g].received + l[1],
                                          ![g].stale = task[g].received + l[2],
                                          ![g].received = 0]
            BY <4>1
          <5> DEFINE f == task[g].received + l[1]
                     s == task[g].received + l[2]
                     t == [task[g] EXCEPT !.pc = "landing", !.kind = "cached",
                                          !.fresh = f, !.stale = s, !.received = 0]
          <5>2. f \in Nat /\ s \in Nat
            BY <1>t, LifetimesAssumption DEF TaskType
          <5>4. task' = [task EXCEPT ![g] = t]
            BY <5>1
          <5> HIDE DEF f, s
          <5>3. t \in TaskType /\ t.key = task[g].key /\ t.pc = "landing"
            BY <1>t, <5>2 DEF TaskType, TaskPCs, Kinds
          <5> QED
            BY <5>3, <5>4
        <4>2. CASE task' = [task EXCEPT ![g].pc = "landing", ![g].kind = "uncached",
                                        ![g].received = 0]
          <5> DEFINE t == [task[g] EXCEPT !.pc = "landing", !.kind = "uncached", !.received = 0]
          <5>1. t \in TaskType /\ t.key = task[g].key /\ t.pc = "landing"
            BY <1>t DEF TaskType, TaskPCs, Kinds
          <5>2. task' = [task EXCEPT ![g] = t]
            BY <4>2
          <5> QED
            BY <5>1, <5>2
        <4> QED
          BY <3>4, <4>1, <4>2 DEF FetchSucceeds
      <3>5. CASE DropUnpolled(g)
        <4> DEFINE t == [task[g] EXCEPT !.pc = "orphaned", !.kind = "aborted"]
        <4>1. t \in TaskType /\ t.key = task[g].key /\ t.pc = "orphaned"
          BY <1>t DEF TaskType, TaskPCs, Kinds
        <4>2. task' = [task EXCEPT ![g] = t]
          BY <3>5 DEF DropUnpolled
        <4> QED
          BY <4>1, <4>2
      <3> QED
        BY <1>3, <3>1, <3>2, <3>3, <3>4, <3>5 DEF FetchStep
    <2> QED
      BY <2>0, <2>1, TaskMove
  <1> QED
    BY <1>1, <1>2, <1>3 DEF TaskStep

\* Every step of a request, a task or the clock preserves the invariant.
LEMMA NextIInv == IInv /\ [Next]_vars => IInv'
  <1> SUFFICES ASSUME IInv, [Next]_vars PROVE IInv'
    OBVIOUS
  <1>1. CASE UNCHANGED vars
    BY <1>1 DEF vars, IInv, TypeOK, FlightsMatch, InFlight, EntriesOlder, NoEmptySlot,
                LaunchersOwn, WaitersJoined
  <1>2. ASSUME NEW r \in Requests, NEW d \in Domains, Arrive(r, d)
        PROVE  IInv'
    <2> DEFINE q == [NoReq EXCEPT !.pc = "planning", !.domain = d, !.now = now,
                                  !.before = {g \in Gens : IsOver(g)}]
    <2>1. now \in Nat /\ {g \in Gens : IsOver(g)} \in SUBSET Gens
      BY BoundsAssumption DEF IInv, TypeOK
    <2>2. q \in ReqType /\ q.pc = "planning"
      BY <2>1 DEF NoReq, ReqType, ReqPCs, Results
    <2>3. /\ req' = [req EXCEPT ![r] = q]
          /\ UNCHANGED <<now, slots, entry, flight, nextGen, task>>
      BY <1>2 DEF Arrive
    <2> QED
      BY <2>2, <2>3, RequestMove
  <1>3. ASSUME NEW r \in Requests, RequestStep(r) \/ Disconnect(r)
        PROVE  IInv'
    BY <1>3, RequestStepIInv
  <1>4. ASSUME NEW g \in Gens, TaskStep(g) \/ Abandon(g) \/ DropUnpolled(g)
        PROVE  IInv'
    BY <1>4, TaskStepIInv
  <1>5. CASE Tick
    <2>1. now' \in 0 .. MaxTime /\ UNCHANGED <<slots, entry, flight, nextGen, task, req>>
      BY <1>5, BoundsAssumption DEF Tick, IInv, TypeOK
    <2> QED
      BY <2>1 DEF IInv, TypeOK, FlightsMatch, InFlight, EntriesOlder, NoEmptySlot,
                  LaunchersOwn, WaitersJoined
  <1> QED
    BY <1>1, <1>2, <1>3, <1>4, <1>5 DEF Next, Idle

----------------------------------------------------------------------------
(* Theorems *)

\* The table, the tasks and the requests stay consistent with each other through
\* every interleaving of resolve, claim, run and settle.
THEOREM InductiveInvariant == Spec => []IInv
  BY InitIInv, NextIInv, PTL DEF Spec

\* The table, the tasks and the requests keep their types.
THEOREM TypeCorrect == Spec => []TypeOK
  <1>1. IInv => TypeOK
    BY DEF IInv
  <1> QED
    BY <1>1, InductiveInvariant, PTL

\* claim's second plan under the write lock is enough: there are never two
\* unsettled fetches of one host, whatever the spellings and the interleaving.
THEOREM SingleFlightHolds == Spec => []SingleFlight
  <1>1. IInv => SingleFlight
    BY DEF IInv, FlightsMatch, SingleFlight, InFlight
  <1> QED
    BY <1>1, InductiveInvariant, PTL

\* settle's `newer` never fires: entries are replaced in generation order.
THEOREM SettleInOrderHolds == Spec => []SettleInOrder
  <1>1. IInv => SettleInOrder
    <2> SUFFICES ASSUME IInv, NEW g \in Gens, InFlight(g)
                 PROVE  entry[task[g].key].gen < g
      BY DEF SettleInOrder
    <2>1. task[g].key \in Domains /\ flight[task[g].key] = g /\ g # NoGen
      BY GensFacts DEF IInv, TypeOK, TaskType, FlightsMatch
    <2> QED
      BY <2>1 DEF IInv, EntriesOlder
  <1> QED
    BY <1>1, InductiveInvariant, PTL

\* settle removes exactly the slots that have become empty, and claim inserts
\* none that stays empty.
THEOREM NoEmptySlotHolds == Spec => []NoEmptySlot
  <1>1. IInv => NoEmptySlot
    BY DEF IInv
  <1> QED
    BY <1>1, InductiveInvariant, PTL

----------------------------------------------------------------------------
(* The inductive invariant of the answers *)

HasValue(g) == task[g].kind \in {"cached", "uncached"}

\* A task that is about to settle knows how it ended; what it grants does not
\* become stale before it stops being fresh; only a runtime that drops tasks
\* unpolled leaves an orphan.
TasksEnd ==
    \A g \in Gens :
        /\ task[g].pc = "landing" \/ IsOver(g) => task[g].kind # "pending"
        /\ task[g].pc = "closed" => task[g].kind = "aborted"
        /\ task[g].pc = "orphaned" => task[g].kind = "aborted" /\ MayDropUnpolled
        /\ task[g].kind = "cached" => task[g].fresh <= task[g].stale

\* The entry of k is what task v settled with, and no later response of k,
\* storable or not, has settled since.
Latest(k, v) ==
    /\ v \in Gens /\ IsOver(v) /\ task[v].kind = "cached" /\ task[v].key = k
    /\ entry[k].fresh = task[v].fresh /\ entry[k].stale = task[v].stale
    /\ \A h \in Gens : IsOver(h) /\ task[h].key = k /\ HasValue(h) => h <= v

EntriesLatest ==
    \A k \in Domains : entry[k].gen # NoGen => Latest(k, entry[k].gen)

\* The task in flight is the latest of its host.
FlightsLatest ==
    \A g, h \in Gens :
        InFlight(g) /\ task[h].pc # "none" /\ task[h].key = task[g].key => h <= g

\* Value v is no older than what had landed for the host when r came.
NoOlder(r, v) ==
    \A h \in req[r].before : task[h].key = Lower[req[r].domain] /\ HasValue(h) => h <= v

\* v was stored, and had not expired when r read the clock.
Stored(r, v) ==
    /\ v \in Gens /\ IsOver(v) /\ task[v].kind = "cached"
    /\ req[r].now < task[v].stale
    /\ NoOlder(r, v)

\* g is a flight of r's host that was not over when r came, unless it had been
\* dropped unpolled.
Flown(r, g) ==
    /\ g \in Gens /\ task[g].pc # "none" /\ task[g].key = Lower[req[r].domain]
    /\ g \in req[r].before => task[g].pc = "orphaned"
    /\ NoOlder(r, g)

\* What a request holds or was given.
Holds(r) ==
    LET q == req[r]
    IN  /\ \A h \in q.before : IsOver(h)
        /\ q.pc # "answered" => q.res = "none"
        /\ q.pc = "launching" =>
              Flown(r, q.gen) /\ (q.val # NoGen => Stored(r, q.val))
        /\ q.pc = "waiting" => Flown(r, q.gen)
        /\ q.res = "ok" => \/ Stored(r, q.val)
                           \/ q.val \notin q.before /\ NoOlder(r, q.val)
        /\ q.res \in {"failed", "aborted"} => Flown(r, q.gen)

RequestsHold == \A r \in Requests : Holds(r)

AInv == TasksEnd /\ EntriesLatest /\ FlightsLatest /\ RequestsHold

----------------------------------------------------------------------------
(* Lemmas *)

\* What is known of a task stays: its host from the moment it is opened, its
\* outcome from the moment it is over.
TaskKept(h) ==
    /\ task[h].pc # "none" => task'[h].pc # "none" /\ task'[h].key = task[h].key
    /\ task[h].pc = "orphaned" => task'[h].pc = "orphaned"
    /\ IsOver(h) => /\ IsOver(h)'
                    /\ task'[h].kind = task[h].kind
                    /\ task'[h].fresh = task[h].fresh
                    /\ task'[h].stale = task[h].stale

\* A task's step keeps what is known of it and ends it as TasksEnd says.
LEMMA TaskStepKeeps ==
    ASSUME IInv, TasksEnd, NEW g \in Gens, TaskStep(g) \/ Abandon(g) \/ DropUnpolled(g)
    PROVE  /\ \A h \in Gens : TaskKept(h)
           /\ TasksEnd'
           /\ \A h \in Gens : h # g => task'[h] = task[h]
           /\ task'[g].key = task[g].key
           /\ task[g].pc # "none" /\ task'[g].pc # "none"
           /\ IsOver(g)' => IsOver(g) \/ Settle(g) \/ DropUnpolled(g)
  <1>t. task[g] \in TaskType /\ task \in [Gens -> TaskType]
    BY DEF IInv, TypeOK
  <1>1. CASE Poll(g)
    BY <1>1, <1>t DEF Poll, TaskKept, IsOver, TasksEnd, TaskType
  <1>2. CASE Respond(g)
    BY <1>2, <1>t DEF Respond, TaskKept, IsOver, TasksEnd, TaskType
  <1>3. CASE FetchFails(g)
    BY <1>3, <1>t DEF FetchFails, TaskKept, IsOver, TasksEnd, TaskType
  <1>4. CASE FetchSucceeds(g)
    <2>1. \E fresh, stale \in Nat, kind \in {"cached", "uncached"} :
             /\ kind = "cached" => fresh <= stale
             /\ task'[g] = [task[g] EXCEPT !.pc = "landing", !.kind = kind, !.received = 0,
                                           !.fresh = fresh, !.stale = stale]
             /\ \A h \in Gens : h # g => task'[h] = task[h]
      <3>1. CASE \E l \in Lifetimes :
                   task' = [task EXCEPT ![g].pc = "landing", ![g].kind = "cached",
                                        ![g].fresh = task[g].received + l[1],
                                        ![g].stale = task[g].received + l[2],
                                        ![g].received = 0]
        <4>1. PICK l \in Lifetimes :
                   task' = [task EXCEPT ![g].pc = "landing", ![g].kind = "cached",
                                        ![g].fresh = task[g].received + l[1],
                                        ![g].stale = task[g].received + l[2],
                                        ![g].received = 0]
          BY <3>1
        <4> DEFINE f == task[g].received + l[1]
                   s == task[g].received + l[2]
        <4>2. f \in Nat /\ s \in Nat /\ f <= s
          BY <1>t, LifetimesAssumption DEF TaskType
        <4>3. task'[g] = [task[g] EXCEPT !.pc = "landing", !.kind = "cached", !.received = 0,
                                         !.fresh = f, !.stale = s]
          BY <1>t, <4>1 DEF TaskType
        <4>4. \A h \in Gens : h # g => task'[h] = task[h]
          BY <1>t, <4>1
        <4> HIDE DEF f, s
        <4> QED
          BY <4>2, <4>3, <4>4
      <3>2. CASE task' = [task EXCEPT ![g].pc = "landing", ![g].kind = "uncached",
                                      ![g].received = 0]
        <4>1. task'[g] = [task[g] EXCEPT !.pc = "landing", !.kind = "uncached", !.received = 0,
                                         !.fresh = task[g].fresh, !.stale = task[g].stale]
          BY <1>t, <3>2 DEF TaskType
        <4>2. \A h \in Gens : h # g => task'[h] = task[h]
          BY <1>t, <3>2
        <4> QED
          BY <1>t, <4>1, <4>2 DEF TaskType
      <3> QED
        BY <1>4, <3>1, <3>2 DEF FetchSucceeds
    <2>2. task[g].pc = "body"
      BY <1>4 DEF FetchSucceeds
    <2>3. /\ task'[g].pc = "landing" /\ task'[g].key = task[g].key
          /\ task'[g].kind \in {"cached", "uncached"}
          /\ task'[g].kind = "cached" => task'[g].fresh <= task'[g].stale
          /\ \A h \in Gens : h # g => task'[h] = task[h]
      BY <1>t, <2>1 DEF TaskType
    <2>4. \A h \in Gens : TaskKept(h)
      BY <2>2, <2>3 DEF TaskKept, IsOver
    <2>5. TasksEnd'
      BY <2>3 DEF TasksEnd, IsOver
    <2>6. ~IsOver(g)'
      BY <2>3 DEF IsOver
    <2> QED
      BY <2>2, <2>3, <2>4, <2>5, <2>6
  <1>5. CASE Settle(g)
    BY <1>5, <1>t DEF Settle, TaskKept, IsOver, TasksEnd, TaskType
  <1>6. CASE Publish(g)
    BY <1>6, <1>t DEF Publish, TaskKept, IsOver, TasksEnd, TaskType
  <1>7. CASE Abandon(g)
    BY <1>7, <1>t DEF Abandon, TaskKept, IsOver, TasksEnd, TaskType
  <1>8. CASE DropUnpolled(g)
    BY <1>8, <1>t DEF DropUnpolled, TaskKept, IsOver, TasksEnd, TaskType
  <1> QED
    BY <1>1, <1>2, <1>3, <1>4, <1>5, <1>6, <1>7, <1>8 DEF TaskStep, FetchStep

\* A request opens at most one flight, and spawns at most its own.
LEMMA RequestStepKeeps ==
    ASSUME IInv, TasksEnd, NEW r \in Requests, RequestStep(r)
    PROVE  (\A h \in Gens : TaskKept(h)) /\ TasksEnd'
  <1>t. task \in [Gens -> TaskType]
    BY DEF IInv, TypeOK
  <1>1. CASE PlanStep(r) \/ Wake(r)
    BY <1>1 DEF PlanStep, Wake, TaskKept, IsOver, TasksEnd
  <1>2. CASE ClaimStep(r)
    <2>1. CASE UNCHANGED task
      BY <2>1 DEF TaskKept, IsOver, TasksEnd
    <2>2. CASE nextGen < MaxGeneration /\ \E k \in Domains : Open(k, nextGen)
      <3>1. nextGen \in Gens /\ task[nextGen].pc = "none"
        BY <2>2, GensFacts DEF IInv, TypeOK, FlightsMatch
      <3> QED
        BY <1>t, <2>2, <3>1 DEF Open, TaskKept, IsOver, TasksEnd, TaskType
    <2>3. KeyOf(req[r].domain) \in Domains
      BY LowerAssumption DEF IInv, TypeOK, ReqType, KeyOf
    <2> QED
      BY <1>2, <2>1, <2>2, <2>3 DEF ClaimStep
  <1>3. CASE LaunchStep(r)
    <2>1. req[r].gen \in Gens /\ task[req[r].gen].pc = "opened"
      BY <1>3 DEF LaunchStep, IInv, LaunchersOwn
    <2> QED
      BY <1>3, <1>t, <2>1 DEF LaunchStep, TaskKept, IsOver, TasksEnd, TaskType
  <1> QED
    BY <1>1, <1>2, <1>3 DEF RequestStep

\* What is known to a request stays so while it keeps its call.
LEMMA FactsKept ==
    ASSUME IInv, NEW r \in Requests, Holds(r), \A h \in Gens : TaskKept(h),
           req'[r].before = req[r].before, req'[r].domain = req[r].domain,
           req'[r].now = req[r].now
    PROVE  /\ \A v : NoOlder(r, v) => NoOlder(r, v)'
           /\ \A v : Stored(r, v) => Stored(r, v)'
           /\ \A g : Flown(r, g) => Flown(r, g)'
           /\ \A h \in req'[r].before : IsOver(h)'
  <1>b. req[r].before \subseteq Gens /\ \A h \in req[r].before : IsOver(h)
    BY DEF IInv, TypeOK, ReqType, Holds
  <1>o. \A h \in Gens : IsOver(h) => task[h].pc # "none"
    BY DEF IsOver
  <1>1. ASSUME NEW v, NoOlder(r, v)
        PROVE  NoOlder(r, v)'
    BY <1>1, <1>b, <1>o DEF NoOlder, HasValue, TaskKept
  <1>2. ASSUME NEW v, Stored(r, v)
        PROVE  Stored(r, v)'
    BY <1>1, <1>2 DEF Stored, TaskKept
  <1>3. ASSUME NEW g, Flown(r, g)
        PROVE  Flown(r, g)'
    BY <1>1, <1>3 DEF Flown, TaskKept
  <1>4. \A h \in req'[r].before : IsOver(h)'
    BY <1>b DEF TaskKept
  <1> QED
    BY <1>1, <1>2, <1>3, <1>4

\* A request that takes no step holds what it held.
LEMMA HoldsOn ==
    ASSUME IInv, NEW r \in Requests, Holds(r), \A h \in Gens : TaskKept(h), req'[r] = req[r]
    PROVE  Holds(r)'
  BY FactsKept DEF Holds

\* What plan() serves is stored, and no older than what had landed before.
LEMMA ServedIsStored ==
    ASSUME IInv, AInv, NEW r \in Requests,
           PlanOf(KeyOf(req[r].domain), req[r].now) \in {"serve", "refresh"}
    PROVE  Stored(r, entry[KeyOf(req[r].domain)].gen)
  <1> DEFINE k == KeyOf(req[r].domain)
             v == entry[k].gen
  <1>1. k \in Domains /\ k = Lower[req[r].domain] /\ req[r].now \in Nat /\ req[r].before \subseteq Gens
    BY LowerAssumption DEF IInv, TypeOK, ReqType, KeyOf
  <1>2. v # NoGen
    BY <1>1, PlanHas
  <1>3. /\ v \in Gens /\ IsOver(v) /\ task[v].kind = "cached"
        /\ entry[k].fresh = task[v].fresh /\ entry[k].stale = task[v].stale
        /\ \A h \in Gens : IsOver(h) /\ task[h].key = k /\ HasValue(h) => h <= v
    BY <1>1, <1>2 DEF AInv, EntriesLatest, Latest
  <1>4. task[v].fresh <= task[v].stale /\ task[v].fresh \in Nat /\ task[v].stale \in Nat
    BY <1>3 DEF AInv, TasksEnd, IInv, TypeOK, TaskType
  <1>5. req[r].now < entry[k].stale
    <2>1. req[r].now < entry[k].fresh \/ req[r].now < entry[k].stale
      BY DEF PlanOf
    <2>2. PICK c \in Nat, f \in Nat, s \in Nat :
             c = req[r].now /\ f = entry[k].fresh /\ s = entry[k].stale
      BY <1>1, <1>3, <1>4
    <2>3. f <= s
      BY <1>3, <1>4, <2>2
    <2>4. c < s
      BY <2>1, <2>2, <2>3
    <2> QED
      BY <2>2, <2>4
  <1>6. NoOlder(r, v)
    BY <1>1, <1>3 DEF AInv, RequestsHold, Holds, NoOlder
  <1> QED
    BY <1>3, <1>5, <1>6 DEF Stored

\* A flight that plan() joins is the latest of its host.
LEMMA JoinedIsFlown ==
    ASSUME IInv, AInv, NEW r \in Requests,
           PlanOf(KeyOf(req[r].domain), req[r].now) = "join"
    PROVE  Flown(r, flight[KeyOf(req[r].domain)])
  <1> DEFINE k == KeyOf(req[r].domain)
             g == flight[k]
  <1>1. k \in Domains /\ k = Lower[req[r].domain] /\ req[r].before \subseteq Gens
    BY LowerAssumption DEF IInv, TypeOK, ReqType, KeyOf
  <1>2. g # NoGen
    BY <1>1, PlanHas
  <1>3. g \in Gens /\ InFlight(g) /\ task[g].key = k
    BY <1>1, <1>2 DEF IInv, TypeOK, FlightsMatch
  <1>4. \A h \in req[r].before : IsOver(h)
    BY DEF AInv, RequestsHold, Holds
  <1>5. NoOlder(r, g)
    BY <1>1, <1>3, <1>4 DEF AInv, FlightsLatest, NoOlder, IsOver
  <1>6. g \in req[r].before => task[g].pc = "orphaned"
    BY <1>3, <1>4 DEF InFlight, IsOver
  <1> QED
    BY <1>1, <1>3, <1>5, <1>6 DEF Flown, InFlight

----------------------------------------------------------------------------
(* Steps *)

\* Nothing is stored, in flight or asked for at the start.
LEMMA InitAInv == Init => AInv
  <1> SUFFICES ASSUME Init PROVE AInv
    OBVIOUS
  <1>1. TasksEnd /\ FlightsLatest
    <2>1. \A g \in Gens : task[g].pc = "none" /\ task[g].kind = "pending"
      BY DEF Init, NoTask
    <2> QED
      BY <2>1 DEF TasksEnd, FlightsLatest, IsOver, InFlight
  <1>2. EntriesLatest
    <2>1. \A k \in Domains : entry[k].gen = NoGen
      BY DEF Init, NoEntry
    <2> QED
      BY <2>1 DEF EntriesLatest
  <1>3. RequestsHold
    <2>1. \A r \in Requests : req[r].pc = "idle" /\ req[r].res = "none" /\ req[r].before = {}
      BY DEF Init, NoReq
    <2> QED
      BY <2>1 DEF RequestsHold, Holds
  <1> QED
    BY <1>1, <1>2, <1>3 DEF AInv

\* A step that leaves the table and its tasks alone, taken by one request.
LEMMA AskMove ==
    ASSUME IInv, AInv, NEW r \in Requests, Holds(r)',
           \A s \in Requests : s # r => req'[s] = req[s],
           UNCHANGED <<entry, flight, nextGen, task>>
    PROVE  AInv'
  <1>1. \A h \in Gens : TaskKept(h)
    BY DEF TaskKept, IsOver
  <1>2. TasksEnd' /\ EntriesLatest' /\ FlightsLatest'
    BY DEF AInv, TasksEnd, EntriesLatest, Latest, FlightsLatest, IsOver, InFlight, HasValue
  <1>3. \A s \in Requests : s # r => Holds(s)'
    BY <1>1, HoldsOn DEF AInv, RequestsHold
  <1> QED
    BY <1>2, <1>3 DEF AInv, RequestsHold

\* A request comes: it holds nothing but what is over.
LEMMA ArriveAInv ==
    ASSUME IInv, AInv, NEW r \in Requests, NEW d \in Domains, Arrive(r, d)
    PROVE  AInv'
  <1> DEFINE q == [NoReq EXCEPT !.pc = "planning", !.domain = d, !.now = now,
                                !.before = {g \in Gens : IsOver(g)}]
  <1>1. /\ req' = [req EXCEPT ![r] = q]
        /\ UNCHANGED <<slots, entry, flight, nextGen, task>>
    BY DEF Arrive
  <1>2. q.pc = "planning" /\ q.res = "none" /\ \A h \in q.before : IsOver(h)
    BY DEF NoReq
  <1> HIDE DEF q
  <1>3. req'[r] = q /\ \A s \in Requests : s # r => req'[s] = req[s]
    BY <1>1 DEF IInv, TypeOK
  <1>4. Holds(r)'
    BY <1>1, <1>2, <1>3 DEF Holds, IsOver
  <1> QED
    BY <1>1, <1>3, <1>4, AskMove

\* plan() under the read lock.
LEMMA PlanAInv ==
    ASSUME IInv, AInv, NEW r \in Requests, PlanStep(r)
    PROVE  AInv'
  <1> DEFINE k == KeyOf(req[r].domain)
             p == PlanOf(k, req[r].now)
  <1>t. req \in [Requests -> ReqType] /\ Holds(r)
    BY DEF IInv, TypeOK, AInv, RequestsHold
  <1>0. /\ req[r].pc = "planning"
        /\ UNCHANGED <<slots, entry, flight, nextGen, task>>
        /\ \A h \in Gens : TaskKept(h)
        /\ \A s \in Requests : s # r => req'[s] = req[s]
        /\ req'[r].before = req[r].before /\ req'[r].domain = req[r].domain
        /\ req'[r].now = req[r].now
    BY <1>t DEF PlanStep, AnswerOk, JoinFlight, ReqType, TaskKept, IsOver
  <1>r. req[r].res = "none"
    BY <1>t, <1>0 DEF Holds
  <1>1. CASE p = "serve"
    <2>1. Stored(r, entry[k].gen)
      BY <1>1, ServedIsStored
    <2>2. req'[r].pc = "answered" /\ req'[r].res = "ok" /\ req'[r].val = entry[k].gen
      BY <1>1, <1>t DEF PlanStep, AnswerOk, ReqType
    <2>3. Holds(r)'
      BY <1>0, <1>t, <2>1, <2>2, FactsKept DEF Holds
    <2> QED
      BY <1>0, <2>3, AskMove
  <1>2. CASE p = "join"
    <2>1. Flown(r, flight[k])
      BY <1>2, JoinedIsFlown
    <2>2. req'[r].pc = "waiting" /\ req'[r].res = "none" /\ req'[r].gen = flight[k]
      BY <1>2, <1>r, <1>t DEF PlanStep, JoinFlight, ReqType
    <2>3. Holds(r)'
      BY <1>0, <1>t, <2>1, <2>2, FactsKept DEF Holds
    <2> QED
      BY <1>0, <2>3, AskMove
  <1>3. CASE p \notin {"serve", "join"}
    <2>2. req'[r].pc = "claiming" /\ req'[r].res = "none"
      BY <1>3, <1>r, <1>t DEF PlanStep, ReqType
    <2>3. Holds(r)'
      BY <1>0, <1>t, <2>2, FactsKept DEF Holds
    <2> QED
      BY <1>0, <2>3, AskMove
  <1> QED
    BY <1>1, <1>2, <1>3

\* claim() opens a flight, which is later than every other.
LEMMA OpenAInv ==
    ASSUME IInv, AInv, NEW r \in Requests, req[r].pc = "claiming",
           NEW k \in Domains, k = Lower[req[r].domain], flight[k] = NoGen,
           NEW v, v # NoGen => Stored(r, v),
           nextGen < MaxGeneration, Open(k, nextGen),
           req' = [req EXCEPT ![r].pc = "launching", ![r].gen = nextGen, ![r].val = v],
           UNCHANGED <<now, entry>>
    PROVE  AInv'
  <1> PICK n : n = nextGen
    OBVIOUS
  <1>t. req \in [Requests -> ReqType] /\ task \in [Gens -> TaskType] /\ Holds(r)
    BY DEF IInv, TypeOK, AInv, RequestsHold
  <1>n. n \in Gens /\ n \in Nat /\ task[n].pc = "none"
        /\ \A h \in Gens : task[h].pc # "none" => h < n
    BY GensFacts DEF IInv, TypeOK, FlightsMatch
  <1>0. /\ task'[n].pc = "opened" /\ task'[n].key = k
        /\ task'[n].kind = task[n].kind /\ task'[n].fresh = task[n].fresh
        /\ task'[n].stale = task[n].stale
        /\ \A h \in Gens : h # n => task'[h] = task[h]
    BY <1>t, <1>n DEF Open, TaskType
  <1>k. \A h \in Gens : TaskKept(h)
    BY <1>0, <1>n DEF TaskKept, IsOver
  <1>q. /\ req'[r].pc = "launching" /\ req'[r].gen = n /\ req'[r].val = v
        /\ req'[r].before = req[r].before /\ req'[r].domain = req[r].domain
        /\ req'[r].now = req[r].now /\ req'[r].res = req[r].res
        /\ \A s \in Requests : s # r => req'[s] = req[s]
    BY <1>t DEF ReqType
  <1>1. TasksEnd'
    BY <1>0, <1>n DEF AInv, TasksEnd, IsOver
  <1>2. EntriesLatest'
    <2>1. \A h \in Gens : IsOver(h)' => h # n /\ task'[h] = task[h] /\ IsOver(h)
      BY <1>0 DEF IsOver
    <2>2. \A h \in Gens : IsOver(h) => h # n
      BY <1>n DEF IsOver
    <2> QED
      BY <1>0, <2>1, <2>2 DEF AInv, EntriesLatest, Latest, IsOver, HasValue
  <1>3. FlightsLatest'
    <2> SUFFICES ASSUME NEW g \in Gens, NEW h \in Gens, InFlight(g)', task'[h].pc # "none",
                        task'[h].key = task'[g].key
                 PROVE  h <= g
      BY DEF FlightsLatest
    <2>0. g \in Int /\ h \in Int
      BY GensFacts
    <2>1. CASE g = n
      BY <1>0, <1>n, <2>0, <2>1
    <2>2. CASE g # n
      <3>1. InFlight(g) /\ task[g].key = task'[g].key /\ task[g].key \in Domains
        BY <1>0, <1>t, <2>2 DEF InFlight, TaskType
      <3>2. flight[task[g].key] = g /\ g # NoGen
        BY <3>1, GensFacts DEF IInv, FlightsMatch
      <3>3. h # n
        BY <1>0, <3>1, <3>2
      <3> QED
        BY <1>0, <3>1, <3>3 DEF AInv, FlightsLatest
    <2> QED
      BY <2>1, <2>2
  <1>4. Holds(r)'
    <2>1. \A h \in req[r].before : h \in Gens /\ IsOver(h) /\ h <= n /\ h # n
      BY <1>t, <1>n, GensFacts DEF Holds, IsOver, ReqType
    <2>2. NoOlder(r, n)'
      BY <1>q, <2>1, <1>n DEF NoOlder, HasValue
    <2>3. Flown(r, n)'
      BY <1>0, <1>q, <1>n, <2>1, <2>2 DEF Flown
    <2>4. v # NoGen => Stored(r, v)'
      BY <1>t, <1>k, <1>q, FactsKept
    <2>5. \A h \in req'[r].before : IsOver(h)'
      BY <1>q, <2>1, <1>k DEF TaskKept
    <2>6. req'[r].res = "none"
      BY <1>t, <1>q DEF Holds
    <2> QED
      BY <1>q, <2>3, <2>4, <2>5, <2>6 DEF Holds
  <1>5. \A s \in Requests : s # r => Holds(s)'
    BY <1>k, <1>q, HoldsOn DEF AInv, RequestsHold
  <1> QED
    BY <1>1, <1>2, <1>3, <1>4, <1>5 DEF AInv, RequestsHold

\* plan() under the write lock.
LEMMA ClaimAInv ==
    ASSUME IInv, AInv, NEW r \in Requests, ClaimStep(r)
    PROVE  AInv'
  <1> DEFINE k == KeyOf(req[r].domain)
             p == PlanOf(k, req[r].now)
  <1>t. req \in [Requests -> ReqType] /\ Holds(r) /\ req[r].pc = "claiming" /\ req[r].res = "none"
    BY DEF IInv, TypeOK, AInv, RequestsHold, Holds, ClaimStep
  <1>d. k \in Domains /\ k = Lower[req[r].domain]
    BY LowerAssumption, <1>t DEF ReqType, KeyOf
  <1>k. UNCHANGED task => \A h \in Gens : TaskKept(h)
    BY DEF TaskKept, IsOver
  <1>1. CASE p = "serve"
    <2>1. Stored(r, entry[k].gen)
      BY <1>1, ServedIsStored
    <2>2. AnswerOk(r, entry[k].gen) /\ UNCHANGED <<entry, flight, nextGen, task>>
      BY <1>1 DEF ClaimStep
    <2>3. /\ req'[r].pc = "answered" /\ req'[r].res = "ok" /\ req'[r].val = entry[k].gen
          /\ req'[r].before = req[r].before /\ req'[r].domain = req[r].domain
          /\ req'[r].now = req[r].now
          /\ \A s \in Requests : s # r => req'[s] = req[s]
      BY <1>t, <2>2 DEF AnswerOk, ReqType
    <2>4. Holds(r)'
      BY <1>k, <1>t, <2>1, <2>2, <2>3, FactsKept DEF Holds
    <2> QED
      BY <2>2, <2>3, <2>4, AskMove
  <1>2. CASE p = "join"
    <2>1. Flown(r, flight[k])
      BY <1>2, JoinedIsFlown
    <2>2. JoinFlight(r, flight[k]) /\ UNCHANGED <<entry, flight, nextGen, task>>
      BY <1>2 DEF ClaimStep
    <2>3. /\ req'[r].pc = "waiting" /\ req'[r].res = "none" /\ req'[r].gen = flight[k]
          /\ req'[r].before = req[r].before /\ req'[r].domain = req[r].domain
          /\ req'[r].now = req[r].now
          /\ \A s \in Requests : s # r => req'[s] = req[s]
      BY <1>t, <2>2 DEF JoinFlight, ReqType
    <2>4. Holds(r)'
      BY <1>k, <1>t, <2>1, <2>2, <2>3, FactsKept DEF Holds
    <2> QED
      BY <2>2, <2>3, <2>4, AskMove
  <1>3. CASE p \notin {"serve", "join"}
    <2> DEFINE v == IF p = "refresh" THEN entry[k].gen ELSE NoGen
    <2>1. /\ p \in {"refresh", "fetch"} /\ nextGen < MaxGeneration /\ Open(k, nextGen)
          /\ req' = [req EXCEPT ![r].pc = "launching", ![r].gen = nextGen, ![r].val = v]
          /\ UNCHANGED <<now, entry>>
      BY <1>3 DEF ClaimStep
    <2>2. flight[k] = NoGen
      BY <1>d, <2>1, PlanOpens
    <2>3. v # NoGen => Stored(r, v)
      BY <2>1, ServedIsStored
    <2> HIDE DEF k, p, v
    <2> QED
      BY <1>t, <1>d, <2>1, <2>2, <2>3, OpenAInv
  <1> QED
    BY <1>1, <1>2, <1>3

\* The steps of tasks and of launch(): where nothing settles, the table stays and
\* no response is added to those that are over.
LEMMA QuietMove ==
    ASSUME IInv, AInv, TasksEnd', \A h \in Gens : TaskKept(h),
           \A h \in Gens : task[h].pc = "none" <=> task'[h].pc = "none",
           \A h \in Gens : IsOver(h)' /\ HasValue(h)' => IsOver(h),
           \A h \in Gens : InFlight(h)' => InFlight(h),
           UNCHANGED entry, RequestsHold'
    PROVE  AInv'
  <1>o. \A h \in Gens : IsOver(h) => task[h].pc # "none"
    BY DEF IsOver
  <1>1. EntriesLatest'
    BY <1>o DEF AInv, EntriesLatest, Latest, TaskKept, HasValue
  <1>2. FlightsLatest'
    <2>1. \A h \in Gens : InFlight(h) => task[h].pc # "none"
      BY DEF InFlight
    <2> QED
      BY <2>1 DEF AInv, FlightsLatest, TaskKept
  <1> QED
    BY <1>1, <1>2 DEF AInv

\* launch() spawns the task, and answers with what was stored or waits.
LEMMA LaunchAInv ==
    ASSUME IInv, AInv, NEW r \in Requests, LaunchStep(r)
    PROVE  AInv'
  <1> PICK g : g = req[r].gen
    OBVIOUS
  <1>t. req \in [Requests -> ReqType] /\ task \in [Gens -> TaskType] /\ Holds(r)
    BY DEF IInv, TypeOK, AInv, RequestsHold
  <1>g. /\ g \in Gens /\ task[g].pc = "opened" /\ req[r].pc = "launching"
        /\ req[r].res = "none"
    BY <1>t DEF LaunchStep, IInv, LaunchersOwn, Holds
  <1>0. /\ task'[g] = [task[g] EXCEPT !.pc = "spawned"]
        /\ \A h \in Gens : h # g => task'[h] = task[h]
        /\ UNCHANGED entry
    BY <1>t, <1>g DEF LaunchStep
  <1>1. /\ \A h \in Gens : task[h].pc = "none" <=> task'[h].pc = "none"
        /\ \A h \in Gens : IsOver(h)' /\ HasValue(h)' => IsOver(h)
        /\ \A h \in Gens : InFlight(h)' => InFlight(h)
    BY <1>t, <1>g, <1>0 DEF TaskType, IsOver, InFlight
  <1>2. (\A h \in Gens : TaskKept(h)) /\ TasksEnd'
    BY RequestStepKeeps DEF RequestStep, AInv
  <1>3. /\ req'[r].before = req[r].before /\ req'[r].domain = req[r].domain
        /\ req'[r].now = req[r].now
        /\ \A s \in Requests : s # r => req'[s] = req[s]
        /\ IF req[r].val # NoGen
             THEN req'[r].pc = "answered" /\ req'[r].res = "ok" /\ req'[r].val = req[r].val
             ELSE req'[r].pc = "waiting" /\ req'[r].res = "none" /\ req'[r].gen = g
    BY <1>t, <1>g DEF LaunchStep, AnswerOk, JoinFlight, ReqType
  <1>4. Holds(r)'
    <2>1. Flown(r, g) /\ (req[r].val # NoGen => Stored(r, req[r].val))
      BY <1>t, <1>g DEF Holds
    <2>2. Flown(r, g)' /\ \A v : Stored(r, v) => Stored(r, v)'
      BY <1>2, <1>3, <1>t, <2>1, FactsKept
    <2>3. \A h \in req'[r].before : IsOver(h)'
      BY <1>2, <1>3, <1>t, FactsKept
    <2> QED
      BY <1>3, <2>1, <2>2, <2>3 DEF Holds
  <1>5. RequestsHold'
    BY <1>2, <1>3, <1>4, HoldsOn DEF AInv, RequestsHold
  <1> QED
    BY <1>0, <1>1, <1>2, <1>5, QuietMove

\* A request is woken by the outcome of its flight.
LEMMA WakeAInv ==
    ASSUME IInv, AInv, NEW r \in Requests, Wake(r)
    PROVE  AInv'
  <1> PICK g : g = req[r].gen
    OBVIOUS
  <1>t. req \in [Requests -> ReqType] /\ Holds(r)
    BY DEF IInv, TypeOK, AInv, RequestsHold
  <1>g. req[r].pc = "waiting" /\ Flown(r, g) /\ req[r].res = "none"
    BY <1>t DEF Wake, Holds
  <1>0. /\ UNCHANGED <<entry, flight, nextGen, task>>
        /\ req'[r].before = req[r].before /\ req'[r].domain = req[r].domain
        /\ req'[r].now = req[r].now /\ req'[r].gen = g /\ req'[r].pc = "answered"
        /\ \A s \in Requests : s # r => req'[s] = req[s]
        /\ \/ req'[r].res = "ok" /\ req'[r].val = g /\ task[g].pc = "sent"
           \/ req'[r].res \in {"failed", "aborted"}
    BY <1>t DEF Wake, AnswerOk, ReqType
  <1>k. \A h \in Gens : TaskKept(h)
    BY <1>0 DEF TaskKept, IsOver
  <1>1. /\ NoOlder(r, g) => NoOlder(r, g)'
        /\ Flown(r, g) => Flown(r, g)'
        /\ \A h \in req'[r].before : IsOver(h)'
    BY <1>0, <1>k, <1>t, FactsKept
  <1>2. Holds(r)'
    BY <1>0, <1>1, <1>g DEF Holds, Flown
  <1> QED
    BY <1>0, <1>2, AskMove

\* A request whose client left holds nothing.
LEMMA DisconnectAInv ==
    ASSUME IInv, AInv, NEW r \in Requests, Disconnect(r)
    PROVE  AInv'
  <1> DEFINE q == [NoReq EXCEPT !.pc = "gone"]
  <1>1. req' = [req EXCEPT ![r] = q] /\ UNCHANGED <<entry, flight, nextGen, task>>
    BY DEF Disconnect
  <1>2. q.pc = "gone" /\ q.res = "none" /\ q.before = {}
    BY DEF NoReq
  <1> HIDE DEF q
  <1>3. req'[r] = q /\ \A s \in Requests : s # r => req'[s] = req[s]
    BY <1>1 DEF IInv, TypeOK
  <1>4. Holds(r)'
    BY <1>2, <1>3 DEF Holds
  <1> QED
    BY <1>1, <1>3, <1>4, AskMove

\* settle() replaces an entry by a later response, or drops it.
LEMMA SettleAInv ==
    ASSUME IInv, AInv, NEW g \in Gens, Settle(g)
    PROVE  AInv'
  <1> PICK k : k = task[g].key
    OBVIOUS
  <1>t. task \in [Gens -> TaskType] /\ entry \in [Domains -> EntryType] /\ k \in Domains
    BY DEF IInv, TypeOK, TaskType
  <1>g. /\ task[g].pc = "landing" /\ InFlight(g) /\ ~IsOver(g) /\ flight[k] = g
        /\ k \in slots /\ entry[k].gen < g /\ g # NoGen /\ g \in Nat
    <2>1. task[g].pc = "landing" /\ g # NoGen /\ g \in Nat
      BY GensFacts DEF Settle
    <2>2. InFlight(g) /\ ~IsOver(g)
      BY <2>1 DEF InFlight, IsOver
    <2>3. flight[k] = g
      BY <2>2 DEF IInv, FlightsMatch
    <2> QED
      BY <1>t, <2>1, <2>2, <2>3 DEF IInv, NoEmptySlot, EntriesOlder
  <1>0. /\ task'[g] = [task[g] EXCEPT !.pc = "settled"]
        /\ \A h \in Gens : h # g => task'[h] = task[h]
        /\ entry' = [entry EXCEPT ![k] = SettledEntry(g, entry[k])]
        /\ UNCHANGED req
    BY <1>t, <1>g DEF Settle
  <1>1. (\A h \in Gens : TaskKept(h)) /\ TasksEnd'
    BY TaskStepKeeps DEF TaskStep, AInv
  <1>s. /\ IsOver(g)' /\ task'[g].key = k /\ task'[g].kind = task[g].kind
        /\ task'[g].fresh = task[g].fresh /\ task'[g].stale = task[g].stale
        /\ ~InFlight(g)'
    BY <1>t, <1>0 DEF TaskType, IsOver, InFlight
  <1>h. \A h \in Gens : /\ IsOver(h)' => h = g \/ IsOver(h)
                        /\ HasValue(h)' <=> HasValue(h)
                        /\ task'[h].key = task[h].key
                        /\ InFlight(h)' => InFlight(h)
                        /\ task'[h].pc # "none" => task[h].pc # "none"
    BY <1>0, <1>s, <1>g DEF IsOver, HasValue, InFlight
  <1>l. \A h \in Gens : IsOver(h)' /\ task'[h].key = k => h <= g
    BY <1>g, <1>h DEF AInv, FlightsLatest, IsOver
  <1>e. /\ \A j \in Domains : j # k => entry'[j] = entry[j]
        /\ \/ /\ task[g].kind = "cached"
              /\ entry'[k] = [gen |-> g, fresh |-> task[g].fresh, stale |-> task[g].stale]
           \/ entry'[k].gen = NoGen
           \/ entry'[k] = entry[k] /\ ~HasValue(g)
    <2>1. ~(entry[k].gen > g)
      <3> PICK n : n = entry[k].gen
        OBVIOUS
      <3>1. n \in Int /\ n < g
        BY <1>t, <1>g, GensFacts DEF EntryType
      <3> QED
        BY <1>g, <3>1
    <2> QED
      BY <1>0, <1>t, <2>1 DEF SettledEntry, NoEntry, HasValue
  <1>2. EntriesLatest'
    <2> SUFFICES ASSUME NEW j \in Domains, NEW v, v = entry'[j].gen, v # NoGen
                 PROVE  Latest(j, v)'
      BY DEF EntriesLatest
    <2>1. CASE entry'[j] = entry[j] /\ (j = k => ~HasValue(g))
      <3>1. Latest(j, v)
        BY <2>1 DEF AInv, EntriesLatest
      <3> QED
        BY <1>1, <1>h, <1>s, <2>1, <3>1 DEF Latest, TaskKept
    <2>2. CASE j = k /\ task[g].kind = "cached" /\ entry'[k] = [gen |-> g, fresh |-> task[g].fresh,
                                                              stale |-> task[g].stale]
      BY <1>s, <1>l, <2>2 DEF Latest
    <2> QED
      BY <1>e, <2>1, <2>2
  <1>3. FlightsLatest'
    BY <1>h DEF AInv, FlightsLatest
  <1>4. RequestsHold'
    BY <1>0, <1>1, HoldsOn DEF AInv, RequestsHold
  <1> QED
    BY <1>1, <1>2, <1>3, <1>4 DEF AInv

\* The other steps of a task, its abandoning and its drop.
LEMMA TaskAInv ==
    ASSUME IInv, AInv, NEW g \in Gens,
           FetchStep(g) \/ Publish(g) \/ Abandon(g) \/ DropUnpolled(g)
    PROVE  AInv'
  <1>t. task \in [Gens -> TaskType]
    BY DEF IInv, TypeOK
  <1>1. /\ \A h \in Gens : TaskKept(h)
        /\ TasksEnd'
        /\ \A h \in Gens : h # g => task'[h] = task[h]
        /\ task[g].pc # "none" /\ task'[g].pc # "none"
    BY TaskStepKeeps DEF TaskStep, AInv
  <1>2. UNCHANGED <<entry, req>>
    BY DEF FetchStep, Poll, Respond, FetchFails, FetchSucceeds, Publish, Abandon, DropUnpolled
  <1>3. IsOver(g)' /\ HasValue(g)' => IsOver(g)
    <2>1. CASE DropUnpolled(g)
      BY <1>t, <2>1 DEF DropUnpolled, HasValue, TaskType
    <2>2. CASE Settle(g)
      BY <1>t, <2>2 DEF Settle, FetchStep, Poll, Respond, FetchFails, FetchSucceeds, Publish,
                        Abandon, DropUnpolled
    <2> QED
      BY <2>1, <2>2, TaskStepKeeps DEF TaskStep, AInv
  <1>4. InFlight(g)' => InFlight(g)
    BY <1>t DEF FetchStep, Poll, Respond, FetchFails, FetchSucceeds, Publish, Abandon,
                DropUnpolled, InFlight, TaskType
  <1>5. RequestsHold'
    BY <1>1, <1>2, HoldsOn DEF AInv, RequestsHold
  <1>6. /\ \A h \in Gens : IsOver(h)' /\ HasValue(h)' => IsOver(h)
        /\ \A h \in Gens : InFlight(h)' => InFlight(h)
        /\ \A h \in Gens : task[h].pc = "none" <=> task'[h].pc = "none"
    BY <1>1, <1>3, <1>4 DEF IsOver, HasValue, InFlight
  <1> QED
    BY <1>1, <1>2, <1>5, <1>6, QuietMove

\* Every step preserves what requests hold.
LEMMA NextAInv == IInv /\ AInv /\ [Next]_vars => AInv'
  <1> SUFFICES ASSUME IInv, AInv, [Next]_vars PROVE AInv'
    OBVIOUS
  <1>1. CASE UNCHANGED <<entry, flight, nextGen, task, req>>
    BY <1>1 DEF AInv, TasksEnd, EntriesLatest, Latest, FlightsLatest, RequestsHold, Holds, Stored, Flown,
                NoOlder, HasValue, IsOver, InFlight
  <1>2. ASSUME NEW r \in Requests, RequestStep(r)
        PROVE  AInv'
    BY <1>2, PlanAInv, ClaimAInv, LaunchAInv, WakeAInv DEF RequestStep
  <1>3. ASSUME NEW g \in Gens, TaskStep(g)
        PROVE  AInv'
    BY <1>3, SettleAInv, TaskAInv DEF TaskStep
  <1> QED
    BY <1>1, <1>2, <1>3, ArriveAInv, DisconnectAInv, TaskAInv DEF Next, Tick, Idle, vars

----------------------------------------------------------------------------
(* Theorems *)

\* Through every interleaving, what is stored is the latest response of its host
\* and what a request holds is no older than what there was when it came.
THEOREM AnswersInvariant == Spec => []AInv
  BY InductiveInvariant, InitAInv, NextAInv, PTL DEF Spec

\* resolve() never gives out a value that had expired when it read the clock,
\* whichever of the two locks it planned under and however long it was
\* kept waiting: it is unexpired, or it landed meanwhile.
THEOREM FreshEnoughHolds == Spec => []FreshEnough
  <1>1. AInv => FreshEnough
    BY DEF AInv, RequestsHold, Holds, Stored, FreshEnough
  <1> QED
    BY <1>1, AnswersInvariant, PTL

\* No request is given an older value of its host than one that had landed when
\* it came, stored or not: settle() never lets an entry outlive the response that
\* was fetched to replace it.
THEOREM ReadsLatestHolds == Spec => []ReadsLatest
  <1>1. AInv => ReadsLatest
    BY DEF AInv, RequestsHold, Holds, Stored, NoOlder, HasValue, ReadsLatest
  <1> QED
    BY <1>1, AnswersInvariant, PTL

\* Where the runtime drops no task before its first poll, an error a request is
\* told is of a flight that was still under way when it came: run() and its
\* Abandon guard take every flight that is over out of the table.  (A task
\* dropped unpolled leaves its flight there, and later requests are told of it.)
THEOREM AnswersAreCurrentHolds ==
    ASSUME ~MayDropUnpolled
    PROVE  Spec => []AnswersAreCurrent
  <1>1. AInv => FailureIsCurrent
    <2> SUFFICES ASSUME AInv, NEW r \in Requests, req[r].res \in {"failed", "aborted"}
                 PROVE  req[r].gen \notin req[r].before
      BY DEF FailureIsCurrent
    <2>1. Flown(r, req[r].gen)
      BY DEF AInv, RequestsHold, Holds
    <2> QED
      BY <2>1 DEF AInv, TasksEnd, Flown
  <1>2. AInv => AnswersAreCurrent
    <2>1. AInv => ReadsLatest
      BY DEF AInv, RequestsHold, Holds, Stored, NoOlder, HasValue, ReadsLatest
    <2> QED
      BY <1>1, <2>1 DEF AnswersAreCurrent
  <1> QED
    BY <1>2, AnswersInvariant, PTL

----------------------------------------------------------------------------
(* Refinement *)

\* The variables of the contract.
contractVars == <<now, StoredOf, LandedOf, CallsOf>>

\* The contract's view of one call moves with that call.
LEMMA CallsMove ==
    ASSUME NEW r \in Requests, NEW c, CallOf(r)' = c, \A s \in Requests : s # r => req'[s] = req[s]
    PROVE  CallsOf' = [CallsOf EXCEPT ![r] = c]
  <1>1. \A s \in Requests : s # r => CallOf(s)' = CallOf(s)
    BY DEF CallOf, IsAnswered
  <1> QED
    BY <1>1 DEF CallsOf

\* A fetch is seen to have landed as soon as it is over, and is never seen to change.
LEMMA LandedStays ==
    ASSUME \A h \in Gens : TaskKept(h), \A h \in Gens : IsOver(h)' => IsOver(h)
    PROVE  LandedOf' = LandedOf
  <1>1. \A h \in Gens : IsOver(h) => task[h].pc # "none"
    BY DEF IsOver
  <1>2. \A h \in Gens : /\ IsOver(h)' <=> IsOver(h)
                        /\ IsOver(h) => task'[h].key = task[h].key /\ task'[h].kind = task[h].kind
    BY <1>1 DEF TaskKept
  <1> QED
    BY <1>2 DEF LandedOf, OutcomeOf

\* A fetch has landed for the contract when it is over.
LEMMA DoneIsOver ==
    ASSUME IInv, NEW g \in Gens
    PROVE  Contract!Done(g) <=> IsOver(g)
  <1>1. task[g].kind \in Kinds
    BY DEF IInv, TypeOK, TaskType
  <1> QED
    BY <1>1 DEF Contract!Done, LandedOf, OutcomeOf, Kinds

\* What the contract sees of a call.
CallType ==
    [pc : {"idle", "left", "done", "open"}, host : Domains \cup {NoGen}, since : Nat,
     before : SUBSET Gens, outcome : Results, gen : Gens \cup {NoGen}]

LEMMA CallsTyped ==
    IInv => CallsOf \in [Requests -> CallType]
  <1> SUFFICES ASSUME IInv PROVE CallsOf \in [Requests -> CallType]
    OBVIOUS
  <1>1. ASSUME NEW r \in Requests
        PROVE  CallOf(r) \in CallType
    <2>1. /\ req[r].domain \in Domains /\ req[r].now \in Nat /\ req[r].before \in SUBSET Gens
          /\ req[r].gen \in Gens \cup {NoGen} /\ req[r].val \in Gens \cup {NoGen}
          /\ req[r].res \in Results /\ Lower[req[r].domain] \in Domains
      BY LowerAssumption DEF IInv, TypeOK, ReqType
    <2> QED
      BY <2>1 DEF CallOf, CallType, Results
  <1> QED
    BY <1>1 DEF CallsOf

\* The calls once r has outcome o, of value v.
Answered(f, r, o, v) == [f EXCEPT ![r].pc = "done", ![r].outcome = o, ![r].gen = v]

\* The call c once it has outcome o, of value v.
AnsweredTo(c, o, v) ==
    [pc |-> "done", host |-> c.host, since |-> c.since, before |-> c.before, outcome |-> o, gen |-> v]

Replaced(f, r, c) == [f EXCEPT ![r] = c]

\* A call that is answered keeps what it asked.
LEMMA AnsweredCall ==
    ASSUME NEW f \in [Requests -> CallType], NEW r \in Requests, NEW o \in Results,
           NEW v \in Gens \cup {NoGen}
    PROVE  Answered(f, r, o, v) = Replaced(f, r, AnsweredTo(f[r], o, v))
  <1>1. PICK c : c = f[r]
    OBVIOUS
  <1>2. PICK d : d = [c EXCEPT !.pc = "done", !.outcome = o, !.gen = v]
    OBVIOUS
  <1>3. c \in CallType
    BY <1>1
  <1>4. d = [pc |-> "done", host |-> c.host, since |-> c.since, before |-> c.before,
             outcome |-> o, gen |-> v]
    BY <1>2, <1>3 DEF CallType
  <1>5. Answered(f, r, o, v) = [f EXCEPT ![r] = d]
    BY <1>1, <1>2 DEF Answered
  <1> QED
    BY <1>1, <1>4, <1>5 DEF AnsweredTo, Replaced

\* The contract starts where the cache does.
LEMMA InitRefines == Init => Contract!Init
  <1> SUFFICES ASSUME Init PROVE Contract!Init
    OBVIOUS
  <1>1. StoredOf = [h \in Hosts |-> Contract!Nothing]
    <2>1. \A h \in Hosts : h \in Domains
      BY LowerAssumption DEF Hosts
    <2> QED
      BY <2>1 DEF Init, StoredOf, NoEntry, Contract!Nothing
  <1>2. LandedOf = [g \in Gens |-> [host |-> NoGen, outcome |-> "none"]]
    <2>1. \A g \in Gens : ~IsOver(g)
      BY DEF Init, NoTask, IsOver
    <2> QED
      BY <2>1 DEF LandedOf, OutcomeOf
  <1>3. CallsOf = [r \in Requests |-> [pc |-> "idle", host |-> NoGen, since |-> 0, before |-> {},
                                      outcome |-> "none", gen |-> NoGen]]
    <2>1. \A r \in Requests : req[r].pc = "idle" /\ req[r].now = 0 /\ req[r].before = {}
      BY DEF Init, NoReq
    <2> QED
      BY <2>1 DEF CallsOf, CallOf, IsAnswered
  <1> QED
    BY <1>1, <1>2, <1>3 DEF Init, Contract!Init

\* resolve() is called.
LEMMA ArriveRefines ==
    ASSUME IInv, NEW r \in Requests, NEW d \in Domains, Arrive(r, d)
    PROVE  Contract!Call(r, Lower[d])
  <1> DEFINE q == [NoReq EXCEPT !.pc = "planning", !.domain = d, !.now = now,
                                !.before = {g \in Gens : IsOver(g)}]
  <1>1. /\ req[r].pc = "idle" /\ req' = [req EXCEPT ![r] = q]
        /\ UNCHANGED <<now, slots, entry, flight, nextGen, task>>
    BY DEF Arrive
  <1>2. q.pc = "planning" /\ q.domain = d /\ q.now = now /\ q.before = {g \in Gens : IsOver(g)}
    BY DEF NoReq
  <1> HIDE DEF q
  <1>3. req'[r] = q /\ \A s \in Requests : s # r => req'[s] = req[s]
    BY <1>1 DEF IInv, TypeOK
  <1> DEFINE c == [pc |-> "open", host |-> Lower[d], since |-> now,
                   before |-> {g \in Gens : Contract!Done(g)}, outcome |-> "none", gen |-> NoGen]
  <1>4. CallOf(r)' = c
    <2>1. {g \in Gens : Contract!Done(g)} = {g \in Gens : IsOver(g)}
      BY DoneIsOver
    <2> QED
      BY <1>2, <1>3, <2>1 DEF CallOf, IsAnswered
  <1>5. CallsOf' = [CallsOf EXCEPT ![r] = c]
    <2> HIDE DEF c
    <2> QED
      BY <1>3, <1>4, CallsMove
  <1>6. CallsOf[r].pc = "idle"
    BY <1>1 DEF CallsOf, CallOf, IsAnswered
  <1>7. UNCHANGED <<now, StoredOf, LandedOf>>
    BY <1>1 DEF StoredOf, LandedOf, IsOver, OutcomeOf
  <1> QED
    BY <1>5, <1>6, <1>7 DEF Contract!Call

\* plan() serves r, under either lock: with what is stored, unexpired.
LEMMA ServeRefines ==
    ASSUME IInv, AInv, NEW r \in Requests, req[r].pc \in {"planning", "claiming"},
           PlanOf(KeyOf(req[r].domain), req[r].now) \in {"serve", "refresh"},
           UNCHANGED <<now, entry, LandedOf>>,
           \A s \in Requests : s # r => req'[s] = req[s],
           IsAnswered(r)',
           req'[r].pc = "launching" \/ (req'[r].pc = "answered" /\ req'[r].res = "ok"),
           req'[r].val = entry[KeyOf(req[r].domain)].gen,
           req'[r].domain = req[r].domain, req'[r].now = req[r].now,
           req'[r].before = req[r].before
    PROVE  Contract!AnswerFromStore(r)
  <1> PICK k : k = KeyOf(req[r].domain)
    OBVIOUS
  <1> PICK v : v = entry[k].gen
    OBVIOUS
  <1>1. k \in Domains /\ k = Lower[req[r].domain] /\ k \in Hosts
    BY LowerAssumption DEF IInv, TypeOK, ReqType, KeyOf, Hosts
  <1>2. Stored(r, v) /\ v # NoGen
    BY ServedIsStored, PlanHas, <1>1
  <1>3. req[r].now < entry[k].stale
    BY <1>1, <1>2 DEF Stored, AInv, EntriesLatest, Latest
  <1>4. CallsOf[r] = [pc |-> "open", host |-> k, since |-> req[r].now, before |-> req[r].before,
                      outcome |-> "none", gen |-> NoGen]
    <2>1. ~IsAnswered(r) /\ req[r].pc \notin {"idle", "gone"}
      BY DEF IsAnswered
    <2> QED
      BY <1>1, <2>1 DEF CallsOf, CallOf
  <1>5. StoredOf[k].gen = v /\ StoredOf[k].expires = entry[k].stale
    BY <1>1 DEF StoredOf
  <1>6. CallOf(r)' = [pc |-> "done", host |-> k, since |-> req[r].now, before |-> req[r].before,
                      outcome |-> "ok", gen |-> v]
    <2>1. req'[r].val = v /\ Lower[req'[r].domain] = k
      BY <1>1
    <2> QED
      BY <2>1 DEF CallOf
  <1>8. CallsOf' = [CallsOf EXCEPT ![r].pc = "done", ![r].outcome = "ok", ![r].gen = v]
    <2>3. "ok" \in Results /\ v \in Gens \cup {NoGen}
      BY <1>2 DEF Stored, Results
    <2>4. CallsOf' = [CallsOf EXCEPT ![r] =
                        [pc |-> "done", host |-> CallsOf[r].host, since |-> CallsOf[r].since,
                         before |-> CallsOf[r].before, outcome |-> "ok", gen |-> v]]
      BY <1>4, <1>6, CallsMove
    <2>5. Answered(CallsOf, r, "ok", v) = Replaced(CallsOf, r, AnsweredTo(CallsOf[r], "ok", v))
      BY <2>3, CallsTyped, AnsweredCall
    <2> QED
      BY <2>4, <2>5 DEF Answered, AnsweredTo, Replaced
  <1>9. UNCHANGED StoredOf
    BY DEF StoredOf
  <1>a. CallsOf[r].pc = "open" /\ CallsOf[r].host = k /\ CallsOf[r].since = req[r].now
    BY <1>4
  <1> QED
    BY <1>2, <1>3, <1>a, <1>5, <1>8, <1>9 DEF Contract!AnswerFromStore

\* A step of r that neither answers it nor ends it is not seen, nor is one that
\* only carries out an answer already given.
LEMMA AskRefines ==
    ASSUME NEW r \in Requests, UNCHANGED <<now, entry, LandedOf>>,
           \A s \in Requests : s # r => req'[s] = req[s],
           CallOf(r)' = CallOf(r)
    PROVE  UNCHANGED contractVars
  <1>1. \A s \in Requests : CallOf(s)' = CallOf(s)
    BY DEF CallOf, IsAnswered
  <1> QED
    BY <1>1 DEF contractVars, CallsOf, StoredOf

LEMMA PlanRefines ==
    ASSUME IInv, AInv, NEW r \in Requests, PlanStep(r)
    PROVE  Contract!AnswerFromStore(r) \/ UNCHANGED contractVars
  <1> DEFINE k == KeyOf(req[r].domain)
             p == PlanOf(k, req[r].now)
  <1>t. req \in [Requests -> ReqType]
    BY DEF IInv, TypeOK
  <1>0. /\ req[r].pc = "planning"
        /\ UNCHANGED <<now, slots, entry, flight, nextGen, task>>
        /\ \A s \in Requests : s # r => req'[s] = req[s]
        /\ req'[r].before = req[r].before /\ req'[r].domain = req[r].domain
        /\ req'[r].now = req[r].now
    BY <1>t DEF PlanStep, AnswerOk, JoinFlight, ReqType
  <1>1. UNCHANGED LandedOf
    BY <1>0 DEF LandedOf, OutcomeOf, IsOver
  <1>2. CASE p = "serve"
    <2>1. req'[r].pc = "answered" /\ req'[r].res = "ok" /\ req'[r].val = entry[k].gen
      BY <1>2, <1>t DEF PlanStep, AnswerOk, ReqType
    <2>2. IsAnswered(r)'
      BY <2>1 DEF IsAnswered
    <2> QED
      BY <1>0, <1>1, <1>2, <2>1, <2>2, ServeRefines
  <1>3. CASE p # "serve"
    <2>1. req'[r].pc \in {"waiting", "claiming"}
      BY <1>3, <1>t DEF PlanStep, JoinFlight, ReqType
    <2>2. CallOf(r)' = CallOf(r)
      BY <1>0, <2>1 DEF CallOf, IsAnswered
    <2> QED
      BY <1>0, <1>1, <2>2, AskRefines
  <1> QED
    BY <1>2, <1>3

LEMMA ClaimRefines ==
    ASSUME IInv, AInv, NEW r \in Requests, ClaimStep(r)
    PROVE  Contract!AnswerFromStore(r) \/ UNCHANGED contractVars
  <1> DEFINE k == KeyOf(req[r].domain)
             p == PlanOf(k, req[r].now)
  <1>t. req \in [Requests -> ReqType]
    BY DEF IInv, TypeOK
  <1>k. (\A h \in Gens : TaskKept(h))
    BY RequestStepKeeps DEF AInv, RequestStep
  <1>0. req[r].pc = "claiming" /\ UNCHANGED <<now, entry>>
    BY DEF ClaimStep
  <1>1. /\ \A s \in Requests : s # r => req'[s] = req[s]
        /\ req'[r].before = req[r].before /\ req'[r].domain = req[r].domain
        /\ req'[r].now = req[r].now
        /\ \/ /\ p = "serve" /\ req'[r].pc = "answered" /\ req'[r].res = "ok"
              /\ req'[r].val = entry[k].gen
           \/ p = "join" /\ req'[r].pc = "waiting"
           \/ /\ p = "refresh" /\ req'[r].pc = "launching" /\ req'[r].val = entry[k].gen
           \/ p = "fetch" /\ req'[r].pc = "launching" /\ req'[r].val = NoGen
    BY <1>t DEF ClaimStep, AnswerOk, JoinFlight, ReqType
  <1>2. UNCHANGED LandedOf
    <2>1. UNCHANGED task \/ (nextGen < MaxGeneration /\ Open(k, nextGen))
      BY DEF ClaimStep
    <2>2. \A h \in Gens : IsOver(h)' => IsOver(h)
      <3>1. CASE UNCHANGED task
        BY <3>1 DEF IsOver
      <3>2. CASE nextGen < MaxGeneration /\ Open(k, nextGen)
        <4>1. \A h \in Gens : task'[h].pc = "opened" \/ task'[h].pc = task[h].pc
          BY <3>2 DEF Open, IInv, TypeOK, TaskType
        <4> QED
          BY <4>1 DEF IsOver
      <3> QED
        BY <2>1, <3>1, <3>2
    <2> QED
      BY <1>k, <2>2, LandedStays
  <1>3. CASE p \in {"serve", "refresh"}
    <2>1. k \in Domains
      BY <1>t, LowerAssumption DEF ReqType, KeyOf
    <2>2. entry[k].gen # NoGen
      BY <1>3, <2>1, PlanHas
    <2>3. IsAnswered(r)'
      BY <1>1, <1>3, <2>2 DEF IsAnswered
    <2>5. req[r].pc \in {"planning", "claiming"} /\ UNCHANGED <<now, entry, LandedOf>>
      BY <1>0, <1>2
    <2> HIDE DEF k, p
    <2>4. /\ req'[r].val = entry[k].gen
          /\ req'[r].pc = "launching" \/ (req'[r].pc = "answered" /\ req'[r].res = "ok")
      BY <1>1, <1>3
    <2>6. PlanOf(KeyOf(req[r].domain), req[r].now) \in {"serve", "refresh"}
      BY <1>3 DEF k, p
    <2>7. req'[r].val = entry[KeyOf(req[r].domain)].gen
      BY <2>4 DEF k
    <2> QED
      BY <1>1, <2>3, <2>4, <2>5, <2>6, <2>7, ServeRefines
  <1>4. CASE p \notin {"serve", "refresh"}
    <2>1. CallOf(r)' = CallOf(r)
      BY <1>0, <1>1, <1>4 DEF CallOf, IsAnswered
    <2> QED
      BY <1>0, <1>1, <1>2, <2>1, AskRefines
  <1> QED
    BY <1>3, <1>4

LEMMA LaunchRefines ==
    ASSUME IInv, AInv, NEW r \in Requests, LaunchStep(r)
    PROVE  UNCHANGED contractVars
  <1>t. req \in [Requests -> ReqType]
    BY DEF IInv, TypeOK
  <1>k. (\A h \in Gens : TaskKept(h))
    BY RequestStepKeeps DEF AInv, RequestStep
  <1>0. req[r].pc = "launching" /\ UNCHANGED <<now, entry>> /\ req[r].res = "none"
    BY DEF LaunchStep, AInv, RequestsHold, Holds
  <1>1. /\ \A s \in Requests : s # r => req'[s] = req[s]
        /\ req'[r].before = req[r].before /\ req'[r].domain = req[r].domain
        /\ req'[r].now = req[r].now
        /\ IF req[r].val # NoGen
             THEN req'[r].pc = "answered" /\ req'[r].res = "ok" /\ req'[r].val = req[r].val
             ELSE req'[r].pc = "waiting"
    BY <1>t DEF LaunchStep, AnswerOk, JoinFlight, ReqType
  <1>2. CallOf(r)' = CallOf(r)
    BY <1>0, <1>1 DEF CallOf, IsAnswered
  <1>3. \A h \in Gens : IsOver(h)' => IsOver(h)
    <2>1. \A h \in Gens : task'[h].pc = "spawned" \/ task'[h].pc = task[h].pc
      BY DEF LaunchStep, IInv, TypeOK, TaskType
    <2> QED
      BY <2>1 DEF IsOver
  <1> QED
    BY <1>0, <1>1, <1>2, <1>3, <1>k, LandedStays, AskRefines

\* wait() tells r how its flight ended.
LEMMA WakeRefines ==
    ASSUME IInv, AInv, ~MayDropUnpolled, NEW r \in Requests, Wake(r)
    PROVE  Contract!AnswerFromFetch(r, req[r].gen)
  <1> PICK g : g = req[r].gen
    OBVIOUS
  <1> PICK o : o = OutcomeOf(g)
    OBVIOUS
  <1>t. req \in [Requests -> ReqType] /\ Holds(r)
    BY DEF IInv, TypeOK, AInv, RequestsHold
  <1>1. /\ req[r].pc = "waiting" /\ g \in Gens /\ task[g].pc # "none"
        /\ task[g].key = Lower[req[r].domain] /\ Lower[task[g].key] = task[g].key
        /\ g \notin req[r].before
    BY <1>t DEF Wake, Holds, Flown, AInv, TasksEnd, IInv, FlightsMatch
  <1>2. /\ UNCHANGED <<now, entry, task>> /\ IsOver(g)
        /\ req'[r].before = req[r].before /\ req'[r].domain = req[r].domain
        /\ req'[r].now = req[r].now /\ req'[r].gen = g /\ req'[r].pc = "answered"
        /\ \A s \in Requests : s # r => req'[s] = req[s]
        /\ \/ req'[r].res = "ok" /\ req'[r].val = g /\ task[g].kind \in {"cached", "uncached"}
           \/ req'[r].res = "failed" /\ task[g].kind = "failed"
           \/ req'[r].res = "aborted" /\ task[g].kind = "aborted"
    BY <1>t, <1>1 DEF Wake, AnswerOk, ReqType, IsOver, AInv, TasksEnd
  <1>3. /\ LandedOf[g].host = Lower[req[r].domain] /\ LandedOf[g].outcome = o
        /\ Contract!Done(g)
    BY <1>1, <1>2, DoneIsOver DEF LandedOf
  <1>4. o \in Results /\ req'[r].res = o /\ (o = "ok" => req'[r].val = g)
    BY <1>2 DEF OutcomeOf, Results
  <1>5. CallsOf[r] = [pc |-> "open", host |-> Lower[req[r].domain], since |-> req[r].now,
                      before |-> req[r].before, outcome |-> "none", gen |-> NoGen]
    <2>1. ~IsAnswered(r) /\ req[r].pc \notin {"idle", "gone"}
      BY <1>1 DEF IsAnswered
    <2> QED
      BY <2>1 DEF CallsOf, CallOf
  <1>6. CallOf(r)' = AnsweredTo(CallsOf[r], o, g)
    <2>1. IsAnswered(r)'
      BY <1>2 DEF IsAnswered
    <2>2. CallOf(r)' = [pc |-> "done", host |-> Lower[req[r].domain], since |-> req[r].now,
                        before |-> req[r].before, outcome |-> o, gen |-> g]
      BY <1>2, <1>4, <2>1 DEF CallOf
    <2> QED
      BY <1>5, <2>2 DEF AnsweredTo
  <1>7. CallsOf' = Answered(CallsOf, r, o, g)
    <2>1. CallsOf' = Replaced(CallsOf, r, AnsweredTo(CallsOf[r], o, g))
      BY <1>2, <1>6, CallsMove DEF Replaced
    <2> QED
      BY <1>1, <1>4, <2>1, CallsTyped, AnsweredCall
  <1>8. UNCHANGED <<now, StoredOf, LandedOf>>
    BY <1>2 DEF StoredOf, LandedOf, OutcomeOf, IsOver
  <1>9. CallsOf[r].pc = "open" /\ CallsOf[r].host = Lower[req[r].domain]
        /\ CallsOf[r].before = req[r].before
    BY <1>5
  <1> QED
    BY <1>1, <1>3, <1>7, <1>8, <1>9 DEF Contract!AnswerFromFetch, Answered

\* The client of r leaves.
LEMMA DisconnectRefines ==
    ASSUME IInv, NEW r \in Requests, Disconnect(r)
    PROVE  Contract!Leave(r)
  <1> DEFINE q == [NoReq EXCEPT !.pc = "gone"]
             c == [pc |-> "left", host |-> NoGen, since |-> 0, before |-> {},
                   outcome |-> "none", gen |-> NoGen]
  <1>1. /\ req[r].pc = "waiting" /\ req' = [req EXCEPT ![r] = q]
        /\ UNCHANGED <<now, slots, entry, flight, nextGen, task>>
    BY DEF Disconnect
  <1>2. q.pc = "gone" /\ q.now = 0 /\ q.before = {}
    BY DEF NoReq
  <1> HIDE DEF q
  <1>3. req'[r] = q /\ \A s \in Requests : s # r => req'[s] = req[s]
    BY <1>1 DEF IInv, TypeOK
  <1>4. CallOf(r)' = c
    BY <1>2, <1>3 DEF CallOf, IsAnswered
  <1>5. CallsOf' = [CallsOf EXCEPT ![r] = c]
    <2> HIDE DEF c
    <2> QED
      BY <1>3, <1>4, CallsMove
  <1>6. CallsOf[r].pc = "open"
    BY <1>1 DEF CallsOf, CallOf, IsAnswered
  <1>7. UNCHANGED <<now, StoredOf, LandedOf>>
    BY <1>1 DEF StoredOf, LandedOf, IsOver, OutcomeOf
  <1> QED
    BY <1>5, <1>6, <1>7 DEF Contract!Leave

\* settle() lands the fetch: nothing younger is stored, so it replaces the entry
\* or, having failed, leaves it until it expires.
LEMMA SettleRefines ==
    ASSUME IInv, AInv, NEW g \in Gens, Settle(g)
    PROVE  \E h \in Hosts, o \in Contract!Outcomes : Contract!Land(g, h, o)
  <1> PICK k : k = task[g].key
    OBVIOUS
  <1> PICK o : o = OutcomeOf(g)'
    OBVIOUS
  <1>t. /\ task \in [Gens -> TaskType] /\ entry \in [Domains -> EntryType] /\ k \in Domains
        /\ now \in Int
    BY DEF IInv, TypeOK, TaskType
  <1>g. /\ task[g].pc = "landing" /\ InFlight(g) /\ ~IsOver(g) /\ flight[k] = g
        /\ k \in slots /\ entry[k].gen < g /\ g # NoGen /\ Lower[k] = k /\ k \in Hosts
    <2>1. task[g].pc = "landing" /\ g # NoGen /\ g \in Nat
      BY GensFacts DEF Settle
    <2>2. InFlight(g) /\ ~IsOver(g)
      BY <2>1 DEF InFlight, IsOver
    <2>3. flight[k] = g /\ Lower[k] = k
      BY <2>1, <2>2 DEF IInv, FlightsMatch
    <2> QED
      BY <1>t, <2>1, <2>2, <2>3 DEF IInv, NoEmptySlot, EntriesOlder, Hosts
  <1>0. /\ task'[g] = [task[g] EXCEPT !.pc = "settled"]
        /\ \A h \in Gens : h # g => task'[h] = task[h]
        /\ entry' = [entry EXCEPT ![k] = SettledEntry(g, entry[k])]
        /\ UNCHANGED <<now, req>>
    BY <1>t, <1>g DEF Settle
  <1>1. IsOver(g)' /\ task'[g].key = k /\ task'[g].kind = task[g].kind
    BY <1>t, <1>0 DEF TaskType, IsOver
  <1>2. o = IF task[g].kind \in {"cached", "uncached"} THEN "ok" ELSE task[g].kind
    BY <1>1 DEF OutcomeOf
  <1>3. task[g].kind # "pending" /\ task[g].kind \in Kinds
    BY <1>t, <1>g DEF AInv, TasksEnd, TaskType
  <1>4. o \in Contract!Outcomes
    BY <1>2, <1>3 DEF Contract!Outcomes, Kinds
  <1>5. LandedOf' = [LandedOf EXCEPT ![g] = [host |-> k, outcome |-> o]]
    <2>1. \A h \in Gens : h # g => LandedOf'[h] = LandedOf[h]
      BY <1>0 DEF LandedOf, OutcomeOf, IsOver
    <2>2. LandedOf'[g] = [host |-> k, outcome |-> o]
      BY <1>1, <1>g DEF LandedOf
    <2> QED
      BY <2>1, <2>2 DEF LandedOf
  <1>6. /\ DOMAIN StoredOf' = Hosts
        /\ \A i \in Hosts \ {k} : StoredOf'[i] = StoredOf[i]
        /\ StoredOf[k].gen = entry[k].gen /\ StoredOf[k].expires = entry[k].stale
        /\ StoredOf'[k] = [gen |-> entry'[k].gen, expires |-> entry'[k].stale]
        /\ StoredOf[k] = [gen |-> entry[k].gen, expires |-> entry[k].stale]
    <2>1. \A i \in Hosts : i \in Domains
      BY LowerAssumption DEF Hosts
    <2> QED
      BY <1>0, <1>t, <1>g, <2>1 DEF StoredOf
  <1>7. entry'[k] = SettledEntry(g, entry[k])
    BY <1>0, <1>t
  <1>8. ~(entry[k].gen > g)
    <2> PICK n : n = entry[k].gen
      OBVIOUS
    <2>1. n \in Int /\ n < g /\ g \in Int
      BY <1>t, <1>g, GensFacts DEF EntryType
    <2> QED
      BY <2>1
  <1>9. \/ o = "ok" /\ StoredOf'[k].gen \in {g, NoGen}
        \/ o # "ok" /\ StoredOf'[k] = StoredOf[k]
        \/ o # "ok" /\ now >= StoredOf[k].expires /\ StoredOf'[k] = Contract!Nothing
    <2>1. CASE task[g].kind \in {"cached", "uncached"}
      <3>1. entry'[k].gen \in {g, NoGen}
        BY <1>7, <1>8, <2>1 DEF SettledEntry, NoEntry
      <3> QED
        BY <1>2, <1>6, <2>1, <3>1
    <2>2. CASE task[g].kind \notin {"cached", "uncached"}
      <3>1. o # "ok"
        BY <1>2, <1>3, <2>2 DEF Kinds
      <3>2. entry'[k] = IF now >= entry[k].stale THEN NoEntry ELSE entry[k]
        BY <1>7, <2>2 DEF SettledEntry
      <3>3. CASE now >= entry[k].stale
        BY <1>6, <3>1, <3>2, <3>3 DEF NoEntry, Contract!Nothing
      <3>4. CASE ~(now >= entry[k].stale)
        BY <1>6, <3>1, <3>2, <3>4
      <3> QED
        BY <3>3, <3>4
    <2> QED
      BY <2>1, <2>2
  <1>a. UNCHANGED CallsOf
    BY <1>0 DEF CallsOf, CallOf, IsAnswered
  <1>b. ~Contract!Done(g) /\ StoredOf[k].gen < g
    BY <1>6, <1>g, DoneIsOver
  <1>c. Contract!Land(g, k, o)
    BY <1>0, <1>5, <1>6, <1>9, <1>a, <1>b DEF Contract!Land
  <1> QED
    BY <1>4, <1>c, <1>g

\* The other steps of a task are the cache's own business.
LEMMA TaskRefines ==
    ASSUME IInv, AInv, ~MayDropUnpolled, NEW g \in Gens,
           FetchStep(g) \/ Publish(g) \/ Abandon(g) \/ DropUnpolled(g)
    PROVE  UNCHANGED contractVars
  <1>1. UNCHANGED <<now, entry, req>>
    BY DEF FetchStep, Poll, Respond, FetchFails, FetchSucceeds, Publish, Abandon, DropUnpolled
  <1>2. /\ \A h \in Gens : TaskKept(h)
        /\ \A h \in Gens : h # g => task'[h] = task[h]
        /\ IsOver(g)' => IsOver(g) \/ Settle(g)
    BY TaskStepKeeps DEF TaskStep, AInv, DropUnpolled
  <1>3. task \in [Gens -> TaskType]
    BY DEF IInv, TypeOK
  <1>4. Settle(g) => IsOver(g)
    BY <1>3 DEF Settle, FetchStep, Poll, Respond, FetchFails, FetchSucceeds, Publish, Abandon,
                DropUnpolled
  <1>5. \A h \in Gens : IsOver(h)' => IsOver(h)
    BY <1>2, <1>4 DEF IsOver
  <1>6. UNCHANGED LandedOf
    BY <1>2, <1>5, LandedStays
  <1> QED
    BY <1>1, <1>6 DEF contractVars, StoredOf, CallsOf, CallOf, IsAnswered

\* Every step of the cache is a step of its contract, or none.
LEMMA NextRefines ==
    IInv /\ AInv /\ ~MayDropUnpolled /\ [Next]_vars => [Contract!Next]_contractVars
  <1> SUFFICES ASSUME IInv, AInv, ~MayDropUnpolled, [Next]_vars
               PROVE  Contract!Next \/ UNCHANGED contractVars
    OBVIOUS
  <1>1. CASE UNCHANGED vars \/ Idle
    BY <1>1 DEF Idle, vars, contractVars, StoredOf, LandedOf, CallsOf, CallOf, IsAnswered, IsOver, OutcomeOf
  <1>2. CASE Tick
    <2>1. UNCHANGED <<StoredOf, LandedOf, CallsOf>>
      BY <1>2 DEF Tick, StoredOf, LandedOf, CallsOf, CallOf, IsAnswered, IsOver, OutcomeOf
    <2>2. Contract!Advance
      BY <1>2, <2>1 DEF Tick, Contract!Advance
    <2> QED
      BY <2>2 DEF Contract!Next
  <1>3. ASSUME NEW r \in Requests, NEW d \in Domains, Arrive(r, d)
        PROVE  Contract!Next
    <2>1. Lower[d] \in Hosts
      BY DEF Hosts
    <2> QED
      BY <1>3, <2>1, ArriveRefines DEF Contract!Next
  <1>4. ASSUME NEW r \in Requests, RequestStep(r) \/ Disconnect(r)
        PROVE  Contract!Next \/ UNCHANGED contractVars
    <2>1. CASE Wake(r)
      <3>1. req[r].gen \in Gens
        BY <2>1 DEF Wake, IInv, WaitersJoined
      <3> QED
        BY <2>1, <3>1, WakeRefines DEF Contract!Next
    <2>2. CASE Disconnect(r)
      BY <2>2, DisconnectRefines DEF Contract!Next
    <2>3. CASE PlanStep(r) \/ ClaimStep(r) \/ LaunchStep(r)
      BY <2>3, PlanRefines, ClaimRefines, LaunchRefines DEF Contract!Next
    <2> QED
      BY <1>4, <2>1, <2>2, <2>3 DEF RequestStep
  <1>5. ASSUME NEW g \in Gens, TaskStep(g) \/ Abandon(g) \/ DropUnpolled(g)
        PROVE  Contract!Next \/ UNCHANGED contractVars
    <2>1. CASE Settle(g)
      BY <2>1, SettleRefines DEF Contract!Next
    <2>2. CASE ~Settle(g)
      BY <1>5, <2>2, TaskRefines DEF TaskStep
    <2> QED
      BY <2>1, <2>2
  <1> QED
    BY <1>1, <1>2, <1>3, <1>4, <1>5 DEF Next

\* The table, its two locks, its channels and its tasks implement what callers
\* are promised: one stored value for each host, replaced by fetches that land
\* in order, and every answer the unexpired value or the outcome of a fetch that
\* landed during the call.  With a runtime that drops tasks unpolled they do not:
\* a flight that was over when the call came may answer it.
THEOREM CacheImplementsContract ==
    ASSUME ~MayDropUnpolled
    PROVE  Spec => ImplementsContract
  <1>1. IInv /\ AInv /\ [Next]_vars => [Contract!Next]_contractVars
    BY NextRefines
  <1> QED
    BY <1>1, InitRefines, InductiveInvariant, AnswersInvariant, PTL
       DEF Spec, ImplementsContract, Contract!Spec, contractVars

----------------------------------------------------------------------------
(* How long a response may be cached: the two readers of its header *)

\* Before any directive is read, no value is known and nothing is granted.
LEMMA InitType == ScanInit => ScanTypeOK
  <1> SUFFICES ASSUME ScanInit PROVE ScanTypeOK
    OBVIOUS
  <1>1. directives \in Seq(Directives)
    BY HeadersAssumption DEF ScanInit
  <1>2. 0 \in 0 .. Len(directives) /\ Absent \in Seconds
    BY <1>1 DEF Seconds
  <1>3. result \in [some : BOOLEAN, fresh : Int, stale : Int]
    BY DEF ScanInit, Scanning
  <1>4. /\ age \in Seconds /\ received \in 0 .. MaxReceived /\ scanned = 0
        /\ sMaxage = Absent /\ maxAge = Absent /\ swr = Absent
        /\ sMaxageSeen = FALSE /\ maxAgeSeen = FALSE
    BY DEF ScanInit
  <1> QED
    BY <1>1, <1>2, <1>3, <1>4 DEF ScanTypeOK

\* What is granted from ttl fresh seconds and `total` in all is nothing, or a
\* proper span.
LEMMA GrantIsProper ==
    ASSUME ScanTypeOK, NEW ttl \in Seconds, NEW total \in Int, ttl <= total, NEW a \in Nat
    PROVE  LET g == Grant(ttl, total, a)
           IN  /\ g \in [some : BOOLEAN, fresh : Int, stale : Int]
               /\ g.some => /\ received <= g.fresh
                            /\ g.fresh <= g.stale
                            /\ received < g.stale
  <1> DEFINE d == IF ttl > a THEN ttl - a ELSE 0
             f == received + d
             s == received + (total - a)
  <1>1. Grant(ttl, total, a) = Nothing \/ (Grant(ttl, total, a) = Some(f, s) /\ ttl # Absent /\ total > a)
    BY DEF Grant
  <1>2. CASE Grant(ttl, total, a) = Nothing
    BY <1>2 DEF Nothing
  <1>3. CASE Grant(ttl, total, a) = Some(f, s) /\ ttl # Absent /\ total > a
    <2>1. ttl \in Nat /\ received \in Nat
      BY <1>3, HeadersAssumption DEF Seconds, ScanTypeOK
    <2>2. d \in Nat /\ d <= total - a
      BY <1>3, <2>1
    <2> HIDE DEF d
    <2>3. f \in Int /\ s \in Int /\ received <= f /\ f <= s /\ received < s
      BY <1>3, <2>1, <2>2
    <2> HIDE DEF f, s
    <2>4. /\ Some(f, s) \in [some : BOOLEAN, fresh : Int, stale : Int]
          /\ Some(f, s).fresh = f /\ Some(f, s).stale = s
      BY <2>3 DEF Some
    <2> QED
      BY <1>3, <2>3, <2>4
  <1> QED
    BY <1>1, <1>2, <1>3

\* What Option::or() and unwrap_or() choose is a number of seconds.
LEMMA OrElseType ==
    ASSUME NEW x \in Seconds
    PROVE  /\ OrElse(x, 0) \in Nat
           /\ \A y \in Seconds : OrElse(x, y) \in Seconds
  BY HeadersAssumption DEF OrElse, Seconds, Absent

GrantInv == ScanTypeOK /\ GrantedSpanIsProper

\* Reading a directive or granting the span preserves both.
LEMMA NextGrantInv == GrantInv /\ [ScanNext]_scanner => GrantInv'
  <1> SUFFICES ASSUME GrantInv, [ScanNext]_scanner PROVE GrantInv'
    OBVIOUS
  <1>1. CASE Scan
    <2>1. scanned < Len(directives) /\ scanned' = scanned + 1 /\ UNCHANGED input /\ result = Scanning
      BY <1>1 DEF Scan
    <2>2. directives[scanned + 1] \in Directives /\ scanned' \in 0 .. Len(directives)'
      BY <2>1 DEF GrantInv, ScanTypeOK, input
    <2>3. directives[scanned + 1].arg \in Seconds
      BY <2>2 DEF Directives
    <2>4. /\ sMaxage' \in Seconds /\ maxAge' \in Seconds /\ swr' \in Seconds
          /\ sMaxageSeen' \in BOOLEAN /\ maxAgeSeen' \in BOOLEAN
          /\ result' \in {Nothing, Scanning}
      <3>0. /\ sMaxage \in Seconds /\ maxAge \in Seconds /\ swr \in Seconds
            /\ sMaxageSeen \in BOOLEAN /\ maxAgeSeen \in BOOLEAN
        BY DEF GrantInv, ScanTypeOK
      <3>1. CASE ScanForbids \/ ScanUnknown
        BY <2>1, <3>0, <3>1 DEF ScanForbids, ScanUnknown
      <3>2. CASE ScanSMaxage
        BY <2>1, <2>3, <3>0, <3>2 DEF ScanSMaxage
      <3>3. CASE ScanMaxAge
        BY <2>1, <2>3, <3>0, <3>3 DEF ScanMaxAge
      <3>4. CASE ScanStale
        BY <2>1, <2>3, <3>0, <3>4 DEF ScanStale
      <3> QED
        BY <1>1, <3>1, <3>2, <3>3, <3>4 DEF Scan
    <2>5. result' \in [some : BOOLEAN, fresh : Int, stale : Int] /\ ~result'.some
      <3>1. Nothing \in [some : BOOLEAN, fresh : Int, stale : Int] /\ ~Nothing.some
        BY DEF Nothing
      <3>2. Scanning \in [some : BOOLEAN, fresh : Int, stale : Int] /\ ~Scanning.some
        BY DEF Scanning
      <3> QED
        BY <2>4, <3>1, <3>2
    <2> QED
      BY <2>1, <2>2, <2>4, <2>5 DEF GrantInv, ScanTypeOK, GrantedSpanIsProper, input
  <1>2. CASE Finish
    <2> DEFINE ttl == OrElse(sMaxage, maxAge)
               w == OrElse(swr, 0)
               a == OrElse(age, 0)
    <2>1. ttl \in Seconds /\ w \in Nat /\ a \in Nat
      BY OrElseType DEF GrantInv, ScanTypeOK
    <2>2. /\ result' = Grant(ttl, ttl + w, a)
          /\ UNCHANGED <<input, scanned, sMaxage, maxAge, swr, sMaxageSeen, maxAgeSeen>>
      BY <1>2 DEF Finish
    <2>3. ScanTypeOK /\ ttl + w \in Int /\ ttl <= ttl + w
      BY <2>1 DEF GrantInv, Seconds, Absent
    <2> HIDE DEF ttl, w, a
    <2>4. result' \in [some : BOOLEAN, fresh : Int, stale : Int]
      BY <2>1, <2>2, <2>3, GrantIsProper
    <2>5. result'.some => /\ received <= result'.fresh
                          /\ result'.fresh <= result'.stale
                          /\ received < result'.stale
      BY <2>1, <2>2, <2>3, GrantIsProper
    <2> QED
      BY <2>2, <2>4, <2>5 DEF GrantInv, ScanTypeOK, GrantedSpanIsProper, input
  <1>3. CASE Returned \/ UNCHANGED scanner
    BY <1>3 DEF Returned, scanner, GrantInv, ScanTypeOK, GrantedSpanIsProper
  <1> QED
    BY <1>1, <1>2, <1>3 DEF ScanNext

\* Whatever Cache-Control and Age say, a lifetime that lifetime() returns is a
\* non-empty span that starts at the response and is fresh only while it may be
\* served: the assumption Cache makes of Lifetimes.
THEOREM GrantedSpan == ScanSpec => []GrantedSpanIsProper
  <1>1. ScanInit => GrantInv
    BY InitType DEF GrantInv, ScanInit, GrantedSpanIsProper, Scanning
  <1>2. GrantInv => GrantedSpanIsProper
    BY DEF GrantInv
  <1> QED
    BY <1>1, <1>2, NextGrantInv, PTL DEF ScanSpec

----------------------------------------------------------------------------
(* What the digits mean *)

\* A set of naturals that is not empty has a least element.
LEMMA LeastNumber ==
    ASSUME NEW T, T \subseteq Nat, T # {}
    PROVE  \E x \in T : \A y \in T : x <= y
<1>1. PICK x \in T : \A y \in T : ~(y < x)
  <2>1. IsWellFoundedOn(OpToRel(<, Nat), Nat)
    BY NatLessThanWellFounded
  <2>2. \E x \in T : \A y \in T : <<y, x>> \notin OpToRel(<, Nat)
    BY <2>1, WFMin, Zenon
  <2> QED BY <2>2, Zenon DEF OpToRel
<1> QED BY <1>1

\* f[j] is the number that the first j digits of s denote, up to k.
Denotes(s, k, f) == f = [j \in 0 .. k |-> IF j = 0 THEN 0 ELSE f[j - 1] * 10 + s[j]]

LEMMA SomethingDenotes ==
    ASSUME NEW s, NEW k \in Nat
    PROVE  \E f : Denotes(s, k, f)
<1> DEFINE T == {l \in Nat : ~ \E f : Denotes(s, l, f)}
<1>1. CASE T = {}
  BY <1>1
<1>2. CASE T # {}
  <2>1. PICK l \in T : \A m \in T : l <= m
    BY <1>2, LeastNumber
  <2>2. l # 0
    <3>1. Denotes(s, 0, [j \in 0 .. 0 |-> 0])
      BY DEF Denotes
    <3> QED BY <2>1, <3>1
  <2>3. l \in Nat /\ l - 1 \in Nat /\ l - 1 \notin T
    BY <2>1, <2>2
  <2>4. PICK g : Denotes(s, l - 1, g)
    BY <2>3
  <2>5. PICK f : f = [j \in 0 .. l |-> IF j = l THEN g[l - 1] * 10 + s[l] ELSE g[j]]
    OBVIOUS
  <2>6. \A j \in 0 .. l - 1 : g[j] = IF j = 0 THEN 0 ELSE g[j - 1] * 10 + s[j]
    BY <2>4 DEF Denotes
  <2>7. \A j \in 0 .. l : f[j] = IF j = 0 THEN 0 ELSE f[j - 1] * 10 + s[j]
    <3>1. ASSUME NEW j \in 0 .. l
          PROVE  f[j] = IF j = 0 THEN 0 ELSE f[j - 1] * 10 + s[j]
      <4>1. CASE j = l
        <5>1. f[l] = g[l - 1] * 10 + s[l] /\ f[l - 1] = g[l - 1]
          BY <2>3, <2>5
        <5> QED BY <2>2, <4>1, <5>1
      <4>2. CASE j # l
        <5>1. j \in 0 .. l - 1 /\ f[j] = g[j]
          BY <2>3, <2>5, <4>2
        <5>2. j # 0 => f[j - 1] = g[j - 1]
          BY <2>3, <2>5, <5>1
        <5> QED BY <2>6, <5>1, <5>2
      <4> QED BY <4>1, <4>2
    <3> QED BY <3>1
  <2>8. f = [j \in 0 .. l |-> f[j]]
    BY <2>5
  <2>9. Denotes(s, l, f)
    BY <2>7, <2>8 DEF Denotes
  <2> QED BY <2>1, <2>9
<1> QED BY <1>1, <1>2

\* Decimal() is what its equation says.
LEMMA DecimalIsDenoted ==
    ASSUME NEW s, Len(s) \in Nat
    PROVE  \E f : /\ Decimal(s) = f[Len(s)] /\ f[0] = 0
                  /\ \A j \in 1 .. Len(s) : f[j] = f[j - 1] * 10 + s[j]
<1>1. PICK f : f = CHOOSE g : Denotes(s, Len(s), g)
  OBVIOUS
<1>2. Denotes(s, Len(s), f)
  BY <1>1, SomethingDenotes
<1>3. \A j \in 0 .. Len(s) : f[j] = IF j = 0 THEN 0 ELSE f[j - 1] * 10 + s[j]
  BY <1>2 DEF Denotes
<1>4. Decimal(s) = f[Len(s)]
  BY <1>1 DEF Decimal, Denotes
<1>5. f[0] = 0 /\ \A j \in 1 .. Len(s) : f[j] = f[j - 1] * 10 + s[j]
  BY <1>3
<1> QED BY <1>4, <1>5

----------------------------------------------------------------------------
(* delta_seconds() reads what the digits mean *)

\* w is what is kept of the number x.
CapOf(x) == IF x < Cap THEN x ELSE Cap

\* Capping before a digit is read makes no difference after it.
LEMMA CapIsAbsorbing ==
    ASSUME NEW x \in Nat, NEW d \in Nat
    PROVE  Saturate(CapOf(x) * 10 + d) = CapOf(x * 10 + d)
<1>1. Cap \in Nat
  BY HeadersAssumption
<1>2. CASE x < Cap
  BY <1>1, <1>2 DEF Saturate, CapOf
<1>3. CASE ~(x < Cap)
  BY <1>1, <1>3 DEF Saturate, CapOf
<1> QED BY <1>2, <1>3

\* The first k characters of s are digits.
DigitsTo(s, k) == \A j \in 1 .. k : s[j] \in 0 .. 9

LEMMA DigitsMakeNumbers ==
    ASSUME NEW s, NEW k \in Nat, DigitsTo(s, k), NEW f, f[0] = 0,
           \A j \in 1 .. k : f[j] = f[j - 1] * 10 + s[j]
    PROVE  \A j \in 0 .. k : f[j] \in Nat
<1> DEFINE T == {l \in Nat : l \in 0 .. k /\ f[l] \notin Nat}
<1>1. CASE T = {}
  BY <1>1
<1>2. CASE T # {}
  <2>1. PICK l \in T : \A m \in T : l <= m
    BY <1>2, LeastNumber
  <2>2. l \in 1 .. k /\ l - 1 \in 0 .. k /\ l - 1 \in Nat /\ l - 1 \notin T
    BY <2>1
  <2>3. f[l - 1] \in Nat /\ s[l] \in 0 .. 9
    BY <2>2 DEF DigitsTo
  <2>4. f[l] = f[l - 1] * 10 + s[l]
    BY <2>2
  <2>5. f[l] \in Nat
    BY <2>3, <2>4
  <2> QED BY <2>1, <2>5
<1> QED BY <1>1, <1>2

\* What has been read of s: k digits, of which w was kept.
Kept(s, k, w) ==
    /\ k \in 0 .. Len(s) /\ DigitsTo(s, k)
    /\ \E f : /\ Decimal(s) = f[Len(s)] /\ f[0] = 0
              /\ \A j \in 1 .. Len(s) : f[j] = f[j - 1] * 10 + s[j]
              /\ w = CapOf(f[k])

LEMMA KeptAtFirst == ASSUME NEW s, Len(s) \in Nat PROVE Kept(s, 0, 0)
<1>1. PICK f : /\ Decimal(s) = f[Len(s)] /\ f[0] = 0
               /\ \A j \in 1 .. Len(s) : f[j] = f[j - 1] * 10 + s[j]
  BY DecimalIsDenoted
<1>2. 0 = CapOf(f[0])
  BY <1>1, HeadersAssumption DEF CapOf
<1>3. DigitsTo(s, 0) /\ 0 \in 0 .. Len(s)
  BY DEF DigitsTo
<1> QED BY <1>1, <1>2, <1>3 DEF Kept

LEMMA KeptNext ==
    ASSUME NEW s, Len(s) \in Nat, NEW k, NEW w, Kept(s, k, w), k < Len(s), s[k + 1] \in 0 .. 9
    PROVE  Kept(s, k + 1, Saturate(w * 10 + s[k + 1]))
<1>1. k \in Nat /\ k + 1 \in 1 .. Len(s) /\ k + 1 \in 0 .. Len(s) /\ DigitsTo(s, k)
  BY DEF Kept
<1>2. PICK f : /\ Decimal(s) = f[Len(s)] /\ f[0] = 0
               /\ \A j \in 1 .. Len(s) : f[j] = f[j - 1] * 10 + s[j]
               /\ w = CapOf(f[k])
  BY DEF Kept
<1>3. \A j \in 1 .. k + 1 : j \in 1 .. k \/ j = k + 1
  BY <1>1
<1>4. DigitsTo(s, k + 1)
  BY <1>1, <1>3 DEF DigitsTo
<1>5. \A j \in 1 .. k : f[j] = f[j - 1] * 10 + s[j]
  BY <1>1, <1>2
<1>6. f[k] \in Nat
  <2>1. k \in 0 .. k
    BY <1>1
  <2> QED BY <1>1, <1>2, <1>5, <2>1, DigitsMakeNumbers
<1>7. f[k + 1] = f[k] * 10 + s[k + 1]
  <2>1. f[k + 1] = f[k + 1 - 1] * 10 + s[k + 1]
    BY <1>1, <1>2
  <2> QED BY <1>1, <2>1
<1>8. Saturate(w * 10 + s[k + 1]) = CapOf(f[k + 1])
  <2>1. s[k + 1] \in Nat
    OBVIOUS
  <2> QED BY <1>2, <1>6, <1>7, <2>1, CapIsAbsorbing
<1> QED BY <1>1, <1>2, <1>4, <1>8 DEF Kept

LEMMA KeptAtLast ==
    ASSUME NEW s, Len(s) \in Nat, NEW w, Kept(s, Len(s), w)
    PROVE  DigitsTo(s, Len(s)) /\ w = CapOf(Decimal(s))
  BY DEF Kept

\* unquote() and its reference take the same text out of the argument.
LEMMA UnquotedIsInner ==
    ASSUME NEW A, arg \in Seq(A)
    PROVE  Unquoted = Inner /\ Len(Inner) \in Nat /\ (Inner = <<>> <=> Len(Inner) = 0)
<1>1. CASE Len(arg) >= 2 /\ arg[1] = Quote /\ arg[Len(arg)] = Quote
  <2>1. PICK m \in Nat : m = Len(arg)
    OBVIOUS
  <2>2. PICK u : u = Unquoted
    OBVIOUS
  <2>3. u = [j \in 1 .. m - 2 |-> arg[j + 1]]
    <3>1. u = SubSeq(arg, 2, m - 1)
      BY <1>1, <2>1, <2>2 DEF Unquoted
    <3>2. u \in Seq(A) /\ Len(u) = m - 2 /\ \A j \in 1 .. m - 2 : u[j] = arg[j + 1]
      BY <1>1, <2>1, <3>1
    <3>3. DOMAIN u = 1 .. m - 2 /\ u = [j \in DOMAIN u |-> u[j]]
      BY <3>2, LenProperties
    <3> QED BY <3>2, <3>3
  <2>4. Inner = [j \in 1 .. m - 2 |-> arg[j + 1]]
    BY <1>1, <2>1 DEF Inner
  <2>5. u \in Seq(A)
    BY <1>1, <2>1, <2>2 DEF Unquoted
  <2>6. Unquoted = Inner /\ Inner = u
    BY <2>2, <2>3, <2>4
  <2> QED BY <2>5, <2>6
<1>2. CASE ~(Len(arg) >= 2 /\ arg[1] = Quote /\ arg[Len(arg)] = Quote)
  <2>1. Unquoted = arg
    BY <1>2 DEF Unquoted
  <2>2. Inner = arg
    BY <1>2 DEF Inner
  <2> QED BY <2>1, <2>2
<1> QED BY <1>1, <1>2

ReadInv ==
    /\ \E A : arg \in Seq(A)
    /\ pc = "unquote" => read = 0 /\ value = 0
    /\ pc = "digits" => digits = Inner /\ Kept(digits, read, value)
    /\ pc \in {"unquote", "digits"} => seconds = NoSeconds
    /\ MatchesReference

LEMMA ReadInvHolds == ReaderSpec => []ReadInv
<1>1. ReaderInit => ReadInv
  <2> SUFFICES ASSUME ReaderInit PROVE ReadInv
    OBVIOUS
  <2>1. arg \in Seq(Alphabet)
    BY HeadersAssumption DEF ReaderInit
  <2> QED BY <2>1 DEF ReaderInit, ReadInv, MatchesReference
<1>2. ReadInv /\ [ReaderNext]_reader => ReadInv'
  <2> SUFFICES ASSUME ReadInv, [ReaderNext]_reader PROVE ReadInv'
    OBVIOUS
  <2>1. PICK A : arg \in Seq(A)
    BY DEF ReadInv
  <2>2. arg' = arg
    BY DEF ReaderNext, Unquote, ReadDigit, Refuse, Accept, HasRead, reader
  <2>3. /\ Unquoted = Inner /\ Len(Inner) \in Nat /\ (Inner = <<>> <=> Len(Inner) = 0)
    BY <2>1, UnquotedIsInner
  <2>4. Inner' = Inner /\ ReferenceSeconds' = ReferenceSeconds
    BY <2>2 DEF Inner, ReferenceSeconds
  <2>5. CASE Unquote
    BY <2>1, <2>2, <2>3, <2>4, <2>5, KeptAtFirst DEF Unquote, ReadInv, MatchesReference
  <2>6. CASE ReadDigit
    BY <2>1, <2>2, <2>3, <2>4, <2>6, KeptNext DEF ReadDigit, ReadInv, MatchesReference
  <2>7. CASE Refuse
    <3>1. Kept(Inner, read, value) /\ digits = Inner /\ seconds = NoSeconds
      BY <2>7 DEF Refuse, ReadInv
    <3>2. Inner = <<>> \/ ~(\A j \in 1 .. Len(Inner) : Inner[j] \in 0 .. 9)
      BY <2>3, <2>7, <3>1 DEF Refuse, Kept
    <3>3. ReferenceSeconds = NoSeconds
      BY <3>2 DEF ReferenceSeconds
    <3> QED BY <2>1, <2>2, <2>4, <2>7, <3>1, <3>3 DEF Refuse, ReadInv, MatchesReference
  <2>8. CASE Accept
    <3>1. digits = Inner /\ Kept(Inner, Len(Inner), value) /\ Inner # <<>>
      BY <2>8 DEF Accept, ReadInv
    <3>2. DigitsTo(Inner, Len(Inner)) /\ value = CapOf(Decimal(Inner))
      BY <2>3, <3>1, KeptAtLast
    <3>3. ReferenceSeconds = value
      BY <3>1, <3>2 DEF ReferenceSeconds, DigitsTo, CapOf
    <3> QED BY <2>1, <2>2, <2>4, <2>8, <3>3 DEF Accept, ReadInv, MatchesReference
  <2>9. CASE HasRead \/ UNCHANGED reader
    BY <2>2, <2>4, <2>9 DEF HasRead, reader, ReadInv, MatchesReference
  <2> QED BY <2>5, <2>6, <2>7, <2>8, <2>9 DEF ReaderNext
<1> QED BY <1>1, <1>2, PTL DEF ReaderSpec

----------------------------------------------------------------------------
(* lifetime() finds what the header means *)

\* j is the first of the positions ps.
IsFirst(j, ps) == j \in ps /\ \A k \in ps : j <= k

LEMMA FirstIsUnique ==
    ASSUME NEW ps, ps \subseteq Nat, NEW j, IsFirst(j, ps)
    PROVE  First(ps) = j /\ ps # {} /\ FirstSeconds(ps) = directives[j].arg
<1>1. PICK k : k = CHOOSE l \in ps : \A m \in ps : l <= m
  OBVIOUS
<1>2. k \in ps /\ \A m \in ps : k <= m
  BY <1>1 DEF IsFirst
<1>3. k = j
  <2>1. j \in Nat /\ k \in Nat /\ j <= k /\ k <= j
    BY <1>2 DEF IsFirst
  <2> QED BY <2>1
<1> QED BY <1>1, <1>3 DEF First, FirstSeconds, IsFirst

WellFormedStale == {j \in Positions("stale-while-revalidate") : directives[j].arg # Absent}

\* What a flag and a variable know of the positions ps among the first k.
Known(seen, sec, ps, k) ==
    \/ seen /\ sec # Absent /\ \E j \in 1 .. k : IsFirst(j, ps) /\ sec = directives[j].arg
    \/ ~seen /\ sec = Absent /\ \A j \in 1 .. k : j \notin ps

\* The state of the scan is what the directives scanned amount to.
ScanInv ==
    /\ result = Scanning =>
         /\ \A j \in 1 .. scanned : directives[j].name # "forbids"
         /\ Known(sMaxageSeen, sMaxage, Positions("s-maxage"), scanned)
         /\ Known(maxAgeSeen, maxAge, Positions("max-age"), scanned)
         /\ Known(swr # Absent, swr, WellFormedStale, scanned)
    /\ ScanMeetsReference

LEMMA KnownLater ==
    ASSUME NEW seen, NEW sec, NEW ps, NEW k \in Nat, Known(seen, sec, ps, k), seen \/ k + 1 \notin ps
    PROVE  Known(seen, sec, ps, k + 1)
<1>1. \A j \in 1 .. k : j \in 1 .. k + 1
  OBVIOUS
<1>2. \A j \in 1 .. k + 1 : j \in 1 .. k \/ j = k + 1
  OBVIOUS
<1> QED BY <1>1, <1>2 DEF Known

LEMMA KnownNow ==
    ASSUME NEW sec, NEW ps, ps \subseteq Nat \ {0}, NEW k \in Nat, Known(FALSE, sec, ps, k),
           k + 1 \in ps
    PROVE  /\ IsFirst(k + 1, ps)
           /\ directives[k + 1].arg # Absent =>
                Known(TRUE, directives[k + 1].arg, ps, k + 1)
<1>1. \A j \in ps : ~(j \in 1 .. k) /\ j \in Nat /\ j # 0
  BY DEF Known
<1>2. IsFirst(k + 1, ps)
  BY <1>1 DEF IsFirst
<1>3. k + 1 \in 1 .. k + 1
  OBVIOUS
<1> QED BY <1>2, <1>3 DEF Known

\* All is scanned: what is known is what the reference finds.
LEMMA KnownAtEnd ==
    ASSUME NEW seen, NEW sec, NEW ps, ps \subseteq 1 .. Len(directives), Len(directives) \in Nat,
           Known(seen, sec, ps, Len(directives))
    PROVE  /\ seen <=> ps # {}
           /\ sec = FirstSeconds(ps) /\ (ps # {} => FirstSeconds(ps) # Absent)
<1>1. CASE seen /\ sec # Absent /\ \E j \in 1 .. Len(directives) :
             IsFirst(j, ps) /\ sec = directives[j].arg
  <2>1. PICK j \in 1 .. Len(directives) : IsFirst(j, ps) /\ sec = directives[j].arg
    BY <1>1
  <2>2. ps \subseteq Nat
    OBVIOUS
  <2> QED BY <1>1, <2>1, <2>2, FirstIsUnique
<1>2. CASE ~seen /\ sec = Absent /\ \A j \in 1 .. Len(directives) : j \notin ps
  <2>1. ps = {}
    BY <1>2
  <2> QED BY <1>2, <2>1 DEF FirstSeconds
<1> QED BY <1>1, <1>2 DEF Known

\* A directive that ends the scan makes the reference refuse as well.
LEMMA RefusedAlike ==
    ASSUME Positions("forbids") # {} \/
           (Positions("s-maxage") # {} /\ FirstSeconds(Positions("s-maxage")) = Absent) \/
           (Positions("max-age") # {} /\ FirstSeconds(Positions("max-age")) = Absent)
    PROVE  ReferenceLifetime = Nothing
  BY DEF ReferenceLifetime

\* The end of the scan: the checked additions of the instants do not fail.
LEMMA GrantedAlike ==
    ASSUME ScanTypeOK, ScanInv, result = Scanning, scanned = Len(directives)
    PROVE  Grant(OrElse(sMaxage, maxAge), OrElse(sMaxage, maxAge) + OrElse(swr, 0), OrElse(age, 0))
             = ReferenceLifetime
<1> DEFINE s == Positions("s-maxage")
           m == Positions("max-age")
           w == WellFormedStale
<1>1. Len(directives) \in Nat
  BY DEF ScanTypeOK
<1>2. s \subseteq 1 .. Len(directives) /\ m \subseteq 1 .. Len(directives) /\ w \subseteq 1 .. Len(directives)
  BY DEF Positions, WellFormedStale
<1>3. /\ sMaxage = FirstSeconds(s) /\ (s # {} => FirstSeconds(s) # Absent)
      /\ maxAge = FirstSeconds(m) /\ (m # {} => FirstSeconds(m) # Absent)
      /\ swr = FirstSeconds(w) /\ (w # {} => FirstSeconds(w) # Absent)
  BY <1>1, <1>2, KnownAtEnd DEF ScanInv
<1>4. Positions("forbids") = {}
  BY DEF ScanInv, Positions
<1>5. (s = {} => FirstSeconds(s) = Absent) /\ (w = {} => FirstSeconds(w) = Absent)
  BY DEF FirstSeconds
<1> DEFINE ttl == OrElse(sMaxage, maxAge)
           more == OrElse(swr, 0)
           a == OrElse(age, 0)
<1>6. /\ ttl = IF s # {} THEN FirstSeconds(s) ELSE FirstSeconds(m)
      /\ more = IF w = {} THEN 0 ELSE FirstSeconds(w)
      /\ a = IF age = Absent THEN 0 ELSE age
  BY <1>3, <1>5 DEF OrElse
<1>7. ReferenceLifetime =
        IF ttl = Absent \/ ttl + more <= a THEN Nothing
        ELSE Some(received + (IF ttl > a THEN ttl - a ELSE 0), received + (ttl + more) - a)
  BY <1>3, <1>4, <1>6 DEF ReferenceLifetime, WellFormedStale
<1>8. ttl \in Seconds /\ more \in 0 .. MaxDeltaSeconds /\ a \in 0 .. MaxDeltaSeconds
  BY HeadersAssumption DEF ScanTypeOK, OrElse, Seconds, Absent
<1>9. received \in 0 .. MaxReceived
  BY DEF ScanTypeOK
<1> HIDE DEF s, m, w, ttl, more, a
<1>10. CASE ttl = Absent \/ ttl + more <= a
  BY <1>7, <1>10 DEF Grant, ttl, more, a
<1>11. CASE ~(ttl = Absent \/ ttl + more <= a)
  <2>1. ttl \in 0 .. MaxDeltaSeconds
    BY <1>8, <1>11 DEF Seconds
  <2>2. /\ ~(received + (IF ttl > a THEN ttl - a ELSE 0) > MaxInstant)
        /\ ~(received + ((ttl + more) - a) > MaxInstant)
        /\ received + (ttl + more) - a = received + ((ttl + more) - a)
    BY <1>8, <1>9, <2>1, HeadersAssumption
  <2>3. Grant(ttl, ttl + more, a) =
          Some(received + (IF ttl > a THEN ttl - a ELSE 0), received + ((ttl + more) - a))
    BY <1>11, <2>2 DEF Grant
  <2> QED BY <1>7, <1>11, <2>2, <2>3 DEF ttl, more, a
<1> QED BY <1>10, <1>11

LEMMA ScanKeeps == ScanTypeOK /\ ScanInv /\ Scan => ScanInv'
<1> SUFFICES ASSUME ScanTypeOK, ScanInv, Scan PROVE ScanInv'
  OBVIOUS
<1>1. /\ scanned \in Nat /\ scanned + 1 \in 1 .. Len(directives) /\ scanned' = scanned + 1 /\ result = Scanning
      /\ directives' = directives /\ age' = age /\ received' = received
  BY DEF Scan, ScanTypeOK, input
<1>2. /\ \A j \in 1 .. scanned : directives[j].name # "forbids"
      /\ Known(sMaxageSeen, sMaxage, Positions("s-maxage"), scanned)
      /\ Known(maxAgeSeen, maxAge, Positions("max-age"), scanned)
      /\ Known(swr # Absent, swr, WellFormedStale, scanned)
  BY <1>1 DEF ScanInv
<1>3. /\ Positions("s-maxage")' = Positions("s-maxage") /\ Positions("max-age")' = Positions("max-age")
      /\ WellFormedStale' = WellFormedStale /\ ReferenceLifetime' = ReferenceLifetime
      /\ \A j, ps : IsFirst(j, ps)' <=> IsFirst(j, ps)
  BY <1>1 DEF Positions, WellFormedStale, ReferenceLifetime, FirstSeconds, First, IsFirst
<1>4. \A seen, sec, ps, k : Known(seen, sec, ps, k)' <=> Known(seen, sec, ps, k)
  BY <1>1 DEF Known, IsFirst
<1>5. PICK d : d = directives[scanned + 1]
  OBVIOUS
<1>6. /\ scanned + 1 \in Positions("s-maxage") <=> d.name = "s-maxage"
      /\ scanned + 1 \in Positions("max-age") <=> d.name = "max-age"
      /\ scanned + 1 \in Positions("forbids") <=> d.name = "forbids"
      /\ scanned + 1 \in WellFormedStale <=> d.name = "stale-while-revalidate" /\ d.arg # Absent
  BY <1>1, <1>5 DEF Positions, WellFormedStale
<1>7. /\ Positions("s-maxage") \subseteq Nat \ {0} /\ Positions("max-age") \subseteq Nat \ {0}
      /\ WellFormedStale \subseteq Nat \ {0}
  BY DEF Positions, WellFormedStale
<1>8. CASE result' = Nothing
  <2>1. \/ d.name = "forbids"
        \/ d.name = "s-maxage" /\ ~sMaxageSeen /\ d.arg = Absent
        \/ d.name = "max-age" /\ ~maxAgeSeen /\ d.arg = Absent
    <3>1. Nothing # Scanning
      BY DEF Nothing, Scanning
    <3> QED BY <1>1, <1>5, <1>8, <3>1
          DEF Scan, ScanForbids, ScanSMaxage, ScanMaxAge, ScanStale, ScanUnknown
  <2>2. CASE d.name = "forbids"
    BY <1>1, <1>3, <1>6, <1>8, <2>2, RefusedAlike DEF ScanInv, ScanMeetsReference, Nothing, Scanning
  <2>3. CASE d.name = "s-maxage" /\ ~sMaxageSeen /\ d.arg = Absent
    <3>1. IsFirst(scanned + 1, Positions("s-maxage"))
      BY <1>1, <1>2, <1>6, <1>7, <2>3, KnownNow DEF Known
    <3>2. Positions("s-maxage") # {} /\ FirstSeconds(Positions("s-maxage")) = Absent
      BY <1>5, <1>7, <2>3, <3>1, FirstIsUnique
    <3> QED BY <1>3, <1>8, <3>2, RefusedAlike DEF ScanInv, ScanMeetsReference, Nothing, Scanning
  <2>4. CASE d.name = "max-age" /\ ~maxAgeSeen /\ d.arg = Absent
    <3>1. IsFirst(scanned + 1, Positions("max-age"))
      BY <1>1, <1>2, <1>6, <1>7, <2>4, KnownNow DEF Known
    <3>2. Positions("max-age") # {} /\ FirstSeconds(Positions("max-age")) = Absent
      BY <1>5, <1>7, <2>4, <3>1, FirstIsUnique
    <3> QED BY <1>3, <1>8, <3>2, RefusedAlike DEF ScanInv, ScanMeetsReference, Nothing, Scanning
  <2> QED BY <2>1, <2>2, <2>3, <2>4
<1>9. CASE result' # Nothing
  <2>1. result' = Scanning /\ d.name # "forbids"
    BY <1>1, <1>5, <1>9
      DEF Scan, ScanForbids, ScanSMaxage, ScanMaxAge, ScanStale, ScanUnknown
  <2>2. \A j \in 1 .. scanned + 1 : directives[j].name # "forbids"
    <3>1. \A j \in 1 .. scanned + 1 : j \in 1 .. scanned \/ j = scanned + 1
      BY <1>1
    <3> QED BY <1>2, <1>5, <2>1, <3>1
  <2>3. Known(sMaxageSeen', sMaxage', Positions("s-maxage"), scanned + 1)
    <3>1. CASE d.name = "s-maxage" /\ ~sMaxageSeen
      <4>1. sMaxageSeen' = TRUE /\ sMaxage' = d.arg /\ d.arg # Absent
        BY <1>5, <1>9, <3>1
          DEF Scan, ScanForbids, ScanSMaxage, ScanMaxAge, ScanStale, ScanUnknown
      <4>2. Known(FALSE, sMaxage, Positions("s-maxage"), scanned)
        BY <1>2, <3>1 DEF Known
      <4>3. Known(TRUE, directives[scanned + 1].arg, Positions("s-maxage"), scanned + 1)
        BY <1>1, <1>5, <1>6, <1>7, <3>1, <4>1, <4>2, KnownNow
      <4> QED BY <1>5, <4>1, <4>3
    <3>2. CASE ~(d.name = "s-maxage" /\ ~sMaxageSeen)
      <4>1. sMaxageSeen' = sMaxageSeen /\ sMaxage' = sMaxage
        BY <1>5, <3>2
          DEF Scan, ScanForbids, ScanSMaxage, ScanMaxAge, ScanStale, ScanUnknown
      <4> QED BY <1>1, <1>2, <1>6, <3>2, <4>1, KnownLater
    <3> QED BY <3>1, <3>2
  <2>4. Known(maxAgeSeen', maxAge', Positions("max-age"), scanned + 1)
    <3>1. CASE d.name = "max-age" /\ ~maxAgeSeen
      <4>1. maxAgeSeen' = TRUE /\ maxAge' = d.arg /\ d.arg # Absent
        BY <1>5, <1>9, <3>1
          DEF Scan, ScanForbids, ScanSMaxage, ScanMaxAge, ScanStale, ScanUnknown
      <4>2. Known(FALSE, maxAge, Positions("max-age"), scanned)
        BY <1>2, <3>1 DEF Known
      <4>3. Known(TRUE, directives[scanned + 1].arg, Positions("max-age"), scanned + 1)
        BY <1>1, <1>5, <1>6, <1>7, <3>1, <4>1, <4>2, KnownNow
      <4> QED BY <1>5, <4>1, <4>3
    <3>2. CASE ~(d.name = "max-age" /\ ~maxAgeSeen)
      <4>1. maxAgeSeen' = maxAgeSeen /\ maxAge' = maxAge
        BY <1>5, <3>2
          DEF Scan, ScanForbids, ScanSMaxage, ScanMaxAge, ScanStale, ScanUnknown
      <4> QED BY <1>1, <1>2, <1>6, <3>2, <4>1, KnownLater
    <3> QED BY <3>1, <3>2
  <2>5. Known(swr' # Absent, swr', WellFormedStale, scanned + 1)
    <3>1. CASE d.name = "stale-while-revalidate" /\ swr = Absent /\ d.arg # Absent
      <4>1. swr' = d.arg
        BY <1>5, <3>1
          DEF Scan, ScanForbids, ScanSMaxage, ScanMaxAge, ScanStale, ScanUnknown
      <4>2. Known(FALSE, swr, WellFormedStale, scanned)
        BY <1>2, <3>1 DEF Known
      <4>3. Known(TRUE, directives[scanned + 1].arg, WellFormedStale, scanned + 1)
        BY <1>1, <1>5, <1>6, <1>7, <3>1, <4>2, KnownNow
      <4> QED BY <1>5, <3>1, <4>1, <4>3 DEF Known
    <3>2. CASE ~(d.name = "stale-while-revalidate" /\ swr = Absent /\ d.arg # Absent)
      <4>1. swr' = swr
        BY <1>5, <3>2
          DEF Scan, ScanForbids, ScanSMaxage, ScanMaxAge, ScanStale, ScanUnknown
      <4> QED BY <1>1, <1>2, <1>6, <3>2, <4>1, KnownLater
    <3> QED BY <3>1, <3>2
  <2> QED BY <1>1, <1>3, <1>4, <2>1, <2>2, <2>3, <2>4, <2>5 DEF ScanInv, ScanMeetsReference
<1> QED BY <1>8, <1>9

LEMMA NextScanInv == ScanTypeOK /\ ScanInv /\ [ScanNext]_scanner => ScanInv'
<1> SUFFICES ASSUME ScanTypeOK, ScanInv, [ScanNext]_scanner PROVE ScanInv'
  OBVIOUS
<1>1. CASE Scan
  BY <1>1, ScanKeeps
<1>2. CASE Finish
  <2>1. /\ directives' = directives /\ age' = age /\ received' = received
        /\ result' = ReferenceLifetime
    BY <1>2, GrantedAlike DEF Finish, input
  <2>2. ReferenceLifetime' = ReferenceLifetime
    BY <2>1 DEF Positions, ReferenceLifetime, FirstSeconds, First
  <2>3. ReferenceLifetime # Scanning
    BY <1>2, GrantedAlike DEF Finish, Grant, Nothing, Some, Scanning
  <2> QED BY <2>1, <2>2, <2>3 DEF ScanInv, ScanMeetsReference
<1>3. CASE Returned \/ UNCHANGED scanner
  <2>1. UNCHANGED scanner
    BY <1>3 DEF Returned
  <2>2. /\ directives' = directives /\ age' = age /\ received' = received /\ result' = result
        /\ scanned' = scanned /\ sMaxage' = sMaxage /\ maxAge' = maxAge /\ swr' = swr
        /\ sMaxageSeen' = sMaxageSeen /\ maxAgeSeen' = maxAgeSeen
    BY <2>1 DEF scanner
  <2>3. /\ Positions("s-maxage")' = Positions("s-maxage") /\ Positions("max-age")' = Positions("max-age")
        /\ WellFormedStale' = WellFormedStale /\ ReferenceLifetime' = ReferenceLifetime
        /\ \A j, ps : IsFirst(j, ps)' <=> IsFirst(j, ps)
    BY <2>2 DEF Positions, WellFormedStale, ReferenceLifetime, FirstSeconds, First, IsFirst
  <2>4. \A seen, sec, ps, k : Known(seen, sec, ps, k)' <=> Known(seen, sec, ps, k)
    BY <2>2 DEF Known, IsFirst
  <2> QED BY <2>2, <2>3, <2>4 DEF ScanInv, ScanMeetsReference
<1> QED BY <1>1, <1>2, <1>3 DEF ScanNext

\* For headers and arguments of any length and any cap: whatever order the
\* directives come in, and whatever quotes, zeros and junk an argument holds,
\* lifetime() and delta_seconds() find what the standard means by them.
THEOREM MeetsReferenceHolds == ScanSpec /\ ReaderSpec => []MeetsReference
<1>1. ScanInit => ScanTypeOK /\ ScanInv
  <2> SUFFICES ASSUME ScanInit PROVE ScanInv
    BY InitType
  <2>1. /\ \A j \in 1 .. scanned : FALSE
        /\ sMaxage = Absent /\ maxAge = Absent /\ swr = Absent
        /\ sMaxageSeen = FALSE /\ maxAgeSeen = FALSE /\ result = Scanning
    BY DEF ScanInit
  <2> QED BY <2>1 DEF ScanInv, ScanMeetsReference, Known
<1>2. ScanInit => GrantInv
  BY InitType DEF GrantInv, ScanInit, GrantedSpanIsProper, Scanning
<1>3. GrantInv => ScanTypeOK
  BY DEF GrantInv
<1>4. ScanSpec => []ScanInv
  BY <1>1, <1>2, <1>3, NextGrantInv, NextScanInv, PTL DEF ScanSpec
<1>5. ScanInv /\ ReadInv => MeetsReference
  BY DEF ScanInv, ReadInv, MeetsReference
<1> QED BY <1>4, <1>5, ReadInvHolds, PTL
=============================================================================
