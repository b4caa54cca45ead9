--------------------------- MODULE CacheContract ---------------------------
(***************************************************************************)
(* What Cache::resolve promises its callers, without locks, slots, channels*)
(* or tasks: for each host there is at most one stored value; fetches land *)
(* one after the other; and a call is answered either with the stored      *)
(* value, if it had not expired when the call was made, or with the outcome*)
(* of a fetch of that host that landed since.                              *)
(***************************************************************************)
EXTENDS Integers

CONSTANTS Hosts, Requests, Gens, None

VARIABLES
    clock,    \* instants
    stored,   \* stored[h]: the generation stored for h, and when it expires
    landed,   \* landed[g]: the host and the outcome of fetch g
    call      \* the calls of resolve

Outcomes == {"ok", "failed", "aborted"}

Nothing == [gen |-> None, expires |-> 0]

Init ==
    /\ clock = 0
    /\ stored = [h \in Hosts |-> Nothing]
    /\ landed = [g \in Gens |-> [host |-> None, outcome |-> "none"]]
    /\ call = [r \in Requests |->
                 [pc |-> "idle", host |-> None, since |-> 0, before |-> {},
                  outcome |-> "none", gen |-> None]]

Done(g) == landed[g].outcome # "none"

Advance ==
    /\ clock' = clock + 1
    /\ UNCHANGED <<stored, landed, call>>

Call(r, h) ==
    /\ call[r].pc = "idle"
    /\ call' = [call EXCEPT ![r] =
                  [pc |-> "open", host |-> h, since |-> clock,
                   before |-> {g \in Gens : Done(g)}, outcome |-> "none", gen |-> None]]
    /\ UNCHANGED <<clock, stored, landed>>

\* A fetch lands.  A success replaces what is stored, by its own value or by
\* nothing; a failure removes only what has expired.
Land(g, h, o) ==
    /\ ~Done(g)
    /\ stored[h].gen < g
    /\ landed' = [landed EXCEPT ![g] = [host |-> h, outcome |-> o]]
    /\ \/ o = "ok" /\ stored'[h].gen \in {g, None}
       \/ o # "ok" /\ stored'[h] = stored[h]
       \/ o # "ok" /\ clock >= stored[h].expires /\ stored'[h] = Nothing
    /\ DOMAIN stored' = Hosts
    /\ \A i \in Hosts \ {h} : stored'[i] = stored[i]
    /\ UNCHANGED <<clock, call>>

AnswerFromStore(r) ==
    /\ call[r].pc = "open"
    /\ LET s == stored[call[r].host]
       IN  /\ s.gen # None
           /\ call[r].since < s.expires
           /\ call' = [call EXCEPT ![r].pc = "done", ![r].outcome = "ok", ![r].gen = s.gen]
    /\ UNCHANGED <<clock, stored, landed>>

AnswerFromFetch(r, g) ==
    /\ call[r].pc = "open"
    /\ Done(g)
    /\ landed[g].host = call[r].host
    /\ g \notin call[r].before
    /\ call' = [call EXCEPT ![r].pc = "done", ![r].outcome = landed[g].outcome, ![r].gen = g]
    /\ UNCHANGED <<clock, stored, landed>>

Leave(r) ==
    /\ call[r].pc = "open"
    /\ call' = [call EXCEPT ![r] =
                  [pc |-> "left", host |-> None, since |-> 0, before |-> {},
                   outcome |-> "none", gen |-> None]]
    /\ UNCHANGED <<clock, stored, landed>>

Next ==
    \/ Advance
    \/ \E r \in Requests : \/ \E h \in Hosts : Call(r, h)
                           \/ \E g \in Gens : AnswerFromFetch(r, g)
                           \/ AnswerFromStore(r)
                           \/ Leave(r)
    \/ \E g \in Gens, h \in Hosts, o \in Outcomes : Land(g, h, o)

Spec == Init /\ [][Next]_<<clock, stored, landed, call>>
=============================================================================
