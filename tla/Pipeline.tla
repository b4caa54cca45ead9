------------------------------ MODULE Pipeline ------------------------------
(***************************************************************************)
(* POST /payload from the request to the answer: solve() of                *)
(* src/routes/payload.rs and run() and execute() of                        *)
(* src/payload/pipeline.rs.  A server thread checks a request and runs the *)
(* stages of the pipeline in its own arena.  At the end it opens a scope   *)
(* in rayon's pool: two stages are spawned, a third runs on the server     *)
(* thread and has a job of its own, and prepare() (see WorkShare) spawns   *)
(* its workers from within the pool.  All requests share the pool.         *)
(*                                                                         *)
(* What a check, a stage or a job comes to is fixed by the request's fate; *)
(* when it happens is not.                                                 *)
(***************************************************************************)
EXTENDS Integers, Sequences, FiniteSets, SequencesExt

CONSTANTS
    Requests,
    Servers,     \* threads of the HTTP server
    Pool,        \* threads of rayon's pool
    Helpers,     \* workers that prepare() spawns besides its own
    Fates        \* Fates[q]: what may become of the steps of request q

\* solve() up to the pipeline, in the order of the code, and the status of the
\* answer when the check fails.  The body of the request comes first; then come
\* what the request says, and what the server needs besides.
Checks ==
    << <<"json", 400>>, <<"link", 400>>, <<"script", 400>>, <<"url", 400>>, <<"query", 400>>,
       <<"now", 400>>, <<"clock", 500>>, <<"ip", 400>>, <<"catalog", 500>>, <<"device", 400>>,
       <<"profiles", 503>>, <<"window", 400>>, <<"ios", 500>>, <<"agent", 422>>, <<"parent", 400>> >>

\* execute() up to the scope; every error of it and of what follows is a 422.
Stages ==
    << <<"parse", 422>>, <<"anatomy", 422>>, <<"blob", 422>>, <<"operand", 422>>, <<"entry", 422>>,
       <<"pool", 422>>, <<"handlers", 422>>, <<"roles", 422>>, <<"boot", 422>>, <<"devirt", 422>>,
       <<"fields", 422>> >>

\* After the scope, in the arena still, and after it.
Signing == << <<"expand", 422>>, <<"sign", 422>>, <<"values", 422>> >>
Sealing == << <<"plaintext", 422>>, <<"encrypt", 422>>, <<"ct", 422>> >>

\* Answers: the step that failed and the status, success, or no answer at all
\* since the server thread panicked.
Ok == <<"ok", 200>>
Dropped == <<"dropped", 0>>
None == <<"none", 0>>

\* What a list of steps comes to: success, or the answer the first step that
\* fails or panics leads to.
Verdict(steps, fate) ==
    LET bad == {i \in DOMAIN steps : fate[steps[i][1]] # "ok"}
        i == CHOOSE i \in bad : \A j \in bad : i <= j
    IN  IF bad = {} THEN Ok
        ELSE IF fate[steps[i][1]] = "panic" THEN Dropped
        ELSE steps[i]

VARIABLES
    fate,
    place,    \* place[q]: "queued", "checking", "staging", "scope", "closing", "sealing", "done"
    server,   \* server[q]: the thread that has q, while one does
    arena,    \* arena[s]: whether the arena of s is borrowed
    jobs,     \* jobs spawned and not taken by a thread of the pool
    stack,    \* stack[t]: the jobs thread t is in, the one it works at last
    ended,    \* ended[q]: the jobs of q that have ended
    share,    \* share[q]: "none", "working", "waiting": the worker of prepare() itself
    answer

vars == <<fate, place, server, arena, jobs, stack, ended, share, answer>>
scheduling == <<jobs, stack, ended, share>>

Nobody == "nobody"

Init ==
    /\ fate \in {f \in [Requests -> UNION {Fates[q] : q \in Requests}] : \A q \in Requests : f[q] \in Fates[q]}
    /\ place = [q \in Requests |-> "queued"]
    /\ server = [q \in Requests |-> Nobody]
    /\ arena = [s \in Servers |-> FALSE]
    /\ jobs = {}
    /\ stack = [t \in Pool |-> <<>>]
    /\ ended = [q \in Requests |-> {}]
    /\ share = [q \in Requests |-> "none"]
    /\ answer = [q \in Requests |-> None]

Job(q, kind) == [q |-> q, kind |-> kind, n |-> 0]
Help(q, n) == [q |-> q, kind |-> "help", n |-> n]

----------------------------------------------------------------------------
(* A server thread *)

Answer(q, a) ==
    /\ answer' = [answer EXCEPT ![q] = a]
    /\ place' = [place EXCEPT ![q] = "done"]

Accept(q) ==
    /\ place[q] = "queued"
    /\ \E s \in Servers :
         /\ \A r \in Requests : server[r] = s => place[r] = "done"
         /\ server' = [server EXCEPT ![q] = s]
    /\ place' = [place EXCEPT ![q] = "checking"]
    /\ UNCHANGED <<fate, arena, scheduling, answer>>

\* solve(): the checks, then run(): the arena is borrowed and reset; one that is
\* borrowed already panics.
Check(q) ==
    /\ place[q] = "checking"
    /\ LET v == Verdict(Checks, fate[q])
       IN  IF v # Ok
             THEN Answer(q, v) /\ UNCHANGED arena
           ELSE IF arena[server[q]]
             THEN Answer(q, Dropped) /\ UNCHANGED arena
           ELSE /\ arena' = [arena EXCEPT ![server[q]] = TRUE]
                /\ place' = [place EXCEPT ![q] = "staging"]
                /\ UNCHANGED answer
    /\ UNCHANGED <<fate, server, scheduling>>

Release(q) == arena' = [arena EXCEPT ![server[q]] = FALSE]

\* execute(): the stages, then the scope, and in it that of compute().
Stage(q) ==
    /\ place[q] = "staging"
    /\ IF Verdict(Stages, fate[q]) # Ok
         THEN Answer(q, Verdict(Stages, fate[q])) /\ Release(q) /\ UNCHANGED jobs
         ELSE /\ place' = [place EXCEPT ![q] = "scope"]
              /\ jobs' = jobs \cup {Job(q, "prepare"), Job(q, "keys"), Job(q, "drive")}
              /\ UNCHANGED <<arena, answer>>
    /\ UNCHANGED <<fate, server, stack, ended, share>>

\* compute() is over, and has waited for its job, even if it panics.
Compute(q) ==
    /\ place[q] = "scope"
    /\ Job(q, "drive") \in ended[q]
    /\ place' = [place EXCEPT ![q] = "closing"]
    /\ UNCHANGED <<fate, server, arena, scheduling, answer>>

\* The scope ends when its jobs have, panic or not.
MayClose(q) == {Job(q, "prepare"), Job(q, "keys")} \subseteq ended[q]

\* A panic in a job is caught, and is an error.
Caught(f, step) == IF f[step] = "ok" THEN "ok" ELSE "fail"

\* What is looked at after the scope: compute(), of which its job comes first,
\* prepare(), which fails if one of its workers panicked, the keys.
Scope == << <<"drive", 422>>, <<"compute", 422>>, <<"prepare", 422>>, <<"keys", 422>> >>
ScopeFate(f) ==
    [step \in {"drive", "compute", "prepare", "keys"} |->
       CASE step = "compute" -> f["compute"]
         [] step = "prepare" -> IF f["own"] = "ok" THEN Caught(f, "help") ELSE "fail"
         [] OTHER -> Caught(f, step)]

\* Mutant: the keys are looked at before what is prepared.
ComeToKeysFirst(f) ==
    IF f["compute"] = "panic" THEN Dropped
    ELSE IF Verdict(<<Scope[1], Scope[2], Scope[4], Scope[3]>>, ScopeFate(f)) # Ok
      THEN Verdict(<<Scope[1], Scope[2], Scope[4], Scope[3]>>, ScopeFate(f))
      ELSE Verdict(Signing, f)

\* A panic of compute() goes on through the scope, whatever its job came to.
ComeTo(f) ==
    IF f["compute"] = "panic" THEN Dropped
    ELSE IF Verdict(Scope, ScopeFate(f)) # Ok THEN Verdict(Scope, ScopeFate(f))
    ELSE Verdict(Signing, f)

Close(q) ==
    /\ place[q] = "closing" /\ MayClose(q)
    /\ IF ComeTo(fate[q]) = Ok
         THEN place' = [place EXCEPT ![q] = "sealing"] /\ UNCHANGED answer
         ELSE Answer(q, ComeTo(fate[q]))
    /\ Release(q)
    /\ UNCHANGED <<fate, server, scheduling>>

\* solve() after the pipeline.
Seal(q) ==
    /\ place[q] = "sealing"
    /\ Answer(q, Verdict(Sealing, fate[q]))
    /\ UNCHANGED <<fate, server, arena, scheduling>>

ServerStep(q) == Check(q) \/ Stage(q) \/ Compute(q) \/ Close(q) \/ Seal(q)

\* HEAD /health
Health == UNCHANGED vars

----------------------------------------------------------------------------
(* A thread of the pool *)

Top(t) == Last(stack[t])
HelpersOf(q) == {Help(q, n) : n \in 1 .. Helpers}

\* A thread that is idle, or waits for the scope of prepare(), takes a job.
MayTake(t) == stack[t] # <<>> => Top(t).kind = "prepare" /\ share[Top(t).q] = "waiting"

Take(t) ==
    /\ MayTake(t)
    /\ \E j \in jobs :
         /\ jobs' = jobs \ {j}
         /\ stack' = [stack EXCEPT ![t] = Append(@, j)]
    /\ UNCHANGED <<fate, place, server, arena, ended, share, answer>>

\* prepare() spawns its workers and works itself; then it waits.
StartShare(t) ==
    /\ stack[t] # <<>> /\ Top(t).kind = "prepare" /\ share[Top(t).q] = "none"
    /\ share' = [share EXCEPT ![Top(t).q] = "working"]
    /\ jobs' = jobs \cup HelpersOf(Top(t).q)
    /\ UNCHANGED <<fate, place, server, arena, stack, ended, answer>>

\* Mutant: it waits by blocking its thread, and not in a scope.
EndShareBlocking(t) ==
    /\ stack[t] # <<>> /\ Top(t).kind = "prepare" /\ share[Top(t).q] = "working"
    /\ HelpersOf(Top(t).q) \subseteq ended[Top(t).q]
    /\ share' = [share EXCEPT ![Top(t).q] = "waiting"]
    /\ UNCHANGED <<fate, place, server, arena, jobs, stack, ended, answer>>

\* Its own part is done; the scope's end is what it waits for.
EndShare(t) ==
    /\ stack[t] # <<>> /\ Top(t).kind = "prepare" /\ share[Top(t).q] = "working"
    /\ share' = [share EXCEPT ![Top(t).q] = "waiting"]
    /\ UNCHANGED <<fate, place, server, arena, jobs, stack, ended, answer>>

\* A job ends, with a result, an error or a panic that is caught.
End(t) ==
    /\ stack[t] # <<>>
    /\ LET j == Top(t)
       IN  /\ j.kind = "prepare" => share[j.q] = "waiting" /\ HelpersOf(j.q) \subseteq ended[j.q]
           /\ ended' = [ended EXCEPT ![j.q] = @ \cup {j}]
    /\ stack' = [stack EXCEPT ![t] = Front(@)]
    /\ UNCHANGED <<fate, place, server, arena, jobs, share, answer>>

PoolStep(t) == StartShare(t) \/ EndShare(t) \/ End(t)

Next ==
    \/ \E q \in Requests : Accept(q) \/ ServerStep(q)
    \/ \E t \in Pool : Take(t) \/ PoolStep(t)
    \/ Health

\* Every thread goes on as long as it can; what it computes ends.
Fairness ==
    /\ \A q \in Requests : WF_vars(Accept(q)) /\ WF_vars(ServerStep(q))
    /\ \A t \in Pool : WF_vars(Take(t)) /\ WF_vars(PoolStep(t))

Spec == Init /\ [][Next]_vars /\ Fairness

----------------------------------------------------------------------------
(* Properties *)

\* The steps of a request in the order of the text.
AllSteps == Checks \o Stages \o Scope \o Signing \o Sealing
Sequential(f) ==
    Verdict(AllSteps, [step \in {AllSteps[i][1] : i \in DOMAIN AllSteps} |->
                         IF step \in DOMAIN ScopeFate(f) THEN ScopeFate(f)[step] ELSE f[step]])

\* What a client is told depends on its request alone: not on the order in
\* which jobs end or panic, nor on what other requests do in the same pool or
\* did before on the same thread.  It is the first thing that is wrong, in the
\* order of the text, but for a panic of compute(), which hides an error of its
\* own job.
AnswerIsDetermined ==
    \A q \in Requests :
        answer[q] # None =>
            answer[q] = IF fate[q]["compute"] = "panic" /\ Sequential(fate[q])[1] = "drive"
                          THEN Dropped ELSE Sequential(fate[q])

\* Jobs do not outlive the request they work for: when its thread leaves the
\* pipeline, by whatever way, and may reset the arena for another request, no
\* job of it is waiting or running.
JobsEndWithRequest ==
    \A q \in Requests :
        place[q] \in {"sealing", "done"} =>
            /\ \A j \in jobs : j.q # q
            /\ \A t \in Pool : \A i \in DOMAIN stack[t] : stack[t][i].q # q

\* Every request is answered, or its connection dropped, even with one thread
\* in the pool, on which prepare() waits for workers that only it can run.
EveryRequestAnswered == \A q \in Requests : <>(answer[q] # None)

\* Requests in one pool do not notice each other.
RequestsStandAlone == AnswerIsDetermined /\ JobsEndWithRequest
=============================================================================
