------------------------------ MODULE Worktime ------------------------------
(***************************************************************************)
(* One POST /worktime: the handler of src/routes/worktime.rs, the override *)
(* of the build's parameters by the request's fc (apply in                 *)
(* src/worktime/fc.rs) and the proof-of-work chain of                      *)
(* src/worktime/encoder.rs.                                                *)
(*                                                                         *)
(* resolve() is external here: it returns after any time, with any build   *)
(* or error (see Cache for what it promises).  SHA-256 is an arbitrary     *)
(* function from a nonce and a digest to a digest, and a digest is its own *)
(* 52-bit prefix.  The seed's phrase and suffix, which are read alike, are *)
(* one parameter, named by the digest that compose_seed() and SHA-256 make *)
(* of it.  The wall clock may be stepped at any time.                      *)
(***************************************************************************)
EXTENDS Integers, Sequences

CONSTANTS
    Digests,      \* prefixes of digests: a set of naturals
    Hashes,       \* the functions SHA-256 may be
    Scale,        \* 2^52: the largest score
    Difficulties, \* difficulties a build or an fc may state (0: not positive)
    SubCounts,    \* sub-challenge counts a build or an fc may state
    Builds,       \* what resolve may give
    MaxNonce,     \* MAX_NONCE_PER_SUB
    Walls,        \* readings of the wall clock, in ms since the epoch
    ServerTimes,  \* values of st
    MaxSteps      \* bound: how often the wall clock is stepped

None == -1        \* Option::None
Nonces == 1 .. MaxNonce
Parameters == {"difficulty", "sub", "seed"}

ASSUME ConstantsAssumption ==
    /\ Digests \subseteq Nat /\ Digests # {}
    /\ Hashes \subseteq [Nonces \X Digests -> Digests]
    /\ Scale \in Nat /\ MaxNonce \in Nat \ {0} /\ MaxSteps \in Nat
    /\ Difficulties \subseteq Nat /\ SubCounts \subseteq Nat
    /\ Walls \subseteq Int /\ ServerTimes \subseteq Int

\* What resolve gives: the parameters of the build, and which of them its fc
\* overrides.  None of them: FcUsage::Independent.
AllBuilds == [difficulty : Difficulties, sub : SubCounts, seed : Digests,
              overrides : SUBSET Parameters]

ASSUME BuildsAssumption == Builds \subseteq AllBuilds

\* The fc of a request: missing or blank, not decodable, or a document that may
\* lack a parameter or hold one of the wrong type.
Documents == [kind : {"document"}, difficulty : Difficulties \cup {None},
              sub : SubCounts \cup {None}, seed : Digests \cup {None}]
NoFc == [kind |-> "blank", difficulty |-> None, sub |-> None, seed |-> None]
BadFc == [kind |-> "malformed", difficulty |-> None, sub |-> None, seed |-> None]

Bodies == {"malformed", "ctBlank", "domainBlank", "complete"}

VARIABLES
    hash,                   \* SHA-256
    wall, steps,            \* the wall clock
    body, st, fc,           \* the request
    pc, rst, build, params, \* the handler
    workTime, current, sub, nonce, answers,   \* encode
    arrived,                \* history: the wall clock when the handler started
    response

request == <<hash, body, st, fc>>
clock == <<wall, steps>>
chain == <<workTime, current, sub, nonce, answers>>
vars == <<request, clock, pc, rst, build, params, chain, arrived, response>>

NoBuild == [difficulty |-> 0, sub |-> 0, seed |-> None, overrides |-> {}]
NoParams == [difficulty |-> 0, sub |-> 0, seed |-> None]
NoResponse == [status |-> 0, why |-> "none", rst |-> 0, d |-> 0]
Reply(status, why) == [status |-> status, why |-> why, rst |-> 0, d |-> 0]

Init ==
    /\ hash \in Hashes
    /\ wall \in Walls /\ steps = 0
    /\ body \in Bodies
    /\ st \in ServerTimes
    /\ fc \in Documents \cup {NoFc, BadFc}
    /\ pc = "start"
    /\ rst = 0 /\ build = NoBuild /\ params = NoParams
    /\ workTime = 0 /\ current = None /\ sub = 0 /\ nonce = 1 /\ answers = <<>>
    /\ arrived = 0
    /\ response = NoResponse

----------------------------------------------------------------------------
(* worktime() *)

Respond(status, why) ==
    /\ response' = Reply(status, why)
    /\ pc' = "done"

\* arrival_ms(): the clock before anything else; 0 when it is before the epoch.
Arrive ==
    /\ pc = "start"
    /\ rst' = IF wall >= 0 THEN wall ELSE 0
    /\ arrived' = wall
    /\ pc' = "validate"
    /\ UNCHANGED <<request, clock, build, params, chain, response>>

\* The extractor's error, a blank ct, a domain that is blank once bare_domain()
\* has trimmed it and taken off the scheme and the slashes.
Validate ==
    /\ pc = "validate"
    /\ IF body = "complete"
         THEN pc' = "resolve" /\ UNCHANGED response
         ELSE Respond(400, "body")
    /\ UNCHANGED <<request, clock, rst, build, params, chain, arrived>>

Resolve ==
    /\ pc = "resolve"
    /\ \/ \E b \in Builds : build' = b /\ pc' = "fc" /\ UNCHANGED response
       \/ Respond(400, "fetch") /\ UNCHANGED build
       \/ Respond(502, "fetch") /\ UNCHANGED build
    /\ UNCHANGED <<request, clock, rst, params, chain, arrived>>

\* values.p.unwrap_or(config.p).
Override(p, b) == IF p \in b.overrides THEN fc[p] ELSE b[p]

\* read_difficulty() and read_sub_count(): a positive number must be there;
\* read_string(): a string.
Readable(p) == fc[p] # None /\ (p # "seed" => fc[p] > 0)

\* A build that depends on the fc needs one, and every parameter it overrides.
UseFc ==
    /\ pc = "fc"
    /\ IF build.overrides # {} /\ (fc.kind # "document" \/ \E p \in build.overrides : ~Readable(p))
         THEN Respond(400, "fc") /\ UNCHANGED params
         ELSE /\ params' = [difficulty |-> Override("difficulty", build),
                            sub |-> Override("sub", build),
                            seed |-> Override("seed", build)]
              /\ pc' = "encode"
              /\ UNCHANGED response
    /\ UNCHANGED <<request, clock, rst, build, chain, arrived>>

----------------------------------------------------------------------------
(* encode() *)

\* score(digest) >= threshold, where score is Scale / (prefix + 1) and the
\* threshold is difficulty / sub_count.
Clears(d, p) == Scale * p.sub >= p.difficulty * (d + 1)

\* threshold(): no sub-challenge, no difficulty, or one above the top score.
Solvable(p) == p.sub > 0 /\ p.difficulty > 0 /\ p.difficulty <= Scale * p.sub

\* The checks, the time of work and the seed of the chain.
Begin ==
    /\ pc = "encode"
    /\ IF st <= 0 \/ ~Solvable(params) \/ wall < 0
         THEN /\ Respond(502, "encode")
              /\ UNCHANGED chain
         ELSE /\ workTime' = wall
              /\ current' = params.seed
              /\ pc' = "solve"
              /\ UNCHANGED <<sub, nonce, answers, response>>
    /\ UNCHANGED <<request, clock, rst, build, params, arrived>>

\* Mutant: the answer is kept but the chain is not advanced.
TryUnchained ==
    /\ pc = "solve" /\ sub < params.sub /\ nonce <= MaxNonce
    /\ IF Clears(hash[<<nonce, current>>], params)
         THEN /\ answers' = Append(answers, nonce)
              /\ sub' = sub + 1 /\ nonce' = 1
         ELSE /\ nonce' = nonce + 1 /\ UNCHANGED <<sub, answers>>
    /\ UNCHANGED <<request, clock, pc, rst, build, params, workTime, current, arrived, response>>

\* solve_sub(): one nonce; the digest that clears becomes the chain's state.
Try ==
    /\ pc = "solve" /\ sub < params.sub /\ nonce <= MaxNonce
    /\ LET d == hash[<<nonce, current>>]
       IN  IF Clears(d, params)
             THEN /\ current' = d
                  /\ answers' = Append(answers, nonce)
                  /\ sub' = sub + 1 /\ nonce' = 1
             ELSE /\ nonce' = nonce + 1
                  /\ UNCHANGED <<current, sub, answers>>
    /\ UNCHANGED <<request, clock, pc, rst, build, params, workTime, arrived, response>>

\* Mutant: the last nonce is not tried.
GiveUpEarly ==
    /\ pc = "solve" /\ sub < params.sub /\ nonce >= MaxNonce
    /\ Respond(502, "nonceCap")
    /\ UNCHANGED <<request, clock, rst, build, params, chain, arrived>>

\* No nonce cleared: NonceCap.
GiveUp ==
    /\ pc = "solve" /\ sub < params.sub /\ nonce > MaxNonce
    /\ Respond(502, "nonceCap")
    /\ UNCHANGED <<request, clock, rst, build, params, chain, arrived>>

\* The time of receipt is the arrival's, or now when that was not positive.
Receipt == IF rst > 0 THEN rst ELSE wall

\* encode_cd(): the chain is complete.
Finish ==
    /\ pc = "solve" /\ sub = params.sub
    /\ IF Receipt <= 0
         THEN Respond(502, "encode")
         ELSE /\ response' = [status |-> 200, why |-> "none", rst |-> Receipt, d |-> Receipt - st]
              /\ pc' = "done"
    /\ UNCHANGED <<request, clock, rst, build, params, chain, arrived>>

\* The operator or NTP steps the wall clock, forwards or back.
StepClock ==
    /\ pc # "done" /\ steps < MaxSteps
    /\ wall' \in Walls \ {wall}
    /\ steps' = steps + 1
    /\ UNCHANGED <<request, pc, rst, build, params, chain, arrived, response>>

Done == pc = "done" /\ UNCHANGED vars

Handler == Arrive \/ Validate \/ Resolve \/ UseFc \/ Begin \/ Try \/ GiveUp \/ Finish

Next == Handler \/ StepClock \/ Done

Spec == Init /\ [][Next]_vars

----------------------------------------------------------------------------

\* The digest after the first n answers, as a verifier recomputes it.
Replay(as, seed) ==
    LET at[n \in 0 .. Len(as)] == IF n = 0 THEN seed ELSE hash[<<as[n], at[n - 1]>>]
    IN  at

\* The parameters the verifier holds the client to: the fc it was sent, where
\* the build reads it.
Expected(p) == IF p \in build.overrides THEN fc[p] ELSE build[p]

Stated == [p \in Parameters |-> Expected(p)]

\* A response that claims success verifies: as many answers as there are
\* sub-challenges, each the least nonce that clears the threshold from the
\* state the answers before it lead to, under the parameters in force.
AnswersVerify ==
    response.status = 200 =>
        LET p == Stated
        IN  /\ Len(answers) = p.sub
            /\ \A n \in 1 .. Len(answers) :
                 /\ Clears(Replay(answers, p.seed)[n], p)
                 /\ \A m \in 1 .. answers[n] - 1 :
                      ~Clears(hash[<<m, Replay(answers, p.seed)[n - 1]>>], p)

\* The handler gives up only on a chain that has no continuation: every nonce
\* has been tried from the state the answers lead to.
GivesUpHonestly ==
    response.why = "nonceCap" =>
        \A m \in Nonces :
            ~Clears(hash[<<m, Replay(answers, params.seed)[Len(answers)]>>], params)

\* The time of receipt in a response is when the request arrived, however long
\* resolve() and the chain took and however the clock was stepped meanwhile,
\* and it is positive even when the clock was not.
ReceiptIsArrival ==
    response.status = 200 =>
        /\ response.rst > 0
        /\ arrived > 0 => response.rst = arrived
        /\ response.d = response.rst - st

\* What the caller sent cannot be used: the body, or an fc that the build needs.
Unreadable ==
    \/ body # "complete"
    \/ /\ build.overrides # {}
       /\ \/ fc.kind # "document"
          \/ \E p \in build.overrides : fc[p] = None \/ (p # "seed" /\ fc[p] = 0)

\* The reason given is the case, and what gives reason is not let through: the
\* caller is told that his request cannot be used (400) exactly when it cannot and
\* fetch() did not fail before that was known; encode() fails only for an st that is
\* not positive, parameters that no score satisfies, or a clock before the epoch, and
\* with such an st or such parameters no chain is tried.  Not every fault of the
\* caller is a 400: for a wrong st, and for numbers of his fc that cannot be
\* satisfied, he is told what he is told of a build or a clock that fails (502).
ReasonsAreTrue ==
    /\ response.status = 400 /\ response.why # "fetch" => Unreadable
    /\ response.status \in {200, 502} => ~Unreadable
    /\ response.why = "encode" =>
         st <= 0 \/ ~Solvable(Stated) \/ wall < 0 \/ (wall = 0 /\ arrived <= 0)
    /\ response.status = 200 \/ response.why = "nonceCap" => st > 0 /\ Solvable(Stated)

\* What a response says is so: the answers and times of one that claims success, ...
AnswersHold == AnswersVerify /\ ReceiptIsArrival

\* ... and the reason given by one that does not.
RefusalsHold == GivesUpHonestly /\ ReasonsAreTrue
=============================================================================
