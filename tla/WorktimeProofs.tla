--------------------------- MODULE WorktimeProofs ---------------------------
(***************************************************************************)
(* What holds of every POST /worktime, for any hash function, any build    *)
(* and fc, any cap on nonces and any clock: a response that claims success *)
(* verifies, and one that does not gives the true reason.                  *)
(*                                                                         *)
(* A verifier's chain is defined by recursion.  That it exists, that there *)
(* is no other, and that encode() is at its end are carried together by    *)
(* the invariant, one answer at a time.                                    *)
(***************************************************************************)
EXTENDS Worktime, TLAPS

----------------------------------------------------------------------------
(* Chains *)

\* f is the chain of digests of the answers xs from seed under the hash sha.
IsReplay(sha, f, xs, seed) ==
    f = [n \in 0 .. Len(xs) |-> IF n = 0 THEN seed ELSE sha[<<xs[n], f[n - 1]>>]]

\* f is the only one.
IsOnlyReplay(sha, f, xs, seed) ==
    /\ IsReplay(sha, f, xs, seed)
    /\ \A g : IsReplay(sha, g, xs, seed) => g = f

\* The chain of no answer is the seed.
LEMMA EmptyReplay ==
    ASSUME NEW sha, NEW seed
    PROVE  IsOnlyReplay(sha, [n \in 0 .. 0 |-> seed], <<>>, seed)
<1> DEFINE f == [n \in 0 .. 0 |-> seed]
<1>1. \A g : IsReplay(sha, g, <<>>, seed) => g = f
  <2> SUFFICES ASSUME NEW g, IsReplay(sha, g, <<>>, seed) PROVE g = f
    OBVIOUS
  <2>1. g = [n \in 0 .. 0 |-> IF n = 0 THEN seed ELSE sha[<<<<>>[n], g[n - 1]>>]]
    BY DEF IsReplay
  <2>2. \A n \in 0 .. 0 : g[n] = seed
    BY <2>1
  <2> QED BY <2>1, <2>2
<1>2. IsReplay(sha, f, <<>>, seed)
  BY DEF IsReplay
<1> QED BY <1>1, <1>2 DEF IsOnlyReplay

\* The same, entry by entry.
Follows(sha, f, xs, seed, n) == f[n] = IF n = 0 THEN seed ELSE sha[<<xs[n], f[n - 1]>>]

\* A chain is a function whose entries follow one another.
LEMMA ReplayEntries ==
    ASSUME NEW sha, NEW xs, Len(xs) \in Nat, NEW seed, NEW f
    PROVE  IsReplay(sha, f, xs, seed) <=>
             /\ f = [n \in 0 .. Len(xs) |-> f[n]]
             /\ \A n \in 0 .. Len(xs) : Follows(sha, f, xs, seed, n)
<1> DEFINE L == Len(xs)
<1> HIDE DEF L
<1>1. ASSUME IsReplay(sha, f, xs, seed)
      PROVE  f = [n \in 0 .. L |-> f[n]] /\ \A n \in 0 .. L : Follows(sha, f, xs, seed, n)
  <2>1. f = [n \in 0 .. L |-> IF n = 0 THEN seed ELSE sha[<<xs[n], f[n - 1]>>]]
    BY <1>1 DEF IsReplay, L
  <2>2. \A n \in 0 .. L : f[n] = IF n = 0 THEN seed ELSE sha[<<xs[n], f[n - 1]>>]
    BY <2>1
  <2>3. f = [n \in 0 .. L |-> f[n]]
    BY <2>1, <2>2
  <2> QED BY <2>2, <2>3 DEF Follows
<1>2. ASSUME f = [n \in 0 .. L |-> f[n]], \A n \in 0 .. L : Follows(sha, f, xs, seed, n)
      PROVE  IsReplay(sha, f, xs, seed)
  <2>1. \A n \in 0 .. L : f[n] = IF n = 0 THEN seed ELSE sha[<<xs[n], f[n - 1]>>]
    BY <1>2 DEF Follows
  <2>2. [n \in 0 .. L |-> f[n]] =
          [n \in 0 .. L |-> IF n = 0 THEN seed ELSE sha[<<xs[n], f[n - 1]>>]]
    BY <2>1
  <2> QED BY <1>2, <2>2 DEF IsReplay, L
<1> QED BY <1>1, <1>2 DEF L

\* What Append does to a sequence.
LEMMA Appending ==
    ASSUME NEW S, NEW xs \in Seq(S), NEW a \in S
    PROVE  /\ Append(xs, a) \in Seq(S) /\ Len(xs) \in Nat /\ Len(Append(xs, a)) = Len(xs) + 1
           /\ Append(xs, a)[Len(xs) + 1] = a
           /\ \A n \in 1 .. Len(xs) : Append(xs, a)[n] = xs[n]
<1>1. Append(xs, a) \in Seq(S)
  OBVIOUS
<1>2. Append(xs, a)[Len(xs) + 1] = a
  BY <1>1
<1>3. \A n \in 1 .. Len(xs) : Append(xs, a)[n] = xs[n]
  BY <1>1
<1>4. Len(xs) \in Nat /\ Len(Append(xs, a)) = Len(xs) + 1
  BY <1>1
<1> QED BY <1>1, <1>2, <1>3, <1>4

\* bs has one answer more than the L of xs, and g one digest more than f.
Longer(sha, f, g, xs, bs, L) ==
    /\ L \in Nat /\ Len(xs) = L /\ Len(bs) = L + 1
    /\ \A n \in 1 .. L : bs[n] = xs[n]
    /\ g = [n \in 0 .. L + 1 |-> g[n]]
    /\ \A n \in 0 .. L : g[n] = f[n]
    /\ g[L + 1] = sha[<<bs[L + 1], f[L]>>]

\* An answer more adds one digest to the only chain, which is the only one again.
LEMMA ReplayOn ==
    ASSUME NEW sha, NEW L, NEW xs, NEW bs, NEW seed, NEW f, NEW g,
           IsOnlyReplay(sha, f, xs, seed), Longer(sha, f, g, xs, bs, L)
    PROVE  IsOnlyReplay(sha, g, bs, seed)
<1>1. /\ L \in Nat /\ Len(xs) = L /\ Len(bs) = L + 1
      /\ \A n \in 1 .. L : bs[n] = xs[n]
  BY DEF Longer
<1>2. f = [n \in 0 .. L |-> f[n]] /\ \A n \in 0 .. L : Follows(sha, f, xs, seed, n)
  BY <1>1, ReplayEntries DEF IsOnlyReplay
<1>3. \A e : IsReplay(sha, e, bs, seed) <=>
        /\ e = [n \in 0 .. L + 1 |-> e[n]]
        /\ \A n \in 0 .. L + 1 : Follows(sha, e, bs, seed, n)
  <2>1. ASSUME NEW e
        PROVE  IsReplay(sha, e, bs, seed) <=>
                 /\ e = [n \in 0 .. Len(bs) |-> e[n]]
                 /\ \A n \in 0 .. Len(bs) : Follows(sha, e, bs, seed, n)
    <3>1. Len(bs) \in Nat
      BY <1>1
    <3> QED BY <3>1, ReplayEntries
  <2> QED BY <1>1, <2>1
<1>4. \A k : (k = [n \in 0 .. L |-> k[n]] /\ \A n \in 0 .. L : Follows(sha, k, xs, seed, n)) => k = f
  BY <1>1, ReplayEntries DEF IsOnlyReplay
<1>5. \A n \in 0 .. L : g[n] = f[n]
  BY DEF Longer
<1>6. g[L + 1] = sha[<<bs[L + 1], f[L]>>]
  BY DEF Longer
<1>7. g = [n \in 0 .. L + 1 |-> g[n]]
  BY DEF Longer
<1>8. ASSUME NEW n \in 0 .. L + 1 PROVE Follows(sha, g, bs, seed, n)
  <2>1. CASE n = 0
    <3>1. 0 \in 0 .. L
      BY <1>1
    <3>2. f[0] = seed
      BY <1>2, <3>1 DEF Follows
    <3>3. g[0] = f[0]
      BY <1>5, <3>1
    <3> QED BY <2>1, <3>2, <3>3 DEF Follows
  <2>2. CASE n \in 1 .. L
    <3>1. n \in 0 .. L /\ n - 1 \in 0 .. L /\ n # 0
      BY <1>1, <2>2
    <3>2. f[n] = sha[<<xs[n], f[n - 1]>>]
      BY <1>2, <3>1 DEF Follows
    <3>3. g[n] = f[n] /\ g[n - 1] = f[n - 1] /\ bs[n] = xs[n]
      BY <1>1, <1>5, <2>2, <3>1
    <3> QED BY <3>1, <3>2, <3>3 DEF Follows
  <2>3. CASE n = L + 1
    <3>1. n # 0 /\ n - 1 = L /\ L \in 0 .. L
      BY <1>1, <2>3
    <3> QED BY <1>1, <1>5, <1>6, <2>3, <3>1 DEF Follows
  <2> QED BY <1>1, <2>1, <2>2, <2>3
<1>9. ASSUME NEW e, IsReplay(sha, e, bs, seed) PROVE e = g
  <2> DEFINE k == [n \in 0 .. L |-> e[n]]
  <2>1. e = [n \in 0 .. L + 1 |-> e[n]] /\ \A n \in 0 .. L + 1 : Follows(sha, e, bs, seed, n)
    BY <1>3, <1>9
  <2>2. \A n \in 0 .. L : k[n] = e[n]
    OBVIOUS
  <2>3. k = [n \in 0 .. L |-> k[n]]
    BY <2>2
  <2> HIDE DEF k
  <2>4. ASSUME NEW n \in 0 .. L PROVE Follows(sha, k, xs, seed, n)
    <3>1. n \in 0 .. L + 1 /\ k[n] = e[n]
      BY <1>1, <2>2
    <3>2. CASE n = 0
      BY <2>1, <3>1, <3>2 DEF Follows
    <3>3. CASE n # 0
      <4>1. n \in 1 .. L /\ n - 1 \in 0 .. L
        BY <1>1, <3>3
      <4>2. e[n] = sha[<<bs[n], e[n - 1]>>]
        BY <2>1, <3>1, <3>3 DEF Follows
      <4>3. bs[n] = xs[n] /\ k[n - 1] = e[n - 1]
        BY <1>1, <2>2, <4>1
      <4> QED BY <3>1, <3>3, <4>2, <4>3 DEF Follows
    <3> QED BY <3>2, <3>3
  <2>5. k = f
    BY <1>4, <2>3, <2>4
  <2>6. \A n \in 0 .. L : e[n] = f[n]
    BY <2>2, <2>5
  <2>7. e[L + 1] = sha[<<bs[L + 1], f[L]>>]
    <3>1. L + 1 \in 0 .. L + 1 /\ L + 1 # 0 /\ L + 1 - 1 = L /\ L \in 0 .. L
      BY <1>1
    <3>2. e[L + 1] = sha[<<bs[L + 1], e[L]>>]
      <4>1. Follows(sha, e, bs, seed, L + 1)
        BY <2>1, <3>1
      <4>2. e[L + 1] = sha[<<bs[L + 1], e[L + 1 - 1]>>]
        BY <3>1, <4>1 DEF Follows
      <4> QED BY <3>1, <4>2
    <3>3. e[L] = f[L]
      BY <2>6, <3>1
    <3> QED BY <1>1, <3>2, <3>3
  <2>8. \A n \in 0 .. L + 1 : e[n] = g[n]
    <3>1. \A n \in 0 .. L + 1 : n \in 0 .. L \/ n = L + 1
      BY <1>1
    <3> QED BY <1>5, <1>6, <2>6, <2>7, <3>1
  <2> QED BY <1>7, <2>1, <2>8
<1> QED BY <1>3, <1>7, <1>8, <1>9 DEF IsOnlyReplay

\* What a verifier computes is the only chain, where there is just one.
LEMMA ReplayIs ==
    ASSUME NEW xs, NEW seed, NEW f, IsOnlyReplay(hash, f, xs, seed)
    PROVE  Replay(xs, seed) = f
<1>1. Replay(xs, seed) = CHOOSE g : IsReplay(hash, g, xs, seed)
  BY DEF Replay, IsReplay
<1>2. \A g : IsReplay(hash, g, xs, seed) => g = f
  BY DEF IsOnlyReplay
<1>3. IsReplay(hash, f, xs, seed)
  BY DEF IsOnlyReplay
<1> QED BY <1>1, <1>2, <1>3

----------------------------------------------------------------------------
(* What encode() has found *)

\* The answers xs are those of a verifier's chain under the parameters ps, the
\* chain has come to cur after s of them, and the nonces before k do not go on.
ChainOk(sha, ps, xs, cur, s, k) ==
    /\ s \in Nat /\ k \in Nat \ {0} /\ xs \in Seq(Nat) /\ Len(xs) = s
    /\ \E f : /\ IsOnlyReplay(sha, f, xs, ps.seed)
              /\ f[s] = cur
              /\ \A n \in 1 .. s :
                   /\ Clears(f[n], ps)
                   /\ \A m \in 1 .. xs[n] - 1 : ~Clears(sha[<<m, f[n - 1]>>], ps)
    /\ \A m \in 1 .. k - 1 : ~Clears(sha[<<m, cur>>], ps)

\* It is so when encode() begins, ...
LEMMA ChainBegins ==
    ASSUME NEW sha, NEW ps
    PROVE  ChainOk(sha, ps, <<>>, ps.seed, 0, 1)
<1> DEFINE f == [n \in 0 .. 0 |-> ps.seed]
<1>1. IsOnlyReplay(sha, f, <<>>, ps.seed)
  BY EmptyReplay
<1>2. f[0] = ps.seed
  OBVIOUS
<1>3. <<>> \in Seq(Nat) /\ Len(<<>>) = 0
  OBVIOUS
<1> HIDE DEF f
<1> QED BY <1>1, <1>2, <1>3 DEF ChainOk

\* ... when solve_sub() goes on to the next nonce, ...
LEMMA ChainTries ==
    ASSUME NEW sha, NEW ps, NEW xs, NEW cur, NEW s, NEW k, ChainOk(sha, ps, xs, cur, s, k),
           ~Clears(sha[<<k, cur>>], ps)
    PROVE  ChainOk(sha, ps, xs, cur, s, k + 1)
<1>1. k \in Nat \ {0} /\ \A m \in 1 .. k - 1 : ~Clears(sha[<<m, cur>>], ps)
  BY DEF ChainOk
<1>2. k + 1 \in Nat \ {0} /\ \A m \in 1 .. k + 1 - 1 : m \in 1 .. k - 1 \/ m = k
  BY <1>1
<1>3. \A m \in 1 .. k + 1 - 1 : ~Clears(sha[<<m, cur>>], ps)
  BY <1>1, <1>2
<1> QED BY <1>2, <1>3 DEF ChainOk

\* ... and when a nonce clears and the chain goes on from its digest.
LEMMA ChainAdvances ==
    ASSUME NEW sha, NEW ps, NEW xs, NEW cur, NEW s, NEW k, ChainOk(sha, ps, xs, cur, s, k),
           Clears(sha[<<k, cur>>], ps)
    PROVE  ChainOk(sha, ps, Append(xs, k), sha[<<k, cur>>], s + 1, 1)
<1>1. /\ s \in Nat /\ k \in Nat /\ xs \in Seq(Nat) /\ Len(xs) = s
      /\ \A m \in 1 .. k - 1 : ~Clears(sha[<<m, cur>>], ps)
  BY DEF ChainOk
<1>2. PICK f : /\ IsOnlyReplay(sha, f, xs, ps.seed)
               /\ f[s] = cur
               /\ \A n \in 1 .. s :
                    /\ Clears(f[n], ps)
                    /\ \A m \in 1 .. xs[n] - 1 : ~Clears(sha[<<m, f[n - 1]>>], ps)
  BY DEF ChainOk
<1>3. PICK ys : ys = Append(xs, k)
  OBVIOUS
<1>4. /\ ys \in Seq(Nat) /\ Len(ys) = s + 1 /\ ys[s + 1] = k
      /\ \A n \in 1 .. s : ys[n] = xs[n]
  BY <1>1, <1>3, Appending
<1>5. PICK g : g = [n \in 0 .. s + 1 |-> IF n <= s THEN f[n] ELSE sha[<<k, f[s]>>]]
  OBVIOUS
<1>6. /\ g = [n \in 0 .. s + 1 |-> g[n]] /\ g[s + 1] = sha[<<k, f[s]>>]
      /\ \A n \in 0 .. s : g[n] = f[n]
  BY <1>1, <1>2, <1>5
<1>7. g[s + 1] = sha[<<k, cur>>] /\ \A n \in 0 .. s : g[n] = f[n]
  BY <1>2, <1>6
<1>8. IsOnlyReplay(sha, g, ys, ps.seed)
  <2>1. PICK seed : seed = ps.seed
    OBVIOUS
  <2>2. Longer(sha, f, g, xs, ys, s)
    BY <1>1, <1>4, <1>6 DEF Longer
  <2>3. IsOnlyReplay(sha, f, xs, seed)
    BY <1>2, <2>1
  <2>4. IsOnlyReplay(sha, g, ys, seed)
    BY <2>2, <2>3, ReplayOn
  <2> QED BY <2>1, <2>4
<1>9. ASSUME NEW n \in 1 .. s + 1
      PROVE  /\ Clears(g[n], ps)
             /\ \A m \in 1 .. ys[n] - 1 : ~Clears(sha[<<m, g[n - 1]>>], ps)
  <2>1. CASE n \in 1 .. s
    <3>1. g[n] = f[n] /\ g[n - 1] = f[n - 1] /\ ys[n] = xs[n]
      BY <1>1, <1>4, <1>7, <2>1
    <3> QED BY <1>2, <2>1, <3>1
  <2>2. CASE n = s + 1
    <3>1. g[n] = sha[<<k, cur>>] /\ g[n - 1] = cur /\ ys[n] = k
      <4>1. n - 1 = s /\ s \in 0 .. s
        BY <1>1, <2>2
      <4> QED BY <1>2, <1>4, <1>7, <2>2, <4>1
    <3> QED BY <1>1, <3>1
  <2> QED BY <1>1, <2>1, <2>2
<1>10. s + 1 \in Nat /\ 1 \in Nat \ {0}
  BY <1>1
<1>11. \E h : /\ IsOnlyReplay(sha, h, ys, ps.seed)
              /\ h[s + 1] = sha[<<k, cur>>]
              /\ \A n \in 1 .. s + 1 :
                   /\ Clears(h[n], ps)
                   /\ \A m \in 1 .. ys[n] - 1 : ~Clears(sha[<<m, h[n - 1]>>], ps)
  BY <1>7, <1>8, <1>9
<1>12. \A m \in 1 .. 1 - 1 : ~Clears(sha[<<m, sha[<<k, cur>>]>>], ps)
  OBVIOUS
<1>13. ChainOk(sha, ps, ys, sha[<<k, cur>>], s + 1, 1)
  BY <1>4, <1>10, <1>11, <1>12 DEF ChainOk
<1> QED BY <1>3, <1>13

----------------------------------------------------------------------------
(* The handler *)

\* The parameters are those the build and the fc state, and the fc can be read.
InForce ==
    /\ params = [difficulty |-> Expected("difficulty"), sub |-> Expected("sub"),
                 seed |-> Expected("seed")]
    /\ ~Unreadable

Chained == ChainOk(hash, params, answers, current, sub, nonce)

\* What encode() requires before the chain.
Workable == st > 0 /\ Solvable(params)

\* What is there after the clock was read, before a build, before the chain, while
\* it is extended, and when it is answered.
WInv ==
    /\ pc \in {"start", "validate", "resolve", "fc", "encode", "solve", "done"}
    /\ \A p \in Parameters : fc[p] \in Nat \cup {None}
    /\ wall \in Int /\ arrived \in Int /\ st \in Int
    /\ pc # "start" => rst = IF arrived >= 0 THEN arrived ELSE 0
    /\ pc # "done" => response = NoResponse
    /\ pc \in {"resolve", "fc", "encode", "solve"} => body = "complete"
    /\ pc \in {"start", "validate", "resolve"} => build = NoBuild
    /\ build.overrides \subseteq Parameters
    /\ pc \in {"start", "validate", "resolve", "fc", "encode"} =>
         sub = 0 /\ nonce = 1 /\ answers = <<>>
    /\ pc \in {"encode", "solve"} => InForce
    /\ pc = "solve" => Chained /\ Workable
    /\ response.status = 200 => InForce /\ Chained /\ sub = params.sub
    /\ response.why = "nonceCap" => Chained /\ nonce > MaxNonce
    /\ ReceiptIsArrival
    /\ ReasonsAreTrue

LEMMA FcType ==
    ASSUME Init
    PROVE  \A p \in Parameters : fc[p] \in Nat \cup {None}
<1>1. fc \in Documents \/ fc = NoFc \/ fc = BadFc
  BY DEF Init
<1>2. CASE fc \in Documents
  <2>1. fc["difficulty"] \in Nat \cup {None}
    BY <1>2, ConstantsAssumption DEF Documents
  <2>2. fc["sub"] \in Nat \cup {None}
    BY <1>2, ConstantsAssumption DEF Documents
  <2>3. fc["seed"] \in Nat \cup {None}
    BY <1>2, ConstantsAssumption DEF Documents
  <2> QED BY <2>1, <2>2, <2>3 DEF Parameters
<1>3. CASE fc = NoFc \/ fc = BadFc
  BY <1>3 DEF NoFc, BadFc, Parameters
<1> QED BY <1>1, <1>2, <1>3

LEMMA WStart == Init => WInv
<1> SUFFICES ASSUME Init PROVE WInv
  OBVIOUS
<1>1. \A p \in Parameters : fc[p] \in Nat \cup {None}
  BY FcType
<1>2. response.status = 0 /\ response.why \notin {"encode", "nonceCap"} /\ response = NoResponse
  BY DEF Init, NoResponse
<1>3. wall \in Int /\ arrived \in Int /\ st \in Int
  BY ConstantsAssumption DEF Init
<1>4. build = NoBuild /\ build.overrides \subseteq Parameters
  BY DEF Init, NoBuild
<1>5. pc = "start" /\ sub = 0 /\ nonce = 1 /\ answers = <<>>
  BY DEF Init
<1>6. ReceiptIsArrival /\ ReasonsAreTrue
  BY <1>2 DEF ReceiptIsArrival, ReasonsAreTrue
<1> QED BY <1>1, <1>2, <1>3, <1>4, <1>5, <1>6 DEF WInv

\* What the facts about the request and the build depend on.
LEMMA SameReading ==
    ASSUME body' = body, build' = build, fc' = fc
    PROVE  Unreadable' <=> Unreadable
BY DEF Unreadable

LEMMA SameForce ==
    ASSUME body' = body, build' = build, fc' = fc, params' = params, InForce
    PROVE  InForce'
<1>1. Expected("difficulty")' = Expected("difficulty") /\ Expected("sub")' = Expected("sub")
      /\ Expected("seed")' = Expected("seed")
  BY DEF Expected
<1> QED BY <1>1, SameReading DEF InForce

LEMMA SameChain ==
    ASSUME hash' = hash, params' = params, chain' = chain, Chained
    PROVE  Chained'
BY DEF Chained, chain

LEMMA SameWork ==
    ASSUME params' = params, st' = st
    PROVE  Workable' <=> Workable
BY DEF Workable, Solvable

\* The parameters stated are those in force, and so are solvable when these are.
LEMMA StatedIs ==
    ASSUME InForce
    PROVE  Solvable(Stated) <=> Solvable(params)
<1>1. /\ params.sub = Expected("sub") /\ params.difficulty = Expected("difficulty")
  BY DEF InForce
<1>2. /\ Stated["sub"] = Expected("sub") /\ Stated["difficulty"] = Expected("difficulty")
  BY DEF Stated, Parameters
<1> QED BY <1>1, <1>2 DEF Solvable

LEMMA SameStated ==
    ASSUME build' = build, fc' = fc
    PROVE  Solvable(Stated)' <=> Solvable(Stated)
<1>1. Stated' = Stated
  BY DEF Stated, Expected
<1> QED BY <1>1 DEF Solvable

\* A response without success or one of the reasons below says nothing yet.
LEMMA NothingSaid ==
    ASSUME response'.status \notin {200, 400, 502}, response'.why \notin {"encode", "nonceCap"}
    PROVE  (ReceiptIsArrival /\ ReasonsAreTrue)'
BY DEF ReceiptIsArrival, ReasonsAreTrue

LEMMA ArriveStep == WInv /\ Arrive => WInv'
<1> SUFFICES ASSUME WInv, Arrive PROVE WInv'
  OBVIOUS
<1>1. response' = NoResponse /\ response'.status = 0 /\ response'.why \notin {"encode", "nonceCap"}
  BY DEF WInv, Arrive, NoResponse
<1>2. (ReceiptIsArrival /\ ReasonsAreTrue)'
  BY <1>1, NothingSaid
<1>3. pc' = "validate" /\ rst' = (IF arrived' >= 0 THEN arrived' ELSE 0) /\ arrived' \in Int
  BY DEF WInv, Arrive
<1>4. /\ wall' = wall /\ build' = build /\ fc' = fc /\ sub' = sub /\ nonce' = nonce
      /\ answers' = answers /\ st' = st /\ pc = "start"
  BY DEF Arrive, clock, request, chain
<1> QED BY <1>1, <1>2, <1>3, <1>4 DEF WInv

LEMMA ValidateStep == WInv /\ Validate => WInv'
<1> SUFFICES ASSUME WInv, Validate PROVE WInv'
  OBVIOUS
<1>1. /\ wall' = wall /\ arrived' = arrived /\ rst' = rst /\ build' = build /\ fc' = fc
      /\ sub' = sub /\ nonce' = nonce /\ answers' = answers /\ body' = body /\ st' = st
      /\ pc = "validate"
  BY DEF Validate, clock, request, chain
<1>2. CASE body = "complete"
  <2>1. pc' = "resolve" /\ response' = NoResponse
    BY <1>1, <1>2 DEF WInv, Validate
  <2>2. response'.status = 0 /\ response'.why \notin {"encode", "nonceCap"}
    BY <2>1 DEF NoResponse
  <2>3. (ReceiptIsArrival /\ ReasonsAreTrue)'
    BY <2>2, NothingSaid
  <2> QED BY <1>1, <1>2, <2>1, <2>2, <2>3 DEF WInv
<1>3. CASE body # "complete"
  <2>1. pc' = "done" /\ response' = Reply(400, "body")
    BY <1>3 DEF Validate, Respond
  <2>2. response'.status = 400 /\ response'.why = "body"
    BY <2>1 DEF Reply
  <2>3. (ReceiptIsArrival /\ ReasonsAreTrue)'
    BY <1>1, <1>3, <2>2 DEF ReceiptIsArrival, ReasonsAreTrue, Unreadable
  <2> QED BY <1>1, <2>1, <2>2, <2>3 DEF WInv
<1> QED BY <1>2, <1>3

LEMMA ResolveStep == WInv /\ Resolve => WInv'
<1> SUFFICES ASSUME WInv, Resolve PROVE WInv'
  OBVIOUS
<1>1. /\ wall' = wall /\ arrived' = arrived /\ rst' = rst /\ fc' = fc
      /\ sub' = sub /\ nonce' = nonce /\ answers' = answers /\ body' = body /\ st' = st
      /\ pc = "resolve" /\ body = "complete"
  BY DEF Resolve, clock, request, chain, WInv
<1>2. ASSUME NEW b \in Builds, build' = b, pc' = "fc", response' = response PROVE WInv'
  <2>1. response' = NoResponse
    BY <1>1, <1>2 DEF WInv
  <2>2. response'.status = 0 /\ response'.why \notin {"encode", "nonceCap"}
    BY <2>1 DEF NoResponse
  <2>3. (ReceiptIsArrival /\ ReasonsAreTrue)'
    BY <2>2, NothingSaid
  <2>4. build'.overrides \subseteq Parameters
    BY <1>2, BuildsAssumption DEF AllBuilds
  <2> QED BY <1>1, <1>2, <2>1, <2>2, <2>3, <2>4 DEF WInv
<1>3. ASSUME NEW status \in {400, 502}, Respond(status, "fetch"), build' = build PROVE WInv'
  <2>1. pc' = "done" /\ response' = Reply(status, "fetch")
    BY <1>3 DEF Respond
  <2>2. response'.status = status /\ response'.why = "fetch"
    BY <2>1 DEF Reply
  <2>3. build' = NoBuild /\ build'.overrides = {}
    BY <1>1, <1>3 DEF WInv, NoBuild
  <2>4. (ReceiptIsArrival /\ ReasonsAreTrue)'
    BY <1>1, <2>2, <2>3 DEF ReceiptIsArrival, ReasonsAreTrue, Unreadable
  <2> QED BY <1>1, <2>1, <2>2, <2>3, <2>4 DEF WInv
<1> QED BY <1>2, <1>3 DEF Resolve

LEMMA UseFcStep == WInv /\ UseFc => WInv'
<1> SUFFICES ASSUME WInv, UseFc PROVE WInv'
  OBVIOUS
<1> DEFINE unfit ==
      build.overrides # {} /\ (fc.kind # "document" \/ \E p \in build.overrides : ~Readable(p))
<1>1. /\ wall' = wall /\ arrived' = arrived /\ rst' = rst /\ fc' = fc /\ build' = build
      /\ sub' = sub /\ nonce' = nonce /\ answers' = answers /\ body' = body /\ st' = st
      /\ pc = "fc" /\ body = "complete"
  BY DEF UseFc, clock, request, chain, WInv
<1>2. unfit <=> Unreadable
  <2>1. \A p \in build.overrides :
          Readable(p) <=> ~(fc[p] = None \/ (p # "seed" /\ fc[p] = 0))
    BY DEF WInv, Readable, None
  <2> QED BY <1>1, <2>1 DEF Unreadable
<1>3. CASE unfit
  <2>1. pc' = "done" /\ response' = Reply(400, "fc")
    BY <1>3 DEF UseFc, Respond
  <2>2. response'.status = 400 /\ response'.why = "fc"
    BY <2>1 DEF Reply
  <2>3. Unreadable'
    BY <1>1, <1>2, <1>3, SameReading
  <2>4. (ReceiptIsArrival /\ ReasonsAreTrue)'
    BY <2>2, <2>3 DEF ReceiptIsArrival, ReasonsAreTrue
  <2> QED BY <1>1, <2>1, <2>2, <2>4 DEF WInv
<1>4. CASE ~unfit
  <2>1. /\ params' = [difficulty |-> Override("difficulty", build),
                      sub |-> Override("sub", build), seed |-> Override("seed", build)]
        /\ pc' = "encode" /\ response' = response
    BY <1>4 DEF UseFc
  <2>2. response' = NoResponse
    BY <1>1, <2>1 DEF WInv
  <2>3. response'.status = 0 /\ response'.why \notin {"encode", "nonceCap"}
    BY <2>2 DEF NoResponse
  <2>4. (ReceiptIsArrival /\ ReasonsAreTrue)'
    BY <2>3, NothingSaid
  <2>5. ~Unreadable'
    BY <1>1, <1>2, <1>4, SameReading
  <2>6. InForce'
    <3>1. /\ Expected("difficulty")' = Override("difficulty", build)
          /\ Expected("sub")' = Override("sub", build)
          /\ Expected("seed")' = Override("seed", build)
      BY <1>1 DEF Expected, Override
    <3> QED BY <2>1, <2>5, <3>1 DEF InForce
  <2> QED BY <1>1, <2>1, <2>2, <2>3, <2>4, <2>6 DEF WInv
<1> QED BY <1>3, <1>4

LEMMA BeginStep == WInv /\ Begin => WInv'
<1> SUFFICES ASSUME WInv, Begin PROVE WInv'
  OBVIOUS
<1>1. /\ wall' = wall /\ arrived' = arrived /\ rst' = rst /\ fc' = fc /\ build' = build
      /\ body' = body /\ st' = st /\ hash' = hash /\ params' = params /\ pc = "encode"
  BY DEF Begin, clock, request
<1>2. /\ body = "complete" /\ sub = 0 /\ nonce = 1 /\ answers = <<>> /\ response = NoResponse
      /\ InForce /\ st \in Int /\ wall \in Int
  BY <1>1 DEF WInv
<1>3. InForce'
  BY <1>1, <1>2, SameForce
<1>4. CASE st <= 0 \/ ~Solvable(params) \/ wall < 0
  <2>1. pc' = "done" /\ response' = Reply(502, "encode")
    BY <1>4 DEF Begin, Respond
  <2>2. response'.status = 502 /\ response'.why = "encode"
    BY <2>1 DEF Reply
  <2>3. ~Unreadable'
    BY <1>3 DEF InForce
  <2>4. st <= 0 \/ ~Solvable(Stated) \/ wall < 0
    BY <1>2, <1>4, StatedIs
  <2>5. st' <= 0 \/ ~Solvable(Stated)' \/ wall' < 0
    BY <1>1, <2>4, SameStated
  <2>6. (ReceiptIsArrival /\ ReasonsAreTrue)'
    BY <2>2, <2>3, <2>5 DEF ReceiptIsArrival, ReasonsAreTrue
  <2> QED BY <1>1, <1>2, <2>1, <2>2, <2>6 DEF WInv
<1>5. CASE ~(st <= 0 \/ ~Solvable(params) \/ wall < 0)
  <2>1. /\ current' = params.seed /\ pc' = "solve" /\ sub' = sub /\ nonce' = nonce
        /\ answers' = answers /\ response' = response
    BY <1>5 DEF Begin
  <2>2. response'.status = 0 /\ response'.why \notin {"encode", "nonceCap"} /\ response' = NoResponse
    BY <1>2, <2>1 DEF NoResponse
  <2>3. (ReceiptIsArrival /\ ReasonsAreTrue)'
    BY <2>2, NothingSaid
  <2>4. Chained'
    <3>1. ChainOk(hash, params, <<>>, params.seed, 0, 1)
      BY ChainBegins
    <3> QED BY <1>1, <1>2, <2>1, <3>1 DEF Chained
  <2>5. Workable'
    <3>1. Workable
      BY <1>2, <1>5 DEF Workable
    <3> QED BY <1>1, <3>1, SameWork
  <2> QED BY <1>1, <1>2, <1>3, <2>1, <2>2, <2>3, <2>4, <2>5 DEF WInv
<1> QED BY <1>4, <1>5

LEMMA TryStep == WInv /\ Try => WInv'
<1> SUFFICES ASSUME WInv, Try PROVE WInv'
  OBVIOUS
<1>1. /\ wall' = wall /\ arrived' = arrived /\ rst' = rst /\ fc' = fc /\ build' = build
      /\ body' = body /\ st' = st /\ hash' = hash /\ params' = params /\ pc' = pc /\ pc = "solve"
      /\ response' = response
  BY DEF Try, clock, request
<1>2. body = "complete" /\ response = NoResponse /\ InForce /\ Chained /\ Workable
  BY <1>1 DEF WInv
<1>3. InForce' /\ Workable'
  BY <1>1, <1>2, SameForce, SameWork
<1>4. response'.status = 0 /\ response'.why \notin {"encode", "nonceCap"}
  BY <1>1, <1>2 DEF NoResponse
<1>5. (ReceiptIsArrival /\ ReasonsAreTrue)'
  BY <1>4, NothingSaid
<1>6. PICK d : d = hash[<<nonce, current>>]
  OBVIOUS
<1>7. ChainOk(hash, params, answers, current, sub, nonce)
  BY <1>2 DEF Chained
<1>8. CASE Clears(d, params)
  <2>1. /\ current' = d /\ answers' = Append(answers, nonce)
        /\ sub' = sub + 1 /\ nonce' = 1
    BY <1>6, <1>8 DEF Try
  <2>2. ChainOk(hash, params, Append(answers, nonce), hash[<<nonce, current>>], sub + 1, 1)
    BY <1>6, <1>7, <1>8, ChainAdvances
  <2>3. Chained'
    BY <1>1, <1>6, <2>1, <2>2 DEF Chained
  <2> QED BY <1>1, <1>2, <1>3, <1>4, <1>5, <2>3 DEF WInv
<1>9. CASE ~Clears(d, params)
  <2>1. nonce' = nonce + 1 /\ current' = current /\ sub' = sub /\ answers' = answers
    BY <1>6, <1>9 DEF Try
  <2>2. ChainOk(hash, params, answers, current, sub, nonce + 1)
    BY <1>6, <1>7, <1>9, ChainTries
  <2>3. Chained'
    BY <1>1, <2>1, <2>2 DEF Chained
  <2> QED BY <1>1, <1>2, <1>3, <1>4, <1>5, <2>3 DEF WInv
<1> QED BY <1>8, <1>9

LEMMA GiveUpStep == WInv /\ GiveUp => WInv'
<1> SUFFICES ASSUME WInv, GiveUp PROVE WInv'
  OBVIOUS
<1>1. /\ wall' = wall /\ arrived' = arrived /\ rst' = rst /\ fc' = fc /\ build' = build
      /\ body' = body /\ st' = st /\ hash' = hash /\ params' = params /\ chain' = chain /\ pc = "solve"
      /\ nonce > MaxNonce /\ nonce' = nonce
  BY DEF GiveUp, clock, request, chain
<1>2. InForce /\ Chained /\ Workable
  BY <1>1 DEF WInv
<1>3. InForce' /\ Chained' /\ Workable'
  BY <1>1, <1>2, SameForce, SameChain, SameWork
<1>4. pc' = "done" /\ response' = Reply(502, "nonceCap")
  BY DEF GiveUp, Respond
<1>5. response'.status = 502 /\ response'.why = "nonceCap"
  BY <1>4 DEF Reply
<1>6. st' > 0 /\ Solvable(Stated)'
  BY <1>1, <1>2, StatedIs, SameStated DEF Workable
<1>7. (ReceiptIsArrival /\ ReasonsAreTrue)'
  BY <1>3, <1>5, <1>6 DEF ReceiptIsArrival, ReasonsAreTrue, InForce
<1> QED BY <1>1, <1>3, <1>4, <1>5, <1>7 DEF WInv

LEMMA FinishStep == WInv /\ Finish => WInv'
<1> SUFFICES ASSUME WInv, Finish PROVE WInv'
  OBVIOUS
<1>1. /\ wall' = wall /\ arrived' = arrived /\ rst' = rst /\ fc' = fc /\ build' = build
      /\ body' = body /\ st' = st /\ hash' = hash /\ params' = params /\ chain' = chain /\ pc = "solve"
      /\ sub = params.sub /\ sub' = sub
  BY DEF Finish, clock, request, chain
<1>2. /\ InForce /\ Chained /\ Workable /\ wall \in Int /\ arrived \in Int
      /\ rst = IF arrived >= 0 THEN arrived ELSE 0
  BY <1>1 DEF WInv
<1>3. InForce' /\ Chained'
  BY <1>1, <1>2, SameForce, SameChain
<1>4. CASE Receipt <= 0
  <2>1. pc' = "done" /\ response' = Reply(502, "encode")
    BY <1>4 DEF Finish, Respond
  <2>2. response'.status = 502 /\ response'.why = "encode"
    BY <2>1 DEF Reply
  <2>3. wall' < 0 \/ (wall' = 0 /\ arrived' <= 0)
    BY <1>1, <1>2, <1>4 DEF Receipt
  <2>4. (ReceiptIsArrival /\ ReasonsAreTrue)'
    BY <1>3, <2>2, <2>3 DEF ReceiptIsArrival, ReasonsAreTrue, InForce
  <2> QED BY <1>1, <1>3, <2>1, <2>2, <2>4 DEF WInv
<1>5. CASE ~(Receipt <= 0)
  <2>1. PICK r : r = Receipt
    OBVIOUS
  <2>2. /\ response' = [status |-> 200, why |-> "none", rst |-> r, d |-> r - st]
        /\ pc' = "done"
    BY <1>5, <2>1 DEF Finish
  <2>3. /\ response'.status = 200 /\ response'.why = "none" /\ response'.rst = r
        /\ response'.d = r - st
    BY <2>2
  <2>4. r > 0 /\ (arrived > 0 => r = arrived)
    BY <1>2, <1>5, <2>1 DEF Receipt
  <2>5. ReceiptIsArrival'
    BY <1>1, <2>3, <2>4 DEF ReceiptIsArrival
  <2>6. ReasonsAreTrue'
    <3>1. st' > 0 /\ Solvable(Stated)'
      BY <1>1, <1>2, StatedIs, SameStated DEF Workable
    <3> QED BY <1>3, <2>3, <3>1 DEF ReasonsAreTrue, InForce
  <2> QED BY <1>1, <1>3, <2>2, <2>3, <2>5, <2>6 DEF WInv
<1> QED BY <1>4, <1>5

LEMMA StepClockStep == WInv /\ StepClock => WInv'
<1> SUFFICES ASSUME WInv, StepClock PROVE WInv'
  OBVIOUS
<1>1. /\ arrived' = arrived /\ rst' = rst /\ fc' = fc /\ build' = build
      /\ body' = body /\ st' = st /\ hash' = hash /\ params' = params /\ chain' = chain /\ pc' = pc
      /\ sub' = sub /\ nonce' = nonce /\ answers' = answers /\ response' = response
      /\ pc # "done"
  BY DEF StepClock, request, chain
<1>2. wall' \in Int
  BY ConstantsAssumption DEF StepClock
<1>3. response' = NoResponse
  BY <1>1 DEF WInv
<1>4. response'.status = 0 /\ response'.why \notin {"encode", "nonceCap"}
  BY <1>3 DEF NoResponse
<1>5. (ReceiptIsArrival /\ ReasonsAreTrue)'
  BY <1>4, NothingSaid
<1>6. pc' \in {"encode", "solve"} => InForce'
  BY <1>1, SameForce DEF WInv
<1>7. pc' = "solve" => Chained' /\ Workable'
  BY <1>1, SameChain, SameWork DEF WInv
<1> QED BY <1>1, <1>2, <1>3, <1>4, <1>5, <1>6, <1>7 DEF WInv

\* Nothing happens to a request that is answered.
LEMMA StillStep == WInv /\ UNCHANGED vars => WInv'
<1> SUFFICES ASSUME WInv, UNCHANGED vars PROVE WInv'
  OBVIOUS
<1>1. /\ wall' = wall /\ arrived' = arrived /\ rst' = rst /\ fc' = fc
      /\ build' = build /\ body' = body /\ st' = st /\ hash' = hash /\ params' = params /\ chain' = chain
      /\ pc' = pc /\ sub' = sub /\ nonce' = nonce /\ answers' = answers
      /\ response' = response
  BY DEF vars, request, clock, chain
<1>2. InForce => InForce'
  BY <1>1, SameForce
<1>3. Chained => Chained'
  BY <1>1, SameChain
<1>4. Workable => Workable'
  BY <1>1, SameWork
<1>5. (ReceiptIsArrival /\ ReasonsAreTrue)'
  BY <1>1, SameReading, SameStated DEF WInv, ReceiptIsArrival, ReasonsAreTrue
<1> QED BY <1>1, <1>2, <1>3, <1>4, <1>5 DEF WInv

LEMMA WStep == WInv /\ [Next]_vars => WInv'
<1> SUFFICES ASSUME WInv, [Next]_vars PROVE WInv'
  OBVIOUS
<1>1. CASE Arrive
  BY <1>1, ArriveStep
<1>2. CASE Validate
  BY <1>2, ValidateStep
<1>3. CASE Resolve
  BY <1>3, ResolveStep
<1>4. CASE UseFc
  BY <1>4, UseFcStep
<1>5. CASE Begin
  BY <1>5, BeginStep
<1>6. CASE Try
  BY <1>6, TryStep
<1>7. CASE GiveUp
  BY <1>7, GiveUpStep
<1>8. CASE Finish
  BY <1>8, FinishStep
<1>9. CASE StepClock
  BY <1>9, StepClockStep
<1>10. CASE Done \/ UNCHANGED vars
  BY <1>10, StillStep DEF Done
<1> QED BY <1>1, <1>2, <1>3, <1>4, <1>5, <1>6, <1>7, <1>8, <1>9, <1>10 DEF Next, Handler

----------------------------------------------------------------------------
(* What a response says *)

\* The parameters a verifier holds the client to are the handler's.
LEMMA SameParameters ==
    ASSUME InForce, NEW p, p = [q \in Parameters |-> Expected(q)]
    PROVE  /\ p.sub = params.sub /\ p.seed = params.seed
           /\ \A d : Clears(d, p) <=> Clears(d, params)
<1>1. /\ p["sub"] = Expected("sub") /\ p["seed"] = Expected("seed")
      /\ p["difficulty"] = Expected("difficulty")
  BY DEF Parameters
<1>2. /\ params.sub = Expected("sub") /\ params.seed = Expected("seed")
      /\ params.difficulty = Expected("difficulty")
  BY DEF InForce
<1>3. p.sub = params.sub /\ p.seed = params.seed /\ p.difficulty = params.difficulty
  BY <1>1, <1>2
<1> QED BY <1>3 DEF Clears

\* The answers verify under the parameters p.
Verifies(p) ==
    /\ Len(answers) = p.sub
    /\ \A n \in 1 .. Len(answers) :
         /\ Clears(Replay(answers, p.seed)[n], p)
         /\ \A m \in 1 .. answers[n] - 1 :
              ~Clears(hash[<<m, Replay(answers, p.seed)[n - 1]>>], p)

LEMMA SuccessVerifies == WInv => AnswersVerify
<1> SUFFICES ASSUME WInv, response.status = 200 PROVE AnswersVerify
  BY DEF AnswersVerify
<1>1. InForce /\ Chained /\ sub = params.sub
  BY DEF WInv
<1>2. PICK p : p = Stated
  OBVIOUS
<1>3. /\ p.sub = params.sub /\ p.seed = params.seed
      /\ \A d : Clears(d, p) <=> Clears(d, params)
  BY <1>1, <1>2, SameParameters DEF Stated
<1>4. PICK f : /\ IsOnlyReplay(hash, f, answers, params.seed)
               /\ \A n \in 1 .. sub :
                    /\ Clears(f[n], params)
                    /\ \A m \in 1 .. answers[n] - 1 : ~Clears(hash[<<m, f[n - 1]>>], params)
  BY <1>1 DEF Chained, ChainOk
<1>5. Len(answers) = sub
  BY <1>1 DEF Chained, ChainOk
<1>6. Replay(answers, p.seed) = f
  BY <1>3, <1>4, ReplayIs
<1>7. \A n \in 1 .. Len(answers) :
        /\ Clears(f[n], p)
        /\ \A m \in 1 .. answers[n] - 1 : ~Clears(hash[<<m, f[n - 1]>>], p)
  BY <1>3, <1>4, <1>5
<1>8. Len(answers) = p.sub
  BY <1>1, <1>3, <1>5
<1>9. Verifies(p)
  BY <1>6, <1>7, <1>8 DEF Verifies
<1>10. Verifies(Stated) => AnswersVerify
  BY DEF Verifies, AnswersVerify
<1> QED BY <1>2, <1>9, <1>10

LEMMA GivingUpIsHonest == WInv => GivesUpHonestly
<1> SUFFICES ASSUME WInv, response.why = "nonceCap" PROVE GivesUpHonestly
  BY DEF GivesUpHonestly
<1>1. Chained /\ nonce > MaxNonce
  BY DEF WInv
<1>2. PICK f : IsOnlyReplay(hash, f, answers, params.seed) /\ f[sub] = current
  BY <1>1 DEF Chained, ChainOk
<1>3. /\ Len(answers) = sub /\ nonce \in Nat
      /\ \A m \in 1 .. nonce - 1 : ~Clears(hash[<<m, current>>], params)
  BY <1>1 DEF Chained, ChainOk
<1>4. \A m \in Nonces : m \in 1 .. nonce - 1
  BY <1>1, <1>3, ConstantsAssumption DEF Nonces
<1>5. Replay(answers, params.seed)[Len(answers)] = current
  BY <1>2, <1>3, ReplayIs
<1> QED BY <1>3, <1>4, <1>5 DEF GivesUpHonestly

\* What the response of worktime() says of the chain of encode() and of the time of
\* receipt is so, whatever SHA-256 is, and however the clock was stepped.
THEOREM AnswersHoldAlways == Spec => []AnswersHold
<1>1. Init => WInv
  BY WStart
<1>2. WInv /\ [Next]_vars => WInv'
  BY WStep
<1>3. WInv => AnswersHold
  <2>1. WInv => ReceiptIsArrival
    BY DEF WInv
  <2> QED BY <2>1, SuccessVerifies DEF AnswersHold
<1> QED BY <1>1, <1>2, <1>3, PTL DEF Spec

\* worktime() gives up only when no nonce up to MAX_NONCE_PER_SUB continues the chain,
\* refuses as unusable just the requests that are, and fails in encode() only for an
\* st, parameters or a clock with which there is nothing to encode.
THEOREM RefusalsHoldAlways == Spec => []RefusalsHold
<1>1. Init => WInv
  BY WStart
<1>2. WInv /\ [Next]_vars => WInv'
  BY WStep
<1>3. WInv => RefusalsHold
  <2>1. WInv => ReasonsAreTrue
    BY DEF WInv
  <2> QED BY <2>1, GivingUpIsHonest DEF RefusalsHold
<1> QED BY <1>1, <1>2, <1>3, PTL DEF Spec
=============================================================================
