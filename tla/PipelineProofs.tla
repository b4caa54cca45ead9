--------------------------- MODULE PipelineProofs ---------------------------
(***************************************************************************)
(* What holds of POST /payload for any number of requests, of threads of   *)
(* the server and of the pool, and of workers of prepare(), and whatever   *)
(* becomes of their steps.                                                 *)
(***************************************************************************)
EXTENDS Pipeline, WellFoundedInduction, TLAPS

----------------------------------------------------------------------------
(* Verdicts *)

\* A set of naturals that is not empty has a least element.
LEMMA LeastNumber ==
    ASSUME NEW T, T \subseteq Nat, T # {}
    PROVE  \E x \in T : \A y \in T : x <= y
<1>1. PICK x \in T : \A y \in T : ~(y < x)
  <2>1. IsWellFoundedOn(OpToRel(<, Nat), Nat)
    BY NatLessThanWellFounded
  <2>2. \E x \in T : \A y \in T : <<y, x>> \notin OpToRel(<, Nat)
    BY <2>1, WFMin, Zenon
  <2> QED BY <2>2, Zenon DEF OpToRel
<1> QED BY <1>1

\* xs[i] is the first of the steps xs that does not end well.
FirstBad(xs, fa, i) ==
    /\ i \in 1 .. Len(xs) /\ fa[xs[i][1]] # "ok"
    /\ \A j \in 1 .. Len(xs) : j < i => fa[xs[j][1]] = "ok"

AllWell(xs, fa) == \A i \in 1 .. Len(xs) : fa[xs[i][1]] = "ok"

\* The answer that step x leads to.
Blames(x, fa) == IF fa[x[1]] = "panic" THEN Dropped ELSE x

LEMMA SomeFirst ==
    ASSUME NEW S, NEW xs \in Seq(S), NEW fa
    PROVE  AllWell(xs, fa) \/ \E i \in Nat : FirstBad(xs, fa, i)
<1>1. PICK T : T = {i \in Nat : i \in 1 .. Len(xs) /\ fa[xs[i][1]] # "ok"}
  OBVIOUS
<1>2. Len(xs) \in Nat /\ T \subseteq Nat
  BY <1>1
<1>3. CASE T = {}
  BY <1>1, <1>2, <1>3 DEF AllWell
<1>4. CASE T # {}
  <2>1. PICK i \in T : \A j \in T : i <= j
    BY <1>2, <1>4, LeastNumber
  <2>2. i \in Nat /\ i \in 1 .. Len(xs) /\ fa[xs[i][1]] # "ok"
    BY <1>1
  <2>3. \A j \in 1 .. Len(xs) : j < i => fa[xs[j][1]] = "ok"
    BY <1>1, <1>2, <2>1, <2>2
  <2> QED BY <2>2, <2>3 DEF FirstBad
<1> QED BY <1>3, <1>4

LEMMA VerdictOk ==
    ASSUME NEW S, NEW xs \in Seq(S), NEW fa, AllWell(xs, fa)
    PROVE  Verdict(xs, fa) = Ok
<1>1. DOMAIN xs = 1 .. Len(xs)
  OBVIOUS
<1>2. PICK bad : bad = {j \in DOMAIN xs : fa[xs[j][1]] # "ok"}
  OBVIOUS
<1>3. PICK i : i = CHOOSE k \in bad : \A j \in bad : k <= j
  OBVIOUS
<1>4. Verdict(xs, fa) = IF bad = {} THEN Ok
                      ELSE IF fa[xs[i][1]] = "panic" THEN Dropped
                      ELSE xs[i]
  BY <1>2, <1>3 DEF Verdict
<1>5. bad = {}
  BY <1>1, <1>2 DEF AllWell
<1> QED BY <1>4, <1>5

LEMMA VerdictBad ==
    ASSUME NEW S, NEW xs \in Seq(S), NEW fa, NEW i, FirstBad(xs, fa, i)
    PROVE  Verdict(xs, fa) = Blames(xs[i], fa)
<1>1. DOMAIN xs = 1 .. Len(xs)
  OBVIOUS
<1>2. PICK bad : bad = {j \in DOMAIN xs : fa[xs[j][1]] # "ok"}
  OBVIOUS
<1>3. i \in bad /\ \A j \in bad : i <= j
  BY <1>1, <1>2 DEF FirstBad
<1>4. \A k \in bad : (\A j \in bad : k <= j) => k = i
  BY <1>1, <1>2, <1>3
<1>5. i = CHOOSE k \in bad : \A j \in bad : k <= j
  BY <1>3, <1>4
<1>6. bad # {}
  BY <1>3
<1>7. Verdict(xs, fa) = IF bad = {} THEN Ok
                      ELSE IF fa[xs[i][1]] = "panic" THEN Dropped
                      ELSE xs[i]
  BY <1>2, <1>5 DEF Verdict
<1> QED BY <1>6, <1>7 DEF Blames

\* None of the steps is called a success.
NoOk(xs) == \A i \in 1 .. Len(xs) : xs[i] # Ok

LEMMA VerdictNotOk ==
    ASSUME NEW S, NEW xs \in Seq(S), NEW fa, NoOk(xs)
    PROVE  Verdict(xs, fa) = Ok <=> AllWell(xs, fa)
<1>1. CASE AllWell(xs, fa)
  BY <1>1, VerdictOk
<1>2. ASSUME NEW i \in Nat, FirstBad(xs, fa, i) PROVE Verdict(xs, fa) # Ok /\ ~AllWell(xs, fa)
  <2>1. xs[i] # Ok /\ Dropped # Ok
    BY <1>2 DEF NoOk, FirstBad, Dropped, Ok
  <2>2. Blames(xs[i], fa) # Ok
    BY <2>1 DEF Blames
  <2>3. ~AllWell(xs, fa)
    BY <1>2 DEF AllWell, FirstBad
  <2> QED BY <1>2, <2>2, <2>3, VerdictBad
<1> QED BY <1>1, <1>2, SomeFirst

\* Steps that have the same fates have the same verdict.
LEMMA VerdictSame ==
    ASSUME NEW S, NEW xs \in Seq(S), NEW fa, NEW ga,
           \A i \in 1 .. Len(xs) : fa[xs[i][1]] = ga[xs[i][1]]
    PROVE  Verdict(xs, fa) = Verdict(xs, ga)
<1>1. CASE AllWell(xs, fa)
  <2>1. AllWell(xs, ga)
    BY <1>1 DEF AllWell
  <2> QED BY <1>1, <2>1, VerdictOk
<1>2. ASSUME NEW i \in Nat, FirstBad(xs, fa, i) PROVE Verdict(xs, fa) = Verdict(xs, ga)
  <2>1. FirstBad(xs, ga, i)
    BY <1>2 DEF FirstBad
  <2>2. Blames(xs[i], fa) = Blames(xs[i], ga)
    BY <1>2 DEF Blames, FirstBad
  <2> QED BY <1>2, <2>1, <2>2, VerdictBad
<1> QED BY <1>1, <1>2, SomeFirst

\* zs is xs and then ys.
Joined(S, zs, xs, ys) ==
    /\ xs \in Seq(S) /\ ys \in Seq(S) /\ zs \in Seq(S)
    /\ Len(zs) = Len(xs) + Len(ys)
    /\ \A i \in 1 .. Len(xs) : zs[i] = xs[i]
    /\ \A i \in 1 .. Len(ys) : zs[Len(xs) + i] = ys[i]

LEMMA Concat ==
    ASSUME NEW S, NEW xs \in Seq(S), NEW ys \in Seq(S)
    PROVE  Joined(S, xs \o ys, xs, ys)
<1>1. xs \o ys \in Seq(S) /\ Len(xs \o ys) = Len(xs) + Len(ys)
  OBVIOUS
<1>2. \A i \in 1 .. Len(xs) : (xs \o ys)[i] = xs[i]
  OBVIOUS
<1>3. \A i \in 1 .. Len(ys) : (xs \o ys)[Len(xs) + i] = ys[i]
  OBVIOUS
<1> QED BY <1>1, <1>2, <1>3 DEF Joined

\* The verdict of two lists of steps is that of the first, or else of the second.
Else(v, w) == IF v # Ok THEN v ELSE w

LEMMA VerdictJoined ==
    ASSUME NEW S, NEW xs, NEW ys, NEW zs, Joined(S, zs, xs, ys), NoOk(xs), NEW fa
    PROVE  Verdict(zs, fa) = Else(Verdict(xs, fa), Verdict(ys, fa))
<1>1. /\ xs \in Seq(S) /\ ys \in Seq(S) /\ zs \in Seq(S)
      /\ Len(xs) \in Nat /\ Len(ys) \in Nat /\ Len(zs) = Len(xs) + Len(ys)
      /\ \A i \in 1 .. Len(xs) : zs[i] = xs[i]
      /\ \A i \in 1 .. Len(ys) : zs[Len(xs) + i] = ys[i]
  BY DEF Joined
<1>2. PICK L \in Nat : L = Len(xs)
  BY <1>1
<1>3. PICK M \in Nat : M = Len(ys)
  BY <1>1
<1>4. ASSUME NEW i \in Nat, FirstBad(xs, fa, i)
      PROVE  Verdict(zs, fa) = Else(Verdict(xs, fa), Verdict(ys, fa))
  <2>1. i \in 1 .. L /\ fa[xs[i][1]] # "ok" /\ \A j \in 1 .. L : j < i => fa[xs[j][1]] = "ok"
    BY <1>2, <1>4 DEF FirstBad
  <2>2. \A j \in 1 .. L + M : j < i => j \in 1 .. L
    BY <2>1
  <2>3. i \in 1 .. L + M /\ zs[i] = xs[i] /\ \A j \in 1 .. L : zs[j] = xs[j]
    BY <1>1, <1>2, <2>1
  <2>4. \A j \in 1 .. L + M : j < i => fa[zs[j][1]] = "ok"
    BY <2>1, <2>2, <2>3
  <2>5. FirstBad(zs, fa, i)
    BY <1>1, <1>2, <1>3, <2>1, <2>3, <2>4 DEF FirstBad
  <2>6. Verdict(zs, fa) = Verdict(xs, fa)
    BY <1>1, <1>4, <2>3, <2>5, VerdictBad
  <2>7. Verdict(xs, fa) # Ok
    BY <1>1, <2>1, <1>2, VerdictNotOk DEF AllWell
  <2> QED BY <2>6, <2>7 DEF Else
<1>5. ASSUME AllWell(xs, fa), NEW i \in Nat, FirstBad(ys, fa, i)
      PROVE  Verdict(zs, fa) = Else(Verdict(xs, fa), Verdict(ys, fa))
  <2>1. i \in 1 .. M /\ fa[ys[i][1]] # "ok" /\ \A j \in 1 .. M : j < i => fa[ys[j][1]] = "ok"
    BY <1>3, <1>5 DEF FirstBad
  <2>2. L + i \in 1 .. L + M /\ zs[L + i] = ys[i]
    BY <1>1, <1>2, <1>3, <2>1
  <2>3. ASSUME NEW j \in 1 .. L + M, j < L + i PROVE fa[zs[j][1]] = "ok"
    <3>1. CASE j \in 1 .. L
      <4>1. zs[j] = xs[j]
        BY <1>1, <1>2, <3>1
      <4> QED BY <1>2, <1>5, <3>1, <4>1 DEF AllWell
    <3>2. CASE j \notin 1 .. L
      <4>1. PICK k \in 1 .. M : j = L + k /\ k < i
        <5>1. j - L \in 1 .. M /\ j = L + (j - L) /\ j - L < i
          BY <2>1, <2>3, <3>2
        <5> QED BY <5>1
      <4>2. zs[j] = ys[k]
        BY <1>1, <1>2, <1>3, <4>1
      <4> QED BY <2>1, <4>1, <4>2
    <3> QED BY <3>1, <3>2
  <2>4. FirstBad(zs, fa, L + i)
    BY <1>1, <1>2, <1>3, <2>1, <2>2, <2>3 DEF FirstBad
  <2>5. Verdict(zs, fa) = Blames(ys[i], fa)
    BY <1>1, <2>2, <2>4, VerdictBad
  <2>6. Verdict(xs, fa) = Ok /\ Verdict(ys, fa) = Blames(ys[i], fa)
    BY <1>1, <1>5, VerdictOk, VerdictBad
  <2> QED BY <2>5, <2>6 DEF Else
<1>6. ASSUME AllWell(xs, fa), AllWell(ys, fa)
      PROVE  Verdict(zs, fa) = Else(Verdict(xs, fa), Verdict(ys, fa))
  <2>1. ASSUME NEW j \in 1 .. L + M PROVE fa[zs[j][1]] = "ok"
    <3>1. CASE j \in 1 .. L
      <4>1. zs[j] = xs[j]
        BY <1>1, <1>2, <3>1
      <4> QED BY <1>2, <1>6, <3>1, <4>1 DEF AllWell
    <3>2. CASE j \notin 1 .. L
      <4>1. PICK k \in 1 .. M : j = L + k
        <5>1. j - L \in 1 .. M /\ j = L + (j - L)
          BY <3>2
        <5> QED BY <5>1
      <4>2. zs[j] = ys[k]
        BY <1>1, <1>2, <1>3, <4>1
      <4> QED BY <1>3, <1>6, <4>1, <4>2 DEF AllWell
    <3> QED BY <3>1, <3>2
  <2>2. AllWell(zs, fa)
    BY <1>1, <1>2, <1>3, <2>1 DEF AllWell
  <2>3. Verdict(xs, fa) = Ok /\ Verdict(ys, fa) = Ok /\ Verdict(zs, fa) = Ok
    BY <1>1, <1>6, <2>2, VerdictOk
  <2> QED BY <2>3 DEF Else
<1> QED BY <1>1, <1>4, <1>5, <1>6, SomeFirst

----------------------------------------------------------------------------
(* The steps of a request *)

Step ==
    {Checks[i] : i \in 1 .. 15} \cup {Stages[i] : i \in 1 .. 11} \cup {Scope[i] : i \in 1 .. 4}
      \cup {Signing[i] : i \in 1 .. 3} \cup {Sealing[i] : i \in 1 .. 3}
ScopeSteps == {"drive", "compute", "prepare", "keys"}

\* Steps of which none is called a success, and none is in the scope.
Plain(xs) ==
    /\ xs \in Seq(Step) /\ NoOk(xs)
    /\ \A i \in 1 .. Len(xs) : xs[i][1] \notin ScopeSteps

LEMMA StepsAreSteps ==
    /\ \A i \in 1 .. 15 : Checks[i] \in Step
    /\ \A i \in 1 .. 11 : Stages[i] \in Step
    /\ \A i \in 1 .. 4 : Scope[i] \in Step
    /\ \A i \in 1 .. 3 : Signing[i] \in Step /\ Sealing[i] \in Step
BY DEF Step

LEMMA PlainSteps == Plain(Checks) /\ Plain(Stages) /\ Plain(Signing) /\ Plain(Sealing)
<1>1. Plain(Checks)
  <2>1. Checks \in Seq(Step) /\ Len(Checks) = 15
    BY StepsAreSteps DEF Checks
  <2>2. \A i \in 1 .. 15 : Checks[i] # Ok /\ Checks[i][1] \notin ScopeSteps
    BY DEF Checks, Ok, ScopeSteps
  <2> QED BY <2>1, <2>2 DEF Plain, NoOk
<1>2. Plain(Stages)
  <2>1. Stages \in Seq(Step) /\ Len(Stages) = 11
    BY StepsAreSteps DEF Stages
  <2>2. \A i \in 1 .. 11 : Stages[i] # Ok /\ Stages[i][1] \notin ScopeSteps
    BY DEF Stages, Ok, ScopeSteps
  <2> QED BY <2>1, <2>2 DEF Plain, NoOk
<1>3. Plain(Signing)
  <2>1. Signing \in Seq(Step) /\ Len(Signing) = 3
    BY StepsAreSteps DEF Signing
  <2>2. \A i \in 1 .. 3 : Signing[i] # Ok /\ Signing[i][1] \notin ScopeSteps
    BY DEF Signing, Ok, ScopeSteps
  <2> QED BY <2>1, <2>2 DEF Plain, NoOk
<1>4. Plain(Sealing)
  <2>1. Sealing \in Seq(Step) /\ Len(Sealing) = 3
    BY StepsAreSteps DEF Sealing
  <2>2. \A i \in 1 .. 3 : Sealing[i] # Ok /\ Sealing[i][1] \notin ScopeSteps
    BY DEF Sealing, Ok, ScopeSteps
  <2> QED BY <2>1, <2>2 DEF Plain, NoOk
<1> QED BY <1>1, <1>2, <1>3, <1>4

LEMMA ScopeIs ==
    /\ Scope \in Seq(Step) /\ Len(Scope) = 4 /\ NoOk(Scope)
    /\ Scope[1] = <<"drive", 422>> /\ Scope[2] = <<"compute", 422>>
    /\ Scope[3] = <<"prepare", 422>> /\ Scope[4] = <<"keys", 422>>
    /\ \A i \in 1 .. 4 : Scope[i][1] \in ScopeSteps
<1>1. Scope \in Seq(Step) /\ Len(Scope) = 4
  BY StepsAreSteps DEF Scope
<1>2. /\ Scope[1] = <<"drive", 422>> /\ Scope[2] = <<"compute", 422>>
      /\ Scope[3] = <<"prepare", 422>> /\ Scope[4] = <<"keys", 422>>
  BY DEF Scope
<1>3. \A i \in 1 .. 4 : Scope[i] # Ok /\ Scope[i][1] \in ScopeSteps
  BY <1>2 DEF Ok, ScopeSteps
<1> QED BY <1>1, <1>2, <1>3 DEF NoOk

Known(xs, names) == \A i \in 1 .. Len(xs) : xs[i][1] \in names

\* What holds of the steps of a list, and of two that are joined.
LEMMA JoinedSteps ==
    ASSUME NEW S, NEW xs, NEW ys, NEW zs, Joined(S, zs, xs, ys)
    PROVE  /\ NoOk(xs) /\ NoOk(ys) => NoOk(zs)
           /\ \A names : Known(zs, names) => Known(xs, names) /\ Known(ys, names)
<1>1. /\ Len(xs) \in Nat /\ Len(ys) \in Nat /\ Len(zs) = Len(xs) + Len(ys)
      /\ \A i \in 1 .. Len(xs) : zs[i] = xs[i]
      /\ \A i \in 1 .. Len(ys) : zs[Len(xs) + i] = ys[i]
  BY DEF Joined
<1>2. PICK L \in Nat : L = Len(xs)
  BY <1>1
<1>3. PICK M \in Nat : M = Len(ys)
  BY <1>1
<1>4. ASSUME NoOk(xs), NoOk(ys) PROVE NoOk(zs)
  <2>1. ASSUME NEW j \in 1 .. L + M PROVE zs[j] # Ok
    <3>1. CASE j \in 1 .. L
      BY <1>1, <1>2, <1>4, <3>1 DEF NoOk
    <3>2. CASE j \notin 1 .. L
      <4>1. PICK k \in 1 .. M : j = L + k
        <5>1. j - L \in 1 .. M /\ j = L + (j - L)
          BY <3>2
        <5> QED BY <5>1
      <4> QED BY <1>1, <1>2, <1>3, <1>4, <4>1 DEF NoOk
    <3> QED BY <3>1, <3>2
  <2> QED BY <1>1, <1>2, <1>3, <2>1 DEF NoOk
<1>5. ASSUME NEW names, Known(zs, names) PROVE Known(xs, names) /\ Known(ys, names)
  <2>1. \A i \in 1 .. L : i \in 1 .. L + M
    OBVIOUS
  <2>2. \A i \in 1 .. M : L + i \in 1 .. L + M
    OBVIOUS
  <2>3. \A i \in 1 .. L + M : zs[i][1] \in names
    BY <1>1, <1>2, <1>3, <1>5 DEF Known
  <2>4. \A i \in 1 .. L : xs[i][1] \in names
    BY <1>1, <1>2, <2>1, <2>3
  <2>5. \A i \in 1 .. M : ys[i][1] \in names
    BY <1>1, <1>2, <1>3, <2>2, <2>3
  <2> QED BY <1>2, <1>3, <2>4, <2>5 DEF Known
<1> QED BY <1>4, <1>5

\* What is wrong first in the order of the text.
LEMMA SequentialIs ==
    ASSUME NEW f
    PROVE  Sequential(f) =
             Else(Verdict(Checks, f),
               Else(Verdict(Stages, f),
                 Else(Verdict(Scope, ScopeFate(f)),
                   Else(Verdict(Signing, f), Verdict(Sealing, f)))))
<1>1. PICK names : names = {AllSteps[i][1] : i \in DOMAIN AllSteps}
  OBVIOUS
<1>2. PICK sf : sf = ScopeFate(f)
  OBVIOUS
<1>3. PICK g : g = [step \in names |-> IF step \in ScopeSteps THEN sf[step] ELSE f[step]]
  OBVIOUS
<1>4. Sequential(f) = Verdict(AllSteps, g)
  <2>1. DOMAIN ScopeFate(f) = ScopeSteps
    BY DEF ScopeFate, ScopeSteps
  <2> QED BY <1>1, <1>2, <1>3, <2>1 DEF Sequential
<1>5. PICK a : a = Checks \o Stages
  OBVIOUS
<1>6. PICK b : b = a \o Scope
  OBVIOUS
<1>7. PICK c : c = b \o Signing
  OBVIOUS
<1>8. AllSteps = c \o Sealing
  BY <1>5, <1>6, <1>7 DEF AllSteps
<1>9. Joined(Step, a, Checks, Stages)
  BY <1>5, PlainSteps, Concat DEF Plain
<1>10. Joined(Step, b, a, Scope)
  <2>1. a \in Seq(Step)
    BY <1>9 DEF Joined
  <2>2. Scope \in Seq(Step)
    BY ScopeIs
  <2> QED BY <1>6, <2>1, <2>2, Concat
<1>11. Joined(Step, c, b, Signing)
  <2>1. b \in Seq(Step)
    BY <1>10 DEF Joined
  <2>2. Signing \in Seq(Step)
    BY PlainSteps DEF Plain
  <2> QED BY <1>7, <2>1, <2>2, Concat
<1>12. Joined(Step, AllSteps, c, Sealing)
  <2>1. c \in Seq(Step)
    BY <1>11 DEF Joined
  <2>2. Sealing \in Seq(Step)
    BY PlainSteps DEF Plain
  <2> QED BY <1>8, <2>1, <2>2, Concat
<1>13. NoOk(Checks) /\ NoOk(Stages) /\ NoOk(Scope) /\ NoOk(Signing)
  BY PlainSteps, ScopeIs DEF Plain
<1>14. NoOk(a) /\ NoOk(b) /\ NoOk(c)
  BY <1>9, <1>10, <1>11, <1>13, JoinedSteps
<1>15. Known(AllSteps, names)
  <2>1. DOMAIN AllSteps = 1 .. Len(AllSteps)
    BY <1>12 DEF Joined
  <2> QED BY <1>1, <2>1 DEF Known
<1>16. /\ Known(Checks, names) /\ Known(Stages, names) /\ Known(Scope, names)
       /\ Known(Signing, names) /\ Known(Sealing, names)
  <2>1. Known(c, names) /\ Known(Sealing, names)
    BY <1>12, <1>15, JoinedSteps
  <2>2. Known(b, names) /\ Known(Signing, names)
    BY <1>11, <2>1, JoinedSteps
  <2>3. Known(a, names) /\ Known(Scope, names)
    BY <1>10, <2>2, JoinedSteps
  <2> QED BY <1>9, <2>1, <2>2, <2>3, JoinedSteps
<1>17. ASSUME NEW xs, Plain(xs), Known(xs, names) PROVE Verdict(xs, g) = Verdict(xs, f)
  <2>1. xs \in Seq(Step) /\ \A i \in 1 .. Len(xs) : g[xs[i][1]] = f[xs[i][1]]
    BY <1>3, <1>17 DEF Plain, Known
  <2> QED BY <2>1, VerdictSame
<1>18. Verdict(Scope, g) = Verdict(Scope, sf)
  <2>1. \A i \in 1 .. Len(Scope) : g[Scope[i][1]] = sf[Scope[i][1]]
    BY <1>3, <1>16, ScopeIs DEF Known
  <2> QED BY <2>1, ScopeIs, VerdictSame
<1>19. /\ Verdict(Checks, g) = Verdict(Checks, f) /\ Verdict(Stages, g) = Verdict(Stages, f)
       /\ Verdict(Signing, g) = Verdict(Signing, f) /\ Verdict(Sealing, g) = Verdict(Sealing, f)
  BY <1>16, <1>17, PlainSteps
<1>20. Verdict(AllSteps, g) = Else(Verdict(c, g), Verdict(Sealing, g))
  BY <1>12, <1>14, VerdictJoined
<1>21. Verdict(c, g) = Else(Verdict(b, g), Verdict(Signing, g))
  BY <1>11, <1>14, VerdictJoined
<1>22. Verdict(b, g) = Else(Verdict(a, g), Verdict(Scope, g))
  BY <1>10, <1>14, VerdictJoined
<1>23. Verdict(a, g) = Else(Verdict(Checks, g), Verdict(Stages, g))
  BY <1>9, <1>13, VerdictJoined
<1> QED BY <1>2, <1>4, <1>18, <1>19, <1>20, <1>21, <1>22, <1>23 DEF Else

\* What a request comes to, by the way its thread takes.
Outcome(f) ==
    Else(Verdict(Checks, f), Else(Verdict(Stages, f), Else(ComeTo(f), Verdict(Sealing, f))))

\* No step outside the scope is called as its first job.
LEMMA PlainName ==
    ASSUME NEW xs, Plain(xs), NEW f
    PROVE  Verdict(xs, f)[1] # "drive"
<1>1. xs \in Seq(Step)
  BY DEF Plain
<1>2. CASE AllWell(xs, f)
  <2>1. Verdict(xs, f) = Ok
    BY <1>1, <1>2, VerdictOk
  <2> QED BY <2>1 DEF Ok
<1>3. ASSUME NEW i \in Nat, FirstBad(xs, f, i) PROVE Verdict(xs, f)[1] # "drive"
  <2>1. Verdict(xs, f) = Blames(xs[i], f)
    BY <1>1, <1>3, VerdictBad
  <2>2. xs[i][1] # "drive"
    BY <1>3 DEF Plain, FirstBad, ScopeSteps
  <2>3. Dropped[1] # "drive"
    BY DEF Dropped
  <2> QED BY <2>1, <2>2, <2>3 DEF Blames
<1> QED BY <1>1, <1>2, <1>3, SomeFirst

\* When compute() panics, its job has failed before it, or else it is the first.
LEMMA PanicOfCompute ==
    ASSUME NEW f, f["compute"] = "panic"
    PROVE  \/ Verdict(Scope, ScopeFate(f)) = <<"drive", 422>>
           \/ Verdict(Scope, ScopeFate(f)) = Dropped
<1>1. PICK sf : sf = ScopeFate(f)
  OBVIOUS
<1>2. sf["compute"] = "panic"
  BY <1>1 DEF ScopeFate
<1>3. sf["drive"] = "ok" \/ sf["drive"] = "fail"
  BY <1>1 DEF ScopeFate, Caught
<1>4. CASE sf["drive"] = "ok"
  <2>1. FirstBad(Scope, sf, 2)
    <3>1. sf[Scope[2][1]] # "ok" /\ sf[Scope[1][1]] = "ok"
      BY <1>2, <1>4, ScopeIs
    <3>2. \A j \in 1 .. 4 : j < 2 => j = 1
      OBVIOUS
    <3> QED BY <3>1, <3>2, ScopeIs DEF FirstBad
  <2>2. Blames(Scope[2], sf) = Dropped
    BY <1>2, ScopeIs DEF Blames
  <2>3. Verdict(Scope, sf) = Blames(Scope[2], sf)
    <3>1. Scope \in Seq(Step)
      BY ScopeIs
    <3> QED BY <2>1, <3>1, VerdictBad
  <2> QED BY <1>1, <2>2, <2>3
<1>5. CASE sf["drive"] = "fail"
  <2>1. FirstBad(Scope, sf, 1)
    <3>1. sf[Scope[1][1]] # "ok"
      BY <1>5, ScopeIs
    <3> QED BY <3>1, ScopeIs DEF FirstBad
  <2>2. Blames(Scope[1], sf) = <<"drive", 422>>
    BY <1>5, ScopeIs DEF Blames
  <2>3. Verdict(Scope, sf) = Blames(Scope[1], sf)
    <3>1. Scope \in Seq(Step)
      BY ScopeIs
    <3> QED BY <2>1, <3>1, VerdictBad
  <2> QED BY <1>1, <2>2, <2>3
<1> QED BY <1>3, <1>4, <1>5

LEMMA OutcomeIsTold ==
    ASSUME NEW f
    PROVE  Outcome(f) = IF f["compute"] = "panic" /\ Sequential(f)[1] = "drive"
                          THEN Dropped ELSE Sequential(f)
<1>1. PICK c, st1, sc, si, se : /\ c = Verdict(Checks, f) /\ st1 = Verdict(Stages, f)
                                /\ sc = Verdict(Scope, ScopeFate(f))
                                /\ si = Verdict(Signing, f) /\ se = Verdict(Sealing, f)
  OBVIOUS
<1>2. Sequential(f) = Else(c, Else(st1, Else(sc, Else(si, se))))
  BY <1>1, SequentialIs
<1>3. Outcome(f) = Else(c, Else(st1, Else(ComeTo(f), se)))
  BY <1>1 DEF Outcome
<1>4. CASE f["compute"] # "panic"
  <2>1. ComeTo(f) = Else(sc, si)
    BY <1>1, <1>4 DEF ComeTo, Else
  <2> QED BY <1>2, <1>3, <1>4, <2>1 DEF Else
<1>5. CASE f["compute"] = "panic"
  <2>1. ComeTo(f) = Dropped /\ Dropped # Ok /\ Dropped[1] # "drive"
    BY <1>5 DEF ComeTo, Dropped, Ok
  <2>2. c[1] # "drive" /\ st1[1] # "drive"
    BY <1>1, PlainSteps, PlainName
  <2>3. sc = <<"drive", 422>> \/ sc = Dropped
    BY <1>1, <1>5, PanicOfCompute
  <2>4. sc # Ok /\ (sc[1] = "drive" \/ sc = Dropped)
    BY <2>1, <2>3 DEF Ok
  <2> QED BY <1>2, <1>3, <1>5, <2>1, <2>2, <2>4 DEF Else
<1> QED BY <1>4, <1>5

----------------------------------------------------------------------------
(* Answers *)

Live(q) == place[q] \in {"checking", "staging", "scope", "closing", "sealing"}
InArena(q) == place[q] \in {"staging", "scope", "closing"}

\* A thread of the server has one request at a time, and its arena is borrowed by
\* that one only.
Owned ==
    /\ \A q \in Requests : Live(q) => server[q] \in Servers
    /\ \A q, r \in Requests : Live(q) /\ Live(r) /\ server[q] = server[r] => q = r
    /\ \A s \in Servers : arena[s] = TRUE => \E q \in Requests : InArena(q) /\ server[q] = s

\* What a request has come through, where it is.
Passed(q) ==
    /\ place[q] # "done" => answer[q] = None
    /\ place[q] \in {"staging", "scope", "closing", "sealing"} => Verdict(Checks, fate[q]) = Ok
    /\ place[q] \in {"scope", "closing", "sealing"} => Verdict(Stages, fate[q]) = Ok
    /\ place[q] = "sealing" => ComeTo(fate[q]) = Ok
    /\ place[q] = "done" => answer[q] = Outcome(fate[q])

Tables ==
    /\ DOMAIN place = Requests /\ place = [q \in Requests |-> place[q]]
    /\ server = [q \in Requests |-> server[q]]
    /\ arena \in [Servers -> BOOLEAN]
    /\ answer = [q \in Requests |-> answer[q]]

AnswerInv == Tables /\ Owned /\ \A q \in Requests : Passed(q)

\* A step of q's thread, or one that accepts it: what it changes, and what not.
Moves(q, to, a) ==
    /\ place' = [place EXCEPT ![q] = to]
    /\ answer' = [answer EXCEPT ![q] = a]
    /\ fate' = fate

LEMMA MovesAlone ==
    ASSUME Tables, NEW q \in Requests, NEW to, NEW a, Moves(q, to, a)
    PROVE  /\ place'[q] = to /\ answer'[q] = a
           /\ \A r \in Requests : r # q => place'[r] = place[r] /\ answer'[r] = answer[r]
           /\ DOMAIN place' = Requests /\ place' = [r \in Requests |-> place'[r]]
           /\ answer' = [r \in Requests |-> answer'[r]]
<1>1. place = [r \in Requests |-> place[r]] /\ answer = [r \in Requests |-> answer[r]]
  BY DEF Tables
<1>2. place' = [place EXCEPT ![q] = to] /\ answer' = [answer EXCEPT ![q] = a]
  BY DEF Moves
<1> QED BY <1>1, <1>2

\* The others have come through what they had.
LEMMA OthersPassed ==
    ASSUME AnswerInv, NEW q \in Requests, NEW to, NEW a, Moves(q, to, a), Passed(q)'
    PROVE  \A r \in Requests : Passed(r)'
<1>1. ASSUME NEW r \in Requests, r # q PROVE Passed(r)'
  <2>1. place'[r] = place[r] /\ answer'[r] = answer[r] /\ fate' = fate
    BY <1>1, MovesAlone DEF AnswerInv, Moves
  <2>2. Passed(r)
    BY DEF AnswerInv
  <2> QED BY <2>1, <2>2 DEF Passed
<1> QED BY <1>1

\* The threads' part: q goes on or ends, the arena stays, is borrowed or released.
LEMMA Goes ==
    ASSUME AnswerInv, NEW q \in Requests, NEW to, NEW a, Moves(q, to, a), server' = server,
           Live(q), to \in {"checking", "staging", "scope", "closing", "sealing", "done"},
           \/ arena' = arena /\ (InArena(q) => to \in {"staging", "scope", "closing"})
           \/ arena' = [arena EXCEPT ![server[q]] = FALSE]
           \/ arena' = [arena EXCEPT ![server[q]] = TRUE] /\ to = "staging"
    PROVE  (Tables /\ Owned)'
<1>1. /\ place'[q] = to
      /\ \A r \in Requests : r # q => place'[r] = place[r]
      /\ DOMAIN place' = Requests /\ place' = [r \in Requests |-> place'[r]]
      /\ answer' = [r \in Requests |-> answer'[r]]
  BY MovesAlone DEF AnswerInv
<1>2. Owned /\ arena \in [Servers -> BOOLEAN] /\ server = [r \in Requests |-> server[r]]
  BY DEF AnswerInv, Tables
<1>3. server[q] \in Servers
  BY <1>2 DEF Owned
<1>4. arena' \in [Servers -> BOOLEAN]
  BY <1>2, <1>3
<1>5. Tables'
  BY <1>1, <1>2, <1>4 DEF Tables
<1>6. \A r \in Requests : Live(r)' => Live(r)
  BY <1>1 DEF Live
<1>7. \A r \in Requests : r # q => (InArena(r)' <=> InArena(r))
  BY <1>1 DEF InArena
<1>8. /\ \A r \in Requests : Live(r)' => server'[r] \in Servers
      /\ \A p, r \in Requests : Live(p)' /\ Live(r)' /\ server'[p] = server'[r] => p = r
  BY <1>2, <1>6 DEF Owned
<1>9. ASSUME NEW s \in Servers, arena'[s] = TRUE
      PROVE  \E r \in Requests : InArena(r)' /\ server'[r] = s
  <2>1. CASE s # server[q]
    <3>1. arena[s] = TRUE
      BY <1>2, <1>3, <1>9, <2>1
    <3>2. PICK r \in Requests : InArena(r) /\ server[r] = s
      BY <1>2, <3>1 DEF Owned
    <3> QED BY <1>7, <2>1, <3>2
  <2>2. CASE s = server[q]
    <3>1. CASE arena' = arena /\ (InArena(q) => to \in {"staging", "scope", "closing"})
      <4>1. PICK r \in Requests : InArena(r) /\ server[r] = s
        BY <1>2, <1>9, <3>1 DEF Owned
      <4>2. Live(r)
        BY <4>1 DEF InArena, Live
      <4>3. r = q
        BY <1>2, <2>2, <4>1, <4>2 DEF Owned
      <4> QED BY <1>1, <3>1, <4>1, <4>3 DEF InArena
    <3>2. CASE arena' = [arena EXCEPT ![server[q]] = FALSE]
      BY <1>2, <1>3, <1>9, <2>2, <3>2
    <3>3. CASE arena' = [arena EXCEPT ![server[q]] = TRUE] /\ to = "staging"
      BY <1>1, <2>2, <3>3 DEF InArena
    <3> QED BY <3>1, <3>2, <3>3
  <2> QED BY <2>1, <2>2
<1> QED BY <1>5, <1>8, <1>9 DEF Owned

\* A request is accepted by a thread that has none.
LEMMA AcceptAnswers == ASSUME AnswerInv, NEW q \in Requests, Accept(q) PROVE AnswerInv'
<1>1. PICK s \in Servers : /\ \A r \in Requests : server[r] = s => place[r] = "done"
                           /\ server' = [server EXCEPT ![q] = s]
  BY DEF Accept
<1>2. /\ place[q] = "queued" /\ place' = [place EXCEPT ![q] = "checking"]
      /\ fate' = fate /\ arena' = arena /\ answer' = answer
  BY DEF Accept
<1>3. Tables /\ Owned /\ \A r \in Requests : Passed(r)
  BY DEF AnswerInv
<1>4. /\ place'[q] = "checking" /\ \A r \in Requests : r # q => place'[r] = place[r]
      /\ DOMAIN place' = Requests /\ place' = [r \in Requests |-> place'[r]]
  BY <1>2, <1>3 DEF Tables
<1>5. /\ server'[q] = s /\ \A r \in Requests : r # q => server'[r] = server[r]
      /\ server' = [r \in Requests |-> server'[r]]
  BY <1>1, <1>3 DEF Tables
<1>6. Tables'
  BY <1>2, <1>3, <1>4, <1>5 DEF Tables
<1>7. \A r \in Requests : r # q => (Live(r)' <=> Live(r)) /\ (InArena(r)' <=> InArena(r))
  BY <1>4 DEF Live, InArena
<1>8. \A r \in Requests : Live(r) => server[r] # s
  BY <1>1 DEF Live
<1>9. \A r \in Requests : Live(r)' => server'[r] \in Servers
  BY <1>3, <1>5, <1>7 DEF Owned
<1>10. \A p, r \in Requests : Live(p)' /\ Live(r)' /\ server'[p] = server'[r] => p = r
  BY <1>3, <1>5, <1>7, <1>8 DEF Owned
<1>11. ASSUME NEW u \in Servers, arena'[u] = TRUE
       PROVE  \E r \in Requests : InArena(r)' /\ server'[r] = u
  <2>1. PICK r \in Requests : InArena(r) /\ server[r] = u
    BY <1>2, <1>3, <1>11 DEF Owned
  <2>2. r # q
    BY <1>2, <2>1 DEF InArena
  <2> QED BY <1>5, <1>7, <2>1, <2>2
<1>12. Owned'
  BY <1>9, <1>10, <1>11 DEF Owned
<1>13. ASSUME NEW r \in Requests PROVE Passed(r)'
  BY <1>2, <1>3, <1>4 DEF Passed
<1> QED BY <1>6, <1>12, <1>13 DEF AnswerInv

\* solve() up to the pipeline: the arena of a thread is never borrowed when it
\* begins a request.
LEMMA CheckAnswers == ASSUME AnswerInv, NEW q \in Requests, Check(q) PROVE AnswerInv'
<1>1. place[q] = "checking" /\ fate' = fate /\ server' = server
  BY DEF Check
<1>2. Tables /\ Owned /\ Passed(q) /\ Live(q)
  BY <1>1 DEF AnswerInv, Live
<1>3. ~arena[server[q]]
  <2>1. server[q] \in Servers
    BY <1>2 DEF Owned
  <2>2. arena[server[q]] # TRUE
    <3>1. SUFFICES ASSUME arena[server[q]] = TRUE PROVE FALSE
      OBVIOUS
    <3>2. PICK r \in Requests : InArena(r) /\ server[r] = server[q]
      BY <1>2, <2>1, <3>1 DEF Owned
    <3>3. Live(r)
      BY <3>2 DEF InArena, Live
    <3>4. r = q
      BY <1>2, <3>2, <3>3 DEF Owned
    <3> QED BY <1>1, <3>2, <3>4 DEF InArena
  <2>3. arena[server[q]] \in BOOLEAN
    BY <1>2, <2>1 DEF Tables
  <2> QED BY <2>2, <2>3
<1>4. answer = [answer EXCEPT ![q] = answer[q]] /\ answer[q] = None
  BY <1>1, <1>2 DEF Tables, Passed
<1>5. PICK v : v = Verdict(Checks, fate[q])
  OBVIOUS
<1>6. CASE v # Ok
  <2>1. Moves(q, "done", v) /\ arena' = arena
    BY <1>1, <1>5, <1>6 DEF Check, Answer, Moves
  <2>2. (Tables /\ Owned)'
    BY <1>1, <1>2, <2>1, Goes DEF InArena
  <2>3. place'[q] = "done" /\ answer'[q] = v
    BY <1>2, <2>1, MovesAlone
  <2>4. v = Outcome(fate[q])
    BY <1>5, <1>6 DEF Outcome, Else
  <2>5. Passed(q)'
    BY <1>1, <2>3, <2>4 DEF Passed
  <2> QED BY <2>1, <2>2, <2>5, OthersPassed DEF AnswerInv
<1>7. CASE v = Ok
  <2>1. arena' = [arena EXCEPT ![server[q]] = TRUE]
        /\ place' = [place EXCEPT ![q] = "staging"] /\ answer' = answer
    BY <1>3, <1>5, <1>7 DEF Check
  <2>2. Moves(q, "staging", answer[q])
    BY <1>1, <1>4, <2>1 DEF Moves
  <2>3. (Tables /\ Owned)'
    BY <1>1, <1>2, <2>1, <2>2, Goes
  <2>4. place'[q] = "staging" /\ answer'[q] = None
    BY <1>2, <1>4, <2>2, MovesAlone
  <2>5. Passed(q)'
    BY <1>1, <1>5, <1>7, <2>4 DEF Passed
  <2> QED BY <2>2, <2>3, <2>5, OthersPassed DEF AnswerInv
<1> QED BY <1>6, <1>7

\* execute() up to the scope.
LEMMA StageAnswers == ASSUME AnswerInv, NEW q \in Requests, Stage(q) PROVE AnswerInv'
<1>1. place[q] = "staging" /\ fate' = fate /\ server' = server
  BY DEF Stage
<1>2. Tables /\ Passed(q) /\ Live(q) /\ InArena(q)
  BY <1>1 DEF AnswerInv, Live, InArena
<1>3. /\ answer = [answer EXCEPT ![q] = answer[q]] /\ answer[q] = None
      /\ Verdict(Checks, fate[q]) = Ok
  BY <1>1, <1>2 DEF Tables, Passed
<1>4. PICK v : v = Verdict(Stages, fate[q])
  OBVIOUS
<1>5. CASE v # Ok
  <2>1. Moves(q, "done", v) /\ arena' = [arena EXCEPT ![server[q]] = FALSE]
    BY <1>1, <1>4, <1>5 DEF Stage, Answer, Release, Moves
  <2>2. (Tables /\ Owned)'
    BY <1>1, <1>2, <2>1, Goes
  <2>3. place'[q] = "done" /\ answer'[q] = v
    BY <1>2, <2>1, MovesAlone
  <2>4. v = Outcome(fate[q])
    BY <1>3, <1>4, <1>5 DEF Outcome, Else
  <2>5. Passed(q)'
    BY <1>1, <2>3, <2>4 DEF Passed
  <2> QED BY <2>1, <2>2, <2>5, OthersPassed DEF AnswerInv
<1>6. CASE v = Ok
  <2>1. arena' = arena /\ place' = [place EXCEPT ![q] = "scope"] /\ answer' = answer
    BY <1>4, <1>6 DEF Stage
  <2>2. Moves(q, "scope", answer[q])
    BY <1>1, <1>3, <2>1 DEF Moves
  <2>3. (Tables /\ Owned)'
    BY <1>1, <1>2, <2>1, <2>2, Goes
  <2>4. place'[q] = "scope" /\ answer'[q] = None
    BY <1>2, <1>3, <2>2, MovesAlone
  <2>5. Passed(q)'
    BY <1>1, <1>3, <1>4, <1>6, <2>4 DEF Passed
  <2> QED BY <2>2, <2>3, <2>5, OthersPassed DEF AnswerInv
<1> QED BY <1>5, <1>6

LEMMA ComputeAnswers == ASSUME AnswerInv, NEW q \in Requests, Compute(q) PROVE AnswerInv'
<1>1. /\ place[q] = "scope" /\ fate' = fate /\ server' = server /\ arena' = arena
      /\ place' = [place EXCEPT ![q] = "closing"] /\ answer' = answer
  BY DEF Compute
<1>2. Tables /\ Passed(q) /\ Live(q)
  BY <1>1 DEF AnswerInv, Live
<1>3. Moves(q, "closing", answer[q])
  BY <1>1, <1>2 DEF Moves, Tables
<1>4. (Tables /\ Owned)'
  BY <1>1, <1>2, <1>3, Goes
<1>5. place'[q] = "closing" /\ answer'[q] = answer[q]
  BY <1>2, <1>3, MovesAlone
<1>6. Passed(q)'
  BY <1>1, <1>2, <1>5 DEF Passed
<1> QED BY <1>3, <1>4, <1>6, OthersPassed DEF AnswerInv

\* The scope's results, and signing.
LEMMA CloseAnswers == ASSUME AnswerInv, NEW q \in Requests, Close(q) PROVE AnswerInv'
<1>1. /\ place[q] = "closing" /\ fate' = fate /\ server' = server
      /\ arena' = [arena EXCEPT ![server[q]] = FALSE]
  BY DEF Close, Release
<1>2. Tables /\ Passed(q) /\ Live(q)
  BY <1>1 DEF AnswerInv, Live
<1>3. /\ answer = [answer EXCEPT ![q] = answer[q]] /\ answer[q] = None
      /\ Verdict(Checks, fate[q]) = Ok /\ Verdict(Stages, fate[q]) = Ok
  BY <1>1, <1>2 DEF Tables, Passed
<1>4. PICK v : v = ComeTo(fate[q])
  OBVIOUS
<1>5. CASE v # Ok
  <2>1. Moves(q, "done", v)
    BY <1>1, <1>4, <1>5 DEF Close, Answer, Moves
  <2>2. (Tables /\ Owned)'
    BY <1>1, <1>2, <2>1, Goes
  <2>3. place'[q] = "done" /\ answer'[q] = v
    BY <1>2, <2>1, MovesAlone
  <2>4. v = Outcome(fate[q])
    BY <1>3, <1>4, <1>5 DEF Outcome, Else
  <2>5. Passed(q)'
    BY <1>1, <2>3, <2>4 DEF Passed
  <2> QED BY <2>1, <2>2, <2>5, OthersPassed DEF AnswerInv
<1>6. CASE v = Ok
  <2>1. place' = [place EXCEPT ![q] = "sealing"] /\ answer' = answer
    BY <1>4, <1>6 DEF Close
  <2>2. Moves(q, "sealing", answer[q])
    BY <1>1, <1>3, <2>1 DEF Moves
  <2>3. (Tables /\ Owned)'
    BY <1>1, <1>2, <2>2, Goes
  <2>4. place'[q] = "sealing" /\ answer'[q] = None
    BY <1>2, <1>3, <2>2, MovesAlone
  <2>5. Passed(q)'
    BY <1>1, <1>3, <1>4, <1>6, <2>4 DEF Passed
  <2> QED BY <2>2, <2>3, <2>5, OthersPassed DEF AnswerInv
<1> QED BY <1>5, <1>6

\* solve() after the pipeline.
LEMMA SealAnswers == ASSUME AnswerInv, NEW q \in Requests, Seal(q) PROVE AnswerInv'
<1>1. /\ place[q] = "sealing" /\ fate' = fate /\ server' = server /\ arena' = arena
      /\ Answer(q, Verdict(Sealing, fate[q]))
  BY DEF Seal
<1>2. Tables /\ Passed(q) /\ Live(q) /\ ~InArena(q)
  BY <1>1 DEF AnswerInv, Live, InArena
<1>3. PICK v : v = Verdict(Sealing, fate[q])
  OBVIOUS
<1>4. Moves(q, "done", v)
  BY <1>1, <1>3 DEF Answer, Moves
<1>5. (Tables /\ Owned)'
  BY <1>1, <1>2, <1>4, Goes
<1>6. place'[q] = "done" /\ answer'[q] = v
  BY <1>2, <1>4, MovesAlone
<1>7. v = Outcome(fate[q])
  BY <1>1, <1>2, <1>3 DEF Outcome, Else, Passed
<1>8. Passed(q)'
  BY <1>1, <1>6, <1>7 DEF Passed
<1> QED BY <1>4, <1>5, <1>8, OthersPassed DEF AnswerInv

\* What the threads of the pool do changes nothing of it.
LEMMA RestAnswers ==
    ASSUME AnswerInv, UNCHANGED <<fate, place, server, arena, answer>>
    PROVE  AnswerInv'
BY DEF AnswerInv, Tables, Owned, Passed, Live, InArena

LEMMA NextAnswers == AnswerInv /\ [Next]_vars => AnswerInv'
<1> SUFFICES ASSUME AnswerInv, [Next]_vars PROVE AnswerInv'
  OBVIOUS
<1>1. ASSUME NEW q \in Requests, Accept(q) \/ ServerStep(q) PROVE AnswerInv'
  BY <1>1, AcceptAnswers, CheckAnswers, StageAnswers, ComputeAnswers, CloseAnswers, SealAnswers
     DEF ServerStep
<1>2. ASSUME NEW t \in Pool, Take(t) \/ PoolStep(t) PROVE AnswerInv'
  <2>1. UNCHANGED <<fate, place, server, arena, answer>>
    BY <1>2 DEF Take, PoolStep, StartShare, EndShare, End
  <2> QED BY <2>1, RestAnswers
<1>3. CASE Health \/ UNCHANGED vars
  BY <1>3, RestAnswers DEF Health, vars
<1> QED BY <1>1, <1>2, <1>3 DEF Next

LEMMA InitAnswers == Init => AnswerInv
<1> SUFFICES ASSUME Init PROVE AnswerInv
  OBVIOUS
<1>1. Tables
  BY DEF Init, Tables
<1>2. Owned
  BY DEF Init, Owned, Live
<1>3. \A q \in Requests : Passed(q)
  BY DEF Init, Passed
<1> QED BY <1>1, <1>2, <1>3 DEF AnswerInv

----------------------------------------------------------------------------
(* Jobs *)

JobsOf(q) == {Job(q, "prepare"), Job(q, "keys"), Job(q, "drive")} \cup HelpersOf(q)
Jobs == UNION {JobsOf(q) : q \in Requests}

LEMMA JobsAreTheirs ==
    /\ \A q \in Requests : JobsOf(q) \subseteq Jobs
    /\ \A x \in Jobs : x.q \in Requests /\ x \in JobsOf(x.q)
    /\ \A q \in Requests : \A x \in JobsOf(q) : x.q = q
    /\ \A x \in Jobs : x.kind = "prepare" => x = Job(x.q, "prepare")
    /\ \A q \in Requests : \A k \in {"prepare", "keys", "drive"} :
         /\ Job(q, k) \in JobsOf(q) /\ Job(q, k).kind = k /\ Job(q, k) \notin HelpersOf(q)
    /\ \A q \in Requests : \A x \in HelpersOf(q) : x \in JobsOf(q) /\ x.kind = "help"
<1>1. \A q \in Requests : \A x \in JobsOf(q) : x.q = q
  BY DEF JobsOf, HelpersOf, Job, Help
<1>2. \A q \in Requests : \A x \in JobsOf(q) : x.kind = "prepare" => x = Job(q, "prepare")
  BY DEF JobsOf, HelpersOf, Job, Help
<1>3. \A q \in Requests : \A x \in HelpersOf(q) : x \in JobsOf(q) /\ x.kind = "help"
  BY DEF JobsOf, HelpersOf, Help
<1>4. \A q \in Requests : \A k \in {"prepare", "keys", "drive"} :
        Job(q, k) \in JobsOf(q) /\ Job(q, k).kind = k
  BY DEF JobsOf, Job
<1>5. \A q \in Requests : \A k \in {"prepare", "keys", "drive"} : Job(q, k) \notin HelpersOf(q)
  BY <1>3, <1>4
<1>6. \A q \in Requests : JobsOf(q) \subseteq Jobs
  BY DEF Jobs
<1>7. \A x \in Jobs : \E q \in Requests : x \in JobsOf(q)
  BY DEF Jobs
<1> QED BY <1>1, <1>2, <1>3, <1>4, <1>5, <1>6, <1>7

\* Job x is on one of the stacks st.
Held(st, x) == \E t \in Pool : \E i \in 1 .. Len(st[t]) : st[t][i] = x

\* Stacks of jobs, and no job is on them twice.
Stacks(st) ==
    /\ st \in [Pool -> Seq(Jobs)]
    /\ \A t, u \in Pool : \A i \in 1 .. Len(st[t]) : \A k \in 1 .. Len(st[u]) :
         st[t][i] = st[u][k] => t = u /\ i = k

\* Stacks st become st2: thread t takes job j, or ends it.
Pushes(st, t, j, st2) == st2 = [st EXCEPT ![t] = Append(@, j)]
Pops(st, t, j, st2) ==
    st[t] # <<>> /\ j = Last(st[t]) /\ st2 = [st EXCEPT ![t] = Front(@)]

\* A thread takes a job.
LEMMA Pushed ==
    ASSUME NEW st, Stacks(st), NEW t \in Pool, NEW j \in Jobs, ~Held(st, j),
           NEW st2, Pushes(st, t, j, st2)
    PROVE  Stacks(st2) /\ \A x : Held(st2, x) <=> Held(st, x) \/ x = j
<1>1. st \in [Pool -> Seq(Jobs)] /\ st[t] \in Seq(Jobs)
  BY DEF Stacks
<1>2. PICK n \in Nat : n = Len(st[t])
  BY <1>1
<1>3. PICK s : s = Append(st[t], j)
  OBVIOUS
<1>4. /\ s \in Seq(Jobs) /\ Len(s) = n + 1 /\ s[n + 1] = j
      /\ \A i \in 1 .. n : s[i] = st[t][i]
  BY <1>1, <1>2, <1>3
<1>5. /\ st2 \in [Pool -> Seq(Jobs)] /\ st2[t] = s
      /\ \A u \in Pool : u # t => st2[u] = st[u]
  BY <1>1, <1>3, <1>4 DEF Pushes
<1>6. \A i \in 1 .. n + 1 : i \in 1 .. n \/ i = n + 1
  OBVIOUS
<1>7. n + 1 \in 1 .. n + 1 /\ \A i \in 1 .. n : i \in 1 .. n + 1
  OBVIOUS
<1>8. ASSUME NEW u \in Pool, NEW i \in 1 .. Len(st2[u])
      PROVE  \/ i \in 1 .. Len(st[u]) /\ st2[u][i] = st[u][i]
             \/ u = t /\ i = n + 1 /\ st2[u][i] = j
  BY <1>2, <1>4, <1>5, <1>6
<1>9. ASSUME NEW u \in Pool, NEW i \in 1 .. Len(st[u])
      PROVE  i \in 1 .. Len(st2[u]) /\ st2[u][i] = st[u][i] /\ st[u][i] # j
  <2>1. st[u][i] # j
    BY DEF Held
  <2> QED BY <1>2, <1>4, <1>5, <1>7, <2>1
<1>10. ASSUME NEW u \in Pool, NEW w \in Pool, NEW i \in 1 .. Len(st2[u]),
              NEW k \in 1 .. Len(st2[w]), st2[u][i] = st2[w][k]
       PROVE  u = w /\ i = k
  <2>1. \/ i \in 1 .. Len(st[u]) /\ st2[u][i] = st[u][i] /\ st2[u][i] # j
        \/ u = t /\ i = n + 1 /\ st2[u][i] = j
    BY <1>8, <1>9
  <2>2. \/ k \in 1 .. Len(st[w]) /\ st2[w][k] = st[w][k] /\ st2[w][k] # j
        \/ w = t /\ k = n + 1 /\ st2[w][k] = j
    BY <1>8, <1>9
  <2>3. CASE i \in 1 .. Len(st[u]) /\ st2[u][i] = st[u][i] /\ st2[u][i] # j
    BY <1>10, <2>2, <2>3 DEF Stacks
  <2>4. CASE u = t /\ i = n + 1 /\ st2[u][i] = j
    BY <1>10, <2>2, <2>4
  <2> QED BY <2>1, <2>3, <2>4
<1>11. Stacks(st2)
  BY <1>5, <1>10 DEF Stacks
<1>12. ASSUME NEW x PROVE Held(st2, x) <=> Held(st, x) \/ x = j
  <2>1. Held(st2, x) => Held(st, x) \/ x = j
    BY <1>8 DEF Held
  <2>2. Held(st, x) => Held(st2, x)
    BY <1>9 DEF Held
  <2>3. Held(st2, j)
    BY <1>4, <1>5, <1>7 DEF Held
  <2> QED BY <2>1, <2>2, <2>3
<1> QED BY <1>11, <1>12

\* The job a thread works at ends.
LEMMA Popped ==
    ASSUME NEW st, Stacks(st), NEW t \in Pool, NEW j, NEW st2, Pops(st, t, j, st2)
    PROVE  /\ Stacks(st2) /\ j \in Jobs /\ Held(st, j)
           /\ \A x : Held(st2, x) <=> Held(st, x) /\ x # j
<1>1. st \in [Pool -> Seq(Jobs)] /\ st[t] \in Seq(Jobs) /\ st[t] # <<>> /\ j = Last(st[t])
  BY DEF Stacks, Pops
<1>2. PICK n \in Nat : Len(st[t]) = n + 1
  <2>1. Len(st[t]) \in Nat \ {0}
    BY <1>1
  <2>2. Len(st[t]) - 1 \in Nat /\ Len(st[t]) = Len(st[t]) - 1 + 1
    BY <2>1
  <2> QED BY <2>2
<1>3. n + 1 \in 1 .. n + 1 /\ j = st[t][n + 1] /\ j \in Jobs
  BY <1>1, <1>2 DEF Last
<1>4. PICK s : s = Front(st[t])
  OBVIOUS
<1>5. s \in Seq(Jobs) /\ Len(s) = n /\ \A i \in 1 .. n : s[i] = st[t][i]
  BY <1>1, <1>2, <1>4 DEF Front
<1>6. /\ st2 \in [Pool -> Seq(Jobs)] /\ st2[t] = s
      /\ \A u \in Pool : u # t => st2[u] = st[u]
  BY <1>1, <1>4, <1>5 DEF Pops
<1>7. \A i \in 1 .. n + 1 : i \in 1 .. n \/ i = n + 1
  OBVIOUS
<1>8. \A i \in 1 .. n : i \in 1 .. n + 1 /\ i # n + 1
  OBVIOUS
<1>9. ASSUME NEW u \in Pool, NEW i \in 1 .. Len(st2[u])
      PROVE  i \in 1 .. Len(st[u]) /\ st2[u][i] = st[u][i] /\ st2[u][i] # j
  <2>1. i \in 1 .. Len(st[u]) /\ st2[u][i] = st[u][i] /\ ~(u = t /\ i = n + 1)
    BY <1>2, <1>5, <1>6, <1>8
  <2> QED BY <1>2, <1>3, <2>1 DEF Stacks
<1>10. ASSUME NEW u \in Pool, NEW i \in 1 .. Len(st[u]), st[u][i] # j
       PROVE  i \in 1 .. Len(st2[u]) /\ st2[u][i] = st[u][i]
  BY <1>2, <1>3, <1>5, <1>6, <1>7, <1>10
<1>11. \A u, w \in Pool : \A i \in 1 .. Len(st2[u]) : \A k \in 1 .. Len(st2[w]) :
         st2[u][i] = st2[w][k] => u = w /\ i = k
  BY <1>9 DEF Stacks
<1>12. ASSUME NEW x PROVE Held(st2, x) <=> Held(st, x) /\ x # j
  <2>1. Held(st2, x) => Held(st, x) /\ x # j
    BY <1>9 DEF Held
  <2>2. Held(st, x) /\ x # j => Held(st2, x)
    BY <1>10 DEF Held
  <2> QED BY <2>1, <2>2
<1>13. Held(st, j)
  BY <1>2, <1>3 DEF Held
<1> QED BY <1>3, <1>6, <1>11, <1>12, <1>13 DEF Stacks

\* Job x waits to be taken, or is worked at.
Open(x) == x \in jobs \/ Held(stack, x)

JobTables ==
    /\ Stacks(stack)
    /\ jobs \subseteq Jobs
    /\ DOMAIN ended = Requests /\ ended = [q \in Requests |-> ended[q]]
    /\ DOMAIN share = Requests /\ share = [q \in Requests |-> share[q]]
    /\ DOMAIN place = Requests /\ place = [q \in Requests |-> place[q]]

\* A job is in one place at a time.
OnePlace ==
    /\ \A x \in Jobs : x \in jobs => ~Held(stack, x)
    /\ \A x \in Jobs : Open(x) => x \notin ended[x.q]

\* A request has jobs only while its thread is in the scope.
OnlyInScope ==
    \A q \in Requests :
        /\ place[q] \in {"queued", "checking", "staging"} => ended[q] = {} /\ share[q] = "none"
        /\ place[q] \notin {"scope", "closing"} => \A x \in Jobs : Open(x) => x.q # q

\* The workers that prepare() spawns end before it does.
HelpersEndFirst ==
    \A q \in Requests :
        /\ share[q] = "none" => \A x \in HelpersOf(q) : ~Open(x) /\ x \notin ended[q]
        /\ Job(q, "prepare") \in ended[q] => HelpersOf(q) \subseteq ended[q]

\* compute() waits for its job.
DriveFirst == \A q \in Requests : place[q] = "closing" => Job(q, "drive") \in ended[q]

JobInv == JobTables /\ OnePlace /\ OnlyInScope /\ HelpersEndFirst /\ DriveFirst

\* A thread of the server goes on with q, outside the scope or to its end.
LEMMA ThreadJobs ==
    ASSUME JobInv, NEW q \in Requests, NEW to, place' = [place EXCEPT ![q] = to],
           UNCHANGED scheduling,
           \/ place[q] \in {"queued", "checking"} /\ to \in {"checking", "staging", "done"}
           \/ place[q] = "staging" /\ to = "done"
           \/ place[q] = "scope" /\ to = "closing" /\ Job(q, "drive") \in ended[q]
           \/ place[q] = "sealing" /\ to = "done"
           \/ to \in {"sealing", "done"} /\ \A x \in Jobs : Open(x) => x.q # q
    PROVE  JobInv'
<1>1. jobs' = jobs /\ stack' = stack /\ ended' = ended /\ share' = share
  BY DEF scheduling
<1>2. JobTables /\ OnePlace /\ OnlyInScope /\ HelpersEndFirst /\ DriveFirst
  BY DEF JobInv
<1>3. /\ DOMAIN place' = Requests /\ place' = [r \in Requests |-> place'[r]]
      /\ place'[q] = to /\ \A r \in Requests : r # q => place'[r] = place[r]
  BY <1>2 DEF JobTables
<1>4. \A x : Open(x)' <=> Open(x)
  BY <1>1 DEF Open
<1>5. JobTables'
  BY <1>1, <1>2, <1>3 DEF JobTables
<1>6. OnePlace'
  BY <1>1, <1>2, <1>4 DEF OnePlace
<1>7. HelpersEndFirst'
  BY <1>1, <1>2, <1>4 DEF HelpersEndFirst
<1>8. OnlyInScope' /\ DriveFirst'
  BY <1>1, <1>2, <1>3, <1>4 DEF OnlyInScope, DriveFirst
<1> QED BY <1>5, <1>6, <1>7, <1>8 DEF JobInv

\* When the scope has closed, no job of the request is left.
LEMMA ScopeEnds ==
    ASSUME JobInv, NEW q \in Requests, place[q] = "closing", MayClose(q)
    PROVE  \A x \in Jobs : Open(x) => x.q # q
<1>1. Job(q, "drive") \in ended[q] /\ Job(q, "prepare") \in ended[q] /\ Job(q, "keys") \in ended[q]
  BY DEF JobInv, DriveFirst, MayClose
<1>2. HelpersOf(q) \subseteq ended[q]
  BY <1>1 DEF JobInv, HelpersEndFirst
<1>3. JobsOf(q) \subseteq ended[q]
  BY <1>1, <1>2 DEF JobsOf
<1>4. ASSUME NEW x \in Jobs, x.q = q PROVE ~Open(x)
  <2>1. x \in ended[x.q]
    BY <1>3, <1>4, JobsAreTheirs
  <2> QED BY <2>1 DEF JobInv, OnePlace
<1> QED BY <1>4

LEMMA StageJobs == ASSUME JobInv, NEW q \in Requests, Stage(q) PROVE JobInv'
<1>1. CASE Verdict(Stages, fate[q]) # Ok
  <2>1. /\ place[q] = "staging" /\ place' = [place EXCEPT ![q] = "done"]
        /\ UNCHANGED scheduling
    BY <1>1 DEF Stage, Answer, scheduling
  <2> QED BY <2>1, ThreadJobs
<1>2. CASE Verdict(Stages, fate[q]) = Ok
  <2>1. /\ place[q] = "staging" /\ place' = [place EXCEPT ![q] = "scope"]
        /\ jobs' = jobs \cup {Job(q, "prepare"), Job(q, "keys"), Job(q, "drive")}
        /\ stack' = stack /\ ended' = ended /\ share' = share
    BY <1>2 DEF Stage
  <2>2. PICK new : new = {Job(q, "prepare"), Job(q, "keys"), Job(q, "drive")}
    OBVIOUS
  <2>3. /\ JobTables /\ OnePlace /\ OnlyInScope /\ HelpersEndFirst /\ DriveFirst
        /\ ended[q] = {} /\ share[q] = "none" /\ \A x \in Jobs : Open(x) => x.q # q
    BY <2>1 DEF JobInv, OnlyInScope
  <2>4. \A x \in new : x \in Jobs /\ x.q = q /\ ~Open(x) /\ x \notin HelpersOf(q)
    <3>1. \A x \in new : x \in JobsOf(q) /\ x \notin HelpersOf(q)
      BY <2>2, JobsAreTheirs
    <3>2. \A x \in new : x \in Jobs /\ x.q = q
      BY <3>1, JobsAreTheirs
    <3> QED BY <2>3, <3>1, <3>2
  <2>5. /\ DOMAIN place' = Requests /\ place' = [r \in Requests |-> place'[r]]
        /\ place'[q] = "scope" /\ \A r \in Requests : r # q => place'[r] = place[r]
    BY <2>1, <2>3 DEF JobTables
  <2>6. \A x : Open(x)' <=> Open(x) \/ x \in new
    BY <2>1, <2>2 DEF Open
  <2>7. JobTables'
    BY <2>1, <2>2, <2>3, <2>4, <2>5 DEF JobTables
  <2>8. OnePlace'
    <3>1. \A x \in Jobs : x \in jobs' => ~Held(stack', x)
      BY <2>1, <2>2, <2>3, <2>4 DEF OnePlace, Open
    <3>2. \A x \in Jobs : Open(x)' => x \notin ended'[x.q]
      BY <2>1, <2>3, <2>4, <2>6 DEF OnePlace
    <3> QED BY <3>1, <3>2 DEF OnePlace
  <2>9. OnlyInScope' /\ DriveFirst'
    BY <2>1, <2>3, <2>4, <2>5, <2>6 DEF OnlyInScope, DriveFirst
  <2>10. HelpersEndFirst'
    <3>1. ASSUME NEW r \in Requests, share[r] = "none", NEW x \in HelpersOf(r)
          PROVE  ~Open(x)'
      <4>1. ~Open(x) /\ x.q = r
        BY <2>3, <3>1, JobsAreTheirs DEF HelpersEndFirst
      <4>2. x \notin new
        BY <2>4, <4>1
      <4> QED BY <2>6, <4>1, <4>2
    <3> QED BY <2>1, <2>3, <3>1 DEF HelpersEndFirst
  <2> QED BY <2>7, <2>8, <2>9, <2>10 DEF JobInv
<1> QED BY <1>1, <1>2

\* The thread of a request, at any step.
LEMMA ServerJobs ==
    ASSUME JobInv, NEW q \in Requests, Accept(q) \/ ServerStep(q)
    PROVE  JobInv'
<1>1. CASE Accept(q)
  BY <1>1, ThreadJobs DEF Accept
<1>2. CASE Check(q)
  <2>1. /\ place[q] = "checking" /\ UNCHANGED scheduling
        /\ \/ place' = [place EXCEPT ![q] = "done"]
           \/ place' = [place EXCEPT ![q] = "staging"]
    BY <1>2 DEF Check, Answer
  <2> QED BY <2>1, ThreadJobs
<1>3. CASE Stage(q)
  BY <1>3, StageJobs
<1>4. CASE Compute(q)
  BY <1>4, ThreadJobs DEF Compute
<1>5. CASE Close(q)
  <2>1. /\ place[q] = "closing" /\ MayClose(q) /\ UNCHANGED scheduling
        /\ \/ place' = [place EXCEPT ![q] = "done"]
           \/ place' = [place EXCEPT ![q] = "sealing"]
    BY <1>5 DEF Close, Answer
  <2>2. \A x \in Jobs : Open(x) => x.q # q
    BY <2>1, ScopeEnds
  <2> QED BY <2>1, <2>2, ThreadJobs
<1>6. CASE Seal(q)
  BY <1>6, ThreadJobs DEF Seal, Answer
<1> QED BY <1>1, <1>2, <1>3, <1>4, <1>5, <1>6 DEF ServerStep

\* A thread of the pool takes a job that waits.
LEMMA TakeJobs == ASSUME JobInv, NEW t \in Pool, Take(t) PROVE JobInv'
<1>1. JobTables /\ OnePlace /\ OnlyInScope /\ HelpersEndFirst /\ DriveFirst
  BY DEF JobInv
<1>2. PICK j \in jobs : jobs' = jobs \ {j} /\ stack' = [stack EXCEPT ![t] = Append(@, j)]
  BY DEF Take
<1>3. place' = place /\ ended' = ended /\ share' = share
  BY DEF Take
<1>4. j \in Jobs /\ Stacks(stack) /\ ~Held(stack, j)
  BY <1>1, <1>2 DEF JobTables, OnePlace
<1>5. Stacks(stack') /\ \A x : Held(stack', x) <=> Held(stack, x) \/ x = j
  <2>1. PICK st2 : st2 = stack'
    OBVIOUS
  <2>2. Pushes(stack, t, j, st2)
    BY <1>2, <2>1 DEF Pushes
  <2>3. Stacks(st2) /\ \A x : Held(st2, x) <=> Held(stack, x) \/ x = j
    BY <1>4, <2>2, Pushed
  <2> QED BY <2>1, <2>3
<1>6. \A x : Open(x)' <=> Open(x)
  BY <1>2, <1>5 DEF Open
<1>7. JobTables'
  BY <1>1, <1>2, <1>3, <1>5 DEF JobTables
<1>8. OnePlace'
  <2>1. \A x \in Jobs : x \in jobs' => ~Held(stack', x)
    BY <1>1, <1>2, <1>5 DEF OnePlace
  <2> QED BY <1>1, <1>3, <1>6, <2>1 DEF OnePlace
<1>9. OnlyInScope' /\ HelpersEndFirst' /\ DriveFirst'
  BY <1>1, <1>3, <1>6 DEF OnlyInScope, HelpersEndFirst, DriveFirst
<1> QED BY <1>7, <1>8, <1>9 DEF JobInv

\* The job a thread works at.
LEMMA TopIsHeld ==
    ASSUME JobInv, NEW t \in Pool, stack[t] # <<>>
    PROVE  Top(t) \in Jobs /\ Held(stack, Top(t)) /\ Open(Top(t)) /\ Top(t).q \in Requests
<1>1. Stacks(stack)
  BY DEF JobInv, JobTables
<1>2. PICK st2 : st2 = [stack EXCEPT ![t] = Front(@)]
  OBVIOUS
<1>3. Pops(stack, t, Top(t), st2)
  BY <1>2 DEF Top, Pops
<1>4. Top(t) \in Jobs /\ Held(stack, Top(t))
  BY <1>1, <1>3, Popped
<1> QED BY <1>4, JobsAreTheirs DEF Open

\* prepare() spawns its workers.
LEMMA StartShareJobs == ASSUME JobInv, NEW t \in Pool, StartShare(t) PROVE JobInv'
<1>1. JobTables /\ OnePlace /\ OnlyInScope /\ HelpersEndFirst /\ DriveFirst
  BY DEF JobInv
<1>2. PICK j : j = Top(t)
  OBVIOUS
<1>3. j \in Jobs /\ Open(j) /\ j.q \in Requests /\ j.kind = "prepare"
  BY <1>2, TopIsHeld DEF StartShare
<1>4. PICK q \in Requests : q = j.q
  BY <1>3
<1>5. /\ share[q] = "none" /\ share' = [share EXCEPT ![q] = "working"]
      /\ jobs' = jobs \cup HelpersOf(q)
      /\ stack' = stack /\ ended' = ended /\ place' = place
  BY <1>2, <1>4 DEF StartShare
<1>6. /\ share'[q] = "working" /\ \A r \in Requests : r # q => share'[r] = share[r]
      /\ DOMAIN share' = Requests /\ share' = [r \in Requests |-> share'[r]]
  BY <1>1, <1>5 DEF JobTables
<1>7. place[q] \in {"scope", "closing"}
  BY <1>1, <1>3, <1>4 DEF OnlyInScope
<1>8. \A x \in HelpersOf(q) : x \in Jobs /\ x.q = q /\ ~Open(x) /\ x \notin ended[q]
  <2>1. \A x \in HelpersOf(q) : x \in Jobs /\ x.q = q
    BY JobsAreTheirs
  <2> QED BY <1>1, <1>5, <2>1 DEF HelpersEndFirst
<1>9. \A x : Open(x)' <=> Open(x) \/ x \in HelpersOf(q)
  BY <1>5 DEF Open
<1>10. JobTables'
  BY <1>1, <1>5, <1>6, <1>8 DEF JobTables
<1>11. OnePlace'
  <2>1. \A x \in Jobs : x \in jobs' => ~Held(stack', x)
    BY <1>1, <1>5, <1>8 DEF OnePlace, Open
  <2>2. \A x \in Jobs : Open(x)' => x \notin ended'[x.q]
    BY <1>1, <1>5, <1>8, <1>9 DEF OnePlace
  <2> QED BY <2>1, <2>2 DEF OnePlace
<1>12. OnlyInScope' /\ DriveFirst'
  <2>1. ASSUME NEW r \in Requests, place'[r] \notin {"scope", "closing"}, NEW x \in Jobs, Open(x)'
        PROVE  x.q # r
    <3>1. r # q /\ place[r] \notin {"scope", "closing"}
      BY <1>5, <1>7, <2>1
    <3> QED BY <1>1, <1>8, <1>9, <2>1, <3>1 DEF OnlyInScope
  <2>2. ASSUME NEW r \in Requests, place'[r] \in {"queued", "checking", "staging"}
        PROVE  ended'[r] = {} /\ share'[r] = "none"
    <3>1. r # q
      BY <1>5, <1>7, <2>2
    <3> QED BY <1>1, <1>5, <1>6, <2>2, <3>1 DEF OnlyInScope
  <2> QED BY <1>1, <1>5, <2>1, <2>2 DEF OnlyInScope, DriveFirst
<1>13. HelpersEndFirst'
  <2>1. ASSUME NEW r \in Requests, share'[r] = "none", NEW x \in HelpersOf(r)
        PROVE  ~Open(x)' /\ x \notin ended'[r]
    <3>1. r # q /\ share[r] = "none"
      BY <1>6, <2>1
    <3>2. x.q = r /\ ~Open(x) /\ x \notin ended[r]
      BY <1>1, <2>1, <3>1, JobsAreTheirs DEF HelpersEndFirst
    <3>3. x \notin HelpersOf(q)
      BY <1>8, <3>1, <3>2
    <3> QED BY <1>5, <1>9, <3>2, <3>3
  <2> QED BY <1>1, <1>5, <2>1 DEF HelpersEndFirst
<1> QED BY <1>10, <1>11, <1>12, <1>13 DEF JobInv

\* Its own part is done.
LEMMA EndShareJobs == ASSUME JobInv, NEW t \in Pool, EndShare(t) PROVE JobInv'
<1>1. JobTables /\ OnePlace /\ OnlyInScope /\ HelpersEndFirst /\ DriveFirst
  BY DEF JobInv
<1>2. PICK q : q = Top(t).q
  OBVIOUS
<1>3. q \in Requests
  BY <1>2, TopIsHeld DEF EndShare
<1>4. /\ share[q] = "working" /\ share' = [share EXCEPT ![q] = "waiting"]
      /\ jobs' = jobs /\ stack' = stack /\ ended' = ended /\ place' = place
  BY <1>2 DEF EndShare
<1>5. /\ share'[q] = "waiting" /\ \A r \in Requests : r # q => share'[r] = share[r]
      /\ DOMAIN share' = Requests /\ share' = [r \in Requests |-> share'[r]]
  BY <1>1, <1>3, <1>4 DEF JobTables
<1>6. \A x : Open(x)' <=> Open(x)
  BY <1>4 DEF Open
<1>7. JobTables' /\ OnePlace'
  BY <1>1, <1>4, <1>5, <1>6 DEF JobTables, OnePlace
<1>8. OnlyInScope' /\ DriveFirst'
  BY <1>1, <1>3, <1>4, <1>5, <1>6 DEF OnlyInScope, DriveFirst
<1>9. HelpersEndFirst'
  BY <1>1, <1>3, <1>4, <1>5, <1>6 DEF HelpersEndFirst
<1> QED BY <1>7, <1>8, <1>9 DEF JobInv

\* A job ends: prepare() after its workers.
LEMMA EndJobs == ASSUME JobInv, NEW t \in Pool, End(t) PROVE JobInv'
<1>1. JobTables /\ OnePlace /\ OnlyInScope /\ HelpersEndFirst /\ DriveFirst
  BY DEF JobInv
<1>2. PICK j : j = Top(t)
  OBVIOUS
<1>3. j \in Jobs /\ Open(j) /\ Held(stack, j) /\ j.q \in Requests
  BY <1>2, TopIsHeld DEF End
<1>4. PICK q \in Requests : q = j.q
  BY <1>3
<1>5. /\ j.kind = "prepare" => HelpersOf(q) \subseteq ended[q]
      /\ ended' = [ended EXCEPT ![q] = @ \cup {j}]
      /\ jobs' = jobs /\ share' = share /\ place' = place
  BY <1>2, <1>4 DEF End
<1>6. /\ ended'[q] = ended[q] \cup {j} /\ \A r \in Requests : r # q => ended'[r] = ended[r]
      /\ DOMAIN ended' = Requests /\ ended' = [r \in Requests |-> ended'[r]]
  BY <1>1, <1>5 DEF JobTables
<1>7. Stacks(stack') /\ \A x : Held(stack', x) <=> Held(stack, x) /\ x # j
  <2>1. PICK st2 : st2 = stack'
    OBVIOUS
  <2>2. Pops(stack, t, j, st2)
    BY <1>2, <2>1 DEF End, Top, Pops
  <2>3. Stacks(stack)
    BY <1>1 DEF JobTables
  <2>4. Stacks(st2) /\ \A x : Held(st2, x) <=> Held(stack, x) /\ x # j
    BY <2>2, <2>3, Popped
  <2> QED BY <2>1, <2>4
<1>8. j \notin jobs
  BY <1>1, <1>3 DEF OnePlace
<1>9. \A x : Open(x)' <=> Open(x) /\ x # j
  BY <1>5, <1>7, <1>8 DEF Open
<1>10. place[q] \in {"scope", "closing"}
  BY <1>1, <1>3, <1>4 DEF OnlyInScope
<1>11. JobTables'
  BY <1>1, <1>5, <1>6, <1>7 DEF JobTables
<1>12. OnePlace'
  <2>1. \A x \in Jobs : x \in jobs' => ~Held(stack', x)
    BY <1>1, <1>5, <1>7 DEF OnePlace
  <2>2. ASSUME NEW x \in Jobs, Open(x)' PROVE x \notin ended'[x.q]
    <3>1. Open(x) /\ x # j /\ x.q \in Requests /\ x \notin ended[x.q]
      BY <1>1, <1>9, <2>2, JobsAreTheirs DEF OnePlace
    <3> QED BY <1>6, <3>1
  <2> QED BY <2>1, <2>2 DEF OnePlace
<1>13. OnlyInScope'
  <2>1. ASSUME NEW r \in Requests, place'[r] \in {"queued", "checking", "staging"}
        PROVE  ended'[r] = {} /\ share'[r] = "none"
    <3>1. r # q
      BY <1>5, <1>10, <2>1
    <3> QED BY <1>1, <1>5, <1>6, <2>1, <3>1 DEF OnlyInScope
  <2>2. \A r \in Requests : place'[r] \notin {"scope", "closing"} =>
          \A x \in Jobs : Open(x)' => x.q # r
    BY <1>1, <1>5, <1>9 DEF OnlyInScope
  <2> QED BY <2>1, <2>2 DEF OnlyInScope
<1>14. DriveFirst'
  BY <1>1, <1>5, <1>6 DEF DriveFirst
<1>15. HelpersEndFirst'
  <2>1. ASSUME NEW r \in Requests, share'[r] = "none", NEW x \in HelpersOf(r)
        PROVE  ~Open(x)' /\ x \notin ended'[r]
    <3>1. ~Open(x) /\ x \notin ended[r] /\ x # j
      BY <1>1, <1>3, <1>5, <2>1 DEF HelpersEndFirst
    <3> QED BY <1>6, <1>9, <3>1
  <2>2. ASSUME NEW r \in Requests, Job(r, "prepare") \in ended'[r]
        PROVE  HelpersOf(r) \subseteq ended'[r]
    <3>1. CASE r = q /\ j = Job(q, "prepare")
      <4>1. j.kind = "prepare"
        BY <3>1, JobsAreTheirs
      <4> QED BY <1>5, <1>6, <3>1, <4>1
    <3>2. CASE ~(r = q /\ j = Job(q, "prepare"))
      <4>1. Job(r, "prepare") \in ended[r]
        BY <1>6, <2>2, <3>2
      <4> QED BY <1>1, <1>6, <4>1 DEF HelpersEndFirst
    <3> QED BY <3>1, <3>2
  <2> QED BY <2>1, <2>2 DEF HelpersEndFirst
<1> QED BY <1>11, <1>12, <1>13, <1>14, <1>15 DEF JobInv

LEMMA NextJobs == JobInv /\ [Next]_vars => JobInv'
<1> SUFFICES ASSUME JobInv, [Next]_vars PROVE JobInv'
  OBVIOUS
<1>1. ASSUME NEW q \in Requests, Accept(q) \/ ServerStep(q) PROVE JobInv'
  BY <1>1, ServerJobs
<1>2. ASSUME NEW t \in Pool, Take(t) \/ PoolStep(t) PROVE JobInv'
  BY <1>2, TakeJobs, StartShareJobs, EndShareJobs, EndJobs DEF PoolStep
<1>3. CASE Health \/ UNCHANGED vars
  <2>1. /\ jobs' = jobs /\ stack' = stack /\ ended' = ended /\ share' = share
        /\ place' = place
    BY <1>3 DEF Health, vars
  <2>2. \A x : Open(x)' <=> Open(x)
    BY <2>1 DEF Open
  <2> QED BY <2>1, <2>2 DEF JobInv, JobTables, OnePlace, OnlyInScope, HelpersEndFirst, DriveFirst
<1> QED BY <1>1, <1>2, <1>3 DEF Next

LEMMA InitJobs == Init => JobInv
<1> SUFFICES ASSUME Init PROVE JobInv
  OBVIOUS
<1>1. \A t \in Pool : stack[t] = <<>>
  BY DEF Init
<1>2. \A x : ~Held(stack, x)
  BY <1>1 DEF Held
<1>3. Stacks(stack)
  <2>1. stack \in [Pool -> Seq(Jobs)]
    BY DEF Init
  <2> QED BY <1>1, <2>1 DEF Stacks
<1>4. \A x : ~Open(x)
  BY <1>2 DEF Open, Init
<1>5. JobTables
  BY <1>3 DEF Init, JobTables
<1>6. OnePlace /\ OnlyInScope
  BY <1>2, <1>4 DEF Init, OnePlace, OnlyInScope
<1>7. HelpersEndFirst /\ DriveFirst
  BY <1>4 DEF Init, HelpersEndFirst, DriveFirst
<1> QED BY <1>5, <1>6, <1>7 DEF JobInv

----------------------------------------------------------------------------

\* What solve() tells a client depends on its request alone, and the arena of its
\* thread is free of jobs when it leaves run(): for any number of requests and threads,
\* in any order of the jobs of execute() and prepare(), whichever of them panic.
THEOREM RequestsStandAloneHolds == Spec => []RequestsStandAlone
<1>1. AnswerInv => AnswerIsDetermined
  <2> SUFFICES ASSUME AnswerInv, NEW q \in Requests, answer[q] # None
               PROVE  answer[q] = IF fate[q]["compute"] = "panic" /\ Sequential(fate[q])[1] = "drive"
                                    THEN Dropped ELSE Sequential(fate[q])
    BY DEF AnswerIsDetermined
  <2>1. answer[q] = Outcome(fate[q])
    BY DEF AnswerInv, Passed
  <2> QED BY <2>1, OutcomeIsTold
<1>2. JobInv => JobsEndWithRequest
  <2> SUFFICES ASSUME JobInv, NEW q \in Requests, place[q] \in {"sealing", "done"}
               PROVE  /\ \A j \in jobs : j.q # q
                      /\ \A t \in Pool : \A i \in DOMAIN stack[t] : stack[t][i].q # q
    BY DEF JobsEndWithRequest
  <2>1. /\ jobs \subseteq Jobs /\ stack \in [Pool -> Seq(Jobs)]
        /\ \A x \in Jobs : Open(x) => x.q # q
    BY DEF JobInv, JobTables, Stacks, OnlyInScope
  <2>2. \A j \in jobs : j.q # q
    BY <2>1 DEF Open
  <2>3. ASSUME NEW t \in Pool, NEW i \in DOMAIN stack[t] PROVE stack[t][i].q # q
    <3>1. i \in 1 .. Len(stack[t]) /\ stack[t][i] \in Jobs
      BY <2>1, <2>3
    <3>2. Open(stack[t][i])
      BY <3>1 DEF Open, Held
    <3> QED BY <2>1, <3>1, <3>2
  <2> QED BY <2>2, <2>3
<1>3. Init /\ [][Next]_vars => []AnswerInv
  BY InitAnswers, NextAnswers, PTL
<1>4. Init /\ [][Next]_vars => []JobInv
  BY InitJobs, NextJobs, PTL
<1> QED BY <1>1, <1>2, <1>3, <1>4, PTL DEF Spec, RequestsStandAlone
=============================================================================
