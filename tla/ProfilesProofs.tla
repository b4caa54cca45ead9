--------------------------- MODULE ProfilesProofs ---------------------------
(***************************************************************************)
(* What holds of the loading of profiles for any buckets, however they are *)
(* paged, whenever what is in them was collected, and whatever order tasks *)
(* end in.                                                                 *)
(***************************************************************************)
EXTENDS Profiles, FiniteSetTheorems, SequenceTheorems, WellFoundedInduction, TLAPS

----------------------------------------------------------------------------
(* Partners *)

\* A set of naturals that is not empty has a least element.
LEMMA LeastNumber ==
    ASSUME NEW T, T \subseteq Nat, T # {}
    PROVE  \E x \in T : \A y \in T : x <= y
<1>1. PICK x \in T : \A y \in T : ~(y < x)
  <2>1. IsWellFoundedOn(OpToRel(<, Nat), Nat)
    BY NatLessThanWellFounded
  <2>2. \E x \in T : \A y \in T : <<y, x>> \notin OpToRel(<, Nat)
    BY <2>1, WFMin, Zenon
  <2> QED BY <2>2, Zenon DEF OpToRel
<1> QED BY <1>1

Timed == TimeOf \in [Objects -> Nat]

LEMMA DistanceType ==
    ASSUME Timed, NEW a \in Objects, NEW b \in Objects
    PROVE  Distance(a, b) \in Nat
<1>1. TimeOf[a] \in Nat /\ TimeOf[b] \in Nat
  BY DEF Timed
<1> QED BY <1>1 DEF Distance

\* b is the partner of p: the nearest candidate, or 0 where there is none.
IsBest(p, rs, taken, b) ==
    \/ b = 0 /\ Candidates(p, rs, taken) = {}
    \/ /\ b \in Candidates(p, rs, taken)
       /\ \A i \in Candidates(p, rs, taken) : Distance(p, rs[b]) <= Distance(p, rs[i])

LEMMA BestIsBest ==
    ASSUME Timed, NEW p \in Objects, NEW rs \in Seq(Objects), NEW taken
    PROVE  IsBest(p, rs, taken, Best(p, rs, taken))
<1> DEFINE c == Candidates(p, rs, taken)
           nearest == {i \in c : \A j \in c : Distance(p, rs[i]) <= Distance(p, rs[j])}
<1>1. c \subseteq Nat /\ \A i \in c : rs[i] \in Objects
  BY DEF Candidates
<1>2. CASE c = {}
  BY <1>2 DEF Best, IsBest
<1>3. CASE c # {}
  <2>1. PICK T : T = {Distance(p, rs[i]) : i \in c}
    OBVIOUS
  <2>2. \A i \in c : Distance(p, rs[i]) \in Nat
    BY <1>1, DistanceType
  <2>3. T \subseteq Nat /\ T # {}
    BY <1>3, <2>1, <2>2
  <2>4. PICK x \in T : \A y \in T : x <= y
    BY <2>3, LeastNumber
  <2>5. nearest # {} /\ nearest \subseteq Nat
    <3>1. PICK i \in c : x = Distance(p, rs[i])
      BY <2>1
    <3>2. i \in nearest
      BY <2>1, <2>4, <3>1
    <3> QED BY <1>1, <3>2
  <2>6. PICK i \in nearest : \A j \in nearest : i <= j
    BY <2>5, LeastNumber
  <2>7. Best(p, rs, taken) \in nearest
    <3>1. Best(p, rs, taken) = CHOOSE k \in nearest : \A j \in nearest : k <= j
      BY <1>3 DEF Best
    <3> HIDE DEF nearest
    <3> QED BY <2>6, <3>1
  <2> QED BY <2>7 DEF IsBest
<1> QED BY <1>2, <1>3

\* f[k] is what the first k profiles of ps have taken, up to n.
Takes(ps, rs, n, f) ==
    f = [k \in 0 .. n |-> IF k = 0 THEN {} ELSE f[k - 1] \cup {Best(ps[k], rs, f[k - 1])}]

LEMMA SomethingTakes ==
    ASSUME NEW ps, NEW rs, NEW n \in Nat
    PROVE  \E f : Takes(ps, rs, n, f)
<1> DEFINE T == {l \in Nat : ~ \E f : Takes(ps, rs, l, f)}
<1>1. CASE T = {}
  BY <1>1
<1>2. CASE T # {}
  <2>1. PICK l \in T : \A m \in T : l <= m
    BY <1>2, LeastNumber
  <2>2. l # 0
    <3>1. Takes(ps, rs, 0, [k \in 0 .. 0 |-> {}])
      BY DEF Takes
    <3> QED BY <2>1, <3>1
  <2>3. l \in Nat /\ l - 1 \in Nat /\ l - 1 \notin T
    BY <2>1, <2>2
  <2>4. PICK g : Takes(ps, rs, l - 1, g)
    BY <2>3
  <2>5. PICK f : f = [k \in 0 .. l |-> IF k = l THEN g[l - 1] \cup {Best(ps[l], rs, g[l - 1])}
                                               ELSE g[k]]
    OBVIOUS
  <2>6. \A k \in 0 .. l - 1 : g[k] = IF k = 0 THEN {} ELSE g[k - 1] \cup {Best(ps[k], rs, g[k - 1])}
    BY <2>4 DEF Takes
  <2>7. ASSUME NEW k \in 0 .. l
        PROVE  f[k] = IF k = 0 THEN {} ELSE f[k - 1] \cup {Best(ps[k], rs, f[k - 1])}
    <3>1. CASE k = l
      <4>1. f[l] = g[l - 1] \cup {Best(ps[l], rs, g[l - 1])} /\ f[l - 1] = g[l - 1]
        BY <2>3, <2>5
      <4> QED BY <2>2, <3>1, <4>1
    <3>2. CASE k # l
      <4>1. k \in 0 .. l - 1 /\ f[k] = g[k]
        BY <2>3, <2>5, <3>2
      <4>2. k # 0 => f[k - 1] = g[k - 1]
        BY <2>3, <2>5, <4>1
      <4> QED BY <2>6, <4>1, <4>2
    <3> QED BY <3>1, <3>2
  <2>8. f = [k \in 0 .. l |-> f[k]]
    BY <2>5
  <2>9. Takes(ps, rs, l, f)
    BY <2>7, <2>8 DEF Takes
  <2> QED BY <2>1, <2>9
<1> QED BY <1>1, <1>2

\* The partners chosen for the first n of ps.
Chosen(c, n) == {c[l] : l \in 1 .. n}

\* The device made of the k-th of ps, and the one made of the i-th of rs alone.
DeviceAt(ps, rs, c, k) == [px |-> ps[k], reese |-> IF c[k] = 0 THEN None ELSE rs[c[k]]]
DeviceAlone(rs, i) == [px |-> None, reese |-> rs[i]]

\* Every profile of ps has the best partner that those before it have left.
Greedy(ps, rs, c) ==
    \A k \in 1 .. Len(ps) : c[k] = Best(ps[k], rs, Chosen(c, k - 1))

LEMMA PairIsGreedy ==
    ASSUME NEW S, NEW ps \in Seq(S), NEW rs
    PROVE  \E c : /\ Greedy(ps, rs, c)
                  /\ Pair(ps, rs) = {DeviceAt(ps, rs, c, k) : k \in 1 .. Len(ps)}
                       \cup {DeviceAlone(rs, i) : i \in DOMAIN rs \ Chosen(c, Len(ps))}
<1>1. PICK n \in Nat : n = Len(ps)
  OBVIOUS
<1>2. PICK f : f = CHOOSE g : Takes(ps, rs, Len(ps), g)
  OBVIOUS
<1>3. Takes(ps, rs, n, f)
  BY <1>1, <1>2, SomethingTakes
<1>4. f[0] = {} /\ \A k \in 1 .. n : f[k] = f[k - 1] \cup {Best(ps[k], rs, f[k - 1])}
  <2>1. \A k \in 0 .. n : f[k] = IF k = 0 THEN {} ELSE f[k - 1] \cup {Best(ps[k], rs, f[k - 1])}
    BY <1>3 DEF Takes
  <2>2. 0 \in 0 .. n /\ \A k \in 1 .. n : k \in 0 .. n /\ k # 0
    OBVIOUS
  <2> QED BY <2>1, <2>2
<1>5. PICK c : c = [k \in 1 .. n |-> Best(ps[k], rs, f[k - 1])]
  OBVIOUS
<1>6. \A k \in 0 .. n : f[k] = Chosen(c, k)
  <2> DEFINE T == {l \in Nat : l \in 0 .. n /\ f[l] # Chosen(c, l)}
  <2>1. CASE T = {}
    BY <2>1
  <2>2. CASE T # {}
    <3>1. PICK l \in T : \A m \in T : l <= m
      BY <2>2, LeastNumber
    <3>2. l # 0
      <4>1. Chosen(c, 0) = {}
        BY DEF Chosen
      <4> QED BY <1>4, <3>1, <4>1
    <3>3. l \in 1 .. n /\ l - 1 \in Nat /\ l - 1 \in 0 .. n /\ l - 1 \notin T
      BY <3>1, <3>2
    <3>4. f[l - 1] = Chosen(c, l - 1)
      BY <3>3
    <3>5. f[l] = f[l - 1] \cup {c[l]}
      BY <1>4, <1>5, <3>3
    <3>6. \A m : m \in 1 .. l <=> m \in 1 .. l - 1 \/ m = l
      BY <3>3
    <3>7. Chosen(c, l) = Chosen(c, l - 1) \cup {c[l]}
      BY <3>6 DEF Chosen
    <3> QED BY <3>1, <3>4, <3>5, <3>7
  <2> QED BY <2>1, <2>2
<1>7. Greedy(ps, rs, c)
  <2>1. ASSUME NEW k \in 1 .. n PROVE c[k] = Best(ps[k], rs, Chosen(c, k - 1))
    <3>1. k - 1 \in 0 .. n
      OBVIOUS
    <3> QED BY <1>5, <1>6, <3>1
  <2> QED BY <1>1, <2>1 DEF Greedy
<1>8. DOMAIN ps = 1 .. n
  BY <1>1
<1>9. Pair(ps, rs) =
        {[px |-> ps[k], reese |-> IF Best(ps[k], rs, f[k - 1]) = 0 THEN None
                                  ELSE rs[Best(ps[k], rs, f[k - 1])]] : k \in DOMAIN ps}
        \cup {[px |-> None, reese |-> rs[i]] : i \in DOMAIN rs \ f[Len(ps)]}
  BY <1>2 DEF Pair, Takes
<1>10. {[px |-> ps[k], reese |-> IF Best(ps[k], rs, f[k - 1]) = 0 THEN None
                                 ELSE rs[Best(ps[k], rs, f[k - 1])]] : k \in DOMAIN ps}
         = {DeviceAt(ps, rs, c, k) : k \in 1 .. Len(ps)}
  <2>1. \A k \in 1 .. n : c[k] = Best(ps[k], rs, f[k - 1])
    BY <1>5
  <2> QED BY <1>1, <1>8, <2>1 DEF DeviceAt
<1>11. f[Len(ps)] = Chosen(c, Len(ps))
  BY <1>1, <1>6
<1>12. Pair(ps, rs) = {DeviceAt(ps, rs, c, k) : k \in 1 .. Len(ps)}
                       \cup {DeviceAlone(rs, i) : i \in DOMAIN rs \ Chosen(c, Len(ps))}
  BY <1>9, <1>10, <1>11 DEF DeviceAlone
<1> QED BY <1>7, <1>12

----------------------------------------------------------------------------
(* Devices *)

\* Sequences of different px and of different reese profiles.
Listed(ps, rs) ==
    /\ ps \in Seq(Objects) /\ rs \in Seq(Objects)
    /\ \A k \in 1 .. Len(ps) : BucketOf[ps[k]] = "px"
    /\ \A i \in 1 .. Len(rs) : BucketOf[rs[i]] = "reese"
    /\ \A k, l \in 1 .. Len(ps) : ps[k] = ps[l] => k = l
    /\ \A i, j \in 1 .. Len(rs) : rs[i] = rs[j] => i = j

\* What is chosen for the k-th of ps: nobody, if no profile that is left over fits;
\* else one that fits, that no other is given, and nearer than all left over.
LEMMA ChosenWell ==
    ASSUME Timed, NEW ps, NEW rs, Listed(ps, rs), NEW c, Greedy(ps, rs, c),
           NEW k \in 1 .. Len(ps)
    PROVE  /\ \/ c[k] = 0 /\ \A i \in 1 .. Len(rs) :
                    i \notin Chosen(c, Len(ps)) => ~Fits(ps[k], rs[i])
              \/ /\ c[k] \in 1 .. Len(rs) /\ Fits(ps[k], rs[c[k]])
                 /\ \A i \in 1 .. Len(rs) :
                      i \notin Chosen(c, Len(ps)) /\ Fits(ps[k], rs[i]) =>
                         Distance(ps[k], rs[c[k]]) <= Distance(ps[k], rs[i])
           /\ \A l \in 1 .. Len(ps) : l < k /\ c[k] # 0 => c[l] # c[k]
<1>1. /\ Len(ps) \in Nat /\ Len(rs) \in Nat /\ ps[k] \in Objects /\ DOMAIN rs = 1 .. Len(rs)
      /\ rs \in Seq(Objects)
  BY DEF Listed
<1>2. PICK taken : taken = Chosen(c, k - 1)
  OBVIOUS
<1>3. taken \subseteq Chosen(c, Len(ps))
  <2>1. \A l \in 1 .. k - 1 : l \in 1 .. Len(ps)
    BY <1>1
  <2> QED BY <1>2, <2>1 DEF Chosen
<1>4. IsBest(ps[k], rs, taken, c[k])
  BY <1>1, <1>2, BestIsBest DEF Greedy
<1>5. \A i \in 1 .. Len(rs) : i \notin taken /\ Fits(ps[k], rs[i]) =>
                                 i \in Candidates(ps[k], rs, taken)
  BY <1>1 DEF Fits, Candidates
<1>6. CASE c[k] = 0 /\ Candidates(ps[k], rs, taken) = {}
  BY <1>3, <1>5, <1>6
<1>7. CASE /\ c[k] \in Candidates(ps[k], rs, taken)
           /\ \A i \in Candidates(ps[k], rs, taken) :
                Distance(ps[k], rs[c[k]]) <= Distance(ps[k], rs[i])
  <2>1. c[k] \in 1 .. Len(rs) /\ c[k] \notin taken /\ Fits(ps[k], rs[c[k]])
    BY <1>1, <1>7 DEF Candidates, Fits
  <2>2. \A l \in 1 .. Len(ps) : l < k => l \in 1 .. k - 1
    BY <1>1
  <2>3. \A l \in 1 .. Len(ps) : l < k => c[l] # c[k]
    BY <1>2, <2>1, <2>2 DEF Chosen
  <2> QED BY <1>3, <1>5, <1>7, <2>1, <2>3
<1> QED BY <1>4, <1>6, <1>7 DEF IsBest

\* Set of devices ds has every profile of ps and rs once and no other, and its
\* pairs are as close as can be.
Accounts(ds, ps, rs) ==
    /\ \A o \in Objects :
         \/ (o \in ToSet(ps) \/ o \in ToSet(rs)) /\ \E d \in ds : \A e \in ds : o \in {e.px, e.reese} <=> e = d
         \/ o \notin ToSet(ps) /\ o \notin ToSet(rs) /\ \A e \in ds : o \notin {e.px, e.reese}
    /\ \A d \in ds : d.px # None \/ d.reese # None
    /\ \A d \in ds : d.px # None => BucketOf[d.px] = "px"
    /\ \A d \in ds : d.reese # None => BucketOf[d.reese] = "reese"
    /\ \A d \in ds : d.px # None /\ d.reese # None => Fits(d.px, d.reese)
    /\ \A d, e \in ds : d.px # None /\ d.reese = None /\ e.px = None => ~Fits(d.px, e.reese)
    /\ \A d, e \in ds : d.px # None /\ d.reese # None /\ e.px = None /\ Fits(d.px, e.reese) =>
                           Distance(d.px, d.reese) <= Distance(d.px, e.reese)

LEMMA PairAccounts ==
    ASSUME Timed, NEW ps, NEW rs, Listed(ps, rs)
    PROVE  Accounts(Pair(ps, rs), ps, rs)
<1>1. PICK m \in Nat, n \in Nat : m = Len(ps) /\ n = Len(rs)
  BY DEF Listed
<1>2. /\ ps \in Seq(Objects) /\ DOMAIN ps = 1 .. m /\ DOMAIN rs = 1 .. n
      /\ \A k \in 1 .. m : ps[k] \in Objects /\ BucketOf[ps[k]] = "px"
      /\ \A i \in 1 .. n : rs[i] \in Objects /\ BucketOf[rs[i]] = "reese"
      /\ \A k, l \in 1 .. m : ps[k] = ps[l] => k = l
      /\ \A i, j \in 1 .. n : rs[i] = rs[j] => i = j
  BY <1>1 DEF Listed
<1>3. None \notin Objects
  BY ObjectsAssumption
<1>4. PICK c : /\ Greedy(ps, rs, c)
               /\ Pair(ps, rs) = {DeviceAt(ps, rs, c, k) : k \in 1 .. m}
                    \cup {DeviceAlone(rs, i) : i \in (1 .. n) \ Chosen(c, m)}
  BY <1>1, <1>2, PairIsGreedy
<1>5. PICK left : left = (1 .. n) \ Chosen(c, m)
  OBVIOUS
<1>6. PICK ds : ds = Pair(ps, rs)
  OBVIOUS
<1>7. PICK dev : dev = [k \in 1 .. m |-> DeviceAt(ps, rs, c, k)]
  OBVIOUS
<1>8. PICK alone : alone = [i \in 1 .. n |-> DeviceAlone(rs, i)]
  OBVIOUS
<1>9. \A k \in 1 .. m :
        /\ dev[k] \in ds /\ dev[k].px = ps[k] /\ dev[k].px # None
        /\ c[k] = 0 => dev[k].reese = None
        /\ c[k] # 0 => dev[k].reese = rs[c[k]]
  BY <1>2, <1>3, <1>4, <1>6, <1>7 DEF DeviceAt
<1>10. \A i \in left : i \in 1 .. n /\ alone[i] \in ds /\ alone[i].px = None /\ alone[i].reese = rs[i]
  BY <1>4, <1>5, <1>6, <1>8 DEF DeviceAlone
<1>11. \A d \in ds : (\E k \in 1 .. m : d = dev[k]) \/ (\E i \in left : d = alone[i])
  BY <1>4, <1>5, <1>6, <1>7, <1>8
<1>12. ASSUME NEW k \in 1 .. m
       PROVE  \/ c[k] = 0 /\ dev[k].reese = None /\ \A i \in left : ~Fits(ps[k], rs[i])
              \/ /\ c[k] \in 1 .. n /\ c[k] # 0 /\ dev[k].reese = rs[c[k]] /\ dev[k].reese # None
                 /\ Fits(ps[k], rs[c[k]])
                 /\ \A i \in left : Fits(ps[k], rs[i]) =>
                       Distance(ps[k], rs[c[k]]) <= Distance(ps[k], rs[i])
  <2>1. \/ c[k] = 0 /\ \A i \in 1 .. n : i \notin Chosen(c, m) => ~Fits(ps[k], rs[i])
        \/ /\ c[k] \in 1 .. n /\ Fits(ps[k], rs[c[k]])
           /\ \A i \in 1 .. n : i \notin Chosen(c, m) /\ Fits(ps[k], rs[i]) =>
                Distance(ps[k], rs[c[k]]) <= Distance(ps[k], rs[i])
    BY <1>1, <1>4, ChosenWell
  <2>2. \A i \in left : i \in 1 .. n /\ i \notin Chosen(c, m)
    BY <1>5
  <2>3. CASE c[k] = 0 /\ \A i \in 1 .. n : i \notin Chosen(c, m) => ~Fits(ps[k], rs[i])
    BY <1>9, <2>2, <2>3
  <2>4. CASE /\ c[k] \in 1 .. n /\ Fits(ps[k], rs[c[k]])
             /\ \A i \in 1 .. n : i \notin Chosen(c, m) /\ Fits(ps[k], rs[i]) =>
                  Distance(ps[k], rs[c[k]]) <= Distance(ps[k], rs[i])
    <3>1. c[k] # 0 /\ rs[c[k]] # None
      BY <1>2, <1>3, <2>4
    <3> QED BY <1>9, <2>2, <2>4, <3>1
  <2> QED BY <2>1, <2>3, <2>4
<1>13. ASSUME NEW k \in 1 .. m, NEW l \in 1 .. m, c[k] = c[l], c[k] # 0
       PROVE  k = l
  <2>1. ~(l < k) /\ ~(k < l)
    BY <1>1, <1>4, <1>13, ChosenWell
  <2> QED BY <2>1
<1>14. \A i \in 1 .. n : i \in left \/ \E k \in 1 .. m : c[k] = i
  BY <1>5 DEF Chosen
<1>15. \A i \in left, k \in 1 .. m : c[k] # i
  BY <1>5 DEF Chosen
<1>16. ASSUME NEW k \in 1 .. m, NEW e \in ds
       PROVE  ps[k] \in {e.px, e.reese} <=> e = dev[k]
  <2>1. e = dev[k] => ps[k] \in {e.px, e.reese}
    BY <1>9
  <2>2. ASSUME NEW l \in 1 .. m, e = dev[l], ps[k] \in {e.px, e.reese} PROVE e = dev[k]
    <3>1. ps[k] # e.reese
      BY <1>2, <1>3, <1>12, <2>2
    <3>2. ps[k] = ps[l]
      BY <1>9, <2>2, <3>1
    <3> QED BY <1>2, <2>2, <3>2
  <2>3. ASSUME NEW j \in left, e = alone[j] PROVE ps[k] \notin {e.px, e.reese}
    BY <1>2, <1>3, <1>10, <2>3
  <2> QED BY <1>11, <2>1, <2>2, <2>3
<1>17. ASSUME NEW i \in left, NEW e \in ds
       PROVE  rs[i] \in {e.px, e.reese} <=> e = alone[i]
  <2>1. e = alone[i] => rs[i] \in {e.px, e.reese}
    BY <1>10
  <2>2. ASSUME NEW l \in 1 .. m, e = dev[l] PROVE rs[i] \notin {e.px, e.reese}
    <3>1. rs[i] # e.px
      BY <1>2, <1>9, <1>10, <2>2
    <3>2. rs[i] # e.reese
      BY <1>2, <1>3, <1>10, <1>12, <1>15, <2>2
    <3> QED BY <3>1, <3>2
  <2>3. ASSUME NEW j \in left, e = alone[j], rs[i] \in {e.px, e.reese} PROVE e = alone[i]
    <3>1. rs[i] = rs[j]
      BY <1>2, <1>3, <1>10, <2>3
    <3> QED BY <1>2, <1>10, <2>3, <3>1
  <2> QED BY <1>11, <2>1, <2>2, <2>3
<1>18. ASSUME NEW k \in 1 .. m, c[k] \in 1 .. n, NEW e \in ds
       PROVE  rs[c[k]] \in {e.px, e.reese} <=> e = dev[k]
  <2>1. e = dev[k] => rs[c[k]] \in {e.px, e.reese}
    BY <1>9, <1>18
  <2>2. ASSUME NEW l \in 1 .. m, e = dev[l], rs[c[k]] \in {e.px, e.reese} PROVE e = dev[k]
    <3>1. rs[c[k]] # e.px
      BY <1>2, <1>9, <1>18, <2>2
    <3>2. c[l] \in 1 .. n /\ rs[c[k]] = rs[c[l]] /\ c[k] # 0
      BY <1>2, <1>3, <1>12, <1>18, <2>2, <3>1
    <3>3. c[k] = c[l]
      BY <1>2, <1>18, <3>2
    <3> QED BY <1>13, <2>2, <3>2, <3>3
  <2>3. ASSUME NEW j \in left, e = alone[j] PROVE rs[c[k]] \notin {e.px, e.reese}
    <3>1. rs[c[k]] # e.px /\ e.reese = rs[j] /\ j \in 1 .. n
      BY <1>2, <1>3, <1>10, <1>18, <2>3
    <3>2. rs[c[k]] # rs[j]
      BY <1>2, <1>15, <1>18, <3>1
    <3> QED BY <3>1, <3>2
  <2> QED BY <1>11, <2>1, <2>2, <2>3
<1>19. ASSUME NEW o \in Objects
       PROVE  \/ (o \in ToSet(ps) \/ o \in ToSet(rs)) /\ \E d \in ds : \A e \in ds : o \in {e.px, e.reese} <=> e = d
              \/ o \notin ToSet(ps) /\ o \notin ToSet(rs) /\ \A e \in ds : o \notin {e.px, e.reese}
  <2>1. /\ o \in ToSet(ps) <=> \E k \in 1 .. m : o = ps[k]
        /\ o \in ToSet(rs) <=> \E i \in 1 .. n : o = rs[i]
    BY <1>2 DEF ToSet
  <2>2. ASSUME NEW k \in 1 .. m, o = ps[k]
        PROVE  \E d \in ds : \A e \in ds : o \in {e.px, e.reese} <=> e = d
    BY <1>9, <1>16, <2>2
  <2>3. ASSUME NEW i \in 1 .. n, o = rs[i]
        PROVE  \E d \in ds : \A e \in ds : o \in {e.px, e.reese} <=> e = d
    <3>1. CASE i \in left
      BY <1>10, <1>17, <2>3, <3>1
    <3>2. CASE i \notin left
      <4>1. PICK k \in 1 .. m : c[k] = i
        BY <1>14, <3>2
      <4> QED BY <1>9, <1>18, <2>3, <4>1
    <3> QED BY <3>1, <3>2
  <2>4. ASSUME o \notin ToSet(ps), o \notin ToSet(rs), NEW e \in ds
        PROVE  o \notin {e.px, e.reese}
    <3>1. o # None
      BY <1>3
    <3>2. ASSUME NEW l \in 1 .. m, e = dev[l] PROVE o \notin {e.px, e.reese}
      BY <1>9, <1>12, <2>1, <2>4, <3>1, <3>2
    <3>3. ASSUME NEW j \in left, e = alone[j] PROVE o \notin {e.px, e.reese}
      BY <1>10, <2>1, <2>4, <3>1, <3>3
    <3> QED BY <1>11, <3>2, <3>3
  <2> QED BY <2>1, <2>2, <2>3, <2>4
<1>20. /\ \A d \in ds : d.px # None \/ d.reese # None
       /\ \A d \in ds : d.px # None => BucketOf[d.px] = "px"
       /\ \A d \in ds : d.reese # None => BucketOf[d.reese] = "reese"
       /\ \A d \in ds : d.px # None /\ d.reese # None => Fits(d.px, d.reese)
  <2>1. ASSUME NEW k \in 1 .. m, NEW d, d = dev[k]
        PROVE  /\ d.px # None /\ BucketOf[d.px] = "px"
               /\ d.reese # None => BucketOf[d.reese] = "reese" /\ Fits(d.px, d.reese)
    BY <1>2, <1>9, <1>12, <2>1
  <2>2. ASSUME NEW i \in left, NEW d, d = alone[i]
        PROVE  d.px = None /\ d.reese # None /\ BucketOf[d.reese] = "reese"
    BY <1>2, <1>3, <1>10, <2>2
  <2> QED BY <1>11, <2>1, <2>2
<1>21. ASSUME NEW d \in ds, NEW e \in ds, d.px # None, e.px = None
       PROVE  /\ d.reese = None => ~Fits(d.px, e.reese)
              /\ d.reese # None /\ Fits(d.px, e.reese) =>
                   Distance(d.px, d.reese) <= Distance(d.px, e.reese)
  <2>1. PICK k \in 1 .. m : d = dev[k]
    BY <1>10, <1>11, <1>21
  <2>2. PICK i \in left : e = alone[i]
    BY <1>9, <1>11, <1>21
  <2>3. d.px = ps[k] /\ e.reese = rs[i]
    BY <1>9, <1>10, <2>1, <2>2
  <2> QED BY <1>12, <2>1, <2>3
<1> QED BY <1>6, <1>19, <1>20, <1>21 DEF Accounts

----------------------------------------------------------------------------
(* The tasks *)

Running == {o \in Objects : job[o] = "running"}

\* The permits that are out are held by the tasks that run.
PermitInv ==
    /\ TimeOf \in Times
    /\ job \in [Objects -> JobStates]
    /\ permits \in Nat
    /\ Cardinality(Running) + permits = Concurrency
    /\ pc \in {"start", "listing"} => \A o \in Objects : job[o] = "none"

LEMMA RunningIsFinite == IsFiniteSet(Running) /\ Cardinality(Running) \in Nat
<1>1. IsFiniteSet(Running)
  BY ObjectsAssumption, FS_Subset DEF Running
<1> QED BY <1>1, FS_CardinalityType

\* A step after which as many tasks run as before.
LEMMA SameRunning ==
    ASSUME PermitInv, TimeOf' = TimeOf, permits' = permits, job' \in [Objects -> JobStates],
           \A o \in Objects : job'[o] = "running" <=> job[o] = "running",
           pc' \in {"start", "listing"} => \A o \in Objects : job'[o] = "none"
    PROVE  PermitInv'
<1>1. Running' = Running
  BY DEF Running
<1> QED BY <1>1 DEF PermitInv

LEMMA AcquirePermits == ASSUME PermitInv, NEW o \in Objects, Acquire(o) PROVE PermitInv'
<1>1. Running' = Running \cup {o} /\ o \notin Running
  BY DEF Running, Acquire, PermitInv
<1>2. IsFiniteSet(Running) /\ Cardinality(Running) \in Nat
  BY RunningIsFinite
<1>3. Cardinality(Running') = Cardinality(Running) + 1
  BY <1>1, <1>2, FS_AddElement
<1>4. permits' \in Nat /\ permits' = permits - 1 /\ permits \in Nat
  BY DEF Acquire, PermitInv
<1>5. Cardinality(Running') + permits' = Concurrency
  BY <1>2, <1>3, <1>4, BoundsAssumption DEF PermitInv
<1>6. job' \in [Objects -> JobStates] /\ TimeOf' \in Times
  BY DEF Acquire, PermitInv, JobStates
<1>7. pc' \notin {"start", "listing"}
  BY DEF Acquire, PermitInv
<1> QED BY <1>4, <1>5, <1>6, <1>7 DEF PermitInv

LEMMA FetchedPermits == ASSUME PermitInv, NEW o \in Objects, Fetched(o) PROVE PermitInv'
<1>1. PICK outcome \in {"some", "nothing", "panicked"} : job' = [job EXCEPT ![o] = outcome]
  BY DEF Fetched
<1>2. Running' = Running \ {o} /\ o \in Running
  BY <1>1 DEF Running, Fetched, PermitInv
<1>3. IsFiniteSet(Running) /\ Cardinality(Running) \in Nat
  BY RunningIsFinite
<1>4. Cardinality(Running') = Cardinality(Running) - 1
  BY <1>2, <1>3, FS_RemoveElement
<1>5. permits' \in Nat /\ permits' = permits + 1 /\ permits \in Nat
  BY DEF Fetched, PermitInv
<1>6. Cardinality(Running') + permits' = Concurrency
  BY <1>3, <1>4, <1>5, BoundsAssumption DEF PermitInv
<1>7. job' \in [Objects -> JobStates] /\ TimeOf' \in Times
  BY <1>1 DEF Fetched, PermitInv, JobStates
<1>8. pc' \notin {"start", "listing"}
  BY DEF Fetched, PermitInv
<1> QED BY <1>5, <1>6, <1>7, <1>8 DEF PermitInv

LEMMA JoinPermits == ASSUME PermitInv, NEW o \in Objects, Join(o) PROVE PermitInv'
<1>0. pc' \notin {"start", "listing"}
  BY DEF Join
<1>1. CASE job[o] \in {"some", "nothing"} /\ job' = [job EXCEPT ![o] = "joined"] /\ permits' = permits
  <2>1. job' \in [Objects -> JobStates] /\ TimeOf' = TimeOf
    BY <1>1 DEF Join, PermitInv, JobStates
  <2>2. \A x \in Objects : job'[x] = "running" <=> job[x] = "running"
    BY <1>1 DEF PermitInv
  <2> QED BY <1>0, <1>1, <2>1, <2>2, SameRunning
<1>2. CASE /\ job' = [x \in Objects |-> IF job[x] = "none" THEN "none" ELSE "aborted"]
           /\ permits' = Concurrency
  <2>1. Running' = {}
    BY <1>2 DEF Running
  <2>2. Cardinality(Running') = 0
    BY <2>1, FS_EmptySet
  <2>3. job' \in [Objects -> JobStates] /\ TimeOf' \in Times /\ permits' \in Nat
    BY <1>2, BoundsAssumption DEF Join, PermitInv, JobStates
  <2>4. Cardinality(Running') + permits' = Concurrency
    BY <1>2, <2>2, BoundsAssumption
  <2> QED BY <1>0, <2>3, <2>4 DEF PermitInv
<1> QED BY <1>1, <1>2 DEF Join

LEMMA InitPermits == Init => PermitInv
<1> SUFFICES ASSUME Init PROVE PermitInv
  OBVIOUS
<1>1. Running = {}
  BY DEF Init, Running
<1>2. Cardinality(Running) = 0
  BY <1>1, FS_EmptySet
<1> QED BY <1>2, BoundsAssumption DEF Init, PermitInv, JobStates

LEMMA NextPermits == PermitInv /\ [Next]_vars => PermitInv'
<1> SUFFICES ASSUME PermitInv, [Next]_vars PROVE PermitInv'
  OBVIOUS
<1>1. CASE \E o \in Objects : JobStep(o)
  BY <1>1, AcquirePermits, FetchedPermits, JoinPermits DEF JobStep
<1>2. CASE Spawn
  <2>1. \A o \in Objects : job'[o] \in {"queued", "none"}
    BY <1>2 DEF Spawn
  <2>2. job' \in [Objects -> JobStates] /\ TimeOf' = TimeOf /\ permits' = permits
    BY <1>2 DEF Spawn, JobStates
  <2>3. pc' = "collecting" /\ \A o \in Objects : job[o] = "none"
    BY <1>2 DEF Spawn, PermitInv
  <2> QED BY <2>1, <2>2, <2>3, SameRunning
<1>3. CASE Start \/ ListStep \/ Finish \/ Loaded \/ UNCHANGED vars
  <2>1. /\ TimeOf' = TimeOf /\ permits' = permits /\ job' = job
        /\ pc' \in {"start", "listing"} => pc \in {"start", "listing"}
    BY <1>3 DEF Start, ListStep, ReadPage, ListingFails, Finish, Loaded, vars
  <2> QED BY <2>1, SameRunning DEF PermitInv
<1> QED BY <1>1, <1>2, <1>3 DEF Next

----------------------------------------------------------------------------
(* What is listed, what is parsed and what comes of it *)

\* Nothing is collected before both listings are complete.
ListInv ==
    /\ DOMAIN page = Buckets /\ DOMAIN listed = Buckets
    /\ \A b \in Buckets :
         /\ page[b] \in 0 .. Len(PagesOf[b])
         /\ \A o : o \in listed[b] <=> \E i \in 1 .. page[b] : o \in PagesOf[b][i]
    /\ pc = "collecting" \/ result.status = "ok" => \A b \in Buckets : Complete(b)

\* An object is parsed once, and then in its own bucket.
ParsedInv ==
    /\ parsed \in [Buckets -> Seq(Objects)]
    /\ pc \in {"start", "listing"} => \A b \in Buckets : parsed[b] = <<>>
    /\ \A b \in Buckets : \A i \in 1 .. Len(parsed[b]) :
         /\ BucketOf[parsed[b][i]] = b
         /\ pc = "collecting" => job[parsed[b][i]] = "joined"
         /\ \A j \in 1 .. Len(parsed[b]) : parsed[b][i] = parsed[b][j] => i = j

ResultInv ==
    /\ result.status # "ok" => result.devices = {}
    /\ result.status = "ok" =>
         /\ pc = "done"
         /\ \E ps \in Sorted(parsed["px"]), rs \in Sorted(parsed["reese"]) :
              result.devices = Pair(ps, rs)
    /\ pc # "done" => result.status # "ok"

LoadInv == PermitInv /\ ListInv /\ ParsedInv /\ ResultInv

LEMMA PagesType == \A b \in Buckets : Len(PagesOf[b]) \in Nat /\ DOMAIN PagesOf[b] = 1 .. Len(PagesOf[b])
<1>1. \A b \in Buckets : PagesOf[b] \in Seq(SUBSET Objects)
  BY ObjectsAssumption
<1> QED BY <1>1

\* Another page is read.
LEMMA PageListed ==
    ASSUME ListInv, ResultInv, NEW b \in Buckets, ReadPage(b)
    PROVE  ListInv'
<1>1. /\ pc = "listing" /\ page[b] # Len(PagesOf[b]) /\ page' = [page EXCEPT ![b] = @ + 1]
      /\ listed' = [listed EXCEPT ![b] = @ \cup PagesOf[b][page[b] + 1]]
      /\ pc' = pc /\ result' = result
  BY DEF ReadPage, Complete
<1>2. PICK n \in Nat : n = page[b]
  BY PagesType DEF ListInv
<1>3. n + 1 \in 0 .. Len(PagesOf[b])
  <2>1. PICK m \in Nat : m = Len(PagesOf[b])
    BY PagesType
  <2>2. n \in 0 .. m /\ n # m
    BY <1>1, <1>2, <2>1 DEF ListInv
  <2> QED BY <2>1, <2>2
<1>4. \A i : i \in 1 .. n + 1 <=> i \in 1 .. n \/ i = n + 1
  BY <1>2
<1>5. ASSUME NEW o
      PROVE  (\E i \in 1 .. n + 1 : o \in PagesOf[b][i]) <=>
                (\E i \in 1 .. n : o \in PagesOf[b][i]) \/ o \in PagesOf[b][n + 1]
  BY <1>4
<1>6. /\ page'[b] = n + 1 /\ listed'[b] = listed[b] \cup PagesOf[b][n + 1]
      /\ \A x \in Buckets : x # b => page'[x] = page[x] /\ listed'[x] = listed[x]
      /\ DOMAIN page' = Buckets /\ DOMAIN listed' = Buckets
  BY <1>1, <1>2 DEF ListInv
<1>7. ASSUME NEW x \in Buckets
      PROVE  /\ page'[x] \in 0 .. Len(PagesOf[x])
             /\ \A o : o \in listed'[x] <=> \E i \in 1 .. page'[x] : o \in PagesOf[x][i]
  <2>1. CASE x = b
    BY <1>2, <1>3, <1>5, <1>6, <2>1 DEF ListInv
  <2>2. CASE x # b
    BY <1>6, <2>2 DEF ListInv
  <2> QED BY <2>1, <2>2
<1>8. ~(pc' = "collecting" \/ result'.status = "ok")
  BY <1>1 DEF ResultInv
<1> QED BY <1>6, <1>7, <1>8 DEF ListInv

LEMMA NextListed == LoadInv /\ [Next]_vars => ListInv'
<1> SUFFICES ASSUME LoadInv, [Next]_vars PROVE ListInv'
  OBVIOUS
<1>1. PermitInv /\ ListInv /\ ParsedInv /\ ResultInv
  BY DEF LoadInv
<1>2. CASE \E b \in Buckets : ReadPage(b)
  BY <1>1, <1>2, PageListed
<1>3. CASE Spawn
  BY <1>1, <1>3 DEF Spawn, ListInv, Complete
<1>4. CASE Finish
  <2>1. page' = page /\ listed' = listed /\ pc = "collecting"
    BY <1>4 DEF Finish
  <2> QED BY <1>1, <2>1 DEF ListInv, Complete
<1>5. CASE \/ \E b \in Buckets : ListingFails(b)
           \/ Start \/ Loaded \/ UNCHANGED vars
           \/ \E o \in Objects : JobStep(o)
  <2>1. /\ page' = page /\ listed' = listed
        /\ pc' = "collecting" => pc = "collecting"
        /\ result'.status = "ok" => result.status = "ok"
    <3>1. CASE \E b \in Buckets : ListingFails(b)
      BY <3>1 DEF ListingFails, NoResult
    <3>2. CASE Start
      BY <3>2 DEF Start, NoResult
    <3>3. CASE Loaded \/ UNCHANGED vars
      BY <3>3 DEF Loaded, vars
    <3>4. CASE \E o \in Objects : JobStep(o)
      BY <3>4 DEF JobStep, Acquire, Fetched, Join, NoResult
    <3> QED BY <1>5, <3>1, <3>2, <3>3, <3>4
  <2> QED BY <1>1, <2>1 DEF ListInv, Complete
<1> QED BY <1>2, <1>3, <1>4, <1>5 DEF Next, ListStep

\* An object that is joined is not yet among those parsed.
LEMMA JoinParsed ==
    ASSUME PermitInv, ParsedInv, NEW o \in Objects, Join(o), pc' = "collecting"
    PROVE  ParsedInv'
<1>1. pc = "collecting" /\ job[o] \in {"some", "nothing"} /\ job' = [job EXCEPT ![o] = "joined"]
  BY DEF Join
<1>2. /\ job' \in [Objects -> JobStates] /\ job'[o] = "joined"
      /\ \A x \in Objects : x # o => job'[x] = job[x]
  BY <1>1 DEF PermitInv, JobStates
<1>3. PICK b \in Buckets : b = BucketOf[o]
  BY ObjectsAssumption
<1>4. ASSUME NEW x \in Buckets, NEW i \in 1 .. Len(parsed[x])
      PROVE  /\ parsed[x][i] \in Objects /\ parsed[x][i] # o
             /\ BucketOf[parsed[x][i]] = x /\ job'[parsed[x][i]] = "joined"
             /\ \A j \in 1 .. Len(parsed[x]) : parsed[x][i] = parsed[x][j] => i = j
  <2>1. parsed[x] \in Seq(Objects)
    BY DEF ParsedInv
  <2>2. parsed[x][i] \in Objects
    BY <2>1
  <2>3. job[parsed[x][i]] = "joined"
    BY <1>1 DEF ParsedInv
  <2> QED BY <1>1, <1>2, <2>2, <2>3 DEF ParsedInv
<1>5. CASE parsed' = parsed
  BY <1>1, <1>4, <1>5 DEF ParsedInv
<1>6. CASE parsed' = [parsed EXCEPT ![b] = Append(@, o)]
  <2>1. PICK s \in Seq(Objects) : s = parsed[b]
    BY DEF ParsedInv
  <2>2. PICK n \in Nat : n = Len(s)
    OBVIOUS
  <2>3. PICK t : t = Append(s, o)
    OBVIOUS
  <2>4. t \in Seq(Objects) /\ Len(t) = n + 1 /\ t[n + 1] = o /\ \A i \in 1 .. n : t[i] = s[i]
    BY <2>2, <2>3
  <2>5. /\ parsed' \in [Buckets -> Seq(Objects)] /\ parsed'[b] = t
        /\ \A x \in Buckets : x # b => parsed'[x] = parsed[x]
    BY <1>6, <2>1, <2>3, <2>4 DEF ParsedInv
  <2>6. \A i \in 1 .. n + 1 : i \in 1 .. n \/ i = n + 1
    OBVIOUS
  <2>7. ASSUME NEW i \in 1 .. n + 1
        PROVE  /\ BucketOf[t[i]] = b /\ job'[t[i]] = "joined"
               /\ \A j \in 1 .. n + 1 : t[i] = t[j] => i = j
    <3>1. \A j \in 1 .. n : /\ t[j] = parsed[b][j] /\ t[j] # o /\ BucketOf[t[j]] = b
                            /\ job'[t[j]] = "joined"
      BY <1>4, <2>1, <2>2, <2>4
    <3>2. \A j, k \in 1 .. n : t[j] = t[k] => j = k
      BY <1>4, <2>1, <2>2, <3>1
    <3> QED BY <1>2, <1>3, <2>4, <2>6, <3>1, <3>2
  <2>8. ASSUME NEW x \in Buckets, NEW i \in 1 .. Len(parsed'[x])
        PROVE  /\ BucketOf[parsed'[x][i]] = x /\ job'[parsed'[x][i]] = "joined"
               /\ \A j \in 1 .. Len(parsed'[x]) : parsed'[x][i] = parsed'[x][j] => i = j
    <3>1. CASE x = b
      BY <2>4, <2>5, <2>7, <2>8, <3>1
    <3>2. CASE x # b
      BY <1>4, <2>5, <2>8, <3>2
    <3> QED BY <3>1, <3>2
  <2> QED BY <1>1, <2>5, <2>8 DEF ParsedInv
<1> QED BY <1>1, <1>3, <1>5, <1>6 DEF Join

LEMMA NextParsed == LoadInv /\ [Next]_vars => ParsedInv'
<1> SUFFICES ASSUME LoadInv, [Next]_vars PROVE ParsedInv'
  OBVIOUS
<1>1. PermitInv /\ ParsedInv
  BY DEF LoadInv
<1>2. CASE Spawn
  <2>1. parsed' = parsed /\ pc = "listing" /\ pc' = "collecting"
    BY <1>2 DEF Spawn
  <2>2. \A b \in Buckets : Len(parsed[b]) = 0
    BY <1>1, <2>1 DEF ParsedInv
  <2> QED BY <1>1, <2>1, <2>2 DEF ParsedInv
<1>3. CASE \E o \in Objects : Join(o)
  <2>1. PICK o \in Objects : Join(o)
    BY <1>3
  <2>2. CASE pc' = "collecting"
    BY <1>1, <2>1, <2>2, JoinParsed
  <2>3. CASE pc' # "collecting"
    <3>1. parsed' = parsed /\ pc' = "done"
      BY <2>1, <2>3 DEF Join
    <3> QED BY <1>1, <3>1 DEF ParsedInv
  <2> QED BY <2>2, <2>3
<1>4. CASE \E o \in Objects : Acquire(o) \/ Fetched(o)
  <2>1. /\ parsed' = parsed /\ pc' = pc
        /\ \A x \in Objects : job[x] = "joined" => job'[x] = "joined"
    BY <1>1, <1>4 DEF Acquire, Fetched, PermitInv
  <2>2. \A b \in Buckets : \A i \in 1 .. Len(parsed[b]) : parsed[b][i] \in Objects
    BY <1>1 DEF ParsedInv
  <2> QED BY <1>1, <2>1, <2>2 DEF ParsedInv
<1>5. CASE Start \/ ListStep \/ Finish \/ Loaded \/ UNCHANGED vars
  <2>1. /\ parsed' = parsed /\ job' = job
        /\ pc' = "collecting" => pc = "collecting"
        /\ pc' \in {"start", "listing"} => pc \in {"start", "listing"}
    BY <1>5 DEF Start, ListStep, ReadPage, ListingFails, Finish, Loaded, vars
  <2> QED BY <1>1, <2>1 DEF ParsedInv
<1> QED BY <1>2, <1>3, <1>4, <1>5 DEF Next, JobStep

LEMMA NextResult == LoadInv /\ [Next]_vars => ResultInv'
<1> SUFFICES ASSUME LoadInv, [Next]_vars PROVE ResultInv'
  OBVIOUS
<1>1. ResultInv
  BY DEF LoadInv
<1>2. TimeOf' = TimeOf
  BY DEF Next, Start, ListStep, ReadPage, ListingFails, Spawn, JobStep, Acquire, Fetched, Join,
         Finish, Loaded, vars
<1>3. \A ps, rs : Pair(ps, rs)' = Pair(ps, rs)
  BY <1>2 DEF Pair, Best, Candidates, Distance
<1>4. \A s : Sorted(s)' = Sorted(s)
  BY <1>2 DEF Sorted
<1>5. CASE Finish
  <2>1. /\ pc' = "done" /\ parsed' = parsed
        /\ \/ result' = [NoResult EXCEPT !.status = "empty"]
           \/ \E ps \in Sorted(parsed["px"]), rs \in Sorted(parsed["reese"]) :
                result' = [status |-> "ok", devices |-> Pair(ps, rs)]
    BY <1>5 DEF Finish
  <2>2. CASE result' = [NoResult EXCEPT !.status = "empty"]
    BY <2>1, <2>2 DEF ResultInv, NoResult
  <2>3. CASE \E ps \in Sorted(parsed["px"]), rs \in Sorted(parsed["reese"]) :
               result' = [status |-> "ok", devices |-> Pair(ps, rs)]
    <3>1. PICK ps \in Sorted(parsed["px"]), rs \in Sorted(parsed["reese"]) :
             result' = [status |-> "ok", devices |-> Pair(ps, rs)]
      BY <2>3
    <3>2. result'.status = "ok" /\ result'.devices = Pair(ps, rs)'
      BY <1>3, <3>1
    <3>3. ps \in Sorted(parsed["px"])' /\ rs \in Sorted(parsed["reese"])'
      BY <1>4, <2>1
    <3> QED BY <2>1, <3>2, <3>3 DEF ResultInv
  <2> QED BY <2>1, <2>2, <2>3
<1>6. CASE result' = result /\ parsed' = parsed /\ (pc = "done" => pc' = "done") /\ (pc' = "done" => pc = "done")
  BY <1>1, <1>2, <1>3, <1>4, <1>6 DEF ResultInv
<1>7. CASE pc' = "done" /\ result'.status # "ok" /\ result'.devices = {}
  BY <1>7 DEF ResultInv
<1>8. CASE pc # "done" /\ pc' # "done" /\ result' = result
  BY <1>1, <1>8 DEF ResultInv
<1>9. CASE Start
  <2>1. \/ pc # "done" /\ pc' # "done" /\ result' = result
        \/ pc' = "done" /\ result'.status # "ok" /\ result'.devices = {}
    BY <1>9 DEF Start, NoResult
  <2> QED BY <1>7, <1>8, <2>1
<1>10. CASE ListStep
  <2>1. \/ pc # "done" /\ pc' # "done" /\ result' = result
        \/ pc' = "done" /\ result'.status # "ok" /\ result'.devices = {}
    BY <1>10 DEF ListStep, ReadPage, ListingFails, NoResult
  <2> QED BY <1>7, <1>8, <2>1
<1>11. CASE Spawn
  BY <1>8, <1>11 DEF Spawn
<1>12. CASE \E o \in Objects : JobStep(o)
  <2>1. \/ pc # "done" /\ pc' # "done" /\ result' = result
        \/ pc' = "done" /\ result'.status # "ok" /\ result'.devices = {}
        \/ result' = result /\ parsed' = parsed /\ pc' = pc
    BY <1>12 DEF JobStep, Acquire, Fetched, Join, NoResult
  <2> QED BY <1>6, <1>7, <1>8, <2>1
<1>13. CASE Loaded \/ UNCHANGED vars
  BY <1>6, <1>13 DEF Loaded, vars
<1> QED BY <1>5, <1>9, <1>10, <1>11, <1>12, <1>13 DEF Next

----------------------------------------------------------------------------
(* A load is exact *)

\* A sorted sequence has the members of the one it is made from.
LEMMA SortedIsListed ==
    ASSUME ParsedInv, NEW ps \in Sorted(parsed["px"]), NEW rs \in Sorted(parsed["reese"])
    PROVE  /\ Listed(ps, rs)
           /\ ToSet(ps) = ToSet(parsed["px"]) /\ ToSet(rs) = ToSet(parsed["reese"])
<1>1. ASSUME NEW b \in Buckets, NEW t \in Sorted(parsed[b])
      PROVE  /\ t \in Seq(Objects) /\ ToSet(t) = ToSet(parsed[b])
             /\ \A k \in 1 .. Len(t) : BucketOf[t[k]] = b
             /\ \A k, l \in 1 .. Len(t) : t[k] = t[l] => k = l
  <2>1. PICK s \in Seq(Objects) : s = parsed[b]
    BY DEF ParsedInv
  <2>2. PICK n \in Nat : n = Len(s) /\ DOMAIN s = 1 .. n
    BY LenProperties
  <2>3. ToSet(s) \subseteq Objects /\ \A o \in ToSet(s) : BucketOf[o] = b
    <3>1. \A k \in 1 .. n : s[k] \in Objects /\ BucketOf[s[k]] = b
      BY <2>1, <2>2 DEF ParsedInv
    <3> QED BY <2>2, <3>1 DEF ToSet
  <2>4. /\ t \in [1 .. n -> ToSet(s)] /\ ToSet(t) = ToSet(s)
        /\ \A i, j \in 1 .. n : i < j => t[i] # t[j]
    BY <2>1, <2>2 DEF Sorted
  <2>5. t \in Seq(Objects) /\ Len(t) = n
    <3>1. t \in [1 .. n -> Objects]
      BY <2>3, <2>4
    <3> QED BY <3>1, <2>2
  <2>6. \A k \in 1 .. n : BucketOf[t[k]] = b
    BY <2>3, <2>4
  <2>7. \A k, l \in 1 .. n : t[k] = t[l] => k = l
    BY <2>4
  <2> QED BY <2>1, <2>4, <2>5, <2>6, <2>7
<1>2. "px" \in Buckets /\ "reese" \in Buckets
  BY DEF Buckets
<1> QED BY <1>1, <1>2 DEF Listed

LEMMA LoadIsAccounted ==
    ASSUME LoadInv, result.status = "ok"
    PROVE  \E ps, rs : /\ Accounts(result.devices, ps, rs)
                       /\ ToSet(ps) = ToSet(parsed["px"]) /\ ToSet(rs) = ToSet(parsed["reese"])
<1>1. PICK ps \in Sorted(parsed["px"]), rs \in Sorted(parsed["reese"]) :
        result.devices = Pair(ps, rs)
  BY DEF LoadInv, ResultInv
<1>2. /\ Listed(ps, rs)
      /\ ToSet(ps) = ToSet(parsed["px"]) /\ ToSet(rs) = ToSet(parsed["reese"])
  BY SortedIsListed DEF LoadInv
<1>3. Timed
  BY ObjectsAssumption DEF LoadInv, PermitInv, Timed
<1>4. Accounts(result.devices, ps, rs)
  BY <1>1, <1>2, <1>3, PairAccounts
<1> QED BY <1>2, <1>4

LEMMA LoadInvIsExact == LoadInv => LoadIsExact
<1> SUFFICES ASSUME LoadInv PROVE LoadIsExact
  OBVIOUS
<1>1. PermitsBalance
  <2>1. Cardinality(Running) \in Nat /\ permits \in Nat /\ Cardinality(Running) + permits = Concurrency
    BY RunningIsFinite DEF LoadInv, PermitInv
  <2>2. permits \in 0 .. Concurrency
    BY <2>1, BoundsAssumption
  <2> QED BY <2>1, <2>2 DEF PermitsBalance, Running
<1>2. CASE result.status # "ok"
  <2>1. result.devices = {}
    BY <1>2 DEF LoadInv, ResultInv
  <2>2. NothingLost
    BY <1>2 DEF NothingLost
  <2>3. PairingIsTight
    BY <2>1 DEF PairingIsTight, Unpaired, Used
  <2> QED BY <1>1, <2>2, <2>3 DEF LoadIsExact
<1>3. CASE result.status = "ok"
  <2>1. PICK ds, ps, rs :
             /\ ds = result.devices /\ Accounts(ds, ps, rs)
             /\ ToSet(ps) = ToSet(parsed["px"]) /\ ToSet(rs) = ToSet(parsed["reese"])
    BY <1>3, LoadIsAccounted
  <2>2. None \notin Objects
    BY ObjectsAssumption
  <2>3. \A b \in Buckets : listed[b] = UNION {PagesOf[b][i] : i \in DOMAIN PagesOf[b]}
    <3>1. ASSUME NEW b \in Buckets
          PROVE  listed[b] = UNION {PagesOf[b][i] : i \in DOMAIN PagesOf[b]}
      <4>1. DOMAIN PagesOf[b] = 1 .. page[b]
        BY <1>3, PagesType DEF LoadInv, ListInv, Complete
      <4>2. \A o : o \in listed[b] <=> \E i \in DOMAIN PagesOf[b] : o \in PagesOf[b][i]
        BY <4>1 DEF LoadInv, ListInv
      <4> QED BY <4>2
    <3> QED BY <3>1
  <2>4. ASSUME NEW o \in Objects
        PROVE  Cardinality(Used(o)) = IF o \in ToSet(parsed[BucketOf[o]]) THEN 1 ELSE 0
    <3>1. BucketOf[o] \in Buckets
      BY ObjectsAssumption
    <3>2. \A b \in Buckets : o \in ToSet(parsed[b]) => BucketOf[o] = b
      <4>1. ASSUME NEW b \in Buckets, o \in ToSet(parsed[b]) PROVE BucketOf[o] = b
        <5>1. PICK s \in Seq(Objects) : s = parsed[b]
          BY DEF LoadInv, ParsedInv
        <5>2. PICK i \in 1 .. Len(s) : o = s[i]
          BY <4>1, <5>1 DEF ToSet
        <5> QED BY <5>1, <5>2 DEF LoadInv, ParsedInv
      <4> QED BY <4>1
    <3>3. o \in ToSet(parsed[BucketOf[o]]) <=> o \in ToSet(ps) \/ o \in ToSet(rs)
      BY <2>1, <3>1, <3>2 DEF Buckets
    <3>4. CASE (o \in ToSet(ps) \/ o \in ToSet(rs)) /\ \E d \in ds : \A e \in ds : o \in {e.px, e.reese} <=> e = d
      <4>1. PICK d \in ds : \A e \in ds : o \in {e.px, e.reese} <=> e = d
        BY <3>4
      <4>2. Used(o) = {d}
        BY <2>1, <4>1 DEF Used
      <4>3. Cardinality(Used(o)) = 1
        BY <4>2, FS_Singleton
      <4> QED BY <3>3, <3>4, <4>3
    <3>5. CASE o \notin ToSet(ps) /\ o \notin ToSet(rs) /\ \A e \in ds : o \notin {e.px, e.reese}
      <4>1. Used(o) = {}
        BY <2>1, <3>5 DEF Used
      <4>2. Cardinality(Used(o)) = 0
        BY <4>1, FS_EmptySet
      <4> QED BY <3>3, <3>5, <4>2
    <3> QED BY <2>1, <3>4, <3>5 DEF Accounts
  <2>5. ASSUME NEW o \in Unpaired("px")
        PROVE  \E d \in ds : d.px = o /\ d.px # None /\ d.reese = None
    <3>1. o \in Objects /\ \E d \in ds : d["px"] = o /\ None \in {d.px, d.reese}
      BY <2>1 DEF Unpaired, Used
    <3> QED BY <2>2, <3>1
  <2>6. ASSUME NEW o \in Unpaired("reese")
        PROVE  \E e \in ds : e.reese = o /\ e.px = None
    <3>1. o \in Objects /\ \E d \in ds : d["reese"] = o /\ None \in {d.px, d.reese}
      BY <2>1 DEF Unpaired, Used
    <3> QED BY <2>2, <3>1
  <2>7. /\ \A d \in ds : d.px # None /\ d.reese # None => Fits(d.px, d.reese)
        /\ \A d, e \in ds : d.px # None /\ d.reese = None /\ e.px = None => ~Fits(d.px, e.reese)
        /\ \A d, e \in ds : d.px # None /\ d.reese # None /\ e.px = None /\ Fits(d.px, e.reese) =>
                               Distance(d.px, d.reese) <= Distance(d.px, e.reese)
    BY <2>1 DEF Accounts
  <2>8. \A p \in Unpaired("px"), r \in Unpaired("reese") : ~Fits(p, r)
    BY <2>5, <2>6, <2>7
  <2>9. \A d \in ds, r \in Unpaired("reese") :
          None \notin {d.px, d.reese} /\ Fits(d.px, r) =>
              Distance(d.px, d.reese) <= Distance(d.px, r)
    BY <2>6, <2>7
  <2>10. \A d \in ds : None \notin {d.px, d.reese} => Fits(d.px, d.reese)
    BY <2>7
  <2>11. PairingIsTight
    BY <2>1, <2>8, <2>9, <2>10 DEF PairingIsTight
  <2>12. NothingLost
    BY <2>3, <2>4 DEF NothingLost
  <2> QED BY <1>1, <2>11, <2>12 DEF LoadIsExact
<1> QED BY <1>2, <1>3

LEMMA InitLoad == Init => LoadInv
<1> SUFFICES ASSUME Init PROVE LoadInv
  OBVIOUS
<1>1. ListInv
  BY PagesType DEF Init, ListInv, NoResult
<1>2. ParsedInv /\ ResultInv
  BY DEF Init, ParsedInv, ResultInv, NoResult
<1> QED BY <1>1, <1>2, InitPermits DEF LoadInv

\* For any buckets, however they are paged, whenever what is in them was collected,
\* and whatever order the tasks end in and ties are sorted: no permit is lost, a
\* load that succeeds has every parsed profile in one device and no other, and its
\* pairs fit and are as close as what is left over allows.
THEOREM LoadIsExactHolds == Spec => []LoadIsExact
<1>1. LoadInv /\ [Next]_vars => LoadInv'
  <2>1. LoadInv => PermitInv
    BY DEF LoadInv
  <2> QED BY <2>1, NextPermits, NextListed, NextParsed, NextResult DEF LoadInv
<1> QED BY <1>1, InitLoad, LoadInvIsExact, PTL DEF Spec
=============================================================================
