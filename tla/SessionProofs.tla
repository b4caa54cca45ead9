--------------------------- MODULE SessionProofs ---------------------------
(***************************************************************************)
(* What holds of every timeline (Timing) and of every session of POST      *)
(* /test (Session), whatever is drawn, measured, sent and answered.        *)
(*                                                                         *)
(* A timeline is followed by Placed: its milestones are in order, and the  *)
(* collection of any lite variant fits in its own, which is what keeps the *)
(* unsigned subtractions of lite() from wrapping.  A jar is followed line  *)
(* by line by JarTo: its cookies with the lines at which they came to be,  *)
(* and every other cookie removed since it was last set.                   *)
(***************************************************************************)
EXTENDS Session, SequenceTheorems, WellFoundedInduction, TLAPS

----------------------------------------------------------------------------
(* Sequences of anything *)

IsSeq(s) == \E S : s \in Seq(S)

LEMMA EmptyIsSeq == IsSeq(<<>>)
<1>1. <<>> \in Seq({})
  OBVIOUS
<1> QED BY <1>1 DEF IsSeq

\* What Append() adds comes last, and nothing else changes.
LEMMA Appended ==
    ASSUME NEW s, IsSeq(s), NEW e
    PROVE  /\ IsSeq(Append(s, e)) /\ Len(s) \in Nat
           /\ Len(Append(s, e)) = Len(s) + 1
           /\ \A p \in 1 .. Len(s) : Append(s, e)[p] = s[p]
           /\ Append(s, e)[Len(s) + 1] = e
<1>1. PICK S : s \in Seq(S)
  BY DEF IsSeq
<1>2. s \in Seq(S \cup {e})
  BY <1>1
<1>3. Append(s, e) \in Seq(S \cup {e})
  BY <1>2
<1>4. IsSeq(Append(s, e))
  BY <1>3 DEF IsSeq
<1> QED BY <1>2, <1>4

----------------------------------------------------------------------------
(* Timelines *)

Times(t) ==
    /\ \A i \in 1 .. 4 : t.nav[i] \in Nat /\ t.ips[i] \in Nat
    /\ t.kjm \in Nat /\ t.rbp \in Nat /\ t.jlm \in Nat /\ t.qbq \in Nat /\ t.uxn \in Nat
    /\ t.rcj \in Nat /\ t.settle \in Nat /\ t.kkm \in Nat /\ t.rqk \in Nat /\ t.jbp \in Nat

Placed(t) ==
    /\ Times(t)
    /\ InOrder(t)
    /\ \A d \in Choices : t.qbq + Larger(d.lite, 1) <= t.uxn

\* What is drawn is a record of natural numbers, in the ranges of the constants.
LEMMA DrawnGaps ==
    ASSUME NEW d \in Choices
    PROVE  /\ d.navQueue \in Nat /\ d.navTtfb \in Nat /\ d.navBody \in Nat /\ d.ipsQueue \in Nat
           /\ d.ipsTtfb \in Nat /\ d.ipsBody \in Nat /\ d.ipsLead \in Nat /\ d.inline \in Nat
           /\ d.compile \in Nat /\ d.boot \in Nat /\ d.setup \in Nat /\ d.collect \in Nat
           /\ d.lite \in Nat /\ d.handoff \in Nat /\ d.assemble \in Nat /\ d.settle \in Nat
           /\ d.sealGap \in Nat /\ d.encrypt \in Nat
           /\ d.ipsBody > 0 /\ d.collect > 0
           /\ \A e \in Choices : e.lite \in Nat /\ e.lite <= d.collect
BY ChoicesAssumption DEF GapType

\* Whatever two fetches it is built of, a timeline is placed.
LEMMA BuildPlaced ==
    ASSUME NEW d \in Choices,
           NEW n2 \in Nat, NEW n3 \in Nat, NEW n4 \in Nat,
           NEW s1 \in Nat, NEW s2 \in Nat, NEW s3 \in Nat, NEW s4 \in Nat,
           n2 <= n3, n3 < n4, n3 <= s1, s1 <= s2, s2 <= s3, s3 < s4,
           NEW t, t = Build(<<0, n2, n3, n4>>, <<s1, s2, s3, s4>>, d)
    PROVE  Placed(t)
<1> DEFINE kjm == n4 + d.inline
           rbp == Larger(s4, kjm) + d.compile
<1>1. /\ t.nav = <<0, n2, n3, n4>> /\ t.ips = <<s1, s2, s3, s4>>
      /\ t.kjm = kjm /\ t.rbp = rbp /\ t.jlm = rbp + d.boot /\ t.qbq = rbp + d.boot + d.setup
      /\ t.uxn = t.qbq + d.collect /\ t.rcj = t.uxn + d.handoff /\ t.settle = t.rcj + d.settle
      /\ t.kkm = t.rcj + Larger(d.assemble, t.settle - t.rcj + 1)
      /\ t.rqk = t.kkm + d.sealGap /\ t.jbp = t.rqk + d.encrypt
  BY DEF Build
<1>2. /\ t.kjm \in Nat /\ t.rbp \in Nat /\ t.jlm \in Nat /\ t.qbq \in Nat /\ t.uxn \in Nat
      /\ t.rcj \in Nat /\ t.settle \in Nat
      /\ n4 <= t.kjm /\ t.kjm <= t.rbp /\ s4 <= t.rbp
      /\ t.rbp <= t.jlm /\ t.jlm <= t.qbq /\ t.qbq < t.uxn /\ t.uxn <= t.rcj
      /\ t.rcj <= t.settle
  BY <1>1, DrawnGaps DEF Larger
<1>3. /\ t.kkm \in Nat /\ t.rqk \in Nat /\ t.jbp \in Nat
      /\ t.settle < t.kkm /\ t.kkm <= t.rqk /\ t.rqk <= t.jbp
  <2>1. Larger(d.assemble, t.settle - t.rcj + 1) \in Int
        /\ Larger(d.assemble, t.settle - t.rcj + 1) >= t.settle - t.rcj + 1
    BY <1>2, DrawnGaps DEF Larger
  <2> QED BY <2>1, <1>1, <1>2, DrawnGaps
<1>4. \A e \in Choices : t.qbq + Larger(e.lite, 1) <= t.uxn
  BY <1>1, <1>2, DrawnGaps DEF Larger
<1>5. Times(t)
  BY <1>1, <1>2, <1>3 DEF Times
<1>6. InOrder(t)
  BY <1>1, <1>2, <1>3 DEF InOrder
<1> QED BY <1>1, <1>4, <1>5, <1>6 DEF Placed

FetchType == [ttfb : Nat, body : Nat]
LaterType == [start : Nat, ttfb : Nat, body : Nat]

\* A measured timeline is placed, and takes at least what was measured.
LEMMA MeasuredPlaced ==
    ASSUME NEW d \in Choices, NEW n \in FetchType, NEW i \in LaterType
    PROVE  LET t == Measured(n, i, d)
           IN  /\ Placed(t)
               /\ t.nav[4] <= t.ips[1]
               /\ t.nav[4] >= n.ttfb + n.body
               /\ t.ips[4] >= i.start + i.ttfb + i.body
<1> DEFINE navResp == d.navQueue + n.ttfb
           navEnd == navResp + Larger(n.body, 1)
           ipsFetch == Larger(i.start, navEnd)
           ipsReq == ipsFetch + d.ipsQueue
           ipsResp == ipsReq + i.ttfb
           ipsEnd == ipsResp + Larger(i.body, 1)
           t == Measured(n, i, d)
<1>1. t = Build(<<0, d.navQueue, navResp, navEnd>>, <<ipsFetch, ipsReq, ipsResp, ipsEnd>>, d)
  BY DEF Measured
<1>2. /\ n.ttfb \in Nat /\ n.body \in Nat /\ i.start \in Nat /\ i.ttfb \in Nat /\ i.body \in Nat
  BY DEF FetchType, LaterType
<1>3. /\ d.navQueue \in Nat /\ navResp \in Nat /\ navEnd \in Nat
      /\ d.navQueue <= navResp /\ navResp < navEnd /\ navEnd >= n.ttfb + n.body
  BY <1>2, DrawnGaps DEF Larger
<1>4. /\ ipsFetch \in Nat /\ ipsFetch >= navEnd /\ ipsFetch >= i.start
  BY <1>2, <1>3 DEF Larger
<1>5. /\ ipsReq \in Nat /\ ipsResp \in Nat /\ ipsEnd \in Nat
      /\ ipsFetch <= ipsReq /\ ipsReq <= ipsResp /\ ipsResp < ipsEnd
      /\ ipsEnd >= i.start + i.ttfb + i.body
  BY <1>2, <1>4, DrawnGaps DEF Larger
<1> HIDE DEF navResp, navEnd, ipsFetch, ipsReq, ipsResp, ipsEnd, t
<1>6. Placed(t) /\ t.nav = <<0, d.navQueue, navResp, navEnd>>
      /\ t.ips = <<ipsFetch, ipsReq, ipsResp, ipsEnd>>
  <2>1. navResp <= ipsFetch
    BY <1>3, <1>4
  <2>2. /\ d.navQueue \in Nat /\ navResp \in Nat /\ navEnd \in Nat /\ ipsFetch \in Nat
        /\ ipsReq \in Nat /\ ipsResp \in Nat /\ ipsEnd \in Nat
        /\ d.navQueue <= navResp /\ navResp < navEnd
        /\ ipsFetch <= ipsReq /\ ipsReq <= ipsResp /\ ipsResp < ipsEnd
    BY <1>3, <1>4, <1>5
  <2>3. Placed(t)
    BY <2>1, <2>2, <1>1, BuildPlaced
  <2>4. t.nav = <<0, d.navQueue, navResp, navEnd>> /\ t.ips = <<ipsFetch, ipsReq, ipsResp, ipsEnd>>
    BY <1>1 DEF Build
  <2> QED BY <2>3, <2>4
<1> QED BY <1>3, <1>4, <1>5, <1>6 DEF t

\* So is a synthetic one: the lead of its second fetch does not reach before the
\* head of the first, and the body of the second takes time by its range.
LEMMA SyntheticPlaced ==
    ASSUME NEW d \in Choices
    PROVE  Placed(Synthetic(d))
<1> DEFINE navResp == d.navQueue + d.navTtfb
           navEnd == navResp + Larger(d.navBody, 1)
           ipsFetch == Larger(Larger(navEnd - d.ipsLead, 0), navResp)
           ipsReq == ipsFetch + d.ipsQueue
           ipsResp == ipsReq + d.ipsTtfb
           ipsEnd == ipsResp + d.ipsBody
<1>1. Synthetic(d) = Build(<<0, d.navQueue, navResp, navEnd>>,
                           <<ipsFetch, ipsReq, ipsResp, ipsEnd>>, d)
  BY DEF Synthetic
<1>2. /\ d.navQueue \in Nat /\ navResp \in Nat /\ navEnd \in Nat
      /\ d.navQueue <= navResp /\ navResp < navEnd
  BY DrawnGaps DEF Larger
<1>3. ipsFetch \in Nat /\ navResp <= ipsFetch
  BY <1>2, DrawnGaps DEF Larger
<1>4. /\ ipsReq \in Nat /\ ipsResp \in Nat /\ ipsEnd \in Nat
      /\ ipsFetch <= ipsReq /\ ipsReq <= ipsResp /\ ipsResp < ipsEnd
  BY <1>3, DrawnGaps
<1> HIDE DEF navResp, navEnd, ipsFetch, ipsReq, ipsResp, ipsEnd
<1> DEFINE t == Synthetic(d)
<1> HIDE DEF t
<1>5. t = Build(<<0, d.navQueue, navResp, navEnd>>, <<ipsFetch, ipsReq, ipsResp, ipsEnd>>, d)
  BY <1>1 DEF t
<1>6. Placed(t)
  BY <1>2, <1>3, <1>4, <1>5, BuildPlaced
<1> QED BY <1>6 DEF t

\* The lite variant is in order too, and keeps pace with the full one.
LEMMA LitePlaced ==
    ASSUME NEW t, Placed(t), NEW d \in Choices, NEW l, l = LiteOf(t, d)
    PROVE  Times(l) /\ InOrder(l) /\ l.uxn <= t.uxn /\ KeepsPace(l, t)
<1> DEFINE delta == t.uxn - (t.qbq + Larger(d.lite, 1))
<1>1. /\ l.nav = t.nav /\ l.ips = t.ips /\ l.kjm = t.kjm /\ l.rbp = t.rbp /\ l.jlm = t.jlm
      /\ l.qbq = t.qbq /\ l.uxn = t.qbq + Larger(d.lite, 1) /\ l.rcj = t.rcj - delta
      /\ l.settle = t.settle - delta /\ l.kkm = t.kkm - delta /\ l.rqk = t.rqk - delta
      /\ l.jbp = t.jbp - delta
  BY DEF LiteOf
<1>2. /\ Times(t) /\ InOrder(t)
      /\ delta \in Nat /\ Larger(d.lite, 1) \in Nat /\ Larger(d.lite, 1) > 0
  <2>1. t.qbq + Larger(d.lite, 1) <= t.uxn /\ Times(t) /\ InOrder(t)
    BY DEF Placed
  <2> QED BY <2>1, DrawnGaps DEF Larger, Times
<1> HIDE DEF delta
<1>3. /\ l.uxn = t.uxn - delta /\ l.uxn > t.qbq
  BY <1>1, <1>2 DEF delta, Times
<1>4. Times(l)
  <2>1. /\ l.uxn \in Nat /\ l.rcj \in Nat /\ l.settle \in Nat /\ l.kkm \in Nat
        /\ l.rqk \in Nat /\ l.jbp \in Nat
    BY <1>1, <1>2, <1>3 DEF Times, InOrder
  <2> QED BY <2>1, <1>1, <1>2 DEF Times
<1>5. InOrder(l)
  BY <1>1, <1>2, <1>3 DEF Times, InOrder
<1>6. \A i \in {5, 6, 7} : Fields(l)[i] = Fields(t)[i]
  <2>1. /\ l.rcj - l.uxn = t.rcj - t.uxn /\ l.kkm - l.rcj = t.kkm - t.rcj
        /\ l.jbp - l.rqk = t.jbp - t.rqk
    BY <1>1, <1>2, <1>3 DEF Times
  <2>2. /\ Fields(l)[5] = l.rcj - l.uxn /\ Fields(l)[6] = l.kkm - l.rcj
        /\ Fields(l)[7] = l.jbp - l.rqk
    BY DEF Fields
  <2>3. /\ Fields(t)[5] = t.rcj - t.uxn /\ Fields(t)[6] = t.kkm - t.rcj
        /\ Fields(t)[7] = t.jbp - t.rqk
    BY DEF Fields
  <2> QED BY <2>1, <2>2, <2>3
<1>7. l.uxn <= t.uxn /\ l.kkm - l.settle = t.kkm - t.settle /\ l.rqk - l.kkm = t.rqk - t.kkm
  BY <1>1, <1>2, <1>3 DEF Times
<1> QED BY <1>1, <1>4, <1>5, <1>6, <1>7 DEF KeepsPace

\* No field of the header of a timeline in order is negative.
LEMMA HeaderCounts ==
    ASSUME NEW t, Times(t), InOrder(t), NEW up, NEW i \in 0 .. 13
    PROVE  HeaderOf(t, up)[i] >= 0
<1>1. Fields(t)[i] \in Nat
  <2>1. CASE i = 0
    BY <2>1 DEF Fields, Times, InOrder
  <2>2. CASE i \in 1 .. 4
    BY <2>2 DEF Fields, Times, InOrder, Larger
  <2>3. CASE i \in 5 .. 7
    BY <2>3 DEF Fields, Times, InOrder
  <2>4. CASE i \in 8 .. 10
    BY <2>4 DEF Fields, Times, InOrder
  <2>5. CASE i \in 11 .. 13
    BY <2>5 DEF Fields, Times, InOrder
  <2> QED BY <2>1, <2>2, <2>3, <2>4, <2>5
<1>2. HeaderOf(t, up)[i] = IF Fields(t)[i] % 10 = 5 /\ i \notin up THEN Fields(t)[i] \div 10
                          ELSE (Fields(t)[i] + 5) \div 10
  BY DEF HeaderOf
<1> QED BY <1>1, <1>2

\* What is known of the timelines of a request.
TimingInv ==
    /\ line = NoLine => lite = NoLine
    /\ line # NoLine => Placed(line)
    /\ lite # NoLine => /\ Times(lite) /\ InOrder(lite)
                        /\ lite.uxn <= line.uxn
                        /\ KeepsPace(lite, line)
    /\ \A i \in 0 .. 13 : dt[i] >= 0

\* It is known at first.
LEMMA TimingStart == TimingInit => TimingInv
BY DEF TimingInit, TimingInv, NoHeader

\* It is known when the fetches were measured,
LEMMA MeasureKeeps ==
    ASSUME TimingInv, line = NoLine, NEW d \in Choices, NEW n \in FetchType, NEW i \in LaterType,
           Measure(n, i, d)
    PROVE  TimingInv'
<1>1. Placed(line') /\ lite' = NoLine /\ dt' = dt
  BY MeasuredPlaced DEF Measure, TimingInv
<1> QED BY <1>1 DEF TimingInv

\* made up,
LEMMA SynthesizeKeeps ==
    ASSUME TimingInv, line = NoLine, NEW d \in Choices, Synthesize(d)
    PROVE  TimingInv'
<1>1. Placed(line') /\ lite' = NoLine /\ dt' = dt
  BY SyntheticPlaced DEF Synthesize, TimingInv
<1> QED BY <1>1 DEF TimingInv

\* or reported.
LEMMA ReportKeeps ==
    ASSUME TimingInv, line # NoLine, NEW d \in Choices, NEW isLite, NEW up, Report(d, isLite, up)
    PROVE  TimingInv'
<1>1. Placed(line) /\ Times(line) /\ InOrder(line) /\ line' = line
  BY DEF TimingInv, Placed, Report
<1>2. Times(lite') /\ InOrder(lite') /\ lite'.uxn <= line.uxn /\ KeepsPace(lite', line)
  BY <1>1, LitePlaced DEF Report
<1>3. \A i \in 0 .. 13 : dt'[i] >= 0
  BY <1>1, <1>2, HeaderCounts DEF Report
<1> QED BY <1>1, <1>2, <1>3 DEF TimingInv

LEMMA TimingStep == TimingInv /\ [TimingNext]_timingVars => TimingInv'
<1> SUFFICES ASSUME TimingInv, [TimingNext]_timingVars PROVE TimingInv'
  OBVIOUS
<1>1. CASE UNCHANGED timingVars
  BY <1>1 DEF TimingInv, timingVars
<1>2. ASSUME line = NoLine, NEW d \in Choices, Synthesize(d) PROVE TimingInv'
  BY <1>2, SynthesizeKeeps
<1>3. ASSUME line = NoLine, NEW d \in Choices,
             NEW t \in Legs, NEW b \in Legs, NEW s \in Legs, NEW u \in Legs, NEW c \in Legs,
             Measure([ttfb |-> t, body |-> b], [start |-> s, ttfb |-> u, body |-> c], d)
      PROVE  TimingInv'
  <2>1. /\ [ttfb |-> t, body |-> b] \in FetchType
        /\ [start |-> s, ttfb |-> u, body |-> c] \in LaterType
    BY ChoicesAssumption DEF FetchType, LaterType
  <2> QED BY <1>3, <2>1, MeasureKeeps
<1>4. ASSUME line # NoLine, NEW d \in Choices, NEW isLite \in BOOLEAN, NEW up \in Halves,
             Report(d, isLite, up)
      PROVE  TimingInv'
  BY <1>4, ReportKeeps
<1> QED BY <1>1, <1>2, <1>3, <1>4 DEF TimingNext

\* What is known implies what the runs check.
LEMMA TimingHolds == TimingInv => TimelinesInOrder
BY DEF TimingInv, Placed, TimelinesInOrder

\* Every timeline of POST /payload, made up of whatever is drawn, is in order, and
\* so is its lite variant, which lite() moves together: build() and synthetic()
\* leave room for all that lite() and transfer_rate() take from it.
THEOREM TimelinesInOrderHold == TimingSpec => []TimelinesInOrder
<1>1. TimingSpec => []TimingInv
  BY TimingStart, TimingStep, PTL DEF TimingSpec
<1>2. TimingInv => TimelinesInOrder
  BY TimingHolds
<1> QED BY <1>1, <1>2, PTL

----------------------------------------------------------------------------
(* The clock of a session *)

Events == {"fpStart", "fpHeaders", "fpEnd", "ipsStart", "ipsHeaders", "ipsEnd"}

\* Awaits, from the one for the head of fp to the one for the script.
Fetching == {"fp", "fpBody", "linking", "ips", "ipsBody"}
Solving == {"solving", "tl", "tlBody"}

\* The instants are taken in order, each where the handler passes it.
ClockInv ==
    /\ now \in Nat /\ at \in [Events -> Int]
    /\ pc \in {"start", "done", "gone"} \cup Fetching \cup Solving
    /\ pc \in Fetching => at["fpStart"] \in Nat /\ at["fpStart"] <= now
    /\ pc \in Fetching \ {"fp"} => at["fpStart"] <= at["fpHeaders"] /\ at["fpHeaders"] <= now
    /\ pc \in {"linking", "ips", "ipsBody"} => at["fpHeaders"] <= at["fpEnd"] /\ at["fpEnd"] <= now
    /\ pc \in {"ips", "ipsBody"} => at["fpEnd"] <= at["ipsStart"] /\ at["ipsStart"] <= now
    /\ pc = "ipsBody" => at["ipsStart"] <= at["ipsHeaders"] /\ at["ipsHeaders"] <= now
    /\ pc \in {"start"} \cup Fetching => line = NoLine
    /\ pc \in Solving => line # NoLine
    /\ TimelineIsMeasured

\* Rounding to ticks loses half a tick at most.
LEMMA RoundingLoses ==
    ASSUME NEW d \in Nat
    PROVE  Rounded(d) \in Nat /\ 2 * (Grain * Rounded(d)) + Grain >= 2 * d
<1> DEFINE m == 2 * Grain
           x == 2 * d + Grain
           q == x \div m
<1>1. Grain \in Nat /\ Grain > 0 /\ m \in Nat /\ m > 0 /\ x \in Nat
  BY SessionAssumption
<1> HIDE DEF m, x
<1>2. q \in Nat /\ x < m * q + m
  BY <1>1
<1>3. Rounded(d) = q
  BY DEF Rounded, m, x
<1> HIDE DEF q
<1>4. m * q = 2 * (Grain * q)
  BY <1>1, <1>2 DEF m
<1>5. 2 * d + Grain < 2 * (Grain * q) + 2 * Grain
  BY <1>1, <1>2, <1>4 DEF m, x
<1> QED BY <1>1, <1>2, <1>3, <1>5

LEMMA SpanLoses ==
    ASSUME NEW a \in Int, NEW b \in Int, a <= b
    PROVE  Span(a, b) \in Nat /\ 2 * (Grain * Span(a, b)) + Grain >= 2 * (b - a)
<1>1. (IF b > a THEN b - a ELSE 0) = b - a /\ b - a \in Nat
  OBVIOUS
<1>2. Span(a, b) = Rounded(b - a)
  BY <1>1 DEF Span
<1> QED BY <1>1, <1>2, RoundingLoses

\* The timeline of the fetches that were measured is as long as they were, but for
\* what five roundings lose.
LEMMA MeasureIsMeasured ==
    ASSUME ClockInv, pc = "ipsBody", NEW d \in Choices, at'["ipsEnd"] = now,
           at'["fpStart"] = at["fpStart"], at'["fpEnd"] = at["fpEnd"],
           Measure(Fetches[1], Fetches[2], d)
    PROVE  /\ Fetches[1] \in FetchType /\ Fetches[2] \in LaterType
           /\ TimelineIsMeasured'
<1> DEFINE f == at["fpStart"]  g == at["fpHeaders"]  h == at["fpEnd"]
           u == at["ipsStart"]  v == at["ipsHeaders"]
           n == Fetches[1]  i == Fetches[2]
<1>1. /\ f \in Nat /\ g \in Int /\ h \in Int /\ u \in Int /\ v \in Int /\ now \in Nat
      /\ f <= g /\ g <= h /\ h <= u /\ u <= v /\ v <= now
  BY DEF ClockInv, Fetching, Events
<1>2. /\ n = [ttfb |-> Span(f, g), body |-> Span(g, h)]
      /\ i = [start |-> Span(f, u), ttfb |-> Span(u, v), body |-> Span(v, now)]
  BY DEF Fetches
<1>3. /\ Span(f, g) \in Nat /\ 2 * (Grain * Span(f, g)) + Grain >= 2 * (g - f)
      /\ Span(g, h) \in Nat /\ 2 * (Grain * Span(g, h)) + Grain >= 2 * (h - g)
      /\ Span(f, u) \in Nat /\ 2 * (Grain * Span(f, u)) + Grain >= 2 * (u - f)
      /\ Span(u, v) \in Nat /\ 2 * (Grain * Span(u, v)) + Grain >= 2 * (v - u)
      /\ Span(v, now) \in Nat /\ 2 * (Grain * Span(v, now)) + Grain >= 2 * (now - v)
  <2> HIDE DEF f, g, h, u, v
  <2>1. f <= u /\ f \in Int /\ now \in Int /\ v \in Int /\ v <= now
    BY <1>1
  <2>2. Span(f, g) \in Nat /\ 2 * (Grain * Span(f, g)) + Grain >= 2 * (g - f)
    BY <1>1, <2>1, SpanLoses
  <2>3. Span(g, h) \in Nat /\ 2 * (Grain * Span(g, h)) + Grain >= 2 * (h - g)
    BY <1>1, SpanLoses
  <2>4. Span(f, u) \in Nat /\ 2 * (Grain * Span(f, u)) + Grain >= 2 * (u - f)
    BY <1>1, <2>1, SpanLoses
  <2>5. Span(u, v) \in Nat /\ 2 * (Grain * Span(u, v)) + Grain >= 2 * (v - u)
    BY <1>1, SpanLoses
  <2>6. Span(v, now) \in Nat /\ 2 * (Grain * Span(v, now)) + Grain >= 2 * (now - v)
    BY <2>1, SpanLoses
  <2> QED BY <2>2, <2>3, <2>4, <2>5, <2>6
<1>4. n \in FetchType /\ i \in LaterType
  BY <1>2, <1>3 DEF FetchType, LaterType
<1>5. /\ n.ttfb = Span(f, g) /\ n.body = Span(g, h)
      /\ i.start = Span(f, u) /\ i.ttfb = Span(u, v) /\ i.body = Span(v, now)
  BY <1>2
<1> HIDE DEF n, i
<1>6. /\ Placed(line') /\ line'.nav[4] <= line'.ips[1]
      /\ line'.nav[4] >= Span(f, g) + Span(g, h)
      /\ line'.ips[4] >= Span(f, u) + Span(u, v) + Span(v, now)
  BY <1>4, <1>5, MeasuredPlaced DEF Measure, n, i
<1>7. line'.nav[4] \in Nat /\ line'.ips[4] \in Nat /\ InOrder(line')
  BY <1>6 DEF Placed, Times
<1>8. at'["fpStart"] = f /\ at'["fpEnd"] = h /\ at'["ipsEnd"] = now
  OBVIOUS
<1>9. Grain \in Nat /\ Grain > 0
  BY SessionAssumption
<1>10. Grain * (line'.nav[4] + 1) >= h - f
  <2>1. \A a, b \in Nat : a <= b => Grain * a <= Grain * b
    BY <1>9
  <2>2. Grain * line'.nav[4] >= Grain * (Span(f, g) + Span(g, h))
    BY <2>1, <1>3, <1>6, <1>7
  <2>3. Grain * (Span(f, g) + Span(g, h)) = Grain * Span(f, g) + Grain * Span(g, h)
    BY <1>3, <1>9
  <2> HIDE DEF f, g, h
  <2> QED BY <2>2, <2>3, <1>1, <1>3, <1>7, <1>9
<1>11. Grain * (2 * line'.ips[4] + 3) >= 2 * (now - f)
  <2>1. \A a, b \in Nat : a <= b => Grain * a <= Grain * b
    BY <1>9
  <2>2. Grain * line'.ips[4] >= Grain * (Span(f, u) + Span(u, v) + Span(v, now))
    BY <2>1, <1>3, <1>6, <1>7
  <2>3. Grain * (Span(f, u) + Span(u, v) + Span(v, now))
          = Grain * Span(f, u) + Grain * Span(u, v) + Grain * Span(v, now)
    BY <1>3, <1>9
  <2> HIDE DEF f, g, h, u, v
  <2> QED BY <2>2, <2>3, <1>1, <1>3, <1>7, <1>9
<1> QED BY <1>4, <1>6, <1>7, <1>8, <1>10, <1>11 DEF TimelineIsMeasured, n, i

\* The timelines and the clock together.
SInv == TimingInv /\ ClockInv

LEMMA SessionStart == Init => SInv
<1> SUFFICES ASSUME Init PROVE SInv
  OBVIOUS
<1>1. TimingInv
  BY TimingStart DEF Init
<1>2. ClockInv
  BY DEF Init, TimingInit, ClockInv, Events, Fetching, Solving, NoTime, TimelineIsMeasured
<1> QED BY <1>1, <1>2 DEF SInv

\* A step that takes no instant and touches no timeline goes on or ends.
LEMMA ClockIdle ==
    ASSUME SInv, UNCHANGED <<now, at, timingVars>>,
           pc' \in {pc, "done", "gone"} \/ (pc = "solving" /\ pc' = "tl") \/ (pc = "tl" /\ pc' = "tlBody")
    PROVE  SInv'
<1>1. TimingInv'
  BY DEF SInv, TimingInv, timingVars
<1>2. ClockInv'
  BY DEF SInv, ClockInv, Fetching, Solving, TimelineIsMeasured, timingVars
<1> QED BY <1>1, <1>2 DEF SInv

\* The instants up to the script: none is taken out of turn.
LEMMA ClockFetches ==
    ASSUME SInv, UNCHANGED <<now, timingVars>>, NEW e \in Events, Take(e),
           \/ pc = "start" /\ pc' = "fp" /\ e = "fpStart"
           \/ pc = "fp" /\ pc' = "fpBody" /\ e = "fpHeaders"
           \/ pc = "fpBody" /\ pc' = "linking" /\ e = "fpEnd"
           \/ pc = "linking" /\ pc' = "ips" /\ e = "ipsStart"
           \/ pc = "ips" /\ pc' = "ipsBody" /\ e = "ipsHeaders"
    PROVE  SInv'
<1>1. TimingInv' /\ line' = NoLine
  BY DEF SInv, TimingInv, ClockInv, Fetching, timingVars
<1>2. /\ at' \in [Events -> Int] /\ at'[e] = now
      /\ \A f \in Events \ {e} : at'[f] = at[f]
  BY DEF SInv, ClockInv, Take
<1>3. ClockInv'
  <2> USE DEF Fetching, Solving, Events
  <2>1. /\ now' \in Nat
        /\ pc' \in Fetching /\ ~(pc' \in Solving) /\ TimelineIsMeasured'
    BY <1>1 DEF SInv, ClockInv, TimelineIsMeasured
  <2>2. pc' \in Fetching => at'["fpStart"] \in Nat /\ at'["fpStart"] <= now'
    BY <1>2 DEF SInv, ClockInv
  <2>3. pc' \in Fetching \ {"fp"} => at'["fpStart"] <= at'["fpHeaders"] /\ at'["fpHeaders"] <= now'
    BY <1>2 DEF SInv, ClockInv
  <2>4. pc' \in {"linking", "ips", "ipsBody"} =>
          at'["fpHeaders"] <= at'["fpEnd"] /\ at'["fpEnd"] <= now'
    BY <1>2 DEF SInv, ClockInv
  <2>5. pc' \in {"ips", "ipsBody"} => at'["fpEnd"] <= at'["ipsStart"] /\ at'["ipsStart"] <= now'
    BY <1>2 DEF SInv, ClockInv
  <2>6. pc' = "ipsBody" => at'["ipsStart"] <= at'["ipsHeaders"] /\ at'["ipsHeaders"] <= now'
    BY <1>2 DEF SInv, ClockInv
  <2> QED BY <1>1, <1>2, <2>1, <2>2, <2>3, <2>4, <2>5, <2>6 DEF ClockInv
<1> QED BY <1>1, <1>3 DEF SInv

LEMMA ClockTick == ASSUME SInv, Tick PROVE SInv'
<1>1. TimingInv'
  BY DEF SInv, TimingInv, Tick, timingVars
<1>2. ClockInv'
  <2>1. now' \in Nat /\ now <= now' /\ UNCHANGED <<pc, at, line>>
    BY DEF SInv, ClockInv, Tick, timingVars
  <2>2. at \in [Events -> Int]
    BY DEF SInv, ClockInv
  <2> QED BY <2>1, <2>2 DEF SInv, ClockInv, TimelineIsMeasured, Fetching, Events
<1> QED BY <1>1, <1>2 DEF SInv

LEMMA ClockScript == ASSUME SInv, NEW o, NEW d \in Choices, IpsRead(o, d) PROVE SInv'
<1>1. CASE pc' = "done" /\ UNCHANGED <<now, at, timingVars>>
  BY <1>1, ClockIdle
<1>2. CASE Take("ipsEnd") /\ Measure(Fetches[1], Fetches[2], d) /\ pc' = "solving"
  <2>1. /\ pc = "ipsBody" /\ ClockInv /\ TimingInv /\ line = NoLine /\ now' = now
    BY DEF IpsRead, SInv, ClockInv, Fetching
  <2>2. /\ at' \in [Events -> Int] /\ at'["ipsEnd"] = now
        /\ at'["fpStart"] = at["fpStart"] /\ at'["fpEnd"] = at["fpEnd"]
    BY <1>2, <2>1 DEF ClockInv, Take, Events
  <2>3. Measure(Fetches[1], Fetches[2], d)
    BY <1>2
  <2>4. /\ Fetches[1] \in FetchType /\ Fetches[2] \in LaterType /\ TimelineIsMeasured'
    BY <2>1, <2>2, <2>3, MeasureIsMeasured
  <2>5. TimingInv'
    BY <2>1, <2>3, <2>4, MeasureKeeps
  <2>6. line' # NoLine
    <3>1. Placed(line')
      BY <2>3, <2>4, MeasuredPlaced DEF Measure
    <3> QED BY <3>1 DEF Placed, InOrder, NoLine
  <2> QED BY <1>2, <2>1, <2>2, <2>4, <2>5, <2>6 DEF SInv, ClockInv, Fetching, Solving
<1> QED BY <1>1, <1>2 DEF IpsRead, Reply

LEMMA ClockSolve ==
    ASSUME SInv, NEW o, NEW d \in Choices, NEW isLite, NEW up, Solve(o, d, isLite, up)
    PROVE  SInv'
<1>1. CASE UNCHANGED timingVars
  BY <1>1, ClockIdle DEF Solve, Reply
<1>2. CASE Report(d, isLite, up)
  <2>1. /\ pc = "solving" /\ TimingInv /\ ClockInv /\ line # NoLine /\ line' = line
        /\ pc' \in {"done", "tl"} /\ UNCHANGED <<now, at>>
    BY <1>2 DEF Solve, Reply, SInv, ClockInv, Solving, Report
  <2>2. TimingInv'
    BY <1>2, <2>1, ReportKeeps
  <2>3. ClockInv'
    BY <2>1 DEF ClockInv, TimelineIsMeasured, Fetching, Solving
  <2> QED BY <2>2, <2>3 DEF SInv
<1> QED BY <1>1, <1>2 DEF Solve

LEMMA ClockStep == SInv /\ [Next]_sessionVars => SInv'
<1> SUFFICES ASSUME SInv, [Next]_sessionVars PROVE SInv'
  OBVIOUS
<1>1. CASE UNCHANGED sessionVars
  BY <1>1, ClockIdle DEF sessionVars, timingVars
<1>2. ASSUME NEW ready \in BOOLEAN, NEW d \in Devices, Receive(ready, d) PROVE SInv'
  <2>1. \/ pc' = "done" /\ UNCHANGED <<now, at, timingVars>>
        \/ pc = "start" /\ pc' = "fp" /\ Take("fpStart") /\ UNCHANGED <<now, timingVars>>
    BY <1>2 DEF Receive, Reply
  <2> QED BY <2>1, ClockIdle, ClockFetches DEF Events
<1>3. ASSUME NEW o \in Outcomes, NEW ls \in SetCookies, FpAnswered(o, ls) PROVE SInv'
  <2>1. \/ pc' = "done" /\ UNCHANGED <<now, at, timingVars>>
        \/ pc = "fp" /\ pc' = "fpBody" /\ Take("fpHeaders") /\ UNCHANGED <<now, timingVars>>
    BY <1>3 DEF FpAnswered, NotSent, Reply
  <2> QED BY <2>1, ClockIdle, ClockFetches DEF Events
<1>4. ASSUME NEW o \in Outcomes, NEW ls \in SetCookies, IpsAnswered(o, ls) PROVE SInv'
  <2>1. \/ pc' = "done" /\ UNCHANGED <<now, at, timingVars>>
        \/ pc = "ips" /\ pc' = "ipsBody" /\ Take("ipsHeaders") /\ UNCHANGED <<now, timingVars>>
    BY <1>4 DEF IpsAnswered, NotSent, Reply
  <2> QED BY <2>1, ClockIdle, ClockFetches DEF Events
<1>5. ASSUME NEW o \in Outcomes, FpRead(o) PROVE SInv'
  <2>1. \/ pc' = "done" /\ UNCHANGED <<now, at, timingVars>>
        \/ pc = "fpBody" /\ pc' = "linking" /\ Take("fpEnd") /\ UNCHANGED <<now, timingVars>>
    BY <1>5 DEF FpRead, Reply
  <2> QED BY <2>1, ClockIdle, ClockFetches DEF Events
<1>6. CASE SendIps
  <2>1. pc = "linking" /\ pc' = "ips" /\ Take("ipsStart") /\ UNCHANGED <<now, timingVars>>
    BY <1>6 DEF SendIps
  <2> QED BY <2>1, ClockFetches DEF Events
<1>7. ASSUME NEW o \in Outcomes, TlAnswered(o) \/ TlRead(o) PROVE SInv'
  BY <1>7, ClockIdle DEF TlAnswered, TlRead, NotSent, Reply
<1>8. ASSUME NEW o \in Outcomes, NEW d \in Choices, IpsRead(o, d) PROVE SInv'
  BY <1>8, ClockScript
<1>9. ASSUME NEW o \in Outcomes, NEW d \in Choices, NEW isLite \in BOOLEAN, NEW up \in Halves,
             Solve(o, d, isLite, up)
      PROVE  SInv'
  BY <1>9, ClockSolve
<1>10. CASE Disconnect
  BY <1>10, ClockIdle DEF Disconnect
<1>11. CASE Tick
  BY <1>11, ClockTick
<1> QED BY <1>1, <1>2, <1>3, <1>4, <1>5, <1>6, <1>7, <1>8, <1>9, <1>10, <1>11 DEF Next, SessionStep

LEMMA SInvHolds == Spec => []SInv
BY SessionStart, ClockStep, PTL DEF Spec

\* The timeline handed to solve() is that of the session: whatever the two fetches
\* took and whenever the second began, it lasts as long, but for what rounding loses.
THEOREM TimelineIsMeasuredHolds == Spec => []TimelineIsMeasured
<1>1. SInv => TimelineIsMeasured
  BY DEF SInv, ClockInv
<1> QED BY <1>1, SInvHolds, PTL

\* Of a session, too, both timelines are in order.
THEOREM SessionTimelines == Spec => []TimelinesInOrder
<1>1. SInv => TimelinesInOrder
  BY TimingHolds DEF SInv
<1> QED BY <1>1, SInvHolds, PTL

----------------------------------------------------------------------------
(* The verdict *)

Whole(i) == ~BadInput(i) /\ i.wellFormed

\* The session has come n steps, each of which the others did right.
Along(n) ==
    /\ answer = "none" /\ Whole(input)
    /\ Len(said) = n
    /\ \A p \in 1 .. n : said[p] \in Right(input)[p]

\* As long as it goes on, every step was done right; a request that is not answered
\* any more has been judged by the step that ended it.
VerdictInv ==
    /\ IsSeq(said) /\ IsSeq(sent)
    /\ pc = "start" => said = <<>> /\ sent = <<>> /\ answer = "none"
    /\ pc = "fp" => Along(1) /\ Len(sent) = 1
    /\ pc = "fpBody" => Along(2) /\ Len(sent) = 1
    /\ pc = "linking" => Along(3) /\ Len(sent) = 1
    /\ pc = "ips" => Along(3) /\ Len(sent) = 2
    /\ pc = "ipsBody" => Along(4) /\ Len(sent) = 2
    /\ pc = "solving" => Along(5) /\ Len(sent) = 2
    /\ pc = "tl" => Along(6) /\ Len(sent) = 3
    /\ pc = "tlBody" => Along(7) /\ Len(sent) = 3
    /\ VerdictIsEarned

LEMMA RightIs ==
    ASSUME NEW i
    PROVE  /\ Right(i)[1] = {"ready"} \cup (IF IsNikeApi(i) THEN {} ELSE {"noProfile"})
           /\ Right(i)[2] = {Expected(i)} /\ Right(i)[3] = {"script", "stray"} /\ Right(i)[4] = {"200"}
           /\ Right(i)[5] = {"text"}
           /\ Right(i)[6] = {"solved"} \cup (IF IsNikeApi(i) THEN {} ELSE {"incomplete"})
           /\ Right(i)[7] = {"json", "bareJson"} /\ Right(i)[8] = {"reload"}
BY DEF Right, Expected

\* A step done right takes the session one further.
LEMMA AlongOn ==
    ASSUME IsSeq(said), NEW n \in 0 .. 7, Along(n), NEW o \in Right(input)[n + 1], Saw(o),
           UNCHANGED <<input, answer>>
    PROVE  Along(n + 1)' /\ IsSeq(said')
<1>1. /\ IsSeq(said') /\ Len(said') = n + 1 /\ said'[n + 1] = o
      /\ \A p \in 1 .. n : said'[p] = said[p]
  BY Appended DEF Saw, Along
<1>2. \A p \in 1 .. n + 1 : said'[p] \in Right(input)[p]
  BY <1>1 DEF Along
<1> QED BY <1>1, <1>2 DEF Along

\* What the others do right never ends a session before the verdict.
LEMMA RightGoesOn ==
    ASSUME NEW i, NEW n \in 1 .. 7, NEW o \in Right(i)[n]
    PROVE  /\ o \notin {"unbuildable", "unreachable", "refused"}
           /\ n = 7 => o \notin {"500", "otherType"}
<1>1. n \in {1, 2, 3, 4, 5, 6, 7}
  OBVIOUS
<1> QED BY <1>1, RightIs DEF Expected

\* As long as the session goes on, nothing is judged.
LEMMA AlongIsEarned ==
    ASSUME NEW n \in 1 .. 7, Along(n)', Len(sent') = 3 => n >= 6
    PROVE  VerdictIsEarned'
<1>1. /\ answer' = "none" /\ Whole(input') /\ Len(said') = n
      /\ \A p \in 1 .. n : said'[p] \in Right(input')[p]
  BY DEF Along
<1>2. /\ said'[n] \notin {"unbuildable", "unreachable", "refused"}
      /\ n = 7 => said'[n] \notin {"500", "otherType"}
  BY <1>1, RightGoesOn
<1> QED BY <1>1, <1>2 DEF VerdictIsEarned, Whole

\* What was said, and by whom, when the session ends at step n + 1.
LEMMA EndsWith ==
    ASSUME IsSeq(said), NEW n \in 0 .. 7, Along(n), NEW o, Saw(o), input' = input
    PROVE  /\ IsSeq(said') /\ Len(said') = n + 1 /\ said'[n + 1] = o /\ Whole(input')
           /\ \A p \in 1 .. n : said'[p] = said[p] /\ said'[p] \in Right(input')[p]
BY Appended DEF Saw, Along

\* The step that goes wrong decides the answer.
LEMMA BlameIsEarned ==
    ASSUME VerdictInv, NEW n \in 0 .. 6, Along(n), NEW o, Saw(o), o \notin Right(input)[n + 1],
           UNCHANGED <<input, sent>>, Len(sent) = 3 => n >= 6,
           \/ o = "unbuildable" /\ Reply("badRequest") /\ n > 0
           \/ o \notin {"unbuildable", "refused"} /\ Reply("badGateway") /\ n < 6
           \/ o = "unreachable" /\ Reply("badGateway")
           \/ o \in {"500", "otherType"} /\ Reply("rejected") /\ n = 6
           \/ o = "refused" /\ Reply("refused") /\ n = 5
    PROVE  VerdictInv'
<1>1. /\ IsSeq(said') /\ Len(said') = n + 1 /\ said'[n + 1] = o /\ Whole(input')
      /\ \A p \in 1 .. n : said'[p] = said[p] /\ said'[p] \in Right(input')[p]
  <2>1. n \in 0 .. 7
    OBVIOUS
  <2> QED BY <2>1, EndsWith DEF VerdictInv
<1>2. ~(\A p \in 1 .. Len(said') : said'[p] \in Right(input')[p])
  BY <1>1
<1>3. PICK m \in 1 .. 7 : m = n + 1
  OBVIOUS
<1>4. /\ Len(said') = m /\ said'[m] = o /\ (Len(sent') = 3 => m >= 6)
      /\ \A p \in 1 .. m - 1 : said'[p] \in Right(input')[p]
      /\ \/ o = "unbuildable" /\ answer' = "badRequest" /\ m > 1
         \/ o \notin {"unbuildable", "refused"} /\ answer' = "badGateway" /\ m < 7
         \/ o = "unreachable" /\ answer' = "badGateway"
         \/ o \in {"500", "otherType"} /\ answer' = "rejected" /\ m = 7
         \/ o = "refused" /\ answer' = "refused" /\ m = 6
  BY <1>1, <1>3 DEF Reply
<1>5. VerdictIsEarned'
  BY <1>1, <1>2, <1>4 DEF VerdictIsEarned, Whole
<1>6. pc' = "done" /\ IsSeq(sent')
  BY DEF Reply, VerdictInv
<1> QED BY <1>1, <1>5, <1>6 DEF VerdictInv

\* One request more is sent.
LEMMA OneMoreSent ==
    ASSUME IsSeq(sent), NEW to, NEW h, NEW r, Send(to, h, r)
    PROVE  IsSeq(sent') /\ Len(sent') = Len(sent) + 1
<1>1. PICK s : s = [to |-> to, host |-> h, referer |-> r, agent |-> agent',
                    cookies |-> jar, after |-> Len(heard)]
  OBVIOUS
<1>2. sent' = Append(sent, s)
  BY <1>1 DEF Send
<1>3. IsSeq(Append(sent, s)) /\ Len(Append(sent, s)) = Len(sent) + 1
  BY Appended
<1> QED BY <1>2, <1>3

LEMMA AppendedFirst ==
    ASSUME NEW e
    PROVE  IsSeq(Append(<<>>, e)) /\ Len(Append(<<>>, e)) = 1 /\ Append(<<>>, e)[1] = e
<1>1. Append(<<>>, e) = <<e>>
  OBVIOUS
<1>2. <<e>> \in Seq({e})
  OBVIOUS
<1>3. IsSeq(<<e>>)
  BY <1>2 DEF IsSeq
<1>4. Len(<<e>>) = 1 /\ <<e>>[1] = e
  OBVIOUS
<1> QED BY <1>1, <1>3, <1>4

LEMMA VerdictReceive ==
    ASSUME VerdictInv, NEW ready \in BOOLEAN, NEW d \in Devices, Receive(ready, d)
    PROVE  VerdictInv'
<1> DEFINE o == IF ready THEN "ready" ELSE "noProfile"
<1>1. /\ pc = "start" /\ said = <<>> /\ sent = <<>> /\ answer = "none" /\ input' = input
      /\ said' = Append(said, o) /\ IsSeq(said) /\ IsSeq(sent)
  BY DEF Receive, VerdictInv, Saw
<1>2. /\ IsSeq(said') /\ Len(said') = 1 /\ said'[1] = o
  BY <1>1, AppendedFirst
<1>3. CASE BadInput(input) /\ Reply("badRequest") /\ sent' = sent
  <2>1. VerdictIsEarned'
    BY <1>1, <1>2, <1>3 DEF VerdictIsEarned, Reply
  <2> QED BY <1>1, <1>2, <1>3, <2>1 DEF VerdictInv, Reply
<1>4. CASE ~BadInput(input) /\ IsNikeApi(input) /\ ~ready /\ Reply("badGateway") /\ sent' = sent
  <2>1. said'[1] \notin Right(input')[1]
    BY <1>1, <1>2, <1>4, RightIs
  <2>2. VerdictIsEarned'
    BY <1>1, <1>2, <1>4, <2>1 DEF VerdictIsEarned, Reply
  <2> QED BY <1>1, <1>2, <1>4, <2>2 DEF VerdictInv, Reply
<1>5. CASE /\ ~input.wellFormed /\ (IsNikeApi(input) => ready)
           /\ Reply("badRequest") /\ sent' = sent
  <2>1. said'[1] \in Right(input')[1]
    BY <1>1, <1>2, <1>5, RightIs
  <2>2. VerdictIsEarned'
    BY <1>1, <1>2, <1>5, <2>1 DEF VerdictIsEarned, Reply
  <2> QED BY <1>1, <1>2, <1>5, <2>2 DEF VerdictInv, Reply
<1>6. CASE /\ Whole(input) /\ (IsNikeApi(input) => ready)
           /\ pc' = "fp" /\ answer' = answer
           /\ \E r : Send("fp", input.host, r)
  <2>1. o \in Right(input)[1]
    BY <1>6, RightIs
  <2>2. Along(1)'
    BY <1>1, <1>2, <1>6, <2>1 DEF Along
  <2>3. IsSeq(sent') /\ Len(sent') = 1
    BY <1>1, <1>6, AppendedFirst DEF Send
  <2>4. VerdictIsEarned'
    BY <2>2, <2>3, AlongIsEarned
  <2> QED BY <1>2, <1>6, <2>2, <2>3, <2>4 DEF VerdictInv
<1> QED BY <1>3, <1>4, <1>5, <1>6 DEF Receive, Whole

\* A step that goes on, from q to q2.
LEMMA VerdictOn ==
    ASSUME VerdictInv, NEW n \in 1 .. 6, Along(n), NEW o \in Right(input)[n + 1], Saw(o),
           UNCHANGED <<input, answer>>,
           \/ sent' = sent
           \/ Len(sent) = 2 /\ \E to, h, r : Send(to, h, r),
           \/ pc' = "fpBody" /\ n = 1 /\ Len(sent') = 1
           \/ pc' = "linking" /\ n = 2 /\ Len(sent') = 1
           \/ pc' = "ipsBody" /\ n = 3 /\ Len(sent') = 2
           \/ pc' = "solving" /\ n = 4 /\ Len(sent') = 2
           \/ pc' = "tl" /\ n = 5 /\ Len(sent') = 3
           \/ pc' = "tlBody" /\ n = 6 /\ Len(sent') = 3
    PROVE  VerdictInv'
<1>1. Along(n + 1)' /\ IsSeq(said')
  BY AlongOn DEF VerdictInv
<1>2. IsSeq(sent')
  <2>1. CASE \E to, h, r : Send(to, h, r)
    <3>1. PICK to, h, r : Send(to, h, r)
      BY <2>1
    <3> QED BY <3>1, Appended DEF VerdictInv, Send
  <2> QED BY <2>1 DEF VerdictInv
<1>3. VerdictIsEarned'
  <2>1. n + 1 \in 1 .. 7 /\ (Len(sent') = 3 => n + 1 >= 6)
    OBVIOUS
  <2> QED BY <1>1, <2>1, AlongIsEarned
<1> QED BY <1>1, <1>2, <1>3 DEF VerdictInv

LEMMA VerdictIdle ==
    ASSUME VerdictInv, UNCHANGED <<input, sent, answer, said>>, pc' \in {pc, "gone"}
    PROVE  VerdictInv'
BY DEF VerdictInv, Along, VerdictIsEarned

LEMMA VerdictNotSent ==
    ASSUME VerdictInv, NEW n \in 1 .. 6, Along(n), NEW o, NotSent(o), Len(sent) = 3 => n >= 6
    PROVE  VerdictInv'
<1>1. /\ Saw(o) /\ UNCHANGED <<input, sent>>
      /\ \/ o = "unbuildable" /\ Reply("badRequest")
         \/ o = "unreachable" /\ Reply("badGateway")
  BY DEF NotSent
<1>2. o \notin Right(input)[n + 1]
  <2>1. n + 1 \in {2, 3, 4, 5, 6, 7}
    OBVIOUS
  <2> QED BY <1>1, <2>1, RightIs DEF Expected
<1> QED BY <1>1, <1>2, BlameIsEarned

LEMMA VerdictFetch ==
    ASSUME VerdictInv, NEW o \in Outcomes, NEW ls,
           FpAnswered(o, ls) \/ FpRead(o) \/ IpsAnswered(o, ls) \/ (\E d \in Choices : IpsRead(o, d))
    PROVE  VerdictInv'
<1>1. CASE FpAnswered(o, ls)
  <2>1. Along(1) /\ Len(sent) = 1 /\ Right(input)[1 + 1] = {Expected(input)}
    BY <1>1, RightIs DEF FpAnswered, VerdictInv
  <2>2. CASE NotSent(o)
    BY <2>1, <2>2, VerdictNotSent
  <2>3. CASE o \in {"200", "429", "500"} /\ o # Expected(input) /\ Reply("badGateway") /\ Saw(o)
             /\ UNCHANGED <<input, sent>>
    BY <2>1, <2>3, BlameIsEarned
  <2>4. CASE o = Expected(input) /\ pc' = "fpBody" /\ Saw(o) /\ UNCHANGED <<input, sent, answer>>
    BY <2>1, <2>4, VerdictOn
  <2> QED BY <1>1, <2>2, <2>3, <2>4 DEF FpAnswered
<1>2. CASE FpRead(o)
  <2>1. /\ Along(2) /\ Len(sent) = 1 /\ Right(input)[2 + 1] = {"script", "stray"} /\ Saw(o)
        /\ UNCHANGED <<input, sent>>
    BY <1>2, RightIs DEF FpRead, VerdictInv
  <2>2. CASE o \in {"broken", "noScript"} /\ Reply("badGateway")
    BY <2>1, <2>2, BlameIsEarned
  <2>3. CASE o \in {"script", "stray"} /\ pc' = "linking" /\ answer' = answer
    BY <2>1, <2>3, VerdictOn
  <2> QED BY <1>2, <2>2, <2>3 DEF FpRead
<1>3. CASE IpsAnswered(o, ls)
  <2>1. Along(3) /\ Len(sent) = 2 /\ Right(input)[3 + 1] = {"200"}
    BY <1>3, RightIs DEF IpsAnswered, VerdictInv
  <2>2. CASE NotSent(o)
    BY <2>1, <2>2, VerdictNotSent
  <2>3. CASE o = "500" /\ Reply("badGateway") /\ Saw(o) /\ UNCHANGED <<input, sent>>
    BY <2>1, <2>3, BlameIsEarned
  <2>4. CASE o = "200" /\ pc' = "ipsBody" /\ Saw(o) /\ UNCHANGED <<input, sent, answer>>
    BY <2>1, <2>4, VerdictOn
  <2> QED BY <1>3, <2>2, <2>3, <2>4 DEF IpsAnswered
<1>4. CASE \E d \in Choices : IpsRead(o, d)
  <2>1. /\ Along(4) /\ Len(sent) = 2 /\ Right(input)[4 + 1] = {"text"} /\ Saw(o)
        /\ UNCHANGED <<input, sent>>
    BY <1>4, RightIs DEF IpsRead, VerdictInv
  <2>2. CASE o \in {"broken", "empty"} /\ Reply("badGateway")
    BY <2>1, <2>2, BlameIsEarned
  <2>3. CASE o = "text" /\ pc' = "solving" /\ answer' = answer
    BY <2>1, <2>3, VerdictOn
  <2> QED BY <1>4, <2>2, <2>3 DEF IpsRead
<1> QED BY <1>1, <1>2, <1>3, <1>4

LEMMA VerdictSendIps == ASSUME VerdictInv, SendIps PROVE VerdictInv'
<1>1. /\ pc' = "ips" /\ Along(3) /\ Len(sent) = 1 /\ IsSeq(sent) /\ IsSeq(said)
      /\ UNCHANGED <<input, answer, said>>
  BY DEF SendIps, VerdictInv
<1>2. PICK h, r : Send("ips", h, r)
  BY DEF SendIps
<1>3. IsSeq(sent') /\ Len(sent') = 2
  BY <1>1, <1>2, OneMoreSent
<1>4. Along(3)'
  BY <1>1 DEF Along
<1>5. VerdictIsEarned'
  BY <1>3, <1>4, AlongIsEarned
<1> QED BY <1>1, <1>3, <1>4, <1>5 DEF VerdictInv

LEMMA VerdictSolve ==
    ASSUME VerdictInv, NEW o \in Outcomes, NEW d, NEW isLite, NEW up, Solve(o, d, isLite, up)
    PROVE  VerdictInv'
<1>1. /\ Along(5) /\ Len(sent) = 2 /\ Saw(o) /\ IsSeq(sent) /\ input' = input
      /\ Right(input)[5 + 1] = {"solved"} \cup (IF IsNikeApi(input) THEN {} ELSE {"incomplete"})
  BY RightIs DEF Solve, VerdictInv
<1>2. CASE o = "refused" /\ Reply("refused") /\ sent' = sent
  BY <1>1, <1>2, BlameIsEarned
<1>3. CASE /\ o = "unusable" \/ (o = "incomplete" /\ IsNikeApi(input))
           /\ Reply("badGateway") /\ sent' = sent
  BY <1>1, <1>3, BlameIsEarned
<1>4. CASE /\ o = "solved" \/ (o = "incomplete" /\ ~IsNikeApi(input))
           /\ \E h, r : Send("tl", h, r)
           /\ pc' = "tl" /\ answer' = answer
  <2>1. PICK h, r : Send("tl", h, r)
    BY <1>4
  <2>2. Len(sent') = 3
    BY <1>1, <2>1, OneMoreSent
  <2>3. o \in Right(input)[5 + 1] /\ Len(sent) = 2 /\ \E to, g, q : Send(to, g, q)
    BY <1>1, <1>4, <2>1
  <2> QED BY <1>1, <1>4, <2>2, <2>3, VerdictOn
<1> QED BY <1>2, <1>3, <1>4 DEF Solve

LEMMA VerdictAnswer ==
    ASSUME VerdictInv, NEW o \in Outcomes, TlAnswered(o) \/ TlRead(o)
    PROVE  VerdictInv'
<1>1. CASE TlAnswered(o)
  <2>1. Along(6) /\ Len(sent) = 3 /\ Right(input)[6 + 1] = {"json", "bareJson"}
    BY <1>1, RightIs DEF TlAnswered, VerdictInv
  <2>2. CASE NotSent(o)
    BY <2>1, <2>2, VerdictNotSent
  <2>3. CASE o \in {"500", "otherType"} /\ Reply("rejected") /\ Saw(o) /\ UNCHANGED <<input, sent>>
    BY <2>1, <2>3, BlameIsEarned
  <2>4. CASE o \in {"json", "bareJson"} /\ pc' = "tlBody" /\ Saw(o) /\ UNCHANGED <<input, sent, answer>>
    BY <2>1, <2>4, VerdictOn
  <2> QED BY <1>1, <2>2, <2>3, <2>4 DEF TlAnswered
<1>2. CASE TlRead(o)
  <2>1. /\ Along(7) /\ Len(sent) = 3 /\ Right(input)[7 + 1] = {"reload"} /\ Saw(o)
        /\ UNCHANGED <<input, sent>> /\ IsSeq(sent) /\ IsSeq(said) /\ Len(said) = 7
        /\ o # "unbuildable" /\ o # "unreachable"
    BY <1>2, RightIs DEF TlRead, VerdictInv, Along
  <2>2. /\ IsSeq(said') /\ Len(said') = 8 /\ said'[8] = o /\ Whole(input')
        /\ \A p \in 1 .. 7 : said'[p] = said[p] /\ said'[p] \in Right(input')[p]
    <3>1. 7 \in 0 .. 7 /\ 7 + 1 = 8
      OBVIOUS
    <3> QED BY <2>1, <3>1, EndsWith
  <2>3. said'[7] = said[7] /\ Right(input')[8] = {"reload"}
    BY <2>1, <2>2
  <2>4. CASE o = "reload" /\ said[7] = "json" /\ Reply("accepted")
    <3>1. \A p \in 1 .. 8 : said'[p] \in Right(input')[p]
      BY <2>2, <2>3, <2>4
    <3>2. VerdictIsEarned'
      BY <2>1, <2>2, <2>3, <2>4, <3>1 DEF VerdictIsEarned, Whole, Reply
    <3> QED BY <2>1, <2>2, <2>4, <3>2 DEF VerdictInv, Reply
  <2>5. CASE ~(o = "reload" /\ said[7] = "json") /\ Reply("rejected")
    <3>1. ~(said'[7] = "json" /\ \A p \in 1 .. 8 : said'[p] \in Right(input')[p])
      BY <2>2, <2>3, <2>5
    <3>2. VerdictIsEarned'
      BY <2>1, <2>2, <2>3, <2>5, <3>1 DEF VerdictIsEarned, Whole, Reply
    <3> QED BY <2>1, <2>2, <2>5, <3>2 DEF VerdictInv, Reply
  <2> QED BY <1>2, <2>1, <2>4, <2>5 DEF TlRead
<1> QED BY <1>1, <1>2

LEMMA VerdictStep == VerdictInv /\ [Next]_sessionVars => VerdictInv'
<1> SUFFICES ASSUME VerdictInv, [Next]_sessionVars PROVE VerdictInv'
  OBVIOUS
<1>1. CASE UNCHANGED sessionVars
  BY <1>1, VerdictIdle DEF sessionVars
<1>2. ASSUME NEW ready \in BOOLEAN, NEW d \in Devices, Receive(ready, d) PROVE VerdictInv'
  BY <1>2, VerdictReceive
<1>3. ASSUME NEW o \in Outcomes, NEW ls \in SetCookies, FpAnswered(o, ls) \/ IpsAnswered(o, ls)
      PROVE  VerdictInv'
  BY <1>3, VerdictFetch
<1>4. ASSUME NEW o \in Outcomes, FpRead(o) PROVE VerdictInv'
  BY <1>4, VerdictFetch
<1>5. ASSUME NEW o \in Outcomes, NEW d \in Choices, IpsRead(o, d) PROVE VerdictInv'
  BY <1>5, VerdictFetch
<1>6. ASSUME NEW o \in Outcomes, TlAnswered(o) \/ TlRead(o) PROVE VerdictInv'
  BY <1>6, VerdictAnswer
<1>7. ASSUME NEW o \in Outcomes, NEW d \in Choices, NEW isLite \in BOOLEAN, NEW up \in Halves,
             Solve(o, d, isLite, up)
      PROVE  VerdictInv'
  BY <1>7, VerdictSolve
<1>8. CASE SendIps
  BY <1>8, VerdictSendIps
<1>9. CASE Disconnect
  BY <1>9, VerdictIdle DEF Disconnect
<1>10. CASE Tick
  BY <1>10, VerdictIdle DEF Tick
<1> QED BY <1>1, <1>2, <1>3, <1>4, <1>5, <1>6, <1>7, <1>8, <1>9, <1>10 DEF Next, SessionStep

LEMMA VerdictInvHolds == Spec => []VerdictInv
<1>1. Init => VerdictInv
  <2> SUFFICES ASSUME Init PROVE VerdictInv
    OBVIOUS
  <2>1. /\ pc = "start" /\ said = <<>> /\ sent = <<>> /\ answer = "none"
    BY DEF Init
  <2>2. Len(said) = 0 /\ Len(sent) = 0
    BY <2>1
  <2>3. VerdictIsEarned
    BY <2>1, <2>2 DEF VerdictIsEarned
  <2> QED BY <2>1, <2>3, EmptyIsSeq DEF VerdictInv
<1> QED BY <1>1, VerdictStep, PTL DEF Spec

\* For any hosts, devices, cookies and failures: which of the five answers is given
\* is decided, both ways, by the first step that went wrong, as VerdictIsEarned says;
\* success exactly by none.
THEOREM VerdictIsEarnedHolds == Spec => []VerdictIsEarned
<1>1. VerdictInv => VerdictIsEarned
  BY DEF VerdictInv
<1> QED BY <1>1, VerdictInvHolds, PTL

----------------------------------------------------------------------------
(* One page load *)

\* A referer that tells the truth to host h, and nothing of another origin.
Truthful(r, h) ==
    r # NoReferer =>
        /\ r.shows = "url" => r.host = h
        /\ r.site = "same-origin" <=> r.host = h
        /\ r.site = "same-site" <=> r.host # h /\ LastTwo(r.host) = LastTwo(h)

\* A request that looks like one of the page of the session, or went astray because
\* of what the body of fp, the third thing that was said, called the script.
Genuine(s) ==
    /\ s.agent = agent
    /\ s.host = input.host => Truthful(s.referer, s.host)
    /\ s.host # input.host => s.to = "ips" /\ Len(said) >= 3 /\ said[3] = "stray"

\* The agent is chosen when fp is sent and stays.
PageInv ==
    /\ IsSeq(sent) /\ IsSeq(said)
    /\ pc = "start" => sent = <<>>
    /\ pc \in Fetching \cup Solving \/ Len(sent) > 0 => (agent \in Devices <=> IsNikeApi(input))
    /\ \A p \in 1 .. Len(sent) : Genuine(sent[p])

\* The referer of fp is truthful, with or without a page.
LEMMA RefererTrue ==
    ASSUME NEW i
    PROVE  Truthful(Referer(i), i.host)
<1> USE DEF Truthful
<1>1. CASE ~HasPage(i)
  BY <1>1 DEF Referer
<1>2. CASE HasPage(i)
  <2> DEFINE p == PageHost[i.host]
  <2>1. Referer(i) = [host |-> p, shows |-> IF p = i.host THEN "url" ELSE "origin",
                      site |-> IF p = i.host THEN "same-origin"
                               ELSE IF Registrable(p) = Registrable(i.host) THEN "same-site"
                               ELSE "cross-site"]
    BY <1>2 DEF Referer
  <2> HIDE DEF p
  <2>2. CASE p = i.host
    BY <2>1, <2>2
  <2>3. CASE p # i.host /\ LastTwo(p) = LastTwo(i.host)
    <3>1. Registrable(p) = Registrable(i.host)
      BY <2>3 DEF Registrable
    <3>2. Referer(i).host = p /\ Referer(i).site = "same-site"
      BY <2>1, <2>3, <3>1
    <3>3. Referer(i).shows = "origin"
      BY <2>1, <2>3
    <3> QED BY <3>2, <3>3, <2>3
  <2>4. CASE p # i.host /\ LastTwo(p) # LastTwo(i.host)
    <3>1. Registrable(p) # Registrable(i.host)
      BY <2>4 DEF Registrable
    <3>2. Referer(i).host = p /\ Referer(i).site = "cross-site"
      BY <2>1, <2>4, <3>1
    <3>3. Referer(i).shows = "origin"
      BY <2>1, <2>4
    <3> QED BY <3>2, <3>3, <2>4
  <2> QED BY <2>2, <2>3, <2>4
<1> QED BY <1>1, <1>2

\* What is said is never taken back.
LEMMA SaidStays ==
    ASSUME IsSeq(said), said' = said \/ \E o : Saw(o)
    PROVE  /\ IsSeq(said')
           /\ Len(said) >= 3 => Len(said') >= 3 /\ said'[3] = said[3]
<1>1. CASE \E o : Saw(o)
  <2>1. PICK o : said' = Append(said, o)
    BY <1>1 DEF Saw
  <2> QED BY <2>1, Appended
<1> QED BY <1>1

LEMMA PageIdle ==
    ASSUME PageInv, UNCHANGED <<input, agent, sent>>, said' = said \/ \E o : Saw(o),
           pc' \in Fetching \cup Solving => pc \in Fetching \cup Solving,
           pc' = "start" => pc = "start"
    PROVE  PageInv'
BY SaidStays DEF PageInv, Genuine, Truthful, Fetching, Solving

\* A request is sent with the agent of the session and a truthful referer.
LEMMA PageSend ==
    ASSUME PageInv, NEW to, NEW h, NEW r, Send(to, h, r), input' = input,
           said' = said \/ \E o : Saw(o),
           pc' \in Fetching \cup Solving, agent' \in Devices <=> IsNikeApi(input),
           sent = <<>> \/ agent' = agent,
           h = input.host => Truthful(r, h),
           h # input.host => to = "ips" /\ Len(said) >= 3 /\ said[3] = "stray"
    PROVE  PageInv'
<1> DEFINE s == [to |-> to, host |-> h, referer |-> r, agent |-> agent', cookies |-> jar,
                 after |-> Len(heard)]
<1>1. /\ sent' = Append(sent, s)
      /\ s.to = to /\ s.host = h /\ s.referer = r /\ s.agent = agent'
  BY DEF Send
<1> HIDE DEF s
<1>2. /\ IsSeq(sent') /\ Len(sent) \in Nat /\ Len(sent') = Len(sent) + 1
      /\ \A p \in 1 .. Len(sent) : sent'[p] = sent[p]
      /\ sent'[Len(sent) + 1] = s
  BY <1>1, Appended DEF PageInv
<1>3. IsSeq(said') /\ (Len(said) >= 3 => Len(said') >= 3 /\ said'[3] = said[3])
  BY SaidStays DEF PageInv
<1>4. ASSUME NEW p \in 1 .. Len(sent') PROVE Genuine(sent[p])'
  <2>1. CASE p = Len(sent) + 1
    BY <2>1, <1>1, <1>2, <1>3 DEF Genuine
  <2>2. CASE p \in 1 .. Len(sent)
    <3>1. sent # <<>> /\ agent' = agent
      BY <2>2
    <3>2. Genuine(sent[p]) /\ sent'[p] = sent[p]
      BY <2>2, <1>2 DEF PageInv
    <3> QED BY <3>1, <3>2, <1>3 DEF Genuine
  <2> QED BY <2>1, <2>2, <1>2
<1>5. pc' # "start"
  BY DEF Fetching, Solving
<1> QED BY <1>2, <1>3, <1>4, <1>5 DEF PageInv

\* The referer of the requests that come after fp.
Own == [host |-> input.host, shows |-> "url", site |-> "same-origin"]

\* It tells the caller's host the truth.
LEMMA OwnTrue == Truthful(Own, input.host)
BY DEF Own, Truthful

LEMMA PageStep == PageInv /\ VerdictInv /\ [Next]_sessionVars => PageInv'
<1> SUFFICES ASSUME PageInv, VerdictInv, [Next]_sessionVars PROVE PageInv'
  OBVIOUS
<1> USE DEF Fetching, Solving
<1>1. CASE UNCHANGED sessionVars
  BY <1>1, PageIdle DEF sessionVars
<1>2. ASSUME NEW ready \in BOOLEAN, NEW d \in Devices, Receive(ready, d) PROVE PageInv'
  <2> DEFINE r == IF IsNikeApi(input) THEN NoReferer ELSE Referer(input)
  <2>1. pc = "start" /\ sent = <<>> /\ input' = input /\ IsSeq(said') /\ \E o : Saw(o)
    BY <1>2, SaidStays DEF Receive, PageInv
  <2>2. CASE pc' = "done" /\ sent' = sent
    BY <2>1, <2>2, EmptyIsSeq DEF PageInv
  <2>3. CASE Send("fp", input.host, r) /\ agent' = (IF IsNikeApi(input) THEN d ELSE Desktop) /\ pc' = "fp"
    <3>1. agent' \in Devices <=> IsNikeApi(input)
      BY <2>3, SessionAssumption
    <3>2. Truthful(r, input.host)
      BY RefererTrue DEF Truthful
    <3> HIDE DEF r
    <3> QED BY <2>1, <2>3, <3>1, <3>2, PageSend
  <2> QED BY <1>2, <2>2, <2>3 DEF Receive, Reply
<1>3. ASSUME NEW o \in Outcomes, NEW ls \in SetCookies, FpAnswered(o, ls) PROVE PageInv'
  BY <1>3, PageIdle DEF FpAnswered, NotSent, Reply
<1>4. ASSUME NEW o \in Outcomes, NEW ls \in SetCookies, IpsAnswered(o, ls) PROVE PageInv'
  BY <1>4, PageIdle DEF IpsAnswered, NotSent, Reply
<1>5. ASSUME NEW o \in Outcomes, FpRead(o) PROVE PageInv'
  BY <1>5, PageIdle DEF FpRead, Reply
<1>6. CASE SendIps
  <2> DEFINE h == IF said[3] = "stray" THEN Elsewhere(input.host) ELSE input.host
  <2>1. /\ pc = "linking" /\ pc' = "ips" /\ agent' = agent /\ input' = input /\ said' = said
        /\ Send("ips", h, Own)
    BY <1>6 DEF SendIps, Own
  <2>2. Len(said) = 3
    BY <2>1 DEF VerdictInv, Along
  <2>3. h # input.host => said[3] = "stray"
    OBVIOUS
  <2>4. h = input.host => Truthful(Own, h)
    BY OwnTrue
  <2>5. agent' \in Devices <=> IsNikeApi(input)
    BY <2>1 DEF PageInv
  <2> HIDE DEF h
  <2> QED BY <2>1, <2>2, <2>3, <2>4, <2>5, PageSend
<1>7. ASSUME NEW o \in Outcomes, TlAnswered(o) \/ TlRead(o) PROVE PageInv'
  BY <1>7, PageIdle DEF TlAnswered, TlRead, NotSent, Reply
<1>8. ASSUME NEW o \in Outcomes, NEW d \in Choices, IpsRead(o, d) PROVE PageInv'
  BY <1>8, PageIdle DEF IpsRead, Reply
<1>9. ASSUME NEW o \in Outcomes, NEW d \in Choices, NEW isLite \in BOOLEAN, NEW up \in Halves,
             Solve(o, d, isLite, up)
      PROVE  PageInv'
  <2>0. \E x : Saw(x)
    BY <1>9 DEF Solve
  <2>1. CASE pc' = "done" /\ UNCHANGED <<input, agent, sent>>
    BY <2>0, <2>1, PageIdle
  <2>2. CASE pc = "solving" /\ pc' = "tl" /\ agent' = agent /\ input' = input
             /\ Send("tl", input.host, Own)
    <3>1. agent' \in Devices <=> IsNikeApi(input)
      BY <2>2 DEF PageInv
    <3> QED BY <2>2, <3>1, <2>0, OwnTrue, PageSend
  <2> QED BY <1>9, <2>1, <2>2 DEF Solve, Reply, Own
<1>10. CASE Disconnect
  BY <1>10, PageIdle DEF Disconnect
<1>11. CASE Tick
  BY <1>11, PageIdle DEF Tick
<1> QED BY <1>1, <1>2, <1>3, <1>4, <1>5, <1>6, <1>7, <1>8, <1>9, <1>10, <1>11 DEF Next, SessionStep

\* Whatever the caller asks for and the site answers, the requests of a session are
\* those of one browser, whose referers tell his host the truth and nothing of other
\* origins; the one request that may go to another host is that for the script.
THEOREM SentLikeOnePageHolds == Spec => []SentLikeOnePage
<1>1. Init => PageInv
  BY EmptyIsSeq DEF Init, PageInv, Fetching, Solving
<1>2. PageInv => SentLikeOnePage
  BY DEF PageInv, Genuine, Truthful, SentLikeOnePage
<1> QED BY <1>1, <1>2, PageStep, VerdictInvHolds, PTL DEF Spec

----------------------------------------------------------------------------
(* Cookies.  The lines are looked at as far as line m. *)

Names == {l.name : l \in Lines}

LinesTo(ls, m) == \A q \in 1 .. m : ls[q] \in Lines \cup {Junk}

\* Line q is the last one of cookie n.
LastOf(ls, m, n, q) ==
    q \in 1 .. m /\ IsLine(ls[q], n) /\ \A r \in q + 1 .. m : ~IsLine(ls[r], n)

\* Cookie n has been there since line p.
BornAt(ls, m, n, p) ==
    /\ p \in 1 .. m
    /\ IsLine(ls[p], n)
    /\ \A q \in p .. m : IsLine(ls[q], n) => ~ls[q].expires
    /\ \A q \in 1 .. p - 1 :
         IsLine(ls[q], n) /\ ~ls[q].expires =>
            \E r \in q + 1 .. p - 1 : IsLine(ls[r], n) /\ ls[r].expires

\* Whatever was stored of cookie n was removed again.
Gone(ls, m, n) ==
    \A q \in 1 .. m : IsLine(ls[q], n) /\ ~ls[q].expires =>
        \E r \in q + 1 .. m : IsLine(ls[r], n) /\ ls[r].expires

\* c is a cookie with the value of its last line.
KeptOf(ls, m, c) ==
    /\ c = [name |-> c.name, value |-> c.value]
    /\ c.name \in Names
    /\ \E q : LastOf(ls, m, c.name, q) /\ ~ls[q].expires /\ ls[q].value = c.value

\* Jar j holds the cookies that are there, born at the lines b.
JarTo(j, ls, m, b) ==
    /\ IsSeq(j)
    /\ \A p \in 1 .. Len(j) : KeptOf(ls, m, j[p]) /\ BornAt(ls, m, j[p].name, b[p])
    /\ \A p, q \in 1 .. Len(j) : p < q => b[p] < b[q]
    /\ \A n : (\A p \in 1 .. Len(j) : j[p].name # n) => Gone(ls, m, n)

IsJarTo(j, ls, m) == \E b : JarTo(j, ls, m, b)

LEMMA BornOnce ==
    ASSUME NEW ls, NEW m \in Nat, NEW n, NEW p, NEW q, BornAt(ls, m, n, p), BornAt(ls, m, n, q)
    PROVE  p = q
<1>1. ASSUME NEW x, NEW y, BornAt(ls, m, n, x), BornAt(ls, m, n, y), x < y PROVE FALSE
  <2>1. x \in 1 .. y - 1 /\ x \in x .. m /\ IsLine(ls[x], n)
    BY <1>1 DEF BornAt
  <2>2. ~ls[x].expires
    BY <1>1, <2>1 DEF BornAt
  <2>3. PICK r \in x + 1 .. y - 1 : IsLine(ls[r], n) /\ ls[r].expires
    BY <1>1, <2>1, <2>2 DEF BornAt
  <2>4. r \in x .. m
    BY <1>1, <2>1, <2>3 DEF BornAt
  <2> QED BY <1>1, <2>3, <2>4 DEF BornAt
<1>2. p \in Int /\ q \in Int
  BY DEF BornAt
<1> QED BY <1>1, <1>2

\* A line of another cookie, or of none.
LEMMA OtherLine ==
    ASSUME NEW ls, NEW m \in Nat, NEW n, ~IsLine(ls[m + 1], n)
    PROVE  /\ \A p : BornAt(ls, m, n, p) => BornAt(ls, m + 1, n, p)
           /\ \A q : LastOf(ls, m, n, q) => LastOf(ls, m + 1, n, q)
           /\ Gone(ls, m, n) => Gone(ls, m + 1, n)
<1>1. ASSUME NEW p, BornAt(ls, m, n, p) PROVE BornAt(ls, m + 1, n, p)
  <2>1. p \in 1 .. m + 1 /\ \A q \in p .. m + 1 : q \in p .. m \/ q = m + 1
    BY <1>1 DEF BornAt
  <2> QED BY <1>1, <2>1 DEF BornAt
<1>2. ASSUME NEW q, LastOf(ls, m, n, q) PROVE LastOf(ls, m + 1, n, q)
  <2>1. q \in 1 .. m + 1 /\ \A r \in q + 1 .. m + 1 : r \in q + 1 .. m \/ r = m + 1
    BY <1>2 DEF LastOf
  <2> QED BY <1>2, <2>1 DEF LastOf
<1>3. ASSUME Gone(ls, m, n) PROVE Gone(ls, m + 1, n)
  <2> SUFFICES ASSUME NEW q \in 1 .. m + 1, IsLine(ls[q], n), ~ls[q].expires
               PROVE  \E r \in q + 1 .. m + 1 : IsLine(ls[r], n) /\ ls[r].expires
    BY DEF Gone
  <2>1. q \in 1 .. m
    OBVIOUS
  <2>2. PICK r \in q + 1 .. m : IsLine(ls[r], n) /\ ls[r].expires
    BY <1>3, <2>1 DEF Gone
  <2> QED BY <2>2
<1> QED BY <1>1, <1>2, <1>3

\* A line that sets cookie n.
LEMMA SettingLine ==
    ASSUME NEW ls, NEW m \in Nat, NEW n, IsLine(ls[m + 1], n), ~ls[m + 1].expires
    PROVE  /\ \A p : BornAt(ls, m, n, p) => BornAt(ls, m + 1, n, p)
           /\ LastOf(ls, m + 1, n, m + 1)
           /\ Gone(ls, m, n) => BornAt(ls, m + 1, n, m + 1)
<1>1. ASSUME NEW p, BornAt(ls, m, n, p) PROVE BornAt(ls, m + 1, n, p)
  <2>1. p \in 1 .. m + 1 /\ \A q \in p .. m + 1 : q \in p .. m \/ q = m + 1
    BY <1>1 DEF BornAt
  <2> QED BY <1>1, <2>1 DEF BornAt
<1>2. LastOf(ls, m + 1, n, m + 1)
  BY DEF LastOf
<1>3. ASSUME Gone(ls, m, n) PROVE BornAt(ls, m + 1, n, m + 1)
  <2>1. m + 1 \in 1 .. m + 1 /\ (m + 1) - 1 = m /\ \A q \in m + 1 .. m + 1 : q = m + 1
    OBVIOUS
  <2> QED BY <1>3, <2>1 DEF BornAt, Gone
<1> QED BY <1>1, <1>2, <1>3

\* A line that removes cookie n.
LEMMA RemovingLine ==
    ASSUME NEW ls, NEW m \in Nat, NEW n, IsLine(ls[m + 1], n), ls[m + 1].expires
    PROVE  Gone(ls, m + 1, n)
<1> SUFFICES ASSUME NEW q \in 1 .. m + 1, IsLine(ls[q], n), ~ls[q].expires
             PROVE  \E r \in q + 1 .. m + 1 : IsLine(ls[r], n) /\ ls[r].expires
  BY DEF Gone
<1>1. m + 1 \in q + 1 .. m + 1
  OBVIOUS
<1> QED BY <1>1

\* What is left of a jar without its p-th cookie.
LEMMA WithoutIs ==
    ASSUME NEW j, IsSeq(j), NEW p \in 1 .. Len(j), NEW w, w = Without(j, p)
    PROVE  /\ IsSeq(w) /\ Len(j) \in Nat /\ Len(w) = Len(j) - 1
           /\ \A q \in 1 .. Len(w) : w[q] = IF q < p THEN j[q] ELSE j[q + 1]
<1>1. PICK S : j \in Seq(S)
  BY DEF IsSeq
<1>2. PICK u : u = SubSeq(j, 1, p - 1)
  OBVIOUS
<1>3. PICK v : v = SubSeq(j, p + 1, Len(j))
  OBVIOUS
<1>4. u \in Seq(S) /\ Len(u) = p - 1 /\ \A q \in 1 .. p - 1 : u[q] = j[q]
  BY <1>1, <1>2
<1>5. v \in Seq(S) /\ Len(v) = Len(j) - p /\ \A q \in 1 .. Len(j) - p : v[q] = j[p + q]
  BY <1>1, <1>3
<1>6. w = u \o v
  BY <1>2, <1>3 DEF Without
<1>7. w \in Seq(S) /\ Len(w) = Len(u) + Len(v)
      /\ \A q \in 1 .. Len(w) : w[q] = IF q <= Len(u) THEN u[q] ELSE v[q - Len(u)]
  <2>1. /\ u \o v \in Seq(S) /\ Len(u \o v) = Len(u) + Len(v)
        /\ \A q \in 1 .. Len(u) + Len(v) : (u \o v)[q] = IF q <= Len(u) THEN u[q] ELSE v[q - Len(u)]
    <3>1. u \in Seq(S) /\ v \in Seq(S)
      BY <1>4, <1>5
    <3> QED BY <3>1, ConcatProperties, Zenon
  <2>2. Len(w) = Len(u) + Len(v)
    BY <1>6, <2>1, Zenon
  <2> QED BY <1>6, <2>1, <2>2, Zenon
<1>8. Len(w) = Len(j) - 1 /\ Len(j) \in Nat
  <2>1. Len(j) \in Nat
    BY <1>1
  <2>2. Len(w) = (p - 1) + (Len(j) - p)
    BY <1>4, <1>5, <1>7
  <2> QED BY <2>1, <2>2
<1>9. ASSUME NEW q \in 1 .. Len(w) PROVE w[q] = IF q < p THEN j[q] ELSE j[q + 1]
  <2>1. CASE q < p
    BY <1>4, <1>7, <1>8, <2>1
  <2>2. CASE ~(q < p)
    <3>1. w[q] = v[q - (p - 1)]
      BY <1>4, <1>7, <2>2
    <3>2. q - (p - 1) \in 1 .. Len(j) - p /\ p + (q - (p - 1)) = q + 1
      BY <1>8, <2>2
    <3> QED BY <1>5, <2>2, <3>1, <3>2
  <2> QED BY <2>1, <2>2
<1> QED BY <1>7, <1>8, <1>9 DEF IsSeq

Renewed(j, p, v) == [j EXCEPT ![p].value = v]

\* The cases of StoreLine.
LEMMA StoreLineIs ==
    ASSUME NEW j, NEW l
    PROVE  /\ l = Junk => StoreLine(j, l) = j
           /\ l # Junk /\ (\A q \in 1 .. Len(j) : j[q].name # l.name) =>
                StoreLine(j, l) = IF l.expires THEN j
                                  ELSE Append(j, [name |-> l.name, value |-> l.value])
           /\ l # Junk /\ (\E q \in 1 .. Len(j) : j[q].name = l.name) =>
                \E p \in 1 .. Len(j) :
                    /\ j[p].name = l.name
                    /\ StoreLine(j, l) = IF l.expires THEN Without(j, p)
                                         ELSE Renewed(j, p, l.value)
<1>1. PICK ps : ps = Positions(j, l.name)
  OBVIOUS
<1>2. \A q : q \in ps <=> q \in 1 .. Len(j) /\ j[q].name = l.name
  BY <1>1 DEF Positions
<1>3. PICK p : p = CHOOSE q \in ps : TRUE
  OBVIOUS
<1>4. CASE l = Junk
  BY <1>4 DEF StoreLine
<1>5. CASE l # Junk /\ ps = {}
  BY <1>1, <1>2, <1>5 DEF StoreLine
<1>6. CASE l # Junk /\ ps # {}
  <2>1. p \in ps
    BY <1>3, <1>6
  <2>2. StoreLine(j, l) = IF l.expires THEN Without(j, p) ELSE Renewed(j, p, l.value)
    BY <1>1, <1>3, <1>6 DEF StoreLine, Renewed
  <2> QED BY <1>2, <1>6, <2>1, <2>2
<1> QED BY <1>4, <1>5, <1>6

LEMMA OtherCookie ==
    ASSUME NEW ls, NEW m \in Nat, NEW c, KeptOf(ls, m, c), NEW p, BornAt(ls, m, c.name, p),
           ~IsLine(ls[m + 1], c.name)
    PROVE  KeptOf(ls, m + 1, c) /\ BornAt(ls, m + 1, c.name, p)
<1>1. PICK q : LastOf(ls, m, c.name, q) /\ ~ls[q].expires /\ ls[q].value = c.value
  BY DEF KeptOf
<1>2. LastOf(ls, m + 1, c.name, q) /\ BornAt(ls, m + 1, c.name, p)
  BY <1>1, OtherLine
<1> QED BY <1>1, <1>2 DEF KeptOf

\* No two cookies of a jar have the same name.
LEMMA JarApart ==
    ASSUME NEW j, NEW ls, NEW m \in Nat, NEW b, JarTo(j, ls, m, b),
           NEW p \in 1 .. Len(j), NEW q \in 1 .. Len(j), j[p].name = j[q].name
    PROVE  p = q
<1>1. b[p] = b[q]
  <2>1. BornAt(ls, m, j[p].name, b[p]) /\ BornAt(ls, m, j[p].name, b[q])
    BY DEF JarTo
  <2> QED BY <2>1, BornOnce
<1>2. b[p] \in Int
  BY DEF JarTo, BornAt
<1>3. ~(p < q) /\ ~(q < p)
  BY <1>1, <1>2 DEF JarTo
<1> QED BY <1>3

\* A line that is skipped.
LEMMA JarSkips ==
    ASSUME NEW j, NEW ls, NEW m \in Nat, NEW b, JarTo(j, ls, m, b),
           \A p \in 1 .. Len(j) : ~IsLine(ls[m + 1], j[p].name),
           NEW l, l = ls[m + 1], l = Junk \/ l.expires
    PROVE  IsJarTo(j, ls, m + 1)
<1>1. \A p \in 1 .. Len(j) : KeptOf(ls, m + 1, j[p]) /\ BornAt(ls, m + 1, j[p].name, b[p])
  BY OtherCookie DEF JarTo
<1>2. ASSUME NEW n, \A p \in 1 .. Len(j) : j[p].name # n PROVE Gone(ls, m + 1, n)
  <2>1. Gone(ls, m, n)
    BY <1>2 DEF JarTo
  <2>2. CASE IsLine(l, n)
    BY <2>2, RemovingLine DEF IsLine
  <2>3. CASE ~IsLine(l, n)
    BY <2>1, <2>3, OtherLine
  <2> QED BY <2>2, <2>3
<1>3. JarTo(j, ls, m + 1, b)
  BY <1>1, <1>2 DEF JarTo
<1> QED BY <1>3 DEF IsJarTo

\* A line that sets a new cookie.
LEMMA JarGrows ==
    ASSUME NEW j, NEW ls, NEW m \in Nat, NEW b, JarTo(j, ls, m, b),
           NEW l, l = ls[m + 1], l # Junk, l \in Lines, ~l.expires,
           \A p \in 1 .. Len(j) : j[p].name # l.name,
           NEW k, k = Append(j, [name |-> l.name, value |-> l.value])
    PROVE  IsJarTo(k, ls, m + 1)
<1>1. PICK c : c = [name |-> l.name, value |-> l.value]
  OBVIOUS
<1>2. /\ IsSeq(k) /\ Len(j) \in Nat /\ Len(k) = Len(j) + 1
      /\ \A p \in 1 .. Len(j) : k[p] = j[p]
      /\ k[Len(j) + 1] = c
  BY <1>1, Appended DEF JarTo
<1>3. PICK z \in Nat : z = Len(j)
  BY <1>2
<1>4. PICK d : d = [p \in 1 .. z + 1 |-> IF p = z + 1 THEN m + 1 ELSE b[p]]
  OBVIOUS
<1>5. c.name = l.name /\ c.value = l.value /\ c.name \in Names /\ c = [name |-> c.name, value |-> c.value]
  BY <1>1 DEF Names
<1>6. IsLine(l, c.name)
  BY <1>5 DEF IsLine
<1>7. KeptOf(ls, m + 1, c)
  <2>1. LastOf(ls, m + 1, c.name, m + 1)
    BY <1>6, SettingLine
  <2> QED BY <1>5, <2>1 DEF KeptOf
<1>8. BornAt(ls, m + 1, c.name, m + 1)
  <2>1. Gone(ls, m, c.name)
    BY <1>5 DEF JarTo
  <2> QED BY <1>6, <2>1, SettingLine
<1>9. ASSUME NEW p \in 1 .. z PROVE KeptOf(ls, m + 1, j[p]) /\ BornAt(ls, m + 1, j[p].name, b[p])
  <2>1. ~IsLine(l, j[p].name)
    BY <1>3 DEF IsLine
  <2> QED BY <1>3, <2>1, OtherCookie DEF JarTo
<1>10. \A p \in 1 .. z + 1 : p = z + 1 \/ p \in 1 .. z
  OBVIOUS
<1>11. d[z + 1] = m + 1 /\ \A p \in 1 .. z : d[p] = b[p] /\ b[p] \in 1 .. m
  <2>1. \A p \in 1 .. z : b[p] \in 1 .. m
    BY <1>3 DEF JarTo, BornAt
  <2> QED BY <1>4, <2>1
<1>12. \A p \in 1 .. z + 1 : KeptOf(ls, m + 1, k[p]) /\ BornAt(ls, m + 1, k[p].name, d[p])
  BY <1>2, <1>3, <1>7, <1>8, <1>9, <1>10, <1>11
<1>13. \A p, q \in 1 .. z + 1 : p < q => d[p] < d[q]
  <2>1. \A p, q \in 1 .. z : p < q => b[p] < b[q]
    BY <1>3 DEF JarTo
  <2> QED BY <1>10, <1>11, <2>1
<1>14. ASSUME NEW n, \A p \in 1 .. z + 1 : k[p].name # n PROVE Gone(ls, m + 1, n)
  <2>1. \A p \in 1 .. z : j[p].name # n
    BY <1>2, <1>3, <1>14
  <2>2. c.name # n
    BY <1>2, <1>3, <1>14
  <2>3. Gone(ls, m, n) /\ ~IsLine(l, n)
    BY <1>3, <1>5, <2>1, <2>2 DEF JarTo, IsLine
  <2> QED BY <2>3, OtherLine
<1>15. JarTo(k, ls, m + 1, d)
  BY <1>2, <1>3, <1>12, <1>13, <1>14 DEF JarTo
<1> QED BY <1>15 DEF IsJarTo

\* A line that sets a cookie again: it stays where it is.
LEMMA JarRenews ==
    ASSUME NEW j, NEW ls, NEW m \in Nat, NEW b, JarTo(j, ls, m, b),
           NEW l, l = ls[m + 1], l # Junk, ~l.expires,
           NEW p \in 1 .. Len(j), j[p].name = l.name,
           NEW k, k = Renewed(j, p, l.value)
    PROVE  IsJarTo(k, ls, m + 1)
<1>1. PICK c : c = [name |-> l.name, value |-> l.value]
  OBVIOUS
<1>2. PICK S : j \in Seq(S)
  BY DEF JarTo, IsSeq
<1>3. PICK e : e = [j[p] EXCEPT !.value = l.value]
  OBVIOUS
<1>4. e = c
  <2>1. PICK x : x = j[p]
    OBVIOUS
  <2>2. x = [name |-> l.name, value |-> x.value]
    BY <2>1 DEF JarTo, KeptOf
  <2>3. e = [x EXCEPT !.value = l.value]
    BY <1>3, <2>1
  <2> QED BY <1>1, <2>2, <2>3
<1>5. k = [j EXCEPT ![p] = e]
  BY <1>3 DEF Renewed
<1>6. k \in Seq(S \cup {c}) /\ Len(k) = Len(j) /\ k[p] = c
      /\ \A q \in 1 .. Len(j) : q # p => k[q] = j[q]
  <2>1. j \in Seq(S \cup {c})
    BY <1>2
  <2> QED BY <1>4, <1>5, <2>1
<1>7. IsSeq(k)
  BY <1>6 DEF IsSeq
<1>8. c.name = l.name /\ c.value = l.value /\ c.name \in Names /\ c = [name |-> c.name, value |-> c.value]
  BY <1>1 DEF JarTo, KeptOf
<1>9. IsLine(l, c.name)
  BY <1>8 DEF IsLine
<1>10. KeptOf(ls, m + 1, c) /\ BornAt(ls, m + 1, c.name, b[p])
  <2>1. LastOf(ls, m + 1, c.name, m + 1) /\ BornAt(ls, m + 1, c.name, b[p])
    BY <1>8, <1>9, SettingLine DEF JarTo
  <2> QED BY <1>8, <2>1 DEF KeptOf
<1>11. ASSUME NEW q \in 1 .. Len(j), q # p
       PROVE  KeptOf(ls, m + 1, k[q]) /\ BornAt(ls, m + 1, k[q].name, b[q])
  <2>1. j[q].name # l.name
    BY <1>11, JarApart
  <2>2. ~IsLine(l, j[q].name) /\ k[q] = j[q]
    BY <1>6, <1>11, <2>1 DEF IsLine
  <2> QED BY <2>2, OtherCookie DEF JarTo
<1>12. \A q \in 1 .. Len(k) : KeptOf(ls, m + 1, k[q]) /\ BornAt(ls, m + 1, k[q].name, b[q])
  BY <1>6, <1>10, <1>11
<1>13. ASSUME NEW n, \A q \in 1 .. Len(k) : k[q].name # n PROVE Gone(ls, m + 1, n)
  <2>1. \A q \in 1 .. Len(j) : j[q].name # n
    BY <1>6, <1>8, <1>13
  <2>2. Gone(ls, m, n) /\ ~IsLine(l, n)
    BY <2>1 DEF JarTo, IsLine
  <2> QED BY <2>2, OtherLine
<1>14. JarTo(k, ls, m + 1, b)
  BY <1>6, <1>7, <1>12, <1>13 DEF JarTo
<1> QED BY <1>14 DEF IsJarTo

\* A line that removes a cookie: those after it move up.
LEMMA JarShrinks ==
    ASSUME NEW j, NEW ls, NEW m \in Nat, NEW b, JarTo(j, ls, m, b),
           NEW l, l = ls[m + 1], l # Junk, l.expires,
           NEW p \in 1 .. Len(j), j[p].name = l.name,
           NEW k, k = Without(j, p)
    PROVE  IsJarTo(k, ls, m + 1)
<1>1. /\ IsSeq(k) /\ Len(j) \in Nat /\ Len(k) = Len(j) - 1
      /\ \A q \in 1 .. Len(k) : k[q] = IF q < p THEN j[q] ELSE j[q + 1]
  BY WithoutIs DEF JarTo
<1>2. PICK z \in Nat : z = Len(k)
  <2>1. Len(k) \in Nat
    BY <1>1
  <2> QED BY <2>1
<1>3. PICK to : to = [q \in 1 .. z |-> IF q < p THEN q ELSE q + 1]
  OBVIOUS
<1>4. PICK d : d = [q \in 1 .. z |-> b[to[q]]]
  OBVIOUS
<1>5. \A q \in 1 .. z : /\ to[q] \in 1 .. Len(j) /\ to[q] # p /\ k[q] = j[to[q]] /\ d[q] = b[to[q]]
  BY <1>1, <1>2, <1>3, <1>4
<1>6. \A q, r \in 1 .. z : q < r => to[q] < to[r]
  BY <1>3
<1>7. \A q \in 1 .. Len(j) : q = p \/ \E r \in 1 .. z : to[r] = q
  <2> SUFFICES ASSUME NEW q \in 1 .. Len(j), q # p PROVE \E r \in 1 .. z : to[r] = q
    OBVIOUS
  <2>1. CASE q < p
    <3>1. q \in 1 .. z /\ to[q] = q
      BY <1>1, <1>2, <1>3, <2>1
    <3> QED BY <3>1
  <2>2. CASE q > p
    <3>1. q - 1 \in 1 .. z /\ to[q - 1] = q
      BY <1>1, <1>2, <1>3, <2>2
    <3> QED BY <3>1
  <2> QED BY <2>1, <2>2
<1>8. ASSUME NEW q \in 1 .. z PROVE KeptOf(ls, m + 1, k[q]) /\ BornAt(ls, m + 1, k[q].name, d[q])
  <2>1. to[q] \in 1 .. Len(j) /\ to[q] # p /\ k[q] = j[to[q]] /\ d[q] = b[to[q]]
    BY <1>5
  <2>2. j[to[q]].name # l.name
    BY <2>1, JarApart
  <2>3. ~IsLine(l, j[to[q]].name)
    BY <2>2 DEF IsLine
  <2> QED BY <2>1, <2>3, OtherCookie DEF JarTo
<1>9. \A q, r \in 1 .. z : q < r => d[q] < d[r]
  BY <1>5, <1>6 DEF JarTo
<1>10. ASSUME NEW n, \A q \in 1 .. z : k[q].name # n PROVE Gone(ls, m + 1, n)
  <2>1. CASE n = l.name
    BY <2>1, RemovingLine DEF IsLine
  <2>2. CASE n # l.name
    <3>1. \A q \in 1 .. Len(j) : j[q].name # n
      BY <1>5, <1>7, <1>10, <2>2
    <3>2. Gone(ls, m, n) /\ ~IsLine(l, n)
      BY <2>2, <3>1 DEF JarTo, IsLine
    <3> QED BY <3>2, OtherLine
  <2> QED BY <2>1, <2>2
<1>11. JarTo(k, ls, m + 1, d)
  BY <1>1, <1>2, <1>8, <1>9, <1>10 DEF JarTo
<1> QED BY <1>11 DEF IsJarTo

\* store_cookies() reads one line more.
LEMMA JarNext ==
    ASSUME NEW j, NEW ls, NEW m \in Nat, IsJarTo(j, ls, m), ls[m + 1] \in Lines \cup {Junk}
    PROVE  IsJarTo(StoreLine(j, ls[m + 1]), ls, m + 1)
<1>1. PICK b : JarTo(j, ls, m, b)
  BY DEF IsJarTo
<1>2. PICK l : l = ls[m + 1]
  OBVIOUS
<1>3. PICK k : k = StoreLine(j, l)
  OBVIOUS
<1>4. CASE l = Junk
  <2>1. k = j /\ \A p \in 1 .. Len(j) : ~IsLine(ls[m + 1], j[p].name)
    BY <1>2, <1>3, <1>4, StoreLineIs DEF IsLine
  <2> QED BY <1>1, <1>2, <1>3, <1>4, <2>1, JarSkips
<1>5. CASE l # Junk /\ \A q \in 1 .. Len(j) : j[q].name # l.name
  <2>1. k = IF l.expires THEN j ELSE Append(j, [name |-> l.name, value |-> l.value])
    BY <1>3, <1>5, StoreLineIs
  <2>2. CASE l.expires
    <3>1. \A p \in 1 .. Len(j) : ~IsLine(ls[m + 1], j[p].name)
      BY <1>2, <1>5 DEF IsLine
    <3> QED BY <1>1, <1>2, <1>3, <2>1, <2>2, <3>1, JarSkips
  <2>3. CASE ~l.expires
    BY <1>1, <1>2, <1>3, <1>5, <2>1, <2>3, JarGrows
  <2> QED BY <2>2, <2>3
<1>6. CASE l # Junk /\ \E q \in 1 .. Len(j) : j[q].name = l.name
  <2>1. PICK p \in 1 .. Len(j) :
            /\ j[p].name = l.name
            /\ k = IF l.expires THEN Without(j, p) ELSE Renewed(j, p, l.value)
    BY <1>3, <1>6, StoreLineIs
  <2>2. CASE l.expires
    BY <1>1, <1>2, <1>3, <1>6, <2>1, <2>2, JarShrinks
  <2>3. CASE ~l.expires
    BY <1>1, <1>2, <1>3, <1>6, <2>1, <2>3, JarRenews
  <2> QED BY <2>2, <2>3
<1> QED BY <1>2, <1>3, <1>4, <1>5, <1>6

LEMMA JarAtFirst == ASSUME NEW ls PROVE IsJarTo(<<>>, ls, 0)
<1>1. Len(<<>>) = 0
  OBVIOUS
<1>2. JarTo(<<>>, ls, 0, <<>>)
  BY <1>1, EmptyIsSeq DEF JarTo, Gone
<1> QED BY <1>2 DEF IsJarTo

\* Only the first m lines count.
LEMMA JarOfPrefix ==
    ASSUME NEW j, NEW ls, NEW m \in Nat, IsJarTo(j, ls, m), NEW g, \A q \in 1 .. m : g[q] = ls[q]
    PROVE  IsJarTo(j, g, m)
<1>1. PICK b : JarTo(j, ls, m, b)
  BY DEF IsJarTo
<1>2. \A n, p : BornAt(ls, m, n, p) => BornAt(g, m, n, p)
  <2> SUFFICES ASSUME NEW n, NEW p, BornAt(ls, m, n, p) PROVE BornAt(g, m, n, p)
    OBVIOUS
  <2>1. p \in 1 .. m /\ (\A q \in p .. m : q \in 1 .. m) /\ (\A q \in 1 .. p - 1 : q \in 1 .. m)
    BY DEF BornAt
  <2>2. \A q \in 1 .. p - 1 : \A r \in q + 1 .. p - 1 : r \in 1 .. m
    BY <2>1
  <2> QED BY <2>1, <2>2 DEF BornAt
<1>3. \A n : Gone(ls, m, n) => Gone(g, m, n)
  <2>1. \A q \in 1 .. m : \A r \in q + 1 .. m : r \in 1 .. m
    OBVIOUS
  <2> QED BY <2>1 DEF Gone
<1>4. \A c : KeptOf(ls, m, c) => KeptOf(g, m, c)
  <2> SUFFICES ASSUME NEW c, KeptOf(ls, m, c) PROVE KeptOf(g, m, c)
    OBVIOUS
  <2>1. PICK q : LastOf(ls, m, c.name, q) /\ ~ls[q].expires /\ ls[q].value = c.value
    BY DEF KeptOf
  <2>2. q \in 1 .. m /\ \A r \in q + 1 .. m : r \in 1 .. m
    BY <2>1 DEF LastOf
  <2>3. LastOf(g, m, c.name, q) /\ g[q] = ls[q]
    BY <2>1, <2>2 DEF LastOf
  <2> QED BY <2>1, <2>3 DEF KeptOf
<1>5. JarTo(j, g, m, b)
  BY <1>1, <1>2, <1>3, <1>4 DEF JarTo
<1> QED BY <1>5 DEF IsJarTo

\* Followed to the last line, the jar is the one a browser would keep.
LEMMA JarIsRight ==
    ASSUME NEW j, NEW ls, Len(ls) \in Nat, LinesTo(ls, Len(ls)), IsJarTo(j, ls, Len(ls))
    PROVE  IsJarOf(j, ls)
<1>1. PICK m \in Nat : m = Len(ls)
  OBVIOUS
<1>2. PICK b : JarTo(j, ls, m, b)
  BY <1>1 DEF IsJarTo
<1>3. ASSUME NEW p \in 1 .. Len(j) PROVE j[p].name \in Names /\ Alive(ls, j[p].name)
  <2>1. PICK q : LastOf(ls, m, j[p].name, q) /\ ~ls[q].expires /\ j[p].name \in Names
    BY <1>2 DEF JarTo, KeptOf
  <2> QED BY <1>1, <2>1 DEF LastOf, Alive
<1>4. ASSUME NEW n \in Names, Alive(ls, n) PROVE \E p \in 1 .. Len(j) : j[p].name = n
  <2>1. PICK q \in 1 .. m : /\ IsLine(ls[q], n) /\ ~ls[q].expires
                            /\ \A r \in q + 1 .. m : ~IsLine(ls[r], n)
    BY <1>1, <1>4 DEF Alive
  <2>2. ~Gone(ls, m, n)
    BY <2>1 DEF Gone
  <2> QED BY <1>2, <2>2 DEF JarTo
<1>5. {j[p].name : p \in 1 .. Len(j)} = {n \in {l.name : l \in Lines} : Alive(ls, n)}
  <2>1. PICK A : A = {j[p].name : p \in 1 .. Len(j)}
    OBVIOUS
  <2>2. PICK B : B = {n \in Names : Alive(ls, n)}
    OBVIOUS
  <2>3. \A n : n \in A <=> \E p \in 1 .. Len(j) : n = j[p].name
    BY <2>1
  <2>4. \A n : n \in B <=> n \in Names /\ Alive(ls, n)
    BY <2>2
  <2>5. \A n : n \in A <=> n \in B
    BY <1>3, <1>4, <2>3, <2>4
  <2>6. A = B
    BY <2>5
  <2> QED BY <2>1, <2>2, <2>6, Zenon DEF Names
<1>6. ASSUME NEW p \in 1 .. Len(j)
      PROVE  \E q \in 1 .. Len(ls) :
                /\ IsLine(ls[q], j[p].name) /\ ls[q].value = j[p].value
                /\ \A r \in q + 1 .. Len(ls) : ~IsLine(ls[r], j[p].name)
  <2>1. PICK q : LastOf(ls, m, j[p].name, q) /\ ls[q].value = j[p].value
    BY <1>2 DEF JarTo, KeptOf
  <2> QED BY <1>1, <2>1 DEF LastOf
<1>7. ASSUME NEW p \in 1 .. Len(j) PROVE Born(ls, j[p].name) = b[p]
  <2>1. PICK n : n = j[p].name
    OBVIOUS
  <2>2. BornAt(ls, m, n, b[p])
    BY <1>2, <2>1 DEF JarTo
  <2>3. PICK x : x = Born(ls, n)
    OBVIOUS
  <2>4. BornAt(ls, m, n, x)
    <3>1. b[p] \in 1 .. Len(ls)
          /\ IsLine(ls[b[p]], n)
          /\ (\A q \in b[p] .. Len(ls) : IsLine(ls[q], n) => ~ls[q].expires)
          /\ \A q \in 1 .. b[p] - 1 : IsLine(ls[q], n) /\ ~ls[q].expires =>
                  \E r \in q + 1 .. b[p] - 1 : IsLine(ls[r], n) /\ ls[r].expires
      BY <1>1, <2>2 DEF BornAt
    <3> QED BY <1>1, <2>3, <3>1 DEF BornAt, Born
  <2> QED BY <2>1, <2>2, <2>3, <2>4, BornOnce
<1>8. \A p, q \in 1 .. Len(j) : p < q => Born(ls, j[p].name) < Born(ls, j[q].name)
  BY <1>2, <1>7 DEF JarTo
<1> QED BY <1>5, <1>6, <1>8 DEF IsJarOf

\* A set of naturals that is not empty has a least element.
LEMMA LeastNumber ==
    ASSUME NEW T, T \subseteq Nat, T # {}
    PROVE  \E x \in T : \A y \in T : x <= y
<1>1. PICK x \in T : \A y \in T : ~(y < x)
  <2>1. IsWellFoundedOn(OpToRel(<, Nat), Nat)
    BY NatLessThanWellFounded
  <2>2. \E x \in T : \A y \in T : <<y, x>> \notin OpToRel(<, Nat)
    BY <2>1, WFMin, Zenon
  <2> QED BY <2>2, Zenon DEF OpToRel
<1> QED BY <1>1

\* f[n] is the jar after the first n of the lines ls, up to k.
Stores(j, ls, k, f) ==
    f = [n \in 0 .. k |-> IF n = 0 THEN j ELSE StoreLine(f[n - 1], ls[n])]

LEMMA SomethingStores ==
    ASSUME NEW j, NEW ls, NEW k \in Nat
    PROVE  \E f : Stores(j, ls, k, f)
<1> DEFINE T == {l \in Nat : ~ \E f : Stores(j, ls, l, f)}
<1>1. CASE T = {}
  BY <1>1
<1>2. CASE T # {}
  <2>1. PICK l \in T : \A m \in T : l <= m
    BY <1>2, LeastNumber
  <2>2. l # 0
    <3>1. Stores(j, ls, 0, [n \in 0 .. 0 |-> j])
      BY DEF Stores
    <3> QED BY <2>1, <3>1
  <2>3. l \in Nat /\ l - 1 \in Nat /\ l - 1 \notin T
    BY <2>1, <2>2
  <2>4. PICK g : Stores(j, ls, l - 1, g)
    BY <2>3
  <2>5. PICK f : f = [n \in 0 .. l |-> IF n = l THEN StoreLine(g[l - 1], ls[l]) ELSE g[n]]
    OBVIOUS
  <2>6. \A n \in 0 .. l - 1 : g[n] = IF n = 0 THEN j ELSE StoreLine(g[n - 1], ls[n])
    BY <2>4 DEF Stores
  <2>7. \A n \in 0 .. l : f[n] = IF n = 0 THEN j ELSE StoreLine(f[n - 1], ls[n])
    <3>1. ASSUME NEW n \in 0 .. l
          PROVE  f[n] = IF n = 0 THEN j ELSE StoreLine(f[n - 1], ls[n])
      <4>1. CASE n = l
        <5>1. f[l] = StoreLine(g[l - 1], ls[l]) /\ f[l - 1] = g[l - 1]
          BY <2>3, <2>5
        <5> QED BY <2>2, <4>1, <5>1
      <4>2. CASE n # l
        <5>1. n \in 0 .. l - 1 /\ f[n] = g[n]
          BY <2>3, <2>5, <4>2
        <5>2. n # 0 => f[n - 1] = g[n - 1]
          BY <2>3, <2>5, <5>1
        <5> QED BY <2>6, <5>1, <5>2
      <4> QED BY <4>1, <4>2
    <3> QED BY <3>1
  <2>8. f = [n \in 0 .. l |-> f[n]]
    BY <2>5
  <2>9. Stores(j, ls, l, f)
    BY <2>7, <2>8 DEF Stores
  <2> QED BY <2>1, <2>9
<1> QED BY <1>1, <1>2

\* store_cookies() takes a jar that is right to line m on, over all it is given.
LEMMA StoresRight ==
    ASSUME NEW j, NEW g, NEW m \in Nat, IsJarTo(j, g, m),
           NEW ls, NEW k \in Nat, k = Len(ls), LinesTo(ls, k), \A q \in 1 .. k : g[m + q] = ls[q]
    PROVE  IsJarTo(StoreCookies(j, ls), g, m + k)
<1>1. PICK f : f = CHOOSE h : Stores(j, ls, k, h)
  OBVIOUS
<1>2. Stores(j, ls, k, f)
  BY <1>1, SomethingStores
<1>3. \A n \in 0 .. k : f[n] = IF n = 0 THEN j ELSE StoreLine(f[n - 1], ls[n])
  BY <1>2 DEF Stores
<1>4. StoreCookies(j, ls) = f[k]
  BY <1>1 DEF StoreCookies, Stores
<1> DEFINE T == {n \in Nat : n <= k /\ ~IsJarTo(f[n], g, m + n)}
<1>5. CASE T = {}
  <2>1. IsJarTo(f[k], g, m + k)
    BY <1>5
  <2> QED BY <1>4, <2>1
<1>6. CASE T # {}
  <2>1. PICK n \in T : \A x \in T : n <= x
    BY <1>6, LeastNumber
  <2>2. n # 0
    <3>1. f[0] = j /\ m + 0 = m
      BY <1>3
    <3> QED BY <2>1, <3>1
  <2>3. n \in 1 .. k /\ n - 1 \in Nat /\ n - 1 \notin T
    BY <2>1, <2>2
  <2>4. IsJarTo(f[n - 1], g, m + (n - 1)) /\ f[n] = StoreLine(f[n - 1], ls[n])
    BY <1>3, <2>3
  <2>5. PICK x \in Nat : x = m + (n - 1)
    BY <2>3
  <2>6. x + 1 = m + n /\ g[x + 1] = ls[n] /\ ls[n] \in Lines \cup {Junk}
    BY <2>3, <2>5 DEF LinesTo
  <2>7. IsJarTo(StoreLine(f[n - 1], g[x + 1]), g, x + 1)
    BY <2>4, <2>5, <2>6, JarNext
  <2> QED BY <2>1, <2>4, <2>6, <2>7
<1> QED BY <1>5, <1>6

\* What follows a sequence in a longer one.
LEMMA Joined ==
    ASSUME NEW S, NEW h \in Seq(S), NEW ls \in Seq(S), NEW g, g = h \o ls
    PROVE  /\ g \in Seq(S) /\ Len(g) = Len(h) + Len(ls)
           /\ \A q \in 1 .. Len(h) : g[q] = h[q]
           /\ \A q \in 1 .. Len(ls) : g[Len(h) + q] = ls[q]
<1>1. /\ h \o ls \in Seq(S) /\ Len(h \o ls) = Len(h) + Len(ls)
      /\ \A q \in 1 .. Len(h) + Len(ls) : (h \o ls)[q] = IF q <= Len(h) THEN h[q] ELSE ls[q - Len(h)]
  BY ConcatProperties, Zenon
<1>2. /\ g \in Seq(S) /\ Len(g) = Len(h) + Len(ls)
      /\ \A q \in 1 .. Len(h) + Len(ls) : g[q] = IF q <= Len(h) THEN h[q] ELSE ls[q - Len(h)]
  BY <1>1, Zenon
<1>3. Len(h) \in Nat /\ Len(ls) \in Nat
  OBVIOUS
<1>4. ASSUME NEW q \in 1 .. Len(ls) PROVE g[Len(h) + q] = ls[q]
  <2>1. Len(h) + q \in 1 .. Len(h) + Len(ls) /\ ~(Len(h) + q <= Len(h)) /\ Len(h) + q - Len(h) = q
    BY <1>3
  <2> QED BY <1>2, <2>1
<1> QED BY <1>2, <1>3, <1>4

AnyLine == Lines \cup {Junk}

\* The jar is right to the last line, and so was each one that was sent.
CookieInv ==
    /\ heard \in Seq(AnyLine)
    /\ IsJarTo(jar, heard, Len(heard))
    /\ IsSeq(sent)
    /\ \A p \in 1 .. Len(sent) :
          /\ sent[p].after \in 0 .. Len(heard)
          /\ IsJarTo(sent[p].cookies, heard, sent[p].after)
    /\ pc \in {"start", "fp"} => heard = <<>>

LEMMA LinesOf ==
    ASSUME NEW ls \in SetCookies
    PROVE  ls \in Seq(AnyLine)
<1>1. PICK n \in 0 .. MaxLines : ls \in [1 .. n -> AnyLine]
  BY DEF SetCookies, AnyLine
<1>2. n \in Nat
  BY SessionAssumption
<1> QED BY <1>1, <1>2, SeqDef

\* The lines ls are heard, and stored in a jar that is right so far.
LEMMA CookiesHeard ==
    ASSUME CookieInv, NEW ls \in SetCookies, NEW j, IsJarTo(j, heard, Len(heard)),
           jar' = StoreCookies(j, ls), heard' = heard \o ls, sent' = sent,
           pc' \notin {"start", "fp"}
    PROVE  CookieInv'
<1>1. heard \in Seq(AnyLine) /\ ls \in Seq(AnyLine)
  BY LinesOf DEF CookieInv
<1>2. PICK m \in Nat : m = Len(heard)
  BY <1>1
<1>3. PICK k \in Nat : k = Len(ls)
  BY <1>1
<1>4. /\ heard' \in Seq(AnyLine) /\ Len(heard') = m + k
      /\ \A q \in 1 .. m : heard'[q] = heard[q]
      /\ \A q \in 1 .. k : heard'[m + q] = ls[q]
  BY <1>1, <1>2, <1>3, Joined
<1>5. IsJarTo(j, heard', m)
  BY <1>2, <1>4, JarOfPrefix
<1>6. LinesTo(ls, k)
  <2>1. \A q \in 1 .. k : ls[q] \in AnyLine
    BY <1>1, <1>3
  <2> QED BY <2>1 DEF LinesTo, AnyLine
<1>7. IsJarTo(jar', heard', Len(heard'))
  <2>1. IsJarTo(StoreCookies(j, ls), heard', m + k)
    BY <1>3, <1>4, <1>5, <1>6, StoresRight
  <2> QED BY <1>4, <2>1
<1>8. ASSUME NEW p \in 1 .. Len(sent)
      PROVE  sent[p].after \in 0 .. Len(heard') /\ IsJarTo(sent[p].cookies, heard', sent[p].after)
  <2>1. PICK a \in Nat : a = sent[p].after /\ a <= m /\ IsJarTo(sent[p].cookies, heard, a)
    BY <1>2 DEF CookieInv
  <2>2. \A q \in 1 .. a : heard'[q] = heard[q]
    BY <1>4, <2>1
  <2>3. IsJarTo(sent[p].cookies, heard', a)
    BY <2>1, <2>2, JarOfPrefix
  <2> QED BY <1>4, <2>1, <2>3
<1> QED BY <1>4, <1>7, <1>8 DEF CookieInv

\* A request is sent with the jar as it is.
LEMMA CookiesSent ==
    ASSUME CookieInv, NEW to, NEW h, NEW r, Send(to, h, r), UNCHANGED <<jar, heard>>,
           pc' \in {"start", "fp"} => pc \in {"start", "fp"}
    PROVE  CookieInv'
<1>1. PICK s : s = [to |-> to, host |-> h, referer |-> r, agent |-> agent',
                    cookies |-> jar, after |-> Len(heard)]
  OBVIOUS
<1>2. sent' = Append(sent, s) /\ s.cookies = jar /\ s.after = Len(heard)
  BY <1>1 DEF Send
<1>3. /\ IsSeq(Append(sent, s)) /\ Len(sent) \in Nat /\ Len(Append(sent, s)) = Len(sent) + 1
      /\ \A p \in 1 .. Len(sent) : Append(sent, s)[p] = sent[p]
      /\ Append(sent, s)[Len(sent) + 1] = s
  BY Appended DEF CookieInv
<1>4. /\ IsSeq(sent') /\ Len(sent') = Len(sent) + 1 /\ sent'[Len(sent) + 1] = s
      /\ \A p \in 1 .. Len(sent) : sent'[p] = sent[p]
  BY <1>2, <1>3
<1>5. Len(heard) \in Nat
  BY DEF CookieInv
<1>6. ASSUME NEW p \in 1 .. Len(sent')
      PROVE  sent'[p].after \in 0 .. Len(heard) /\ IsJarTo(sent'[p].cookies, heard, sent'[p].after)
  <2>1. CASE p = Len(sent) + 1
    BY <1>2, <1>4, <1>5, <2>1 DEF CookieInv
  <2>2. CASE p # Len(sent) + 1
    <3>1. p \in 1 .. Len(sent)
      BY <1>3, <1>4, <2>2
    <3> QED BY <1>4, <3>1 DEF CookieInv
  <2> QED BY <2>1, <2>2
<1> QED BY <1>4, <1>6 DEF CookieInv

LEMMA CookiesIdle ==
    ASSUME CookieInv, UNCHANGED <<jar, heard, sent>>,
           pc' \in {"start", "fp"} => pc \in {"start", "fp"}
    PROVE  CookieInv'
  BY DEF CookieInv

LEMMA CookiesStep == CookieInv /\ [Next]_sessionVars => CookieInv'
<1> SUFFICES ASSUME CookieInv, [Next]_sessionVars PROVE CookieInv'
  OBVIOUS
<1>1. CASE UNCHANGED sessionVars
  BY <1>1, CookiesIdle DEF sessionVars
<1>2. ASSUME NEW ready \in BOOLEAN, NEW d \in Devices, Receive(ready, d) PROVE CookieInv'
  <2>1. UNCHANGED <<jar, heard>> /\ pc = "start"
    BY <1>2 DEF Receive
  <2>2. CASE sent' = sent
    BY <2>1, <2>2, CookiesIdle
  <2>3. CASE \E h, r : Send("fp", h, r)
    BY <2>1, <2>3, CookiesSent
  <2> QED BY <1>2, <2>2, <2>3 DEF Receive
<1>3. ASSUME NEW o \in Outcomes, NEW ls \in SetCookies, FpAnswered(o, ls) PROVE CookieInv'
  <2>1. CASE UNCHANGED <<jar, heard, sent>> /\ pc' = "done"
    BY <2>1, CookiesIdle
  <2>2. CASE jar' = StoreCookies(<<>>, ls) /\ heard' = ls /\ pc' = "fpBody" /\ sent' = sent
    <3>1. heard = <<>> /\ ls \in Seq(AnyLine)
      BY <1>3, LinesOf DEF FpAnswered, CookieInv
    <3>2. heard' = heard \o ls
      BY <2>2, <3>1, ConcatEmptySeq
    <3>3. IsJarTo(<<>>, heard, Len(heard))
      BY <3>1, JarAtFirst
    <3> QED BY <2>2, <3>2, <3>3, CookiesHeard
  <2> QED BY <1>3, <2>1, <2>2 DEF FpAnswered, NotSent, Reply
<1>4. ASSUME NEW o \in Outcomes, NEW ls \in SetCookies, IpsAnswered(o, ls) PROVE CookieInv'
  <2>1. CASE UNCHANGED <<jar, heard, sent>> /\ pc' = "done"
    BY <2>1, CookiesIdle
  <2>2. CASE jar' = StoreCookies(jar, ls) /\ heard' = heard \o ls /\ pc' = "ipsBody" /\ sent' = sent
    BY <2>2, CookiesHeard DEF CookieInv
  <2> QED BY <1>4, <2>1, <2>2 DEF IpsAnswered, NotSent, Reply
<1>5. ASSUME NEW o \in Outcomes,
             FpRead(o) \/ TlAnswered(o) \/ TlRead(o) \/ (\E d \in Choices : IpsRead(o, d))
      PROVE  CookieInv'
  <2>1. UNCHANGED <<jar, heard, sent>> /\ pc' \notin {"start", "fp"}
    BY <1>5 DEF FpRead, TlAnswered, TlRead, IpsRead, NotSent, Reply
  <2> QED BY <2>1, CookiesIdle
<1>6. ASSUME NEW o \in Outcomes, NEW d \in Choices, NEW isLite \in BOOLEAN, NEW up \in Halves,
             Solve(o, d, isLite, up)
      PROVE  CookieInv'
  <2>1. UNCHANGED <<jar, heard>> /\ pc' \notin {"start", "fp"}
    BY <1>6 DEF Solve, Reply
  <2>2. CASE sent' = sent
    BY <2>1, <2>2, CookiesIdle
  <2>3. CASE \E h, r : Send("tl", h, r)
    BY <2>1, <2>3, CookiesSent
  <2> QED BY <1>6, <2>2, <2>3 DEF Solve
<1>7. CASE SendIps
  <2>1. UNCHANGED <<jar, heard>> /\ pc' = "ips" /\ \E h, r : Send("ips", h, r)
    BY <1>7 DEF SendIps
  <2> QED BY <2>1, CookiesSent
<1>8. CASE Disconnect \/ Tick
  BY <1>8, CookiesIdle DEF Disconnect, Tick
<1> QED BY <1>1, <1>2, <1>3, <1>4, <1>5, <1>6, <1>7, <1>8 DEF Next, SessionStep

\* For any number of responses with any Set-Cookie lines: the jar is what a
\* browser would keep of them, and every request bears the cookies of all that
\* was heard before it was sent.
THEOREM CookiesAreCurrentHolds == Spec => []CookiesAreCurrent
<1>1. Init => CookieInv
  <2> SUFFICES ASSUME Init PROVE CookieInv
    OBVIOUS
  <2>1. jar = <<>> /\ heard = <<>> /\ sent = <<>> /\ Len(<<>>) = 0 /\ <<>> \in Seq(AnyLine)
    BY DEF Init
  <2> QED BY <2>1, JarAtFirst, EmptyIsSeq DEF CookieInv
<1>2. CookieInv => CookiesAreCurrent
  <2> SUFFICES ASSUME CookieInv PROVE CookiesAreCurrent
    OBVIOUS
  <2>1. heard \in Seq(AnyLine) /\ Len(heard) \in Nat /\ \A q \in 1 .. Len(heard) : heard[q] \in AnyLine
    BY DEF CookieInv
  <2>2. IsJarOf(jar, heard)
    BY <2>1, JarIsRight DEF CookieInv, LinesTo, AnyLine
  <2>3. ASSUME NEW p \in 1 .. Len(sent)
        PROVE  IsJarOf(sent[p].cookies, SubSeq(heard, 1, sent[p].after))
    <3>1. PICK a \in Nat : a = sent[p].after /\ a <= Len(heard) /\ IsJarTo(sent[p].cookies, heard, a)
      BY <2>1 DEF CookieInv
    <3>2. PICK ls : ls = SubSeq(heard, 1, a)
      OBVIOUS
    <3>3. ls \in Seq(AnyLine) /\ Len(ls) = a /\ \A q \in 1 .. a : ls[q] = heard[q]
      BY <2>1, <3>1, <3>2
    <3>4. IsJarTo(sent[p].cookies, ls, a)
      BY <3>1, <3>3, JarOfPrefix
    <3>5. LinesTo(ls, a)
      BY <2>1, <3>1, <3>3 DEF LinesTo, AnyLine
    <3>6. IsJarOf(sent[p].cookies, ls)
      BY <3>3, <3>4, <3>5, JarIsRight
    <3> QED BY <3>1, <3>2, <3>6
  <2>4. Len(sent) > 0 => sent[Len(sent)].after <= Len(heard)
    <3>1. Len(sent) \in Nat
      BY DEF CookieInv, IsSeq
    <3> QED BY <2>1, <3>1 DEF CookieInv
  <2> QED BY <2>2, <2>3, <2>4 DEF CookiesAreCurrent
<1> QED BY <1>1, <1>2, CookiesStep, PTL DEF Spec
=============================================================================
