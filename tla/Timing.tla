------------------------------- MODULE Timing -------------------------------
(***************************************************************************)
(* The timeline of a page load that POST /payload invents and POST /test   *)
(* measures (src/payload/timing.rs), its lite variant, and the durations   *)
(* reported of one of them (what solve() in routes/payload.rs does with    *)
(* them).                                                                  *)
(*                                                                         *)
(* Times are counted in ticks of 100 us, the unit every drawn or measured  *)
(* time is rounded to.  What the generator draws is a record of            *)
(* Choices; the shape of its distribution and the uptime, an offset that   *)
(* every difference cancels, are left out.                                 *)
(***************************************************************************)
EXTENDS Integers

CONSTANTS
    Choices,   \* what may be drawn for the gaps of one timeline, in ticks
    Legs,      \* bound: measured spans of time, in ticks
    Halves     \* bound: sets of fields in which a half is rounded up

GapType == [navQueue : Nat, navTtfb : Nat, navBody : Nat, ipsQueue : Nat, ipsTtfb : Nat,
            ipsBody : Nat, ipsLead : Nat, inline : Nat, compile : Nat, boot : Nat, setup : Nat,
            collect : Nat, lite : Nat, handoff : Nat, assemble : Nat, settle : Nat,
            sealGap : Nat, encrypt : Nat]

\* The ranges of the constants: IPS_BODY_MS is at least 10 ms, and COLLECT_MS at
\* least 220 ms, where LITE_COLLECT_MS is at most 0.5 ms.
ASSUME ChoicesAssumption ==
    /\ Choices \subseteq GapType
    /\ \A d, e \in Choices : d.ipsBody > 0 /\ d.collect > 0 /\ e.lite <= d.collect
    /\ Legs \subseteq Nat
    /\ Halves \subseteq SUBSET (0 .. 13)

VARIABLES
    line,   \* the timeline of a request (NoLine: none yet)
    lite,   \* its lite variant
    dt      \* the durations reported, in ms, by field

timingVars == <<line, lite, dt>>

Larger(a, b) == IF a >= b THEN a ELSE b

----------------------------------------------------------------------------
(* Timelines *)

NoLine == [nav |-> <<0, 0, 0, 0>>, ips |-> <<0, 0, 0, 0>>, kjm |-> 0, rbp |-> 0, jlm |-> 0,
           qbq |-> 0, uxn |-> 0, rcj |-> 0, settle |-> 0, kkm |-> 0, rqk |-> 0, jbp |-> 0]

NoHeader == [i \in 0 .. 13 |-> 0]

\* Mutant: the assembly may end before the settling it contains.
BuildUnsettled(nav, ips, d) ==
    LET kjm == nav[4] + d.inline
        rbp == Larger(ips[4], kjm) + d.compile
        jlm == rbp + d.boot
        qbq == jlm + d.setup
        uxn == qbq + d.collect
        rcj == uxn + d.handoff
        kkm == rcj + d.assemble
        rqk == kkm + d.sealGap
    IN  [nav |-> nav, ips |-> ips, kjm |-> kjm, rbp |-> rbp, jlm |-> jlm, qbq |-> qbq,
         uxn |-> uxn, rcj |-> rcj, settle |-> rcj + d.settle, kkm |-> kkm, rqk |-> rqk,
         jbp |-> rqk + d.encrypt]

\* Timeline::build: what follows the two fetches.
Build(nav, ips, d) ==
    LET kjm == nav[4] + d.inline
        rbp == Larger(ips[4], kjm) + d.compile
        jlm == rbp + d.boot
        qbq == jlm + d.setup
        uxn == qbq + d.collect
        rcj == uxn + d.handoff
        settle == rcj + d.settle
        kkm == rcj + Larger(d.assemble, settle - rcj + 1)
        rqk == kkm + d.sealGap
    IN  [nav |-> nav, ips |-> ips, kjm |-> kjm, rbp |-> rbp, jlm |-> jlm, qbq |-> qbq,
         uxn |-> uxn, rcj |-> rcj, settle |-> settle, kkm |-> kkm, rqk |-> rqk,
         jbp |-> rqk + d.encrypt]

\* Timeline::measured: the fetches n and i took what was measured of them, and
\* the second starts no earlier than the first ended.
Measured(n, i, d) ==
    LET navReq == d.navQueue
        navResp == navReq + n.ttfb
        navEnd == navResp + Larger(n.body, 1)
        ipsFetch == Larger(i.start, navEnd)
        ipsReq == ipsFetch + d.ipsQueue
        ipsResp == ipsReq + i.ttfb
    IN  Build(<<0, navReq, navResp, navEnd>>,
              <<ipsFetch, ipsReq, ipsResp, ipsResp + Larger(i.body, 1)>>, d)

\* Timeline::synthetic: the second fetch may start while the body of the first
\* comes in, but not before its head; the subtraction saturates.
Synthetic(d) ==
    LET navReq == d.navQueue
        navResp == navReq + d.navTtfb
        navEnd == navResp + Larger(d.navBody, 1)
        ipsFetch == Larger(Larger(navEnd - d.ipsLead, 0), navResp)
        ipsReq == ipsFetch + d.ipsQueue
        ipsResp == ipsReq + d.ipsTtfb
    IN  Build(<<0, navReq, navResp, navEnd>>,
              <<ipsFetch, ipsReq, ipsResp, ipsResp + d.ipsBody>>, d)

\* Timeline::lite: the collection takes next to nothing, and all that follows it
\* comes that much earlier.
LiteOf(t, d) ==
    LET uxn == t.qbq + Larger(d.lite, 1)
        delta == t.uxn - uxn
    IN  [nav |-> t.nav, ips |-> t.ips, kjm |-> t.kjm, rbp |-> t.rbp, jlm |-> t.jlm,
         qbq |-> t.qbq, uxn |-> uxn, rcj |-> t.rcj - delta, settle |-> t.settle - delta,
         kkm |-> t.kkm - delta, rqk |-> t.rqk - delta, jbp |-> t.jbp - delta]

----------------------------------------------------------------------------
(* What is reported *)

\* The 14 fields of header(), in ticks.  The collection is given as 1 ms at least.
Fields(t) ==
    [i \in 0 .. 13 |->
       CASE i = 0 -> (t.jbp - t.kjm) + (t.nav[4] - t.nav[1])
         [] i = 1 -> t.rbp - t.kjm
         [] i = 2 -> t.jlm - t.rbp
         [] i = 3 -> t.qbq - t.jlm
         [] i = 4 -> Larger(t.uxn - t.qbq, 10)
         [] i = 5 -> t.rcj - t.uxn
         [] i = 6 -> t.kkm - t.rcj
         [] i = 7 -> t.jbp - t.rqk
         [] i \in 8 .. 10 -> t.nav[i - 6] - t.nav[i - 7]
         [] i \in 11 .. 13 -> t.ips[i - 9] - t.ips[i - 10]]

\* header(): each field once, rounded to ms; the order is drawn and not modelled.
\* A half is the difference of two floats that are not exact and may be rounded
\* either way: up in the fields of the set up.
HeaderOf(t, up) ==
    [i \in 0 .. 13 |->
       LET n == Fields(t)[i]
       IN  IF n % 10 = 5 /\ i \notin up THEN n \div 10 ELSE (n + 5) \div 10]

----------------------------------------------------------------------------
(* The timelines of a request. *)

TimingInit == line = NoLine /\ lite = NoLine /\ dt = NoHeader

\* POST /test measured the fetches n and i.
Measure(n, i, d) ==
    /\ line' = Measured(n, i, d)
    /\ UNCHANGED <<lite, dt>>

\* POST /payload has no fetch to measure.
Synthesize(d) ==
    /\ line' = Synthetic(d)
    /\ UNCHANGED <<lite, dt>>

\* solve(): the lite variant is always made; the device decides which of the two
\* is reported.
Report(d, isLite, up) ==
    /\ lite' = LiteOf(line, d)
    /\ dt' = HeaderOf(IF isLite THEN lite' ELSE line, up)
    /\ UNCHANGED line

TimingNext ==
    \/ /\ line = NoLine
       /\ \E d \in Choices :
            \/ Synthesize(d)
            \/ \E t, b, s, u, c \in Legs :
                 Measure([ttfb |-> t, body |-> b], [start |-> s, ttfb |-> u, body |-> c], d)
    \/ /\ line # NoLine /\ lite = NoLine
       /\ \E d \in Choices, isLite \in BOOLEAN, up \in Halves : Report(d, isLite, up)

TimingSpec == TimingInit /\ [][TimingNext]_timingVars

----------------------------------------------------------------------------
(* Safety *)

\* The milestones of timeline t follow one another as those of a page load do; the
\* second fetch and the assembly take some time.
InOrder(t) ==
    /\ 0 <= t.nav[1] /\ t.nav[1] <= t.nav[2] /\ t.nav[2] <= t.nav[3] /\ t.nav[3] < t.nav[4]
    /\ t.nav[3] <= t.ips[1]
    /\ t.ips[1] <= t.ips[2] /\ t.ips[2] <= t.ips[3] /\ t.ips[3] < t.ips[4]
    /\ t.nav[4] <= t.kjm /\ t.kjm <= t.rbp /\ t.ips[4] <= t.rbp
    /\ t.rbp <= t.jlm /\ t.jlm <= t.qbq /\ t.qbq < t.uxn /\ t.uxn <= t.rcj
    /\ t.rcj <= t.settle /\ t.settle < t.kkm /\ t.kkm <= t.rqk /\ t.rqk <= t.jbp

\* l is the same page load as t but for the collection: what comes before is at the
\* same time, and what comes after takes as long.
KeepsPace(l, t) ==
    /\ <<l.nav, l.ips, l.kjm, l.rbp, l.jlm, l.qbq>> = <<t.nav, t.ips, t.kjm, t.rbp, t.jlm, t.qbq>>
    /\ \A i \in {5, 6, 7} : Fields(l)[i] = Fields(t)[i]
    /\ l.kkm - l.settle = t.kkm - t.settle
    /\ l.rqk - l.kkm = t.rqk - t.kkm

\* Both timelines are in order, and the lite one, of which lite() moves six
\* milestones one by one, is else the same: no subtraction of the unsigned times
\* underflows, transfer_rate() divides by no zero, and no field reported is
\* negative, for which the encoding has a sign no reader expects.
TimelinesInOrder ==
    /\ line # NoLine => InOrder(line)
    /\ lite # NoLine => InOrder(lite) /\ lite.uxn <= line.uxn /\ KeepsPace(lite, line)
    /\ \A i \in 0 .. 13 : dt[i] >= 0
=============================================================================
