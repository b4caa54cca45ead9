------------------------------ MODULE MCSession -----------------------------
(***************************************************************************)
(* POST /test and the timelines of timing.rs, one part of the run each:    *)
(* requests of all kinds; two plain ones with the cookies of three         *)
(* responses; one with a clock that moves; and the timelines that are made *)
(* up for POST /payload, on gaps of a few ticks.                           *)
(***************************************************************************)
EXTENDS Session

VARIABLE part

Cookie(n, v, x) == [name |-> n, value |-> v, expires |-> x]
FewLines == {Cookie("a", "1", FALSE), Cookie("b", "1", FALSE)}
ManyLines == FewLines \cup {Cookie("a", "2", FALSE), Cookie("a", "1", TRUE)}

Good(h) == [json |-> TRUE, host |-> h, exact |-> TRUE, version |-> TRUE, proxy |-> "none",
            builds |-> TRUE, wellFormed |-> TRUE]
Plain == Good(<<"shop", "com">>)
MCInputs ==
    {Plain, Good(NikeApi), Good(<<"www", "costco", "com">>),
     Good(<<"k", "twitchcdn", "net">>), Good(<<"apihub", "scheels", "com">>),
     [Good(<<"auth", "ticketmaster", "com">>) EXCEPT !.proxy = "valid"],
     [Good(<<"k", "twitchcdn", "net">>) EXCEPT !.exact = FALSE],
     [Plain EXCEPT !.json = FALSE], [Plain EXCEPT !.version = FALSE], Good(<<>>),
     [Plain EXCEPT !.proxy = "malformed"], [Good(NikeApi) EXCEPT !.builds = FALSE],
     [Plain EXCEPT !.wellFormed = FALSE], [Good(NikeApi) EXCEPT !.wellFormed = FALSE]}

\* Each gap is short or long; the lite collection is at most the full one.
Gaps(bodies, leads, inlines, collects, lites, assembles, settles) ==
    {[navQueue |-> 1, navTtfb |-> 2, navBody |-> b, ipsQueue |-> 1, ipsTtfb |-> 1,
      ipsBody |-> 1, ipsLead |-> l, inline |-> n, compile |-> 1, boot |-> 3, setup |-> 6,
      collect |-> c, lite |-> e, handoff |-> 4, assemble |-> a, settle |-> s, sealGap |-> 1,
      encrypt |-> 5] :
        b \in bodies, l \in leads, n \in inlines, c \in collects, e \in lites,
        a \in assembles, s \in settles}
OneChoice == Gaps({0}, {1}, {0}, {15}, {5}, {8}, {5})
ManyChoices == Gaps({0, 3}, {0, 1, 9}, {0, 7}, {15, 26}, {0, 15}, {2, 8}, {0, 5})
NoLegs == {0}
NoHalves == {{}}

Cookies == INSTANCE Session WITH
    Inputs <- {Plain, Good(NikeApi)}, Lines <- ManyLines, MaxLines <- 2, MaxTime <- 0
Clock == INSTANCE Session WITH
    Inputs <- {Plain}, MaxLines <- 0, MaxTime <- 11
Made == INSTANCE Timing WITH
    Choices <- ManyChoices, Legs <- {0, 1, 5}, Halves <- {{}, {0, 4, 7}, {1, 4, 6}}

idle == <<pc, input, agent, jar, sent, now, at, answer, heard, said>>

\* Neither the cookies nor the clock depend on the host the script is asked of.
ByPath == \A p \in 1 .. Len(said') : said'[p] # "stray"

SessionInit ==
    \/ part = "requests" /\ Init
    \/ part = "cookies" /\ Cookies!Init
    \/ part = "clock" /\ Clock!Init
    \/ part = "made" /\ input = Plain /\ Init /\ Made!TimingInit
SessionNext ==
    /\ \/ part = "requests" /\ Next
       \/ part = "cookies" /\ Cookies!Next /\ ByPath
       \/ part = "clock" /\ Clock!Next /\ ByPath
       \/ part = "made" /\ Made!TimingNext /\ UNCHANGED idle
    /\ UNCHANGED part
SessionSpec == SessionInit /\ [][SessionNext]_<<part, sessionVars>>
=============================================================================
