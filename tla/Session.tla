------------------------------ MODULE Session -------------------------------
(***************************************************************************)
(* POST /test: one session against a protected site, in which a challenge  *)
(* page, its script and the solution are exchanged                         *)
(* (src/routes/test.rs, with the clients of src/utils/client.rs).          *)
(*                                                                         *)
(* A step is what the handler does between two awaits.  The site, the      *)
(* network, the solver (`payload::solve`, modelled in Pipeline) and the    *)
(* client library are external: they answer whatever they may.  A host is  *)
(* the sequence of its labels, in lower case unless `exact` is false; a    *)
(* Set-Cookie line is what the handler reads of it.                        *)
(***************************************************************************)
EXTENDS Timing, Sequences

CONSTANTS
    Inputs,      \* what callers may send
    Lines,       \* Set-Cookie lines a response may carry
    MaxLines,    \* bound: lines of one response
    Devices,     \* user agents of the iOS profile
    Desktop,     \* the user agent of the other sessions
    Grain,       \* instants of the clock in a tick
    MaxTime      \* bound: last instant of the clock

\* A line the handler skips: not readable, no `=` in its first part, or no name.
Junk == [name |-> "", value |-> "", expires |-> FALSE]

ASSUME SessionAssumption ==
    /\ MaxLines \in Nat
    /\ MaxTime \in Nat
    /\ Grain \in Nat \ {0}
    /\ Desktop \notin Devices

VARIABLES
    pc,      \* what the handler awaits
    input,   \* the request of the caller
    agent,   \* the user agent of the session
    jar,     \* its cookies, in order: <<[name, value], ...>>
    sent,    \* the requests sent to the site
    now,     \* the monotonic clock
    at,      \* the instants taken: fp_start, fp_headers, ..., ips_end
    answer,  \* what the caller was answered
    heard,   \* history: every Set-Cookie line of the responses accepted so far
    said     \* history: how the others behaved, step by step

sessionVars == <<pc, input, agent, jar, sent, now, at, answer, heard, said, line, lite, dt>>

----------------------------------------------------------------------------
(* Hosts *)

Costco == <<"costco", "com">>
NikeApi == <<"api", "nike", "com">>

\* PAGES: the page in which the challenge of some hosts is embedded.
PageHost ==
    [h \in {<<"apihub", "scheels", "com">>, <<"auth", "ticketmaster", "com">>,
            <<"k", "twitchcdn", "net">>, <<"accounts", "nike", "com">>} |->
       CASE h[2] = "scheels" -> <<"www", "scheels", "com">>
         [] h[2] = "twitchcdn" -> <<"www", "twitch", "tv">>
         [] OTHER -> h]

LastTwo(h) == IF Len(h) <= 2 THEN h ELSE SubSeq(h, Len(h) - 1, Len(h))

\* registrable(): the last two labels.
Registrable(h) == LastTwo(h)

\* is_costco(): costco.com or a host under it, with a label that is not empty.
IsCostco(h) ==
    \/ h = Costco
    \/ Len(h) > 2 /\ LastTwo(h) = Costco /\ h # <<"">> \o Costco

\* The comparison with api.nike.com ignores case, the one with PAGES does not.
IsNikeApi(i) == i.host = NikeApi

HasPage(i) == i.exact /\ i.host \in DOMAIN PageHost

\* A request opened by the user has no referer.
NoReferer == [host |-> <<>>, shows |-> "nothing", site |-> "none"]

\* Mutant: a page of another site is taken for one of the same site.
RefererSloppy(i) ==
    IF ~HasPage(i) THEN [host |-> i.host, shows |-> "origin", site |-> "same-origin"]
    ELSE LET p == PageHost[i.host]
         IN  [host |-> p, shows |-> IF p = i.host THEN "url" ELSE "origin",
              site |-> IF p = i.host THEN "same-origin" ELSE "same-site"]

\* The referer of fp and the relation it is declared to have: the whole URL of a
\* page of the same origin, else only the page's origin.
Referer(i) ==
    IF ~HasPage(i) THEN [host |-> i.host, shows |-> "origin", site |-> "same-origin"]
    ELSE LET p == PageHost[i.host]
         IN  [host |-> p, shows |-> IF p = i.host THEN "url" ELSE "origin",
              site |-> IF p = i.host THEN "same-origin"
                       ELSE IF Registrable(p) = Registrable(i.host) THEN "same-site"
                       ELSE "cross-site"]

----------------------------------------------------------------------------
(* Cookies *)

Positions(j, n) == {p \in 1 .. Len(j) : j[p].name = n}

Without(j, p) == SubSeq(j, 1, p - 1) \o SubSeq(j, p + 1, Len(j))

\* Mutant: a cookie that is set again goes to the end.
StoreLineMoving(j, l) ==
    LET ps == Positions(j, l.name)
        c == [name |-> l.name, value |-> l.value]
    IN  CASE l = Junk -> j
          [] l # Junk /\ ps # {} -> LET w == Without(j, CHOOSE p \in ps : TRUE)
                                    IN  IF l.expires THEN w ELSE Append(w, c)
          [] OTHER -> IF l.expires THEN j ELSE Append(j, c)

\* One line of store_cookies(): Max-Age of 0 or less removes the cookie.
StoreLine(j, l) ==
    LET ps == Positions(j, l.name)
        p == CHOOSE q \in ps : TRUE
    IN  CASE l = Junk -> j
          [] l # Junk /\ ps # {} -> IF l.expires THEN Without(j, p)
                                    ELSE [j EXCEPT ![p].value = l.value]
          [] OTHER -> IF l.expires THEN j
                      ELSE Append(j, [name |-> l.name, value |-> l.value])

\* store_cookies(): the lines of a response, one after the other.
StoreCookies(j, ls) ==
    LET after[n \in 0 .. Len(ls)] == IF n = 0 THEN j ELSE StoreLine(after[n - 1], ls[n])
    IN  after[Len(ls)]

----------------------------------------------------------------------------
(* The handler *)

NoTime == -1

Init ==
    /\ TimingInit
    /\ pc = "start"
    /\ input \in Inputs
    /\ agent = Desktop
    /\ jar = <<>> /\ sent = <<>> /\ heard = <<>> /\ said = <<>>
    /\ now = 0
    /\ at = [e \in {"fpStart", "fpHeaders", "fpEnd", "ipsStart", "ipsHeaders", "ipsEnd"} |-> NoTime]
    /\ answer = "none"

\* Answers: 400, 502, 200 with {success: false}, what solve() refused with, and
\* 200 with {success: true}.
Reply(a) == pc' = "done" /\ answer' = a

\* The others behaved like o.
Saw(o) == said' = Append(said, o)

Take(e) == at' = [at EXCEPT ![e] = now]

Send(to, h, r) ==
    sent' = Append(sent, [to |-> to, host |-> h, referer |-> r, agent |-> agent',
                          cookies |-> jar, after |-> Len(heard)])

\* build_client(), build_ios_client(): the proxy cannot be read, or the library
\* refuses.
Unbuildable(i) == i.proxy = "malformed" \/ ~i.builds

\* The body is not what is expected, a field is empty, or a client of its own, which
\* api.nike.com and a proxy need, cannot be built.
BadInput(i) ==
    \/ ~i.json \/ i.host = <<>> \/ ~i.version
    \/ (IsNikeApi(i) \/ i.proxy # "none") /\ Unbuildable(i)

\* The request comes: it is validated, and fp is sent to the site.  `ready` says
\* whether IosProfile could be built, `d` is the device it rotates to.
Receive(ready, d) ==
    /\ pc = "start"
    /\ LET i == input
           r == IF IsNikeApi(i) THEN NoReferer ELSE Referer(i)
       IN  \/ /\ BadInput(i)
              /\ Reply("badRequest")
              /\ UNCHANGED <<agent, sent, at>>
           \/ /\ ~BadInput(i) /\ IsNikeApi(i) /\ ~ready
              /\ Reply("badGateway")
              /\ UNCHANGED <<agent, sent, at>>
           \/ /\ ~BadInput(i) /\ (IsNikeApi(i) => ready)
              /\ ~i.wellFormed
              /\ Reply("badRequest")
              /\ agent' = IF IsNikeApi(i) THEN d ELSE Desktop
              /\ UNCHANGED <<sent, at>>
           \/ /\ ~BadInput(i) /\ (IsNikeApi(i) => ready)
              /\ i.wellFormed
              /\ agent' = IF IsNikeApi(i) THEN d ELSE Desktop
              /\ Send("fp", i.host, r) /\ Take("fpStart")
              /\ pc' = "fp"
              /\ UNCHANGED answer
    /\ Saw(IF ready THEN "ready" ELSE "noProfile")
    /\ UNCHANGED <<input, jar, now, heard, timingVars>>

\* A request that cannot be built, or that fails on its way.
NotSent(o) ==
    /\ \/ o = "unbuildable" /\ Reply("badRequest")
       \/ o = "unreachable" /\ Reply("badGateway")
    /\ Saw(o)
    /\ UNCHANGED <<input, agent, jar, sent, now, at, heard, timingVars>>

\* The status that brings the challenge.
Expected(i) == IF IsCostco(i.host) THEN "200" ELSE "429"

\* fp is answered; its cookies are kept if the status is the expected one.
FpAnswered(o, ls) ==
    /\ pc = "fp"
    /\ \/ NotSent(o)
       \/ /\ o \in {"200", "429", "500"} /\ o # Expected(input)
          /\ Reply("badGateway")
          /\ Saw(o)
          /\ UNCHANGED <<input, agent, jar, sent, now, at, heard, timingVars>>
       \/ /\ o = Expected(input)
          /\ jar' = StoreCookies(<<>>, ls)
          /\ heard' = ls
          /\ Take("fpHeaders") /\ Saw(o)
          /\ pc' = "fpBody"
          /\ UNCHANGED <<input, agent, sent, now, answer, timingVars>>

\* The body of fp is in: it names the script, by a path or by anything else.
FpRead(o) ==
    /\ pc = "fpBody"
    /\ \/ /\ o \in {"broken", "noScript"}
          /\ Reply("badGateway")
          /\ UNCHANGED at
       \/ /\ o \in {"script", "stray"}
          /\ Take("fpEnd")
          /\ pc' = "linking"
          /\ UNCHANGED answer
    /\ Saw(o)
    /\ UNCHANGED <<input, agent, jar, sent, now, heard, timingVars>>

\* The host of a URL made of the origin of host h and of a src that does not begin
\* with a slash: whatever stands before the first slash of the src is part of it.
Elsewhere(h) == Append(h, "elsewhere")

\* ips is sent to what fp called the script, with the cookies of fp and the URL of
\* fp as its referer.
SendIps ==
    /\ pc = "linking"
    /\ agent' = agent
    /\ Send("ips", IF said[3] = "stray" THEN Elsewhere(input.host) ELSE input.host,
            [host |-> input.host, shows |-> "url", site |-> "same-origin"])
    /\ Take("ipsStart")
    /\ pc' = "ips"
    /\ UNCHANGED <<input, jar, now, answer, heard, said, timingVars>>

\* ips is answered; its cookies are added to those of fp.
IpsAnswered(o, ls) ==
    /\ pc = "ips"
    /\ \/ NotSent(o)
       \/ /\ o = "500"
          /\ Reply("badGateway")
          /\ Saw(o)
          /\ UNCHANGED <<input, agent, jar, sent, now, at, heard, timingVars>>
       \/ /\ o = "200"
          /\ jar' = StoreCookies(jar, ls)
          /\ heard' = heard \o ls
          /\ Take("ipsHeaders") /\ Saw(o)
          /\ pc' = "ipsBody"
          /\ UNCHANGED <<input, agent, sent, now, answer, timingVars>>

\* d instants in ticks, rounded.
Rounded(d) == (2 * d + Grain) \div (2 * Grain)

\* ticks() of the span between two instants, which are finer than a tick.
Span(from, to) == Rounded(IF to > from THEN to - from ELSE 0)

\* Mutant: the two instants of a body are swapped, and the difference saturates.
FetchesBackwards ==
    <<[ttfb |-> Span(at.fpStart, at.fpHeaders), body |-> Span(at.fpEnd, at.fpHeaders)],
      [start |-> Span(at.fpStart, at.ipsStart), ttfb |-> Span(at.ipsStart, at.ipsHeaders),
       body |-> Span(now, at.ipsHeaders)]>>

\* What was measured of the two fetches.
Fetches ==
    <<[ttfb |-> Span(at.fpStart, at.fpHeaders), body |-> Span(at.fpHeaders, at.fpEnd)],
      [start |-> Span(at.fpStart, at.ipsStart), ttfb |-> Span(at.ipsStart, at.ipsHeaders),
       body |-> Span(at.ipsHeaders, now)]>>

\* The script is in: the timeline is made of the two fetches, and solve() is called.
IpsRead(o, d) ==
    /\ pc = "ipsBody"
    /\ \/ /\ o \in {"broken", "empty"}
          /\ Reply("badGateway")
          /\ UNCHANGED <<at, timingVars>>
       \/ /\ o = "text"
          /\ Take("ipsEnd")
          /\ Measure(Fetches[1], Fetches[2], d)
          /\ pc' = "solving"
          /\ UNCHANGED answer
    /\ Saw(o)
    /\ UNCHANGED <<input, agent, jar, sent, now, heard>>

\* solve() refuses with its own response, or solves; the solution is made into
\* headers, which for api.nike.com must include two more, and tl is sent.
Solve(o, d, isLite, up) ==
    /\ pc = "solving"
    /\ \/ /\ o = "refused"
          /\ Reply("refused")
          /\ UNCHANGED <<agent, sent, timingVars>>
       \/ /\ o \in {"unusable", "incomplete"}
          /\ o = "unusable" \/ IsNikeApi(input)
          /\ Reply("badGateway")
          /\ Report(d, isLite, up)
          /\ UNCHANGED <<agent, sent>>
       \/ /\ o = "solved" \/ (o = "incomplete" /\ ~IsNikeApi(input))
          /\ Report(d, isLite, up)
          /\ agent' = agent
          /\ Send("tl", input.host,
                  [host |-> input.host, shows |-> "url", site |-> "same-origin"])
          /\ pc' = "tl"
          /\ UNCHANGED answer
    /\ Saw(o)
    /\ UNCHANGED <<input, jar, now, at, heard>>

\* tl is answered: 200 as JSON, with or without the headers of a verdict.
TlAnswered(o) ==
    /\ pc = "tl"
    /\ \/ NotSent(o)
       \/ /\ o \in {"500", "otherType"}
          /\ Reply("rejected")
          /\ Saw(o)
          /\ UNCHANGED <<input, agent, jar, sent, now, at, heard, timingVars>>
       \/ /\ o \in {"json", "bareJson"}
          /\ pc' = "tlBody"
          /\ Saw(o)
          /\ UNCHANGED <<input, agent, jar, sent, now, at, answer, heard, timingVars>>

\* Mutant: any body will do.
TlReadBlindly(o) ==
    /\ pc = "tlBody"
    /\ o \in {"reload", "other", "broken"}
    /\ Reply(IF said[Len(said)] = "json" THEN "accepted" ELSE "rejected")
    /\ Saw(o)
    /\ UNCHANGED <<input, agent, jar, sent, now, at, heard, timingVars>>

\* The verdict: {"reload": true} and nothing else, a token and its time.
TlRead(o) ==
    /\ pc = "tlBody"
    /\ o \in {"reload", "other", "broken"}
    /\ Reply(IF o = "reload" /\ said[Len(said)] = "json" THEN "accepted" ELSE "rejected")
    /\ Saw(o)
    /\ UNCHANGED <<input, agent, jar, sent, now, at, heard, timingVars>>

\* The caller goes away: the future is dropped at the await it has come to.
Disconnect ==
    /\ pc \in {"fp", "fpBody", "ips", "ipsBody", "tl", "tlBody"}
    /\ pc' = "gone"
    /\ UNCHANGED <<input, agent, jar, sent, now, at, answer, heard, said, timingVars>>

\* Time passes; it matters where a fetch is measured.
Tick ==
    /\ now < MaxTime
    /\ pc \in {"fp", "fpBody", "linking", "ips", "ipsBody"}
    /\ now' = now + 1
    /\ UNCHANGED <<pc, input, agent, jar, sent, at, answer, heard, said, timingVars>>

SetCookies == UNION {[1 .. n -> Lines \cup {Junk}] : n \in 0 .. MaxLines}

Outcomes ==
    {"unbuildable", "unreachable", "200", "429", "500", "broken", "noScript", "script", "stray",
     "empty", "text", "refused", "unusable", "incomplete", "solved", "otherType", "json",
     "bareJson", "reload", "other"}

SessionStep ==
    \/ \E ready \in BOOLEAN, d \in Devices : Receive(ready, d)
    \/ \E o \in Outcomes :
         \/ \E ls \in SetCookies : FpAnswered(o, ls) \/ IpsAnswered(o, ls)
         \/ FpRead(o) \/ TlAnswered(o) \/ TlRead(o)
         \/ \E d \in Choices : IpsRead(o, d)
         \/ \E d \in Choices, isLite \in BOOLEAN, up \in Halves : Solve(o, d, isLite, up)
    \/ SendIps

Next == SessionStep \/ Disconnect \/ Tick

Spec == Init /\ [][Next]_sessionVars

----------------------------------------------------------------------------
(* Safety *)

IsLine(l, n) == l # Junk /\ l.name = n

\* The cookies of the lines ls: those whose last line does not remove them.
Alive(ls, n) ==
    \E p \in 1 .. Len(ls) :
        /\ IsLine(ls[p], n) /\ ~ls[p].expires
        /\ \A q \in p + 1 .. Len(ls) : ~IsLine(ls[q], n)

\* The line since which cookie n has been there without interruption.
Born(ls, n) ==
    CHOOSE p \in 1 .. Len(ls) :
        /\ IsLine(ls[p], n)
        /\ \A q \in p .. Len(ls) : IsLine(ls[q], n) => ~ls[q].expires
        /\ \A q \in 1 .. p - 1 :
             IsLine(ls[q], n) /\ ~ls[q].expires =>
                \E r \in q + 1 .. p - 1 : IsLine(ls[r], n) /\ ls[r].expires

\* Jar j is what a browser would keep of the lines ls: each cookie once, with the
\* value of its last line, in the order in which they came to be.
IsJarOf(j, ls) ==
    /\ {j[p].name : p \in 1 .. Len(j)} = {n \in {l.name : l \in Lines} : Alive(ls, n)}
    /\ \A p \in 1 .. Len(j) :
         \E q \in 1 .. Len(ls) :
            /\ IsLine(ls[q], j[p].name) /\ ls[q].value = j[p].value
            /\ \A r \in q + 1 .. Len(ls) : ~IsLine(ls[r], j[p].name)
    /\ \A p, q \in 1 .. Len(j) : p < q => Born(ls, j[p].name) < Born(ls, j[q].name)

\* The jar is right at all times, and every request bears the cookies of all that
\* had been heard when it was sent: those of fp with ips, those of both with tl.
CookiesAreCurrent ==
    /\ IsJarOf(jar, heard)
    /\ \A p \in 1 .. Len(sent) : IsJarOf(sent[p].cookies, SubSeq(heard, 1, sent[p].after))
    /\ Len(sent) > 0 => sent[Len(sent)].after <= Len(heard)

\* A session looks like one page load of one browser: every request bears the
\* same user agent, that of the client it is sent with; the referer of one that goes
\* to the caller's host tells another origin no more than its own, and the relation
\* to it is the true one.  Only the script can be asked of another host, and only
\* where the body of fp names it by something else than a path: that request bears
\* the cookies, the URL of fp and "same-origin" all the same.
SentLikeOnePage ==
    \A p \in 1 .. Len(sent) :
        LET s == sent[p]
            r == s.referer
        IN  /\ s.agent = agent /\ (agent \in Devices <=> IsNikeApi(input))
            /\ s.host # input.host => s.to = "ips" /\ said[3] = "stray"
            /\ s.host = input.host /\ r # NoReferer =>
                 /\ r.shows = "url" => r.host = s.host
                 /\ r.site = "same-origin" <=> r.host = s.host
                 /\ r.site = "same-site" <=>
                      /\ r.host # s.host
                      /\ LastTwo(r.host) = LastTwo(s.host)

\* What the others must do for a session to come so far, one entry a step.
Right(i) ==
    << {"ready"} \cup (IF IsNikeApi(i) THEN {} ELSE {"noProfile"}),
       {IF IsCostco(i.host) THEN "200" ELSE "429"},
       {"script", "stray"}, {"200"}, {"text"},
       {"solved"} \cup (IF IsNikeApi(i) THEN {} ELSE {"incomplete"}),
       {"json", "bareJson"}, {"reload"} >>

\* The answer is decided by the first step that goes wrong, and by no other:
\*   success, exactly when there is none and the verdict has a token and a time;
\*   rejection, when the site had the solution and answered anything but a good
\*     verdict, or one whose body broke on the way;
\*   solve()'s own answer, when it refuses;
\*   400, when the request cannot be used, or one of the three requests cannot be
\*     built, also where it is the src named by the site that cannot be part of a URL;
\*   502, for whatever else the site, the network, the profile or the solution did.
\* tl is not sent before the script is solved.
VerdictIsEarned ==
    LET n == Len(said)
        fits == \A p \in 1 .. n : said[p] \in Right(input)[p]
        before == \A p \in 1 .. n - 1 : said[p] \in Right(input)[p]
        whole == ~BadInput(input) /\ input.wellFormed
    IN  /\ before /\ (n > 1 => whole)
        /\ answer = "accepted" <=> fits /\ n = 8 /\ said[7] = "json"
        /\ answer = "rejected" <=>
              \/ n = 7 /\ said[7] \in {"500", "otherType"}
              \/ n = 8 /\ ~(fits /\ said[7] = "json")
        /\ answer = "refused" <=> n = 6 /\ said[6] = "refused"
        /\ answer = "badRequest" <=>
              \/ n = 1 /\ (BadInput(input) \/ (fits /\ ~input.wellFormed))
              \/ n > 1 /\ said[n] = "unbuildable"
        /\ answer = "badGateway" <=>
              /\ ~BadInput(input) /\ ~fits /\ said[n] \notin {"unbuildable", "refused"}
              /\ n < 7 \/ (n = 7 /\ said[7] = "unreachable")
        /\ Len(sent) = 3 => n >= 6

\* The timeline handed to solve() is that of a page load in which the second fetch
\* follows the first, and each ends no earlier than was measured: but for half a
\* tick that every rounding may lose, none is lost where fetches are moved apart.
TimelineIsMeasured ==
    line # NoLine /\ at["ipsEnd"] # NoTime =>
        /\ InOrder(line)
        /\ line.nav[4] <= line.ips[1]
        /\ Grain * (line.nav[4] + 1) >= at.fpEnd - at.fpStart
        /\ Grain * (2 * line.ips[4] + 3) >= 2 * (at.ipsEnd - at.fpStart)
=============================================================================
