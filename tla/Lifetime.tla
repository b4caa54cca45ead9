------------------------------ MODULE Lifetime ------------------------------
(***************************************************************************)
(* How long a response may be cached (src/worktime/fetch.rs): lifetime(),  *)
(* one step per Cache-Control directive; and, on its own, how the seconds  *)
(* of a directive or of an Age header are read, unquote() and              *)
(* delta_seconds(), one step per character.                                *)
(*                                                                         *)
(* To lifetime() a directive is a name and the seconds delta_seconds()     *)
(* reads from its argument, Absent when it reads none.  Names that the     *)
(* code treats alike are one name.  To delta_seconds() a character is a    *)
(* digit, Quote, or Other.                                                 *)
(***************************************************************************)
EXTENDS Integers, Sequences

CONSTANTS
    MaxDirectives,    \* bound: directives in a response
    MaxDeltaSeconds,  \* MAX_DELTA_SECONDS, 2^31 in the code, where directives are read
    MaxReceived,      \* bound: the latest arrival of a response
    MaxInstant,       \* the last Instant; checked_add fails beyond it
    Alphabet,         \* the characters that occur, a subset of 0 .. Other
    MaxLength,        \* bound: characters of an argument
    Cap               \* MAX_DELTA_SECONDS, where digits are read

\* An Instant leaves room for two capped spans after any response.
ASSUME HeadersAssumption ==
    /\ MaxDirectives \in Nat
    /\ MaxDeltaSeconds \in Nat
    /\ MaxReceived \in Nat
    /\ MaxInstant \in Nat
    /\ MaxReceived + 2 * MaxDeltaSeconds <= MaxInstant
    /\ Cap \in Nat

Absent == -1      \* Option::None of a number of seconds
Seconds == 0 .. MaxDeltaSeconds \cup {Absent}

Names == {"forbids",   \* no-store, no-cache, private
          "s-maxage", "max-age", "stale-while-revalidate",
          "unknown"}

Directives == [name : Names, arg : Seconds]

VARIABLES
    directives,  \* all Cache-Control directives of the response, in order
    age,         \* the seconds of the Age header
    received,    \* the instant the response's head arrived
    scanned,     \* directives scanned so far
    sMaxage, maxAge, swr,         \* the seconds found, or Absent
    sMaxageSeen, maxAgeSeen,
    result       \* "scanning", then None or Some(fresh_until, stale_until)

scanner ==
    <<directives, age, received, scanned, sMaxage, maxAge, swr, sMaxageSeen, maxAgeSeen, result>>
input == <<directives, age, received>>

----------------------------------------------------------------------------
(* lifetime() *)

Nothing == [some |-> FALSE, fresh |-> 0, stale |-> 0]
Scanning == [some |-> FALSE, fresh |-> -1, stale |-> -1]
Some(f, s) == [some |-> TRUE, fresh |-> f, stale |-> s]

ScanInit ==
    /\ directives \in UNION {[1 .. n -> Directives] : n \in 0 .. MaxDirectives}
    /\ age \in Seconds
    /\ received \in 0 .. MaxReceived
    /\ scanned = 0
    /\ sMaxage = Absent /\ maxAge = Absent /\ swr = Absent
    /\ sMaxageSeen = FALSE /\ maxAgeSeen = FALSE
    /\ result = Scanning

\* no-store, no-cache and private end the scan.
ScanForbids ==
    /\ directives[scanned + 1].name = "forbids"
    /\ result' = Nothing
    /\ UNCHANGED <<sMaxage, maxAge, swr, sMaxageSeen, maxAgeSeen>>

\* The first s-maxage counts; a malformed one ends the scan.
ScanSMaxage ==
    /\ directives[scanned + 1].name = "s-maxage"
    /\ LET v == directives[scanned + 1].arg
       IN  IF sMaxageSeen
             THEN UNCHANGED <<sMaxage, sMaxageSeen, result>>
             ELSE /\ sMaxageSeen' = TRUE
                  /\ sMaxage' = v
                  /\ result' = IF v = Absent THEN Nothing ELSE result
    /\ UNCHANGED <<maxAge, swr, maxAgeSeen>>

\* Mutant: a later max-age overrides the first.
ScanMaxAgeLast ==
    /\ directives[scanned + 1].name = "max-age"
    /\ LET v == directives[scanned + 1].arg
       IN  /\ maxAgeSeen' = TRUE
           /\ maxAge' = v
           /\ result' = IF v = Absent THEN Nothing ELSE result
    /\ UNCHANGED <<sMaxage, swr, sMaxageSeen>>

\* The first max-age counts; a malformed one ends the scan.
ScanMaxAge ==
    /\ directives[scanned + 1].name = "max-age"
    /\ LET v == directives[scanned + 1].arg
       IN  IF maxAgeSeen
             THEN UNCHANGED <<maxAge, maxAgeSeen, result>>
             ELSE /\ maxAgeSeen' = TRUE
                  /\ maxAge' = v
                  /\ result' = IF v = Absent THEN Nothing ELSE result
    /\ UNCHANGED <<sMaxage, swr, sMaxageSeen>>

\* The first well-formed stale-while-revalidate counts; others are skipped.
ScanStale ==
    /\ directives[scanned + 1].name = "stale-while-revalidate"
    /\ swr' = IF swr = Absent THEN directives[scanned + 1].arg ELSE swr
    /\ UNCHANGED <<sMaxage, maxAge, sMaxageSeen, maxAgeSeen, result>>

ScanUnknown ==
    /\ directives[scanned + 1].name = "unknown"
    /\ UNCHANGED <<sMaxage, maxAge, swr, sMaxageSeen, maxAgeSeen, result>>

Scan ==
    /\ result = Scanning
    /\ scanned < Len(directives)
    /\ scanned' = scanned + 1
    /\ ScanForbids \/ ScanSMaxage \/ ScanMaxAge \/ ScanStale \/ ScanUnknown
    /\ UNCHANGED input

\* Option::or() and unwrap_or().
OrElse(v, default) == IF v = Absent THEN default ELSE v

\* Mutant: a response as old as its whole lifetime is still kept.
GrantAtExpiry(ttl, stale, a) ==
    IF ttl = Absent \/ stale < a
      THEN Nothing
      ELSE Some(received + (IF ttl > a THEN ttl - a ELSE 0), received + (stale - a))

\* The part after the loop: ttl seconds fresh and `stale` seconds in all, less
\* the age, counted from the arrival of the response's head.
Grant(ttl, stale, a) ==
    IF ttl = Absent \/ stale <= a
      THEN Nothing
      ELSE LET f == received + (IF ttl > a THEN ttl - a ELSE 0)
               s == received + (stale - a)
           IN  IF f > MaxInstant \/ s > MaxInstant THEN Nothing ELSE Some(f, s)

\* s-maxage before max-age; an Age that is missing or malformed counts as 0.
Finish ==
    /\ result = Scanning
    /\ scanned = Len(directives)
    /\ LET ttl == OrElse(sMaxage, maxAge)
           a == OrElse(age, 0)
       IN  result' = Grant(ttl, ttl + OrElse(swr, 0), a)
    /\ UNCHANGED <<input, scanned, sMaxage, maxAge, swr, sMaxageSeen, maxAgeSeen>>

Returned == result # Scanning /\ UNCHANGED scanner

ScanNext == Scan \/ Finish \/ Returned

ScanSpec == ScanInit /\ [][ScanNext]_scanner

----------------------------------------------------------------------------

\* The scan's state stays in range.
ScanTypeOK ==
    /\ directives \in Seq(Directives)
    /\ age \in Seconds
    /\ received \in 0 .. MaxReceived
    /\ scanned \in 0 .. Len(directives)
    /\ sMaxage \in Seconds /\ maxAge \in Seconds /\ swr \in Seconds
    /\ sMaxageSeen \in BOOLEAN /\ maxAgeSeen \in BOOLEAN
    /\ result \in [some : BOOLEAN, fresh : Int, stale : Int]

\* A lifetime that is granted starts no earlier than the response, is fresh no
\* longer than it may be served, and has not already run out: what the cache
\* assumes of it (Cache, LifetimesAssumption), whatever the header says.
GrantedSpanIsProper ==
    result.some => /\ received <= result.fresh
                   /\ result.fresh <= result.stale
                   /\ received < result.stale

\* The positions of a directive's name, and the first of them.
Positions(name) == {j \in 1 .. Len(directives) : directives[j].name = name}
First(ps) == CHOOSE j \in ps : \A l \in ps : j <= l
FirstSeconds(ps) == IF ps = {} THEN Absent ELSE directives[First(ps)].arg

\* What the header means, without a scan: nothing may be kept if it forbids so
\* or its first s-maxage or first max-age is malformed; else s-maxage (or
\* max-age) seconds are fresh, and the first well-formed
\* stale-while-revalidate adds seconds that are stale; the age is deducted.
ReferenceLifetime ==
    LET s == Positions("s-maxage")
        m == Positions("max-age")
        w == {j \in Positions("stale-while-revalidate") : directives[j].arg # Absent}
        malformed(ps) == ps # {} /\ FirstSeconds(ps) = Absent
        ttl == IF s # {} THEN FirstSeconds(s) ELSE FirstSeconds(m)
        a == IF age = Absent THEN 0 ELSE age
        total == ttl + (IF w = {} THEN 0 ELSE FirstSeconds(w))
    IN  IF \/ Positions("forbids") # {} \/ malformed(s) \/ malformed(m)
           \/ ttl = Absent
           \/ total <= a
          THEN Nothing
          ELSE Some(received + (IF ttl > a THEN ttl - a ELSE 0), received + total - a)

\* The scan, with its early returns and its flags, finds what the header means
\* in whatever order the directives come, and the checked additions of the
\* instants never fail.
ScanMeetsReference == result # Scanning => result = ReferenceLifetime

----------------------------------------------------------------------------
(* delta_seconds() *)

Quote == 10
Other == 11
NoSeconds == -1       \* Option::None

VARIABLES
    arg,     \* the text after "=", trimmed
    digits,  \* what delta_seconds is given
    read,    \* characters read
    value,   \* the value so far
    seconds, \* what it returned
    pc

reader == <<arg, digits, read, value, seconds, pc>>

ReaderInit ==
    /\ arg \in UNION {[1 .. l -> Alphabet] : l \in 0 .. MaxLength}
    /\ digits = <<>>
    /\ read = 0
    /\ value = 0
    /\ seconds = NoSeconds
    /\ pc = "unquote"

\* unquote(): a pair of quotes around the argument is dropped; a lone one stays.
Unquoted ==
    IF Len(arg) >= 2 /\ arg[1] = Quote /\ arg[Len(arg)] = Quote
      THEN SubSeq(arg, 2, Len(arg) - 1)
      ELSE arg

Unquote ==
    /\ pc = "unquote"
    /\ digits' = Unquoted
    /\ pc' = "digits"
    /\ UNCHANGED <<arg, read, value, seconds>>

\* saturating_mul, saturating_add and min: the value never passes the cap.
Saturate(w) == IF w > Cap THEN Cap ELSE w

ReadDigit ==
    /\ pc = "digits"
    /\ read < Len(digits)
    /\ digits[read + 1] \in 0 .. 9
    /\ value' = Saturate(value * 10 + digits[read + 1])
    /\ read' = read + 1
    /\ UNCHANGED <<arg, digits, seconds, pc>>

\* Nothing, or a character that is not a digit.
Refuse ==
    /\ pc = "digits"
    /\ digits = <<>> \/ (read < Len(digits) /\ digits[read + 1] \notin 0 .. 9)
    /\ pc' = "done"
    /\ UNCHANGED <<arg, digits, read, value, seconds>>

Accept ==
    /\ pc = "digits"
    /\ digits # <<>> /\ read = Len(digits)
    /\ seconds' = value
    /\ pc' = "done"
    /\ UNCHANGED <<arg, digits, read, value>>

HasRead == pc = "done" /\ UNCHANGED reader

ReaderNext == Unquote \/ ReadDigit \/ Refuse \/ Accept \/ HasRead

ReaderSpec == ReaderInit /\ [][ReaderNext]_reader

\* The text between a pair of quotes, or the whole of it.
Inner ==
    LET quoted == Len(arg) > 1 /\ arg[1] = Quote /\ arg[Len(arg)] = Quote
    IN  IF quoted THEN [j \in 1 .. Len(arg) - 2 |-> arg[j + 1]] ELSE arg

\* The number that digits s denote.
Decimal(s) ==
    LET upTo[j \in 0 .. Len(s)] == IF j = 0 THEN 0 ELSE upTo[j - 1] * 10 + s[j]
    IN  upTo[Len(s)]

\* A reference that reads the whole number first and caps it once.
ReferenceSeconds ==
    IF Inner # <<>> /\ \A j \in 1 .. Len(Inner) : Inner[j] \in 0 .. 9
      THEN IF Decimal(Inner) < Cap THEN Decimal(Inner) ELSE Cap
      ELSE NoSeconds

\* Capping at every digit gives what capping the whole number once would: the
\* cap is absorbing, and leading zeros, quotes and junk are treated as stated.
MatchesReference == pc = "done" => seconds = ReferenceSeconds

\* Both read what the standard means, whatever else the header holds.
MeetsReference == ScanMeetsReference /\ MatchesReference

----------------------------------------------------------------------------
(* Both readers side by side; the small headers of the run go with no argument, *)
(* and its arguments with no header.                                            *)

HeadersInit ==
    /\ arg = <<>> \/ (directives = <<>> /\ age = Absent /\ received = 0)
    /\ ScanInit /\ ReaderInit

HeadersNext ==
    \/ ScanNext /\ UNCHANGED reader
    \/ ReaderNext /\ UNCHANGED scanner

HeadersSpec == HeadersInit /\ [][HeadersNext]_<<scanner, reader>>
=============================================================================
