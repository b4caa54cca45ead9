------------------------------ MODULE MCCache ------------------------------
(***************************************************************************)
(* Small instances of Cache.  Spellings and requests are model values.     *)
(***************************************************************************)
EXTENDS Cache, TLC

CONSTANTS lower, upper,  \* two spellings of one host
          other,         \* another host
          r1, r2, r3

\* One host under one spelling, and two hosts one of which has two spellings.
OneSpelling == {lower}
Spellings == {lower, upper, other}
LowerOne == [d \in OneSpelling |-> d]
LowerAll == [d \in Spellings |-> IF d = upper THEN lower ELSE d]

\* Never fresh but stale for a while; fresh for a while, then stale.
ShortLives == {<<0, 1>>, <<1, 2>>}

\* Fresh, then stale, then expired, within MaxTime = 2.
OneLife == {<<1, 2>>}

TwoRequests == {r1, r2}
ThreeRequests == {r1, r2, r3}
Symmetry == Permutations(ThreeRequests)
=============================================================================
