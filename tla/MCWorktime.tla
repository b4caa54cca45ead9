----------------------------- MODULE MCWorktime -----------------------------
(***************************************************************************)
(* Worktime for TLC: every hash function on two nonces and two digests.    *)
(***************************************************************************)
EXTENDS Worktime

MCDigests == {0, 2}
MCHashes == [Nonces \X MCDigests -> MCDigests]
MCWalls == {-1, 0, 5, 7}
MCServerTimes == {0, 4}
MCDifficulties == {0, 4, 9}
MCSubCounts == 0 .. 2

\* Builds whose own parameters are solvable, too hard, or none; each with every
\* set of overrides.
MCBuilds ==
    {b \in AllBuilds : <<b.difficulty, b.sub, b.seed>> \in
        {<<4, 1, 0>>, <<4, 2, 2>>, <<9, 2, 0>>, <<0, 1, 0>>, <<4, 0, 2>>}}
=============================================================================
