----------------------------- MODULE MCProfiles -----------------------------
(***************************************************************************)
(* Profiles for TLC: two px and three reese profiles and a key that is not *)
(* .json, in three pages, with two permits.  Times put the profiles of one *)
(* device before, within, at the edges of and beyond each other's window,  *)
(* with and without ties.                                                  *)
(***************************************************************************)
EXTENDS Profiles

CONSTANTS p1, p2, r1, r2, r3, note, deviceA, deviceB

MCObjects == {p1, p2, r1, r2, r3, note}
MCBucketOf == [o \in MCObjects |-> IF o \in {p1, p2, note} THEN "px" ELSE "reese"]
MCTimes == {t \in [MCObjects -> 0 .. 4] :
              /\ t[note] = 0 /\ t[p1] = 2 /\ t[r3] = 2
              /\ t[p2] \in {2, 3}
              /\ t[r2] # 2}

MCDeviceOf == [o \in MCObjects |-> IF o = r3 THEN deviceB ELSE deviceA]
MCIsJson == [o \in MCObjects |-> o # note]
MCPagesOf == [px |-> <<{p1, note}, {p2}>>, reese |-> <<{r1, r2, r3}>>]
=============================================================================
