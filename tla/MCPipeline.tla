----------------------------- MODULE MCPipeline -----------------------------
(***************************************************************************)
(* Pipeline for TLC: one request meets every single fault, and every pair  *)
(* of faults around the scope; another is in its way.                      *)
(***************************************************************************)
EXTENDS Pipeline

CONSTANTS q1, q2, s1, s2, t1

Steps == {(Checks \o Stages \o Signing \o Sealing)[i][1] : i \in 1 .. 32}
           \cup {"drive", "compute", "own", "help", "keys"}
Fine == [step \in Steps |-> "ok"]
Around == {"drive", "compute", "help", "keys"}

OneFault == {[Fine EXCEPT ![a] = x] : a \in Steps, x \in {"fail", "panic"}}
TwoFaults == {[Fine EXCEPT ![a] = x, ![b] = y] : a, b \in Around, x, y \in {"fail", "panic"}}

MCFates ==
    [q \in {q1, q2} |->
       IF q = q1 THEN {Fine} \cup OneFault \cup TwoFaults
       ELSE {Fine, [Fine EXCEPT !["compute"] = "panic"]}]
=============================================================================
