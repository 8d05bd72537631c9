--------------------------- MODULE MCLoginSession ---------------------------
(***************************************************************************)
(* Instances of LoginSession for TLC: as many sessions as connections, so  *)
(* that the bound on session numbers never blocks a login.                 *)
(***************************************************************************)
EXTENDS LoginSession, TLC

CONSTANTS c1, c2, i1, t1, t2, g1, g2, good, wrong

Conns2     == {c1, c2}
Accounts1  == {i1}
Travelers2 == {t1, t2}
NoGates    == {}
Gates2     == {g1, g2}
GoodToken  == {good}
BothTokens == {good, wrong}

\* Connections, travelers and verifications are interchangeable.
Symmetry == Permutations(Conns) \cup Permutations(Travelers) \cup Permutations(Gates)
=============================================================================
