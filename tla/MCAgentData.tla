---------------------------- MODULE MCAgentData -----------------------------
(***************************************************************************)
(* An instance of AgentData for TLC.  The two names share a field, so that *)
(* $ can stand for the wrong one of two elements.                          *)
(***************************************************************************)
EXTENDS AgentData, TLC

Keys2 == {<<1, 1>>, <<1, 2>>}
Orders2 == 1..2
Scores1 == {60}

\* A new agent, and one with a record of an earlier session that was not saved.
Pooled2 == {None, <<[key |-> <<1, 2>>, order |-> 1, score |-> <<60, None>>]>>}
KickSymmetry == Permutations(Kickers)
=============================================================================
