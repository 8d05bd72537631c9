------------------------------- MODULE MCGate -------------------------------
(***************************************************************************)
(* Instances of Gate for TLC.  A socket logs in at most once, so that two  *)
(* or three sockets, each with an agent to spare, show every overlap of    *)
(* login, relogin, kick, close and pooling of one or two accounts.         *)
(***************************************************************************)
EXTENDS Gate, TLC

CONSTANTS f1, f2, f3, i1, i2, a1, a2, a3

Fds2    == {f1, f2}
Fds3    == {f1, f2, f3}
Ids1    == {i1}
Ids2    == {i1, i2}
Agents2 == {a1, a2}
Agents3 == {a1, a2, a3}

\* Bound: two sockets send up to two packages each, three send one each.
FewPackages ==
  (\A f \in Fds : sock[f] # "idle") => (\A f \in Fds : sent[f] <= 1)

\* Sockets, accounts and agents are interchangeable; no definition chooses one.
Symmetry == Permutations(Fds) \cup Permutations(Ids) \cup Permutations(Agents)
=============================================================================
