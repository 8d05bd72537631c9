------------------------------ MODULE SortedSet ------------------------------
(***************************************************************************)
(* What zset.lua promises: members with a score each, ordered by score and *)
(* among equal scores by member, that can be cut at either end.            *)
(***************************************************************************)
EXTENDS Integers, FiniteSets

CONSTANTS Members, Scores

VARIABLE content   \* from the members present to their scores

Before(c, m, n) == c[m] < c[n] \/ (c[m] = c[n] /\ m < n)

RankIn(c, m) == Cardinality({n \in DOMAIN c : Before(c, n, m)}) + 1

\* The members of c in order.
Ordered(c) ==
  [k \in 1..Cardinality(DOMAIN c) |-> CHOOSE m \in DOMAIN c : RankIn(c, m) = k]

Keep(S) == content' = [m \in S |-> content[m]]

Init == content = [m \in {} |-> 0]

Add(m, s) == content' = [n \in DOMAIN content \cup {m} |-> IF n = m THEN s ELSE content[n]]

Rem(m) == Keep(DOMAIN content \ {m})

Limit(k) == Keep({m \in DOMAIN content : RankIn(content, m) <= k})

RevLimit(k) ==
  Keep({m \in DOMAIN content : RankIn(content, m) > Cardinality(DOMAIN content) - k})

Next ==
  \/ \E m \in Members : Rem(m) \/ \E s \in Scores : Add(m, s)
  \/ \E k \in 0..Cardinality(Members) : Limit(k) \/ RevLimit(k)

Spec == Init /\ [][Next]_content
=============================================================================
