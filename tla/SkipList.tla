------------------------------ MODULE SkipList ------------------------------
(***************************************************************************)
(* The sorted set: skiplist.c under lua-skiplist.c and zset.lua.  A node   *)
(* has a forward link with a span at each of its levels and a backward     *)
(* link; ranks are sums of spans.  zset.lua keeps the score of each member *)
(* beside the list.                                                        *)
(*                                                                         *)
(* Members are numbers in the order of compareslObj.  A node is named by   *)
(* its member, which zset.lua never inserts twice.  A node that was freed  *)
(* is not in the domain of sl.node.                                        *)
(***************************************************************************)
EXTENDS Integers, Sequences, FiniteSets

CONSTANTS NMember,   \* how many members exist
          Scores,
          MaxLevel,  \* SKIPLIST_MAXLEVEL
          UInt       \* values of an unsigned int: 2^32

ASSUME ListAssumption == /\ NMember \in Nat /\ MaxLevel \in Nat \ {0} /\ Scores \subseteq Int
                         /\ UInt \in Nat /\ UInt > NMember

Members == 1..NMember
Header  == 0
Null    == -1

VARIABLES sl,    \* the skiplist: its nodes, tail, length and level
          tbl    \* zset.lua: from members to scores

vars == <<sl, tbl>>

Largest(S) == CHOOSE x \in S : \A y \in S : y <= x

Forward(s, x, i) == s.node[x].level[i].forward
Span(s, x, i)    == s.node[x].level[i].span

Level(h) == [1..h -> [forward : Members \cup {Null}, span : 0..NMember]]
Node(H)  == [score : Scores \cup {0}, backward : Members \cup {Null},
             level : UNION {Level(h) : h \in H}]

TypeOK ==
  /\ DOMAIN tbl \subseteq Members /\ \A m \in DOMAIN tbl : tbl[m] \in Scores
  /\ DOMAIN sl.node = DOMAIN tbl \cup {Header}
  /\ sl.node[Header] \in Node({MaxLevel})
  /\ \A m \in DOMAIN tbl : sl.node[m] \in Node(1..MaxLevel)
  /\ sl.tail \in Members \cup {Null}
  /\ sl.length \in 0..NMember
  /\ sl.level \in 1..MaxLevel

slCreate ==
  [node   |-> [x \in {Header} |->
                 [score |-> 0, backward |-> Null,
                  level |-> [i \in 1..MaxLevel |-> [forward |-> Null, span |-> 0]]]],
   tail   |-> Null,
   length |-> 0,
   level  |-> 1]

Init == sl = slCreate /\ tbl = [m \in {} |-> 0]

-----------------------------------------------------------------------------
(* Searching.                                                              *)

\* Along level i from <<x, traversed>>, as long as the next node is among nodes
\* and the rank it would bring among ranks.
Walk(s, i, nodes, ranks, from) ==
  LET w[p \in Int \X Int] ==
        LET y == Forward(s, p[1], i)
            r == p[2] + Span(s, p[1], i)
        IN  IF y # Null /\ y \in nodes /\ r \in ranks THEN w[<<y, r>>] ELSE p
  IN  w[from]

\* Down all levels: at each, the node where the walk stopped, and its rank.
Descend(s, nodes, ranks) ==
  LET d[i \in 1..(MaxLevel + 1)] ==
        IF i > s.level THEN <<Header, 0>> ELSE Walk(s, i, nodes, ranks, d[i + 1])
  IN  d

\* The nodes before a score and member: by score, then by member.
Before(s, sc, m) ==
  {y \in DOMAIN s.node : s.node[y].score < sc \/ (s.node[y].score = sc /\ y < m)}

-----------------------------------------------------------------------------
(* Changing the list.                                                      *)

\* The span a new node shares with its predecessor x: a level that was not in
\* use holds no valid span, and spans the whole list.
SpanToSplit(s, x, i) == IF i > s.level THEN s.length ELSE Span(s, x, i)

SpanAbove_bug(s, x, i) == Span(s, x, i)

\* A level above the new node now spans one node more.
SpanAbove(s, x, i) == Span(s, x, i) + 1

BackwardTo_bug(s, y, x) == s.node[y].backward

\* The backward link of node y after x is put before it.
BackwardTo(s, y, x) == x

slInsert(s, sc, m, h) ==
  LET d == Descend(s, Before(s, sc, m), Nat)
      update(i) == d[i][1]
      skipped(i) == d[1][2] - d[i][2]
      next == Forward(s, update(1), 1)
      top == Largest({s.level, h})
      Linked(x, i) ==
        IF x # update(i) \/ i > top THEN s.node[x].level[i]
        ELSE IF i <= h THEN [forward |-> m, span |-> skipped(i) + 1]
        ELSE [forward |-> Forward(s, x, i), span |-> SpanAbove(s, x, i)]
      new == [score |-> sc,
              backward |-> IF update(1) = Header THEN Null ELSE update(1),
              level |-> [i \in 1..h |->
                           [forward |-> Forward(s, update(i), i),
                            span |-> SpanToSplit(s, update(i), i) - skipped(i)]]]
      old(x) == [score |-> s.node[x].score,
                 backward |-> IF x = next THEN BackwardTo(s, x, m) ELSE s.node[x].backward,
                 level |-> [i \in DOMAIN s.node[x].level |-> Linked(x, i)]]
  IN  [node   |-> [x \in DOMAIN s.node \cup {m} |-> IF x = m THEN new ELSE old(x)],
       tail   |-> IF next = Null THEN m ELSE s.tail,
       length |-> s.length + 1,
       level  |-> top]

LengthAfterDelete_bug(s) == s.length

LengthAfterDelete(s) == s.length - 1

\* slDeleteNode and slFreeNode; d is the descent to the node before x.
slDeleteNode(s, x, d) ==
  LET next == Forward(s, x, 1)
      update(i) == d[i][1]
      Unlinked(y, i) ==
        IF y # update(i) \/ i > s.level THEN s.node[y].level[i]
        ELSE IF Forward(s, y, i) = x
        THEN [forward |-> Forward(s, x, i), span |-> Span(s, y, i) + Span(s, x, i) - 1]
        ELSE [forward |-> Forward(s, y, i), span |-> Span(s, y, i) - 1]
      node == [y \in DOMAIN s.node \ {x} |->
                 [score |-> s.node[y].score,
                  backward |-> IF y = next THEN s.node[x].backward ELSE s.node[y].backward,
                  level |-> [i \in DOMAIN s.node[y].level |-> Unlinked(y, i)]]]
  IN  [node   |-> node,
       tail   |-> IF next = Null THEN s.node[x].backward ELSE s.tail,
       length |-> LengthAfterDelete(s),
       level  |-> Largest({1} \cup {i \in 1..s.level : node[Header].level[i].forward # Null})]

slDelete(s, sc, m) ==
  LET d == Descend(s, Before(s, sc, m), Nat)
      x == Forward(s, d[1][1], 1)
  IN  IF x # Null /\ s.node[x].score = sc /\ x = m THEN slDeleteNode(s, x, d) ELSE s

BeforeRank_bug(start) == 0..start

BeforeRank(start) == 0..(start - 1)

\* Ranks start..end; del[k] is the list after k turns of the loop.
slDeleteByRank(s, start, end) ==
  LET d == Descend(s, Members, BeforeRank(start))
      del[k \in 0..NMember] ==
        IF k = 0 THEN s
        ELSE LET p == del[k - 1]
                 x == Forward(p, d[1][1], 1)
             IN  IF x # Null /\ d[1][2] + k <= end THEN slDeleteNode(p, x, d) ELSE p
  IN  del[NMember]

\* Each level with a quarter of the chance of the one below, up to the maximum.
slRandomLevel == 1..MaxLevel

-----------------------------------------------------------------------------
(* zset.lua: operations.                                                   *)

reverse_rank_bug(r) == sl.length - r

reverse_rank(r) == sl.length - r + 1

\* add does nothing for a member that has this score already; h is what
\* slRandomLevel returns.
add(sc, m, h) ==
  /\ ~(m \in DOMAIN tbl /\ tbl[m] = sc)
  /\ LET s == IF m \in DOMAIN tbl THEN slDelete(sl, tbl[m], m) ELSE sl IN
     sl' = slInsert(s, sc, m, h)
  /\ tbl' = [n \in DOMAIN tbl \cup {m} |-> IF n = m THEN sc ELSE tbl[n]]

rem(m) ==
  /\ m \in DOMAIN tbl
  /\ sl' = slDelete(sl, tbl[m], m)
  /\ tbl' = [n \in DOMAIN tbl \ {m} |-> tbl[n]]

\* A Lua integer that becomes an unsigned int.
Unsigned(n) == n % UInt

\* delete_by_rank puts its bounds in order.
delete_by_rank(r1, r2) ==
  LET start == Unsigned(r1)
      end   == Unsigned(r2)
  IN  IF start > end THEN slDeleteByRank(sl, end, start) ELSE slDeleteByRank(sl, start, end)

Limited(count)    == delete_by_rank(count + 1, sl.length)
RevLimited(count) == delete_by_rank(reverse_rank(count + 1), reverse_rank(sl.length))

\* The callback of delete_by_rank takes the deleted members out of tbl.
Cut(s) ==
  /\ sl' = s
  /\ tbl' = [n \in DOMAIN tbl \ (DOMAIN sl.node \ DOMAIN s.node) |-> tbl[n]]

limit(count)     == sl.length > count /\ Cut(Limited(count))
rev_limit(count) == sl.length > count /\ Cut(RevLimited(count))

Next ==
  \/ \E m \in Members : rem(m) \/ \E sc \in Scores, h \in slRandomLevel : add(sc, m, h)
  \/ \E count \in 0..NMember : limit(count) \/ rev_limit(count)

Spec == Init /\ [][Next]_vars

-----------------------------------------------------------------------------
(* zset.lua: queries.                                                      *)

\* slGetRank walks up to the member itself, which is before the next one, and
\* returns at the first level where it stands on it.
slGetRank(s, sc, m) ==
  LET d == Descend(s, Before(s, sc, m + 1), Nat)
      found == {i \in 1..s.level : d[i][1] = m}
  IN  IF found = {} THEN 0 ELSE d[Largest(found)][2]

slGetNodeByRank(s, rank) ==
  LET d == Descend(s, Members, 0..rank)
      found == {i \in 1..s.level : d[i][2] = rank}
  IN  IF rank = 0 \/ rank > s.length \/ found = {} THEN Null ELSE d[Largest(found)][1]

slIsInRange(s, min, max) ==
  /\ min <= max
  /\ s.tail # Null /\ s.node[s.tail].score >= min
  /\ Forward(s, Header, 1) # Null /\ s.node[Forward(s, Header, 1)].score <= max

slFirstInRange(s, min, max) ==
  IF slIsInRange(s, min, max)
  THEN Forward(s, Descend(s, {y \in DOMAIN s.node : s.node[y].score < min}, Nat)[1][1], 1)
  ELSE Null

InRangeUpTo(score, max) == score <= max

slLastInRange(s, min, max) ==
  IF slIsInRange(s, min, max)
  THEN Descend(s, {y \in DOMAIN s.node : InRangeUpTo(s.node[y].score, max)}, Nat)[1][1]
  ELSE Null

\* The members from node x on, at most n of them and while they are among ok.
Collect(s, x, n, reverse, ok) ==
  LET c[y \in Int, k \in 0..n] ==
        IF y = Null \/ k = 0 \/ y \notin ok THEN <<>>
        ELSE <<y>> \o c[IF reverse THEN s.node[y].backward ELSE Forward(s, y, 1), k - 1]
  IN  c[x, n]

get_rank_range(s, r1, r2) ==
  LET n == IF r1 <= r2 THEN r2 - r1 + 1 ELSE r1 - r2 + 1
  IN  Collect(s, slGetNodeByRank(s, r1), n, r1 > r2, Members)

get_score_range(s, s1, s2) ==
  IF s1 <= s2
  THEN Collect(s, slFirstInRange(s, s1, s2), NMember, FALSE,
               {y \in DOMAIN s.node : s.node[y].score <= s2})
  ELSE Collect(s, slLastInRange(s, s2, s1), NMember, TRUE,
               {y \in DOMAIN s.node : s.node[y].score >= s2})

rank(m) == IF m \in DOMAIN tbl THEN slGetRank(sl, tbl[m], m) ELSE 0

AtLeast1(r) == IF r < 1 THEN 1 ELSE r

range(r1, r2) == get_rank_range(sl, AtLeast1(r1), AtLeast1(r2))

rev_range(r1, r2) == range(reverse_rank(r1), reverse_rank(r2))

-----------------------------------------------------------------------------
(* Properties.                                                             *)

Z == INSTANCE SortedSet WITH
       content <- [m \in DOMAIN sl.node \ {Header} |-> sl.node[m].score]

\* The list with its table implements the sorted set: whatever the heights of
\* the nodes, add, rem, limit and rev_limit leave the members they should.
ImplementsSortedSet == Z!Spec

\* limit(count) and rev_limit(count) would leave exactly the count members of
\* the lowest and of the highest rank, wherever the cut falls among the levels.
LimitExact ==
  \A count \in 0..(sl.length - 1) :
    /\ DOMAIN Limited(count).node =
         {Header} \cup {m \in DOMAIN tbl : Z!RankIn(tbl, m) <= count}
    /\ DOMAIN RevLimited(count).node =
         {Header} \cup {m \in DOMAIN tbl : Z!RankIn(tbl, m) > sl.length - count}

Backwards(q) == [k \in 1..Len(q) |-> q[Len(q) - k + 1]]

\* q from a to b, as far as it goes; backwards if a > b.
Slice(q, a, b) ==
  IF a <= b THEN SubSeq(q, a, IF b < Len(q) THEN b ELSE Len(q))
  ELSE Backwards(SubSeq(q, b, a))

\* rank and the node of a rank agree with the order of the members, and a span
\* is the distance in ranks to the next node of its level, or to the end of the
\* list, at every level in use, through every sequence of changes.
RankExact ==
  LET q      == Z!Ordered(tbl)
      Pos(x) == IF x = Header THEN 0 ELSE Z!RankIn(tbl, x)
  IN
  /\ sl.length = Len(q)
  /\ \A m \in Members : rank(m) = IF m \in DOMAIN tbl THEN Z!RankIn(tbl, m) ELSE 0
  /\ \A k \in 1..Len(q) : slGetNodeByRank(sl, k) = q[k]
  /\ \A x \in DOMAIN sl.node : \A i \in DOMAIN sl.node[x].level :
       i <= sl.level => Span(sl, x, i) = (IF Forward(sl, x, i) = Null THEN sl.length
                                          ELSE Pos(Forward(sl, x, i))) - Pos(x)

\* range and rev_range return the members between two ranks in order, in both
\* directions (the backward links survive as well), and as far as the list goes
\* when the second rank is past its end.  A first rank past the end gets nothing
\* from range, while rev_range takes it for the rank of the last member.
\* range_by_score returns the members with a score between the bounds, also
\* when no member, or every member, is outside them.
RangeExact ==
  LET q == Z!Ordered(tbl)
      Between(a, b) == SelectSeq(q, LAMBDA m : a <= tbl[m] /\ tbl[m] <= b)
      Bounds == UNION {{x - 1, x, x + 1} : x \in Scores}
  IN
  /\ \A r1 \in 1..Len(q), r2 \in 1..(Len(q) + 2) :
       /\ range(r1, r2) = Slice(q, r1, r2)
       /\ rev_range(r1, r2) = Slice(Backwards(q), r1, r2)
  /\ \A r1 \in (Len(q) + 1)..(Len(q) + 2), r2 \in 1..(Len(q) + 2) :
       /\ range(r1, r2) = <<>>
       /\ rev_range(r1, r2) = IF q = <<>> THEN <<>> ELSE Slice(Backwards(q), Len(q), r2)
  /\ \A a, b \in Bounds :
       get_score_range(sl, a, b) = IF a <= b THEN Between(a, b) ELSE Backwards(Between(b, a))
=============================================================================
