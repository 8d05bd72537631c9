-------------------------- MODULE WebsocketProofs ---------------------------
(***************************************************************************)
(* Proofs about Websocket, for any sockets, hash function, frames, lengths *)
(* and cuts into reads: the types with the limits of the buffers, that     *)
(* every struct uncomplete and every buffer is accounted for, and that the *)
(* packages are exactly the data frames that have come.                    *)
(*                                                                         *)
(* The inductive invariant Sound adds to the first two what a call of      *)
(* filter holds between two of its steps: its socket has no struct         *)
(* uncomplete in the table (Call), so that the one it links is the only    *)
(* one, and the table is finite (Heap), so that its elements can be        *)
(* counted.  The third needs Exact: where in the stream each socket is     *)
(* (Followed), what the bytes there are (Encoded, Numbered) and what a     *)
(* struct uncomplete holds of its frame (Begun).  Led says why it may lose *)
(* its place in a socket, and that what came before is right nevertheless. *)
(***************************************************************************)
EXTENDS Websocket, RingProofs, SequenceTheorems, FiniteSetTheorems,
        NaturalsInduction, WellFoundedInduction

Streams ==
  /\ sent \in Seq([fd : Fds, frame : Frames, end : Nat])
  /\ stream \in [Fds -> Bytestring]
  /\ arrived \in [Fds -> Nat] /\ pos \in [Fds -> Nat]
  /\ \A f \in Fds : pos[f] <= arrived[f] /\ arrived[f] <= Len(stream[f])

Marks ==
  /\ sock \in [Fds -> {"open", "closed"}]
  /\ reported \subseteq Fds
  /\ phase \in {"running", "cleared"}

Packages == Ring(queue, [id : Fds, msg : Bytestring])

Chained ==
  /\ hash \in [Range(hash_fd) -> Seq(Struct)]
  /\ \A h \in DOMAIN hash : \A i \in DOMAIN hash[h] :
       /\ hash[h][i].read \in -1..(hash[h][i].size - 1)
       /\ hash_fd[hash[h][i].id] = h
       /\ \A k \in DOMAIN hash[h] \ {i} : hash[h][k].id # hash[h][i].id

\* No struct uncomplete of the socket is in the table.
Absent(fd) == \A i \in DOMAIN Chain(fd) : Chain(fd)[i].id # fd

Call ==
  /\ pc \in {"idle", "header", "fill", "frame", "more"}
  /\ cur \in Fds \cup {None} /\ uc \in Struct \cup {None}
  /\ pc # "idle" => cur \in Fds /\ Absent(cur)
  /\ pc \in {"header", "fill"} => uc \in Struct /\ uc.id = cur
  /\ pc = "header" => uc.read = -1 /\ pos[cur] < arrived[cur]
  /\ pc = "fill" => uc.read \in 0..uc.size

Heap == IsFiniteSet(Waiting) /\ lost \in Nat /\ HeapExact

Sound == Streams /\ Marks /\ Packages /\ Chained /\ Call /\ Heap

\* The sockets of which filter may be out of step.
Strays == astray \subseteq Fds

LEMMA SoundTypeOK == Sound /\ Strays => TypeOK
  BY DEF Sound, Streams, Marks, Packages, Chained, Call, Strays, TypeOK

(***************************************************************************)
(* Sequences.                                                              *)
(***************************************************************************)
\* Part of a sequence.
LEMMA Part ==
  ASSUME NEW T, NEW s \in Seq(T), NEW m \in Nat, NEW n \in Nat, m + n <= Len(s)
  PROVE  /\ SubSeq(s, m + 1, m + n) \in Seq(T)
         /\ Len(SubSeq(s, m + 1, m + n)) = n
         /\ \A i \in 1..n : SubSeq(s, m + 1, m + n)[i] = s[m + i]
<1>1. Len(s) \in Nat
  BY LenProperties
<1>2. \A i \in (m + 1)..(m + n) : s[i] \in T
  BY <1>1, ElementOfSeq
<1>3. m + 1 \in Int /\ m + n \in Int
  OBVIOUS
<1>4. PICK t : t = SubSeq(s, m + 1, m + n)
  OBVIOUS
<1>5. /\ t \in Seq(T)
      /\ Len(t) = IF m + 1 <= m + n THEN (m + n) - (m + 1) + 1 ELSE 0
      /\ \A i \in 1..((m + n) - (m + 1) + 1) : t[i] = s[(m + 1) + i - 1]
  BY <1>2, <1>3, <1>4, SubSeqProperties
<1>6. Len(t) = n
  BY <1>5
<1>7. ASSUME NEW i \in 1..n PROVE t[i] = s[m + i]
  <2>1. i \in 1..((m + n) - (m + 1) + 1) /\ (m + 1) + i - 1 = m + i
    OBVIOUS
  <2> QED
    BY <1>5, <2>1
<1> QED
  BY <1>4, <1>5, <1>6, <1>7

\* A sequence without its i-th element.
LEMMA Removed ==
  ASSUME NEW T, NEW s \in Seq(T), NEW i \in 1..Len(s)
  PROVE  /\ RemoveAt(s, i) \in Seq(T)
         /\ Len(RemoveAt(s, i)) = Len(s) - 1
         /\ \A k \in 1..(Len(s) - 1) : RemoveAt(s, i)[k] = s[IF k < i THEN k ELSE k + 1]
<1> DEFINE a == SubSeq(s, 1, i - 1)
           b == SubSeq(s, i + 1, Len(s))
<1>1. Len(s) \in Nat /\ i \in Nat /\ i >= 1 /\ i <= Len(s)
  BY LenProperties
<1>2. a \in Seq(T) /\ Len(a) = i - 1 /\ \A k \in 1..(i - 1) : a[k] = s[k]
  <2>1. i - 1 \in Nat /\ 0 + (i - 1) <= Len(s) /\ 0 + (i - 1) = i - 1 /\ 0 + 1 = 1
    BY <1>1
  <2>2. /\ SubSeq(s, 0 + 1, 0 + (i - 1)) \in Seq(T)
        /\ Len(SubSeq(s, 0 + 1, 0 + (i - 1))) = i - 1
        /\ \A k \in 1..(i - 1) : SubSeq(s, 0 + 1, 0 + (i - 1))[k] = s[0 + k]
    BY <2>1, Part
  <2>3. \A k \in 1..(i - 1) : 0 + k = k
    OBVIOUS
  <2> QED
    BY <2>1, <2>2, <2>3
<1>3. b \in Seq(T) /\ Len(b) = Len(s) - i /\ \A k \in 1..(Len(s) - i) : b[k] = s[i + k]
  <2>1. PICK n \in Nat : n = Len(s) - i /\ i + n <= Len(s) /\ i + n = Len(s)
    BY <1>1
  <2>2. /\ SubSeq(s, i + 1, i + n) \in Seq(T)
        /\ Len(SubSeq(s, i + 1, i + n)) = n
        /\ \A k \in 1..n : SubSeq(s, i + 1, i + n)[k] = s[i + k]
    BY <1>1, <2>1, Part
  <2> QED
    BY <2>1, <2>2
<1>4. RemoveAt(s, i) = a \o b
  BY DEF RemoveAt
<1> HIDE DEF a, b
<1>5. /\ a \o b \in Seq(T) /\ Len(a \o b) = Len(a) + Len(b)
      /\ \A k \in 1..(Len(a) + Len(b)) : (a \o b)[k] = IF k <= Len(a) THEN a[k] ELSE b[k - Len(a)]
  BY <1>2, <1>3, ConcatProperties
<1>6. Len(a) + Len(b) = Len(s) - 1
  BY <1>1, <1>2, <1>3
<1>7. ASSUME NEW k \in 1..(Len(s) - 1)
      PROVE  (a \o b)[k] = s[IF k < i THEN k ELSE k + 1]
  <2>1. CASE k < i
    <3>1. k \in 1..(i - 1) /\ k <= Len(a)
      BY <1>1, <1>2, <2>1
    <3> QED
      BY <1>2, <1>5, <1>6, <2>1, <3>1
  <2>2. CASE ~(k < i)
    <3>1. ~(k <= Len(a)) /\ k - Len(a) \in 1..(Len(s) - i) /\ i + (k - Len(a)) = k + 1
      BY <1>1, <1>2, <2>2
    <3> QED
      BY <1>3, <1>5, <1>6, <2>2, <3>1
  <2> QED
    BY <2>1, <2>2
<1> QED
  BY <1>4, <1>5, <1>6, <1>7

\* A sequence with an element before it.
LEMMA Prefixed ==
  ASSUME NEW T, NEW s \in Seq(T), NEW x \in T
  PROVE  /\ <<x>> \o s \in Seq(T)
         /\ Len(<<x>> \o s) = Len(s) + 1
         /\ (<<x>> \o s)[1] = x
         /\ \A k \in 2..(Len(s) + 1) : (<<x>> \o s)[k] = s[k - 1]
<1> DEFINE h == <<x>>
<1>1. h \in Seq(T) /\ Len(h) = 1 /\ h[1] = x
  OBVIOUS
<1>2. Len(s) \in Nat
  BY LenProperties
<1> HIDE DEF h
<1>3. /\ h \o s \in Seq(T) /\ Len(h \o s) = Len(h) + Len(s)
      /\ \A k \in 1..(Len(h) + Len(s)) : (h \o s)[k] = IF k <= Len(h) THEN h[k] ELSE s[k - Len(h)]
  BY <1>1, ConcatProperties
<1>4. 1 \in 1..(Len(h) + Len(s)) /\ 1 <= Len(h)
  BY <1>1, <1>2
<1>5. \A k \in 2..(Len(s) + 1) : k \in 1..(Len(h) + Len(s)) /\ ~(k <= Len(h))
  BY <1>1, <1>2
<1>6. (h \o s)[1] = x /\ Len(h \o s) = Len(s) + 1
  BY <1>1, <1>2, <1>3, <1>4
<1>7. \A k \in 2..(Len(s) + 1) : (h \o s)[k] = s[k - 1]
  BY <1>1, <1>3, <1>5
<1> QED
  BY <1>3, <1>6, <1>7 DEF h

\* The least element of a set of numbers is one of its elements.
LEMMA LeastIn ==
  ASSUME NEW S, S \subseteq Nat, S # {}
  PROVE  Min(S) \in S
<1> DEFINE R == {ss \in Nat \X Nat : ss[1] < ss[2]}
<1>1. IsWellFoundedOn(R, Nat)
  BY NatLessThanWellFounded, Zenon DEF OpToRel
<1>2. \A x, y \in Nat : y < x => <<y, x>> \in R
  OBVIOUS
<1> HIDE DEF R
<1>3. PICK x \in S : \A y \in S : ~(<<y, x>> \in R)
  BY <1>1, WFMin
<1>4. ASSUME NEW y \in S PROVE x =< y
  <2>1. x \in Nat /\ y \in Nat
    OBVIOUS
  <2>2. ~(y < x)
    BY <1>2, <1>3, <2>1
  <2> QED
    BY <2>1, <2>2
<1> QED
  BY <1>4, Zenon DEF Min

\* The elements of a sequence.
LEMMA InToSet ==
  ASSUME NEW T, NEW s \in Seq(T)
  PROVE  /\ DOMAIN s = 1..Len(s) /\ Len(s) \in Nat
         /\ \A x : x \in ToSet(s) <=> \E i \in 1..Len(s) : s[i] = x
         /\ \A x \in ToSet(s) : x \in T
<1>1. DOMAIN s = 1..Len(s) /\ Len(s) \in Nat
  BY LenProperties
<1>2. \A i \in 1..Len(s) : s[i] \in T
  BY ElementOfSeq
<1> QED
  BY <1>1, <1>2 DEF ToSet

\* Elements whose sockets differ are removed one at a time.
LEMMA RemovedSet ==
  ASSUME NEW T, NEW s \in Seq(T), NEW p \in 1..Len(s),
         \A i \in 1..Len(s) : \A k \in (1..Len(s)) \ {i} : s[k].id # s[i].id
  PROVE  /\ ToSet(RemoveAt(s, p)) = ToSet(s) \ {s[p]}
         /\ \A v \in ToSet(RemoveAt(s, p)) : v.id # s[p].id
         /\ \A i \in 1..Len(RemoveAt(s, p)) : \A k \in (1..Len(RemoveAt(s, p))) \ {i} :
              RemoveAt(s, p)[k].id # RemoveAt(s, p)[i].id
<1> DEFINE r == RemoveAt(s, p)
           m(k) == IF k < p THEN k ELSE k + 1
<1>1. /\ r \in Seq(T) /\ Len(r) = Len(s) - 1
      /\ \A k \in 1..(Len(s) - 1) : r[k] = s[m(k)]
  BY Removed
<1> HIDE DEF r
<1>2. Len(s) \in Nat /\ p \in Nat /\ p >= 1 /\ p <= Len(s)
  BY LenProperties
<1>3. \A k \in 1..Len(r) : m(k) \in 1..Len(s) /\ m(k) # p /\ r[k] = s[m(k)]
  BY <1>1, <1>2
<1>4. \A i, k \in 1..Len(r) : i # k => m(i) # m(k)
  BY <1>1, <1>2
<1>5. \A j \in 1..Len(s) : j # p => \E k \in 1..Len(r) : m(k) = j
  <2> SUFFICES ASSUME NEW j \in 1..Len(s), j # p PROVE \E k \in 1..Len(r) : m(k) = j
    OBVIOUS
  <2>1. CASE j < p
    <3>1. j \in 1..Len(r) /\ m(j) = j
      BY <1>1, <1>2, <2>1
    <3> QED
      BY <3>1
  <2>2. CASE j > p
    <3>1. j - 1 \in 1..Len(r) /\ m(j - 1) = j
      BY <1>1, <1>2, <2>2
    <3> QED
      BY <3>1
  <2> QED
    BY <1>2, <2>1, <2>2
<1> HIDE DEF m
<1>6. \A x : x \in ToSet(r) <=> \E k \in 1..Len(r) : r[k] = x
  BY <1>1, InToSet
<1>7. \A x : x \in ToSet(s) <=> \E k \in 1..Len(s) : s[k] = x
  BY InToSet
<1>8. ASSUME NEW v \in ToSet(r) PROVE v.id # s[p].id /\ v \in ToSet(s) /\ v # s[p]
  <2>1. PICK k \in 1..Len(r) : r[k] = v
    BY <1>6, <1>8
  <2>2. m(k) \in (1..Len(s)) \ {p} /\ v = s[m(k)]
    BY <1>3, <2>1
  <2> QED
    BY <1>7, <2>2
<1>9. ASSUME NEW v \in ToSet(s), v # s[p] PROVE v \in ToSet(r)
  <2>1. PICK j \in 1..Len(s) : s[j] = v
    BY <1>7, <1>9
  <2>2. PICK k \in 1..Len(r) : m(k) = j
    BY <1>5, <1>9, <2>1
  <2> QED
    BY <1>3, <1>6, <2>1, <2>2
<1>10. ToSet(r) = ToSet(s) \ {s[p]}
  BY <1>8, <1>9
<1>11. ASSUME NEW i \in 1..Len(r), NEW k \in (1..Len(r)) \ {i}
       PROVE  r[k].id # r[i].id
  BY <1>3, <1>4
<1> QED
  BY <1>8, <1>10, <1>11 DEF r

\* An element of a socket of which there is none yet is put first.
LEMMA PrefixedSet ==
  ASSUME NEW T, NEW s \in Seq(T), NEW x \in T,
         \A i \in 1..Len(s) : \A k \in (1..Len(s)) \ {i} : s[k].id # s[i].id,
         \A i \in 1..Len(s) : s[i].id # x.id
  PROVE  /\ ToSet(<<x>> \o s) = ToSet(s) \cup {x}
         /\ \A i \in 1..Len(<<x>> \o s) : \A k \in (1..Len(<<x>> \o s)) \ {i} :
              (<<x>> \o s)[k].id # (<<x>> \o s)[i].id
<1> DEFINE r == <<x>> \o s
<1>1. /\ r \in Seq(T) /\ Len(r) = Len(s) + 1 /\ r[1] = x
      /\ \A k \in 2..(Len(s) + 1) : r[k] = s[k - 1]
  BY Prefixed
<1> HIDE DEF r
<1>2. Len(s) \in Nat
  BY LenProperties
<1>3. \A k \in 1..Len(r) : k = 1 \/ (k - 1 \in 1..Len(s) /\ r[k] = s[k - 1])
  BY <1>1, <1>2
<1>4. \A j \in 1..Len(s) : j + 1 \in 1..Len(r) /\ r[j + 1] = s[j]
  <2> TAKE j \in 1..Len(s)
  <2>1. j + 1 \in 2..(Len(s) + 1) /\ (j + 1) - 1 = j
    BY <1>2
  <2> QED
    BY <1>1, <1>2, <2>1
<1>5. 1 \in 1..Len(r)
  BY <1>1, <1>2
<1>6. \A y : y \in ToSet(r) <=> \E k \in 1..Len(r) : r[k] = y
  BY <1>1, InToSet
<1>7. \A y : y \in ToSet(s) <=> \E k \in 1..Len(s) : s[k] = y
  BY InToSet
<1>8. ASSUME NEW y \in ToSet(r) PROVE y \in ToSet(s) \cup {x}
  <2>1. PICK k \in 1..Len(r) : r[k] = y
    BY <1>6, <1>8
  <2> QED
    BY <1>1, <1>3, <1>7, <2>1
<1>9. ASSUME NEW y \in ToSet(s) PROVE y \in ToSet(r)
  <2>1. PICK j \in 1..Len(s) : s[j] = y
    BY <1>7, <1>9
  <2> QED
    BY <1>4, <1>6, <2>1
<1>10. ToSet(r) = ToSet(s) \cup {x}
  BY <1>1, <1>5, <1>6, <1>8, <1>9
<1>11. ASSUME NEW i \in 1..Len(r), NEW k \in (1..Len(r)) \ {i}
       PROVE  r[k].id # r[i].id
  <2>1. i \in Nat /\ k \in Nat /\ i # k
    BY <1>1, <1>2
  <2>2. CASE i = 1
    BY <1>1, <1>3, <2>1, <2>2
  <2>3. CASE k = 1
    BY <1>1, <1>3, <2>1, <2>3
  <2>4. CASE i # 1 /\ k # 1
    <3>1. /\ i - 1 \in 1..Len(s) /\ r[i] = s[i - 1]
          /\ k - 1 \in (1..Len(s)) \ {i - 1} /\ r[k] = s[k - 1]
      BY <1>3, <2>1, <2>4
    <3> QED
      BY <3>1
  <2> QED
    BY <2>2, <2>3, <2>4
<1> QED
  BY <1>10, <1>11 DEF r

(***************************************************************************)
(* The hash table.                                                         *)
(***************************************************************************)
\* The chains, and what is in them.
LEMMA ChainFacts ==
  ASSUME Chained
  PROVE  /\ DOMAIN hash = Range(hash_fd)
         /\ \A h \in DOMAIN hash :
              /\ hash[h] \in Seq(Struct)
              /\ DOMAIN hash[h] = 1..Len(hash[h])
              /\ \A u \in ToSet(hash[h]) : /\ u \in Struct /\ u \in Waiting
                                           /\ u.read \in -1..(u.size - 1)
                                           /\ hash_fd[u.id] = h
              /\ \A i \in 1..Len(hash[h]) : \A k \in (1..Len(hash[h])) \ {i} :
                   hash[h][k].id # hash[h][i].id
<1>1. DOMAIN hash = Range(hash_fd)
  BY DEF Chained
<1> SUFFICES ASSUME NEW h \in DOMAIN hash
             PROVE  /\ hash[h] \in Seq(Struct)
                    /\ DOMAIN hash[h] = 1..Len(hash[h])
                    /\ \A u \in ToSet(hash[h]) : /\ u \in Struct /\ u \in Waiting
                                                 /\ u.read \in -1..(u.size - 1)
                                                 /\ hash_fd[u.id] = h
                    /\ \A i \in 1..Len(hash[h]) : \A k \in (1..Len(hash[h])) \ {i} :
                         hash[h][k].id # hash[h][i].id
  BY <1>1
<1>2. hash[h] \in Seq(Struct)
  BY <1>1 DEF Chained
<1>3. /\ DOMAIN hash[h] = 1..Len(hash[h])
      /\ \A x : x \in ToSet(hash[h]) <=> \E i \in 1..Len(hash[h]) : hash[h][i] = x
      /\ \A x \in ToSet(hash[h]) : x \in Struct
  BY <1>2, InToSet
<1>4. ToSet(hash[h]) \subseteq Waiting
  BY DEF Waiting
<1>5. ASSUME NEW u \in ToSet(hash[h])
      PROVE  u.read \in -1..(u.size - 1) /\ hash_fd[u.id] = h
  <2>1. PICK i \in DOMAIN hash[h] : hash[h][i] = u
    BY <1>3, <1>5
  <2> QED
    BY <2>1 DEF Chained
<1>6. \A i \in 1..Len(hash[h]) : \A k \in (1..Len(hash[h])) \ {i} :
        hash[h][k].id # hash[h][i].id
  BY <1>3 DEF Chained
<1> QED
  BY <1>2, <1>3, <1>4, <1>5, <1>6

\* The bucket of a socket.
LEMMA BucketOf ==
  ASSUME NEW fd \in Fds
  PROVE  hash_fd[fd] \in Range(hash_fd)
  BY HashAssumption DEF Range

\* The same for the next state.
LEMMA ChainedNext ==
  ASSUME DOMAIN hash' = Range(hash_fd), UNCHANGED sent, hash' = [h \in DOMAIN hash' |-> hash'[h]],
         \A h \in DOMAIN hash' :
           /\ hash'[h] \in Seq(Struct)
           /\ \A u \in ToSet(hash'[h]) : u.read \in -1..(u.size - 1) /\ hash_fd[u.id] = h
           /\ \A i \in 1..Len(hash'[h]) : \A k \in (1..Len(hash'[h])) \ {i} :
                hash'[h][k].id # hash'[h][i].id
  PROVE  Chained'
<1>1. Struct' = Struct
  BY DEF Struct, Bytestring, ByteType
<1>2. hash' \in [Range(hash_fd) -> Seq(Struct)]
  OBVIOUS
<1>3. ASSUME NEW h \in DOMAIN hash', NEW i \in DOMAIN hash'[h]
      PROVE  /\ hash'[h][i].read \in -1..(hash'[h][i].size - 1)
             /\ hash_fd[hash'[h][i].id] = h
             /\ \A k \in DOMAIN hash'[h] \ {i} : hash'[h][k].id # hash'[h][i].id
  <2>1. /\ DOMAIN hash'[h] = 1..Len(hash'[h])
        /\ \A x : x \in ToSet(hash'[h]) <=> \E j \in 1..Len(hash'[h]) : hash'[h][j] = x
    BY InToSet
  <2>2. hash'[h][i] \in ToSet(hash'[h])
    BY <2>1
  <2> QED
    BY <2>1, <2>2
<1> QED
  BY <1>1, <1>2, <1>3 DEF Chained

\* find_uncomplete finds nothing: the socket has nothing in the table.
LEMMA NotFound ==
  ASSUME Chained, NEW fd \in Fds, Place(fd) = 0
  PROVE  Absent(fd)
<1>1. Chain(fd) \in Seq(Struct) /\ DOMAIN Chain(fd) = 1..Len(Chain(fd))
  BY ChainFacts, BucketOf DEF Chain
<1> DEFINE I == {i \in 1..Len(Chain(fd)) : Chain(fd)[i].id = fd}
<1>2. Place(fd) = IF I # {} THEN Min(I) ELSE 0
  BY DEF Place, SelectInSeq
<1>3. I \subseteq Nat /\ 0 \notin I
  BY <1>1
<1>4. I = {}
  BY <1>2, <1>3, LeastIn
<1> QED
  BY <1>1, <1>4 DEF Absent

\* And when it finds something, that is of the socket.
LEMMA Found ==
  ASSUME Chained, NEW fd \in Fds, Place(fd) # 0
  PROVE  /\ Place(fd) \in 1..Len(Chain(fd))
         /\ Chain(fd)[Place(fd)].id = fd
         /\ Chain(fd)[Place(fd)] \in ToSet(Chain(fd))
<1>1. Chain(fd) \in Seq(Struct)
  BY ChainFacts, BucketOf DEF Chain
<1> DEFINE I == {i \in 1..Len(Chain(fd)) : Chain(fd)[i].id = fd}
<1>2. Place(fd) = IF I # {} THEN Min(I) ELSE 0
  BY DEF Place, SelectInSeq
<1>3. I \subseteq Nat
  OBVIOUS
<1>4. Place(fd) \in I
  BY <1>2, <1>3, LeastIn
<1> QED
  BY <1>1, <1>4, InToSet

\* save_uncomplete: the struct is added to the table.
LEMMA LinkedFacts ==
  ASSUME Chained, UNCHANGED sent, NEW u \in Struct, u.read \in -1..(u.size - 1),
         Absent(u.id), hash' = Linked(u)
  PROVE  Chained' /\ Waiting' = Waiting \cup {u} /\ u \notin Waiting
<1> DEFINE b == hash_fd[u.id]
           c == hash[b]
           r == <<u>> \o c
<1>1. u.id \in Fds
  BY DEF Struct
<1>2. b \in DOMAIN hash /\ DOMAIN hash = Range(hash_fd)
  BY <1>1, BucketOf, ChainFacts
<1>3. /\ c \in Seq(Struct) /\ DOMAIN c = 1..Len(c)
      /\ \A i \in 1..Len(c) : \A k \in (1..Len(c)) \ {i} : c[k].id # c[i].id
      /\ \A v \in ToSet(c) : v.read \in -1..(v.size - 1) /\ hash_fd[v.id] = b
  BY <1>2, ChainFacts
<1>4. \A i \in 1..Len(c) : c[i].id # u.id
  BY <1>3 DEF Absent, Chain
<1> HIDE DEF c
<1>5. /\ ToSet(r) = ToSet(c) \cup {u}
      /\ \A i \in 1..Len(r) : \A k \in (1..Len(r)) \ {i} : r[k].id # r[i].id
  BY <1>3, <1>4, PrefixedSet
<1>6. r \in Seq(Struct)
  BY <1>3, Prefixed
<1>7. hash' = [hash EXCEPT ![b] = r]
  BY DEF Linked, c
<1> HIDE DEF r
<1>8. /\ DOMAIN hash' = DOMAIN hash /\ hash' = [h \in DOMAIN hash' |-> hash'[h]]
      /\ hash'[b] = r /\ \A h \in DOMAIN hash : h # b => hash'[h] = hash[h]
  BY <1>2, <1>7
<1> HIDE DEF b
<1>9. ASSUME NEW h \in DOMAIN hash'
      PROVE  /\ hash'[h] \in Seq(Struct)
             /\ \A v \in ToSet(hash'[h]) : v.read \in -1..(v.size - 1) /\ hash_fd[v.id] = h
             /\ \A i \in 1..Len(hash'[h]) : \A k \in (1..Len(hash'[h])) \ {i} :
                  hash'[h][k].id # hash'[h][i].id
  <2>1. CASE h = b
    <3>1. \A v \in ToSet(r) : v.read \in -1..(v.size - 1) /\ hash_fd[v.id] = b
      BY <1>3, <1>5 DEF b
    <3> QED
      BY <1>5, <1>6, <1>8, <2>1, <3>1
  <2>2. CASE h # b
    <3>1. hash'[h] = hash[h]
      BY <1>8, <2>2
    <3> QED
      BY <1>8, <3>1, ChainFacts
  <2> QED
    BY <2>1, <2>2
<1>10. Chained'
  BY <1>2, <1>8, <1>9, ChainedNext
<1>11. Waiting' = UNION {ToSet(hash'[h]) : h \in DOMAIN hash'}
  BY DEF Waiting
<1>12. ASSUME NEW v PROVE v \in Waiting' <=> v \in Waiting \cup {u}
  <2>1. v \in Waiting' <=> \E h \in DOMAIN hash : v \in ToSet(hash'[h])
    BY <1>8, <1>11
  <2>2. v \in Waiting <=> \E h \in DOMAIN hash : v \in ToSet(hash[h])
    BY DEF Waiting
  <2> QED
    BY <2>1, <2>2, <1>2, <1>5, <1>8 DEF c
<1>13. u \notin Waiting
  <2> SUFFICES ASSUME u \in Waiting PROVE FALSE
    OBVIOUS
  <2>1. PICK h \in DOMAIN hash : u \in ToSet(hash[h])
    BY DEF Waiting
  <2>2. h = b
    BY <2>1, ChainFacts DEF b
  <2>3. PICK i \in 1..Len(c) : c[i] = u
    BY <1>3, <2>1, <2>2, InToSet DEF c
  <2> QED
    BY <1>4, <2>3
<1> QED
  BY <1>10, <1>12, <1>13

\* find_uncomplete: the struct is taken out of the table.
LEMMA UnlinkedFacts ==
  ASSUME Chained, UNCHANGED sent, NEW fd \in Fds, Place(fd) # 0, hash' = Unlinked(fd)
  PROVE  /\ Chained' /\ Absent(fd)'
         /\ Waiting' = Waiting \ {Chain(fd)[Place(fd)]}
         /\ Chain(fd)[Place(fd)] \in Waiting /\ Chain(fd)[Place(fd)] \in Struct
         /\ Chain(fd)[Place(fd)].id = fd
         /\ Chain(fd)[Place(fd)].read \in -1..(Chain(fd)[Place(fd)].size - 1)
<1> DEFINE b == hash_fd[fd]
           c == hash[b]
           p == Place(fd)
           u == c[p]
           r == RemoveAt(c, p)
<1>1. b \in DOMAIN hash /\ DOMAIN hash = Range(hash_fd)
  BY BucketOf, ChainFacts
<1>2. /\ c \in Seq(Struct) /\ DOMAIN c = 1..Len(c)
      /\ \A i \in 1..Len(c) : \A k \in (1..Len(c)) \ {i} : c[k].id # c[i].id
      /\ \A v \in ToSet(c) : /\ v.read \in -1..(v.size - 1) /\ hash_fd[v.id] = b
                             /\ v \in Struct /\ v \in Waiting
  BY <1>1, ChainFacts
<1>3. p \in 1..Len(c) /\ u.id = fd /\ u \in ToSet(c)
  BY Found DEF Chain
<1>4. u = Chain(fd)[Place(fd)]
  BY DEF Chain
<1>5. hash' = [hash EXCEPT ![b] = r]
  BY DEF Unlinked
<1> HIDE DEF c, p
<1>6. r \in Seq(Struct)
  BY <1>2, <1>3, Removed
<1>7. /\ ToSet(r) = ToSet(c) \ {u}
      /\ \A v \in ToSet(r) : v.id # u.id
      /\ \A i \in 1..Len(r) : \A k \in (1..Len(r)) \ {i} : r[k].id # r[i].id
  BY <1>2, <1>3, RemovedSet
<1> HIDE DEF r, u
<1>8. /\ DOMAIN hash' = DOMAIN hash /\ hash' = [h \in DOMAIN hash' |-> hash'[h]]
      /\ hash'[b] = r /\ \A h \in DOMAIN hash : h # b => hash'[h] = hash[h]
  BY <1>1, <1>5
<1>9. Absent(fd)'
  <2>1. Chain(fd)' = r
    BY <1>8 DEF Chain
  <2>2. \A i \in DOMAIN r : r[i] \in ToSet(r)
    BY DEF ToSet
  <2> QED
    BY <1>3, <1>7, <2>1, <2>2 DEF Absent
<1> HIDE DEF b
<1>10. ASSUME NEW h \in DOMAIN hash'
       PROVE  /\ hash'[h] \in Seq(Struct)
              /\ \A v \in ToSet(hash'[h]) : v.read \in -1..(v.size - 1) /\ hash_fd[v.id] = h
              /\ \A i \in 1..Len(hash'[h]) : \A k \in (1..Len(hash'[h])) \ {i} :
                   hash'[h][k].id # hash'[h][i].id
  <2>1. CASE h = b
    BY <1>2, <1>6, <1>7, <1>8, <2>1
  <2>2. CASE h # b
    <3>1. hash'[h] = hash[h]
      BY <1>8, <2>2
    <3> QED
      BY <1>8, <3>1, ChainFacts
  <2> QED
    BY <2>1, <2>2
<1>11. Chained'
  BY <1>1, <1>8, <1>10, ChainedNext
<1>12. ASSUME NEW v PROVE v \in Waiting' <=> v \in Waiting \ {u}
  <2>1. v \in Waiting' <=> \E h \in DOMAIN hash : v \in ToSet(hash'[h])
    BY <1>8 DEF Waiting
  <2>2. v \in Waiting <=> \E h \in DOMAIN hash : v \in ToSet(hash[h])
    BY DEF Waiting
  <2>3. \A h \in DOMAIN hash : h # b => u \notin ToSet(hash[h])
    BY <1>2, <1>3, ChainFacts
  <2> QED
    BY <2>1, <2>2, <2>3, <1>1, <1>7, <1>8 DEF c
<1> QED
  BY <1>2, <1>3, <1>4, <1>9, <1>11, <1>12

(***************************************************************************)
(* Counting struct uncompletes and buffers.                                *)
(***************************************************************************)
HasBuffer(u) == IF u.read >= 0 THEN 1 ELSE 0

LEMMA CountNone == Cardinality({}) = 0 /\ Buffers({}) = 0
  BY FS_EmptySet DEF Buffers

LEMMA CountOne ==
  ASSUME NEW u
  PROVE  Cardinality({u}) = 1 /\ Buffers({u}) = HasBuffer(u)
<1>1. CASE u.read >= 0
  <2>1. {v \in {u} : v.read >= 0} = {u}
    BY <1>1
  <2> QED
    BY <1>1, <2>1, FS_Singleton DEF Buffers, HasBuffer
<1>2. CASE ~(u.read >= 0)
  <2>1. {v \in {u} : v.read >= 0} = {}
    BY <1>2
  <2> QED
    BY <1>2, <2>1, FS_Singleton, FS_EmptySet DEF Buffers, HasBuffer
<1> QED
  BY <1>1, <1>2

LEMMA CountType ==
  ASSUME NEW S, IsFiniteSet(S)
  PROVE  Cardinality(S) \in Nat /\ Buffers(S) \in Nat
<1>1. {v \in S : v.read >= 0} \in SUBSET S
  OBVIOUS
<1>2. IsFiniteSet({v \in S : v.read >= 0})
  BY <1>1, FS_Subset
<1> QED
  BY <1>2, FS_CardinalityType DEF Buffers

LEMMA CountAdd ==
  ASSUME NEW S, IsFiniteSet(S), NEW u, u \notin S
  PROVE  /\ IsFiniteSet(S \cup {u})
         /\ Cardinality(S \cup {u}) = Cardinality(S) + 1
         /\ Buffers(S \cup {u}) = Buffers(S) + HasBuffer(u)
<1> DEFINE B == {v \in S : v.read >= 0}
<1>1. IsFiniteSet(S \cup {u}) /\ Cardinality(S \cup {u}) = Cardinality(S) + 1
  BY FS_AddElement
<1>2. B \in SUBSET S
  OBVIOUS
<1>3. IsFiniteSet(B) /\ u \notin B
  BY <1>2, FS_Subset
<1>4. CASE u.read >= 0
  <2>1. {v \in S \cup {u} : v.read >= 0} = B \cup {u}
    BY <1>4
  <2>2. Cardinality(B \cup {u}) = Cardinality(B) + 1
    BY <1>3, FS_AddElement
  <2> QED
    BY <1>1, <1>4, <2>1, <2>2 DEF Buffers, HasBuffer
<1>5. CASE ~(u.read >= 0)
  <2>1. {v \in S \cup {u} : v.read >= 0} = B
    BY <1>5
  <2>2. Cardinality(B) \in Nat
    BY <1>3, FS_CardinalityType
  <2>3. Buffers(S \cup {u}) = Cardinality(B) /\ Buffers(S) = Cardinality(B)
    BY <2>1 DEF Buffers
  <2>4. HasBuffer(u) = 0
    BY <1>5 DEF HasBuffer
  <2> HIDE DEF B
  <2> QED
    BY <1>1, <2>2, <2>3, <2>4
<1> QED
  BY <1>4, <1>5

LEMMA CountRemove ==
  ASSUME NEW S, IsFiniteSet(S), NEW u \in S
  PROVE  /\ IsFiniteSet(S \ {u})
         /\ Cardinality(S \ {u}) = Cardinality(S) - 1
         /\ Buffers(S \ {u}) = Buffers(S) - HasBuffer(u)
<1>1. IsFiniteSet(S \ {u}) /\ u \notin S \ {u} /\ (S \ {u}) \cup {u} = S
  BY FS_RemoveElement
<1>2. /\ Cardinality(S) = Cardinality(S \ {u}) + 1
      /\ Buffers(S) = Buffers(S \ {u}) + HasBuffer(u)
  BY <1>1, CountAdd
<1>3. Cardinality(S \ {u}) \in Nat /\ Buffers(S \ {u}) \in Nat /\ HasBuffer(u) \in Nat
  BY <1>1, CountType DEF HasBuffer
<1> QED
  BY <1>1, <1>2, <1>3

(***************************************************************************)
(* Frames and bytes.                                                       *)
(***************************************************************************)
LEMMA SameTypes ==
  ASSUME UNCHANGED sent
  PROVE  Struct' = Struct /\ Bytestring' = Bytestring
  BY DEF Struct, Bytestring, ByteType

\* The frame a byte is of.
LEMMA FrameOf ==
  ASSUME Streams, NEW f \in DOMAIN sent
  PROVE  sent[f].frame \in Frame
<1>1. sent[f] \in [fd : Fds, frame : Frames, end : Nat]
  BY ElementOfSeq, LenProperties DEF Streams
<1> QED
  BY <1>1, FrameAssumption

LEMMA HeadLengthType ==
  ASSUME NEW frame, frame.len \in Nat, frame.mask \in BOOLEAN
  PROVE  HeadLength(frame) \in Nat /\ HeadLength(frame) >= 2
  BY SizeAssumption DEF HeadLength, Extended

LEMMA FrameFields ==
  ASSUME NEW frame \in Frame
  PROVE  /\ frame.len \in 0..MaxPack /\ frame.len \in Nat /\ frame.mask \in BOOLEAN
         /\ frame.op \in {"data", "skip", "close"}
         /\ frame = [op |-> frame.op, mask |-> frame.mask, len |-> frame.len]
<1>1. MaxPack \in Nat
  BY SizeAssumption
<1>2. frame \in Header /\ frame.len <= MaxPack
  BY DEF Frame
<1>3. frame.len \in Nat
  BY <1>2 DEF Header
<1> QED
  BY <1>1, <1>2, <1>3 DEF Header

\* What a byte says of a header: the truth, or anything.
LEMMA SeenType ==
  ASSUME Streams, NEW byte \in ByteType, NEW j \in Nat
  PROVE  Seen(byte, j) \in Header
<1>1. sent[byte.f].frame \in Header
  BY FrameOf DEF ByteType, Frame
<1>2. <<byte.f, byte.j>> \in DOMAIN Look => Look[<<byte.f, byte.j>>] \in Header
  BY LookAssumption
<1>3. [op |-> "skip", mask |-> FALSE, len |-> 0] \in Header
  BY DEF Header
<1> QED
  BY <1>1, <1>2, <1>3 DEF Seen

\* What read_size finds in bytes that came.
LEMMA ReadSize ==
  ASSUME Streams, NEW b \in Bytestring
  PROVE  /\ read_size(b) \in Nat \cup {-1, -2, -3}
         /\ read_size(b) # -1 => Len(b) >= 2
         /\ read_size(b) >= 0 => /\ HeadLength(HeadOf(b)) \in Nat
                                 /\ HeadLength(HeadOf(b)) >= 2
                                 /\ HeadLength(HeadOf(b)) <= Len(b)
                                 /\ MaskOf(b) \in ((DOMAIN sent) \X Nat) \cup {None}
<1>1. Len(b) \in Nat /\ \A i \in 1..Len(b) : b[i] \in ByteType
  BY LenProperties, ElementOfSeq DEF Bytestring
<1>2. CASE Len(b) < 2
  BY <1>2 DEF read_size
<1>3. CASE Len(b) >= 2
  <2>1. b[1] \in ByteType /\ b[2] \in ByteType /\ b[2].f \in DOMAIN sent /\ b[2].j \in Nat
    BY <1>1, <1>3 DEF ByteType
  <2>2. Seen(b[2], 2) \in Header
    BY <2>1, SeenType
  <2>3. HeadOf(b).len \in Nat /\ HeadOf(b).mask \in BOOLEAN
    BY <2>2 DEF HeadOf, Header
  <2>4. HeadLength(HeadOf(b)) \in Nat /\ HeadLength(HeadOf(b)) >= 2
    BY <2>3, HeadLengthType
  <2>5. MaskOf(b) \in ((DOMAIN sent) \X Nat) \cup {None}
    BY <2>1 DEF MaskOf
  <2> QED
    BY <1>1, <1>3, <2>3, <2>4, <2>5, SizeAssumption DEF read_size
<1> QED
  BY <1>1, <1>2, <1>3

\* decode_wsmask_data decodes as many bytes as it is given.
LEMMA Decoded ==
  ASSUME Streams, NEW b \in Bytestring, NEW mask \in ((DOMAIN sent) \X Nat) \cup {None}, NEW n \in Nat
  PROVE  decode_wsmask_data(b, mask, n) \in Bytestring
         /\ Len(decode_wsmask_data(b, mask, n)) = Len(b)
<1> DEFINE d == decode_wsmask_data(b, mask, n)
<1>1. /\ Len(b) \in Nat /\ DOMAIN b = 1..Len(b)
      /\ \A i \in 1..Len(b) : b[i] \in ByteType
  BY LenProperties, ElementOfSeq DEF Bytestring
<1>2. ASSUME NEW i \in 1..Len(b), mask # None
      PROVE  Xor(b[i], <<mask, (i - 1 + n) % MaskLen>>) \in ByteType
  <2>1. (i - 1 + n) % MaskLen \in 0..(MaskLen - 1)
    BY SizeAssumption
  <2>2. <<mask, (i - 1 + n) % MaskLen>> \in ((DOMAIN sent) \X Nat) \X (0..(MaskLen - 1))
    BY <1>2, <2>1
  <2>3. PICK k : k = <<mask, (i - 1 + n) % MaskLen>>
    OBVIOUS
  <2>4. b[i] \in ByteType /\ k \in ((DOMAIN sent) \X Nat) \X (0..(MaskLen - 1))
    BY <1>1, <2>2, <2>3
  <2>5. Xor(b[i], k) \in ByteType
    BY <2>4 DEF ByteType, Xor
  <2> QED
    BY <2>3, <2>5
<1>3. ASSUME NEW i \in 1..Len(b) PROVE d[i] \in ByteType
  <2>1. d[i] = IF mask = None THEN b[i] ELSE Xor(b[i], <<mask, (i - 1 + n) % MaskLen>>)
    BY <1>1 DEF decode_wsmask_data
  <2> QED
    BY <1>1, <1>2, <2>1
<1>4. d = [i \in 1..Len(b) |-> d[i]]
  BY <1>1 DEF decode_wsmask_data
<1> HIDE DEF d
<1>5. d \in Seq(ByteType) /\ Len(d) = Len(b)
  BY <1>1, <1>3, <1>4
<1> QED
  BY <1>5 DEF d, Bytestring

\* The next n bytes of the read.
LEMMA BytesRead ==
  ASSUME Streams, cur \in Fds, NEW n \in Nat, n <= sz
  PROVE  /\ Bytes(n) \in Bytestring /\ Len(Bytes(n)) = n
         /\ sz \in Nat /\ pos[cur] + sz = arrived[cur]
<1>1. /\ pos[cur] \in Nat /\ arrived[cur] \in Nat /\ pos[cur] <= arrived[cur]
      /\ stream[cur] \in Bytestring /\ arrived[cur] <= Len(stream[cur])
  BY DEF Streams
<1>2. Len(stream[cur]) \in Nat
  BY <1>1, LenProperties DEF Bytestring
<1>3. sz \in Nat /\ pos[cur] + sz = arrived[cur] /\ pos[cur] + n <= Len(stream[cur])
  BY <1>1, <1>2 DEF sz
<1>4. SubSeq(stream[cur], pos[cur] + 1, pos[cur] + n) \in Bytestring
      /\ Len(SubSeq(stream[cur], pos[cur] + 1, pos[cur] + n)) = n
  <2>1. stream[cur] \in Seq(ByteType)
    BY <1>1 DEF Bytestring
  <2>2. /\ SubSeq(stream[cur], pos[cur] + 1, pos[cur] + n) \in Seq(ByteType)
        /\ Len(SubSeq(stream[cur], pos[cur] + 1, pos[cur] + n)) = n
    BY <1>1, <1>3, <2>1, Part, SMTT(30)
  <2> QED
    BY <2>2 DEF Bytestring
<1> QED
  BY <1>3, <1>4 DEF Bytes

LEMMA SzType ==
  ASSUME Streams, cur \in Fds
  PROVE  sz \in Nat /\ sz = arrived[cur] - pos[cur]
  BY DEF Streams, sz

LEMMA BufferRead ==
  ASSUME Streams, cur \in Fds
  PROVE  buffer \in Bytestring /\ Len(buffer) = sz
  BY SzType, BytesRead DEF buffer

\* The struct uncompletes that filter makes.
LEMMA UncompleteType ==
  ASSUME NEW fd \in Fds, NEW b \in Bytestring
  PROVE  Uncomplete(fd, b) \in Struct /\ Uncomplete(fd, b).id = fd
         /\ Uncomplete(fd, b).read = -1 /\ Uncomplete(fd, b).size = 0
<1>1. <<>> \in Bytestring
  BY DEF Bytestring
<1> QED
  BY <1>1 DEF Uncomplete, Struct

LEMMA StartedType ==
  ASSUME Streams, NEW fd \in Fds, NEW n \in Nat, NEW mask \in ((DOMAIN sent) \X Nat) \cup {None},
         NEW b \in Bytestring
  PROVE  /\ Started(fd, n, mask, b) \in Struct
         /\ Started(fd, n, mask, b).id = fd /\ Started(fd, n, mask, b).size = n
         /\ Started(fd, n, mask, b).read = Len(b) /\ Len(b) \in Nat
<1>1. <<>> \in Bytestring
  BY DEF Bytestring
<1>2. Len(b) \in Nat
  BY LenProperties DEF Bytestring
<1>3. decode_wsmask_data(b, mask, 0) \in Bytestring
  BY Decoded
<1> QED
  BY <1>1, <1>2, <1>3 DEF Started, Struct

LEMMA ContinuedType ==
  ASSUME Streams, NEW u \in Struct, u.read \in Nat, NEW b \in Bytestring
  PROVE  /\ Continued(u, b) \in Struct
         /\ Continued(u, b).id = u.id /\ Continued(u, b).size = u.size
         /\ Continued(u, b).read = u.read + Len(b)
<1>1. Len(b) \in Nat
  BY LenProperties DEF Bytestring
<1>2. decode_wsmask_data(b, u.mask, u.read) \in Bytestring
  BY Decoded DEF Struct
<1>3. u.buffer \o decode_wsmask_data(b, u.mask, u.read) \in Bytestring
  BY <1>2, ConcatProperties DEF Struct, Bytestring
<1>4. PICK d : d = u.buffer \o decode_wsmask_data(b, u.mask, u.read)
  OBVIOUS
<1>5. Continued(u, b) = [u EXCEPT !.read = u.read + Len(b), !.buffer = d]
  BY <1>4 DEF Continued, Struct
<1>6. d \in Bytestring
  BY <1>3, <1>4
<1>7. Continued(u, b) = [id |-> u.id, header |-> u.header, read |-> u.read + Len(b),
                         size |-> u.size, mask |-> u.mask, buffer |-> d]
  BY <1>5 DEF Struct
<1>8. /\ u.id \in Fds /\ u.header \in Bytestring /\ u.size \in Nat
      /\ u.mask \in ((DOMAIN sent) \X Nat) \cup {None} /\ u.read + Len(b) \in Nat
  BY <1>1 DEF Struct
<1> QED
  BY <1>6, <1>7, <1>8 DEF Struct

\* The header, with one byte more.
LEMMA NextByteAdvances ==
  ASSUME NextByte PROVE Advance(1)
  BY DEF NextByte, Drop

LEMMA NextHeaderType ==
  ASSUME Streams, cur \in Fds, uc \in Struct, sz >= 1
  PROVE  NextHeader \in Bytestring
<1>1. /\ Bytes(1) \in Bytestring /\ Len(Bytes(1)) = 1
  BY SzType, BytesRead
<1>2. Bytes(1)[1] \in ByteType
  BY <1>1, ElementOfSeq DEF Bytestring
<1>3. uc.header \in Seq(ByteType)
  BY DEF Struct, Bytestring
<1> DEFINE b == Append(uc.header, Bytes(1)[1])
<1>4. b \in Bytestring
  BY <1>2, <1>3, AppendProperties DEF Bytestring
<1>5. NextHeader = IF read_size(b) = -2 THEN SubSeq(b, 3, Len(b)) ELSE b
  BY DEF NextHeader, Longer
<1> HIDE DEF b
<1>6. ASSUME read_size(b) = -2 PROVE SubSeq(b, 3, Len(b)) \in Bytestring
  <2>1. Len(b) \in Nat /\ Len(b) >= 2
    BY <1>4, <1>6, ReadSize, LenProperties DEF Bytestring
  <2>2. Len(b) - 2 \in Nat /\ 2 + (Len(b) - 2) <= Len(b) /\ 2 + (Len(b) - 2) = Len(b)
    BY <2>1
  <2>3. SubSeq(b, 2 + 1, 2 + (Len(b) - 2)) \in Bytestring
    BY <1>4, <2>2, Part DEF Bytestring
  <2> QED
    BY <2>2, <2>3
<1> QED
  BY <1>4, <1>5, <1>6

(***************************************************************************)
(* Parts of the steps.                                                     *)
(***************************************************************************)
LEMMA Advanced ==
  ASSUME Streams, cur \in Fds, NEW n \in Nat, n <= sz, Advance(n), UNCHANGED <<sent, stream, arrived>>
  PROVE  Streams' /\ pos'[cur] = pos[cur] + n /\ arrived' = arrived
<1>1. Bytestring' = Bytestring
  BY SameTypes
<1>2. /\ pos \in [Fds -> Nat] /\ pos' = [pos EXCEPT ![cur] = pos[cur] + n]
      /\ arrived[cur] \in Nat /\ pos[cur] + n <= arrived[cur]
  BY SzType DEF Streams, Advance
<1>3. pos' \in [Fds -> Nat] /\ \A f \in Fds : pos'[f] <= arrived[f]
  BY <1>2 DEF Streams
<1> QED
  BY <1>1, <1>2, <1>3 DEF Streams

LEMMA StreamsSame ==
  ASSUME Streams, UNCHANGED <<sent, stream, arrived, pos>>
  PROVE  Streams'
  BY SameTypes DEF Streams

LEMMA MarksSame ==
  ASSUME Marks, UNCHANGED <<sock, phase, reported>>
  PROVE  Marks'
  BY DEF Marks

LEMMA PackagesSame ==
  ASSUME Packages, UNCHANGED <<sent, queue>>
  PROVE  Packages' /\ queue_size(queue)' = queue_size(queue)
  BY SameTypes DEF Packages

LEMMA ChainedSame ==
  ASSUME Chained, UNCHANGED <<sent, hash>>
  PROVE  Chained' /\ Waiting' = Waiting
  BY SameTypes DEF Chained, Waiting

LEMMA Returned ==
  ASSUME Return
  PROVE  Call' /\ pc' = "idle"
  BY DEF Return, Call

\* expand_queue copies the ring.
LEMMA Expanded ==
  ASSUME NEW q, q.cap \in Nat, NEW v
  PROVE  expand_queue(q, v) = Copied(q, v, q.cap + InitCap)
  BY CapAssumption DEF expand_queue, Copied

\* push_data keeps the ring and adds one package to it.
LEMMA Pushed ==
  ASSUME Packages, UNCHANGED sent, NEW fd \in Fds, NEW msg \in Bytestring,
         queue' = push_data(queue, fd, msg)
  PROVE  /\ Packages' /\ queue_size(queue') = queue_size(queue) + 1
         /\ At(queue', queue_size(queue) + 1) = [id |-> fd, msg |-> msg]
         /\ \A i \in 1..queue_size(queue) : At(queue', i) = At(queue, i)
<1> DEFINE T == [id : Fds, msg : Bytestring]
           v == [id |-> fd, msg |-> msg]
<1>1. v \in T
  OBVIOUS
<1>2. T' = T
  BY SameTypes
<1>3. /\ After(queue, queue.tail) # queue.head => queue' = Put(queue, v)
      /\ After(queue, queue.tail) = queue.head => queue' = Copied(queue, v, queue.cap + InitCap)
  <2>1. CASE After(queue, queue.tail) # queue.head
    BY <2>1 DEF push_data, Put
  <2>2. CASE After(queue, queue.tail) = queue.head
    <3>1. queue' = expand_queue(queue, v)
      BY <2>2 DEF push_data
    <3> HIDE DEF v
    <3>2. expand_queue(queue, v) = Copied(queue, v, queue.cap + InitCap)
      BY Expanded, RingFields DEF Packages
    <3> QED
      BY <2>2, <3>1, <3>2
  <2> QED
    BY <2>1, <2>2
<1>4. Ring(queue, T)
  BY DEF Packages
<1>5. Ring(queue', T) => Packages'
  BY <1>2 DEF Packages
<1> HIDE DEF T, v
<1>6. queue.cap + InitCap \in Nat /\ queue.cap + InitCap > queue.cap
  BY <1>4, RingFields, CapAssumption
<1>7. /\ Ring(queue', T) /\ queue_size(queue') = queue_size(queue) + 1
      /\ At(queue', queue_size(queue) + 1) = v
      /\ \A i \in 1..queue_size(queue) : At(queue', i) = At(queue, i)
  <2>1. CASE After(queue, queue.tail) # queue.head
    BY <1>1, <1>3, <1>4, <2>1, RingTakes
  <2>2. CASE After(queue, queue.tail) = queue.head
    BY <1>1, <1>3, <1>4, <1>6, <2>2, RingGrows
  <2> QED
    BY <2>1, <2>2
<1> QED
  BY <1>5, <1>7 DEF v

\* What is in use before a step, in numbers.
LEMMA HeapNow ==
  ASSUME Heap, Packages
  PROVE  /\ IsFiniteSet(Waiting) /\ lost \in Nat
         /\ Cardinality(Waiting) \in Nat /\ Buffers(Waiting) \in Nat
         /\ queue_size(queue) \in Nat
         /\ pc \in {"header", "fill"} => /\ structs = Cardinality(Waiting) + 1 + lost
                                         /\ bufs = Buffers(Waiting) + HasBuffer(uc) + queue_size(queue)
         /\ pc \notin {"header", "fill"} => /\ structs = Cardinality(Waiting) + lost
                                            /\ bufs = Buffers(Waiting) + queue_size(queue)
<1>1. /\ IsFiniteSet(Waiting) /\ lost \in Nat /\ Cardinality(Waiting) \in Nat /\ Buffers(Waiting) \in Nat
  BY CountType DEF Heap
<1>2. queue_size(queue) \in Nat
  BY RingSize DEF Packages
<1>3. CASE pc \in {"header", "fill"}
  <2>1. Taken = {uc}
    BY <1>3 DEF Taken
  <2>2. Cardinality(Taken) = 1 /\ Buffers(Taken) = HasBuffer(uc)
    BY <2>1, CountOne
  <2> QED
    BY <1>1, <1>2, <1>3, <2>2 DEF Heap, HeapExact
<1>4. CASE pc \notin {"header", "fill"}
  <2>1. Taken = {}
    BY <1>4 DEF Taken
  <2>2. Cardinality(Taken) = 0 /\ Buffers(Taken) = 0
    BY <2>1, CountNone
  <2> QED
    BY <1>1, <1>2, <1>4, <2>2 DEF Heap, HeapExact
<1> QED
  BY <1>3, <1>4

\* And after it.
LEMMA HeapHeld ==
  ASSUME IsFiniteSet(Waiting'), lost' \in Nat, pc' \in {"header", "fill"},
         structs' = Cardinality(Waiting') + 1 + lost',
         bufs' = Buffers(Waiting') + HasBuffer(uc') + queue_size(queue')
  PROVE  Heap'
<1>1. Taken' = {uc'}
  BY DEF Taken
<1>2. Cardinality(Taken') = 1 /\ Buffers(Taken') = HasBuffer(uc')
  BY <1>1, CountOne
<1> QED
  BY <1>2 DEF Heap, HeapExact

LEMMA HeapFree ==
  ASSUME IsFiniteSet(Waiting'), lost' \in Nat, pc' \notin {"header", "fill"},
         structs' = Cardinality(Waiting') + lost',
         bufs' = Buffers(Waiting') + queue_size(queue'),
         queue_size(queue') \in Nat
  PROVE  Heap'
<1>1. Taken' = {}
  BY DEF Taken
<1>2. Cardinality(Taken') = 0 /\ Buffers(Taken') = 0
  BY <1>1, CountNone
<1>3. Cardinality(Waiting') \in Nat /\ Buffers(Waiting') \in Nat
  BY CountType
<1> QED
  BY <1>2, <1>3 DEF Heap, HeapExact

(***************************************************************************)
(* The steps of filter.                                                    *)
(***************************************************************************)
\* A call at a header or inside a package.
LEMMA InHand ==
  ASSUME Streams, Call, pc \in {"header", "fill"}
  PROVE  /\ cur \in Fds /\ Absent(cur) /\ uc \in Struct /\ uc.id = cur /\ sz \in Nat
         /\ uc.size \in Nat
         /\ pc = "header" => uc.read = -1 /\ sz >= 1
         /\ pc = "fill" => uc.read \in Nat /\ uc.read <= uc.size
<1>1. cur \in Fds /\ Absent(cur) /\ uc \in Struct /\ uc.id = cur
  BY DEF Call
<1>2. sz \in Nat /\ sz = arrived[cur] - pos[cur] /\ arrived[cur] \in Nat /\ pos[cur] \in Nat
  BY <1>1, SzType DEF Streams
<1>3. uc.size \in Nat
  BY <1>1 DEF Struct
<1> QED
  BY <1>1, <1>2, <1>3 DEF Call

\* The struct uncomplete in hand with another header.
LEMMA HeaderSet ==
  ASSUME NEW u \in Struct, NEW b \in Bytestring
  PROVE  /\ [u EXCEPT !.header = b] \in Struct
         /\ [u EXCEPT !.header = b].id = u.id /\ [u EXCEPT !.header = b].read = u.read
         /\ [u EXCEPT !.header = b].size = u.size
  BY DEF Struct

LEMMA SoundHeaderGoesOn ==
  ASSUME Sound, HeaderGoesOn PROVE Sound'
<1> USE DEF Sound
<1>1. pc = "header" /\ pc' = pc /\ cur' = cur /\ uc' = [uc EXCEPT !.header = NextHeader] /\ sz > 1
  BY DEF HeaderGoesOn
<1>2. UNCHANGED <<sent, stream, arrived, sock, phase, structs, bufs, lost, hash, queue, reported>>
  BY DEF HeaderGoesOn, cvars, fvars, hvars
<1>3. /\ cur \in Fds /\ Absent(cur) /\ uc \in Struct /\ uc.id = cur /\ uc.read = -1
  BY <1>1, InHand
<1>4. NextHeader \in Bytestring
  BY <1>1, <1>3, SzType, NextHeaderType
<1>5. uc' \in Struct /\ uc'.id = cur /\ uc'.read = -1
  BY <1>1, <1>3, <1>4, HeaderSet
<1>6. Streams' /\ pos'[cur] = pos[cur] + 1
  BY <1>1, <1>2, <1>3, SzType, NextByteAdvances, Advanced DEF HeaderGoesOn
<1>7. Marks' /\ Packages' /\ queue_size(queue') = queue_size(queue) /\ Chained' /\ Waiting' = Waiting
  BY <1>2, MarksSame, PackagesSame, ChainedSame
<1>8. Call'
  <2>1. Struct' = Struct
    BY <1>2, SameTypes
  <2>2. Absent(cur)'
    BY <1>1, <1>2, <1>3 DEF Absent, Chain
  <2>3. pos'[cur] < arrived[cur]
    BY <1>1, <1>3, <1>6, SzType DEF Streams
  <2> QED
    BY <1>1, <1>2, <1>3, <1>5, <2>1, <2>2, <2>3 DEF Call
<1>9. Heap'
  <2>1. HasBuffer(uc') = HasBuffer(uc)
    BY <1>3, <1>5 DEF HasBuffer
  <2> QED
    BY <1>1, <1>2, <1>7, <2>1, HeapNow, HeapHeld
<1> QED
  BY <1>6, <1>7, <1>8, <1>9

LEMMA SoundHeaderWaits ==
  ASSUME Sound, HeaderWaits
  PROVE  Sound' /\ \E u : u.id = cur /\ Waiting' = Waiting \cup {u}
<1> USE DEF Sound
<1>1. pc = "header" /\ sz = 1 /\ Return /\ hash' = Linked([uc EXCEPT !.header = NextHeader])
  BY DEF HeaderWaits
<1>2. UNCHANGED <<sent, stream, arrived, sock, phase, structs, bufs, lost, queue, reported>>
  BY DEF HeaderWaits, cvars, fvars, hvars
<1>3. /\ cur \in Fds /\ Absent(cur) /\ uc \in Struct /\ uc.id = cur /\ uc.read = -1 /\ uc.size \in Nat
  BY <1>1, InHand
<1>4. NextHeader \in Bytestring
  BY <1>1, <1>3, NextHeaderType
<1>5. PICK u : u = [uc EXCEPT !.header = NextHeader]
  OBVIOUS
<1>6. u \in Struct /\ u.id = cur /\ u.read = -1 /\ u.size \in Nat
  BY <1>3, <1>4, <1>5, HeaderSet
<1>7. Chained' /\ Waiting' = Waiting \cup {u} /\ u \notin Waiting
  <2>1. hash' = Linked(u)
    BY <1>1, <1>5
  <2>2. u.read \in -1..(u.size - 1) /\ Absent(u.id)
    BY <1>3, <1>6
  <2> QED
    BY <1>2, <1>6, <2>1, <2>2, LinkedFacts
<1>8. Streams'
  BY <1>1, <1>2, <1>3, NextByteAdvances, Advanced DEF HeaderWaits
<1>9. Marks' /\ Packages' /\ queue_size(queue') = queue_size(queue) /\ Call' /\ pc' = "idle"
  BY <1>1, <1>2, MarksSame, PackagesSame, Returned
<1>10. Heap'
  <2>1. HasBuffer(uc) = 0 /\ HasBuffer(u) = 0
    BY <1>3, <1>6 DEF HasBuffer
  <2>2. /\ IsFiniteSet(Waiting') /\ Cardinality(Waiting') = Cardinality(Waiting) + 1
        /\ Buffers(Waiting') = Buffers(Waiting) + 0
    BY <1>7, <2>1, HeapNow, CountAdd
  <2> QED
    BY <1>1, <1>2, <1>9, <2>1, <2>2, HeapNow, HeapFree
<1> QED
  BY <1>6, <1>7, <1>8, <1>9, <1>10

LEMMA SoundHeaderCloses ==
  ASSUME Sound, HeaderCloses PROVE Sound'
<1> USE DEF Sound
<1>1. pc = "header" /\ sz = 1 /\ Return /\ reported' = reported \cup {cur} /\ lost' = lost + 1
  BY DEF HeaderCloses
<1>2. UNCHANGED <<sent, stream, arrived, sock, phase, structs, bufs, hash, queue>>
  BY DEF HeaderCloses, cvars, fvars
<1>3. cur \in Fds /\ uc.read = -1
  BY <1>1, InHand
<1>4. Streams'
  BY <1>1, <1>2, <1>3, Advanced DEF HeaderCloses, Drop
<1>5. Packages' /\ queue_size(queue') = queue_size(queue) /\ Chained' /\ Waiting' = Waiting
      /\ Call' /\ pc' = "idle"
  BY <1>1, <1>2, PackagesSame, ChainedSame, Returned
<1>6. Marks'
  BY <1>1, <1>2, <1>3 DEF Marks
<1>7. Heap'
  <2>1. HasBuffer(uc) = 0
    BY <1>3 DEF HasBuffer
  <2> QED
    BY <1>1, <1>2, <1>5, <2>1, HeapNow, HeapFree
<1> QED
  BY <1>4, <1>5, <1>6, <1>7

LEMMA SoundHeaderDone ==
  ASSUME Sound, HeaderDone PROVE Sound'
<1> USE DEF Sound
<1>1. /\ pc = "header" /\ read_size(NextHeader) >= 0 /\ pc' = "fill" /\ cur' = cur
      /\ uc' = Started(cur, read_size(NextHeader), MaskOf(NextHeader), <<>>)
      /\ bufs' = bufs + 1
  BY DEF HeaderDone
<1>2. UNCHANGED <<sent, stream, arrived, sock, phase, structs, lost, hash, queue, reported>>
  BY DEF HeaderDone, cvars, fvars
<1>3. /\ cur \in Fds /\ Absent(cur) /\ uc \in Struct /\ uc.id = cur /\ uc.read = -1
      /\ sz \in Nat /\ sz >= 1
  BY <1>1, InHand
<1>4. NextHeader \in Bytestring
  BY <1>3, NextHeaderType
<1>5. read_size(NextHeader) \in Nat /\ MaskOf(NextHeader) \in ((DOMAIN sent) \X Nat) \cup {None}
  BY <1>1, <1>4, ReadSize
<1>6. uc' \in Struct /\ uc'.id = cur /\ uc'.read = 0 /\ uc'.size \in Nat
  <2>1. <<>> \in Bytestring /\ Len(<<>>) = 0
    BY DEF Bytestring
  <2> QED
    <3>1. PICK n \in Nat, m \in ((DOMAIN sent) \X Nat) \cup {None} :
            n = read_size(NextHeader) /\ m = MaskOf(NextHeader)
      BY <1>5
    <3>2. PICK e \in Bytestring : e = <<>> /\ Len(e) = 0
      BY <2>1
    <3>3. uc' = Started(cur, n, m, e)
      BY <1>1, <3>1, <3>2
    <3>4. /\ Started(cur, n, m, e) \in Struct /\ Started(cur, n, m, e).id = cur
          /\ Started(cur, n, m, e).size = n /\ Started(cur, n, m, e).read = Len(e)
      BY <1>3, StartedType
    <3> QED
      BY <3>2, <3>3, <3>4
<1>7. Streams'
  BY <1>1, <1>2, <1>3, Advanced DEF HeaderDone
<1>8. Marks' /\ Packages' /\ queue_size(queue') = queue_size(queue) /\ Chained' /\ Waiting' = Waiting
  BY <1>2, MarksSame, PackagesSame, ChainedSame
<1>9. Call'
  <2>1. Struct' = Struct
    BY <1>2, SameTypes
  <2>2. Absent(cur)'
    BY <1>1, <1>2, <1>3 DEF Absent, Chain
  <2> QED
    BY <1>1, <1>3, <1>6, <2>1, <2>2 DEF Call
<1>10. Heap'
  <2>1. HasBuffer(uc) = 0 /\ HasBuffer(uc') = 1
    BY <1>3, <1>6 DEF HasBuffer
  <2> QED
    BY <1>1, <1>2, <1>8, <2>1, HeapNow, HeapHeld
<1> QED
  BY <1>7, <1>8, <1>9, <1>10

LEMMA SoundFillPart ==
  ASSUME Sound, FillPart
  PROVE  Sound' /\ \E u : u.id = cur /\ Waiting' = Waiting \cup {u}
<1> USE DEF Sound
<1>1. pc = "fill" /\ sz < need /\ Return /\ hash' = Linked(Continued(uc, buffer))
  BY DEF FillPart
<1>2. UNCHANGED <<sent, stream, arrived, sock, phase, structs, bufs, lost, queue, reported>>
  BY DEF FillPart, cvars, fvars, hvars
<1>3. /\ cur \in Fds /\ Absent(cur) /\ uc \in Struct /\ uc.id = cur
      /\ uc.read \in Nat /\ uc.size \in Nat /\ sz \in Nat
  BY <1>1, InHand
<1>4. PICK u : u = Continued(uc, buffer)
  OBVIOUS
<1>5. u \in Struct /\ u.id = cur /\ u.read = uc.read + sz /\ u.size = uc.size
  BY <1>3, <1>4, BufferRead, ContinuedType
<1>6. u.read \in -1..(u.size - 1)
  BY <1>1, <1>3, <1>5 DEF need
<1>7. Chained' /\ Waiting' = Waiting \cup {u} /\ u \notin Waiting
  BY <1>1, <1>2, <1>3, <1>4, <1>5, <1>6, LinkedFacts
<1>8. Streams'
  BY <1>1, <1>2, <1>3, Advanced DEF FillPart
<1>9. Marks' /\ Packages' /\ queue_size(queue') = queue_size(queue) /\ Call' /\ pc' = "idle"
  BY <1>1, <1>2, MarksSame, PackagesSame, Returned
<1>10. Heap'
  <2>1. HasBuffer(uc) = 1 /\ HasBuffer(u) = 1
    BY <1>3, <1>5 DEF HasBuffer
  <2>2. /\ IsFiniteSet(Waiting') /\ Cardinality(Waiting') = Cardinality(Waiting) + 1
        /\ Buffers(Waiting') = Buffers(Waiting) + 1
    BY <1>7, <2>1, HeapNow, CountAdd
  <2> QED
    BY <1>1, <1>2, <1>9, <2>1, <2>2, HeapNow, HeapFree
<1> QED
  BY <1>5, <1>7, <1>8, <1>9, <1>10

LEMMA SoundFillLast ==
  ASSUME Sound, FillLast PROVE Sound'
<1> USE DEF Sound
<1>1. pc = "fill" /\ sz = need /\ Return /\ structs' = structs - 1 /\ bufs' = bufs - 1
  BY DEF FillLast
<1>2. UNCHANGED <<sent, stream, arrived, sock, phase, lost, hash, queue, reported>>
  BY DEF FillLast, cvars, fvars
<1>3. cur \in Fds /\ uc.read \in Nat /\ sz \in Nat
  BY <1>1, InHand
<1>4. Streams'
  BY <1>1, <1>2, <1>3, Advanced DEF FillLast
<1>5. Marks' /\ Packages' /\ queue_size(queue') = queue_size(queue) /\ Chained' /\ Waiting' = Waiting
      /\ Call' /\ pc' = "idle"
  BY <1>1, <1>2, MarksSame, PackagesSame, ChainedSame, Returned
<1>6. Heap'
  <2>1. HasBuffer(uc) = 1
    BY <1>3 DEF HasBuffer
  <2> QED
    BY <1>1, <1>2, <1>5, <2>1, HeapNow, HeapFree
<1> QED
  BY <1>4, <1>5, <1>6

LEMMA SoundFillMore ==
  ASSUME Sound, FillMore PROVE Sound'
<1> USE DEF Sound
<1>1. /\ pc = "fill" /\ sz > need /\ structs' = structs - 1 /\ uc' = None /\ pc' = "more"
      /\ cur' = cur /\ queue' = push_data(queue, cur, Continued(uc, Bytes(need)).buffer)
  BY DEF FillMore
<1>2. UNCHANGED <<sent, stream, arrived, sock, phase, bufs, lost, hash, reported>>
  BY DEF FillMore, cvars, fvars
<1>3. /\ cur \in Fds /\ Absent(cur) /\ uc \in Struct /\ uc.read \in Nat /\ sz \in Nat
      /\ uc.size \in Nat /\ uc.read <= uc.size
  BY <1>1, InHand
<1>4. need \in Nat /\ need <= sz
  BY <1>1, <1>3 DEF need
<1>5. Streams'
  BY <1>1, <1>2, <1>3, <1>4, Advanced DEF FillMore
<1>6. Continued(uc, Bytes(need)) \in Struct
  BY <1>3, <1>4, BytesRead, ContinuedType
<1>7. Continued(uc, Bytes(need)).buffer \in Bytestring
  BY <1>6 DEF Struct
<1>8. Packages' /\ queue_size(queue') = queue_size(queue) + 1
  BY <1>1, <1>2, <1>3, <1>7, Pushed
<1>9. Marks' /\ Chained' /\ Waiting' = Waiting
  BY <1>2, MarksSame, ChainedSame
<1>10. Call'
  <2>1. Absent(cur)'
    BY <1>1, <1>2, <1>3 DEF Absent, Chain
  <2> QED
    BY <1>1, <1>3, <2>1 DEF Call
<1>11. Heap'
  <2>1. HasBuffer(uc) = 1
    BY <1>3 DEF HasBuffer
  <2> QED
    BY <1>1, <1>2, <1>8, <1>9, <2>1, HeapNow, HeapFree
<1> QED
  BY <1>5, <1>8, <1>9, <1>10, <1>11

\* A call at a frame.
LEMMA FrameAt ==
  ASSUME Streams, Call, AtFrame
  PROVE  /\ cur \in Fds /\ Absent(cur) /\ sz \in Nat
         /\ buffer \in Bytestring /\ Len(buffer) = sz
         /\ pc \notin {"header", "fill", "idle"}
<1>1. cur \in Fds /\ Absent(cur) /\ pc \notin {"header", "fill", "idle"}
  BY DEF Call, AtFrame
<1> QED
  BY <1>1, SzType, BufferRead

\* A frame whose header is complete in this read.
LEMMA FrameHead ==
  ASSUME Streams, Call, AtFrame, read_size(buffer) >= 0
  PROVE  /\ read_size(buffer) \in Nat /\ inside \in Nat
         /\ HeadLength(HeadOf(buffer)) \in Nat
         /\ sz = HeadLength(HeadOf(buffer)) + inside
         /\ MaskOf(buffer) \in ((DOMAIN sent) \X Nat) \cup {None}
  BY FrameAt, ReadSize DEF inside

LEMMA PackageType ==
  ASSUME Streams, Call, AtFrame, read_size(buffer) >= 0, inside >= read_size(buffer)
  PROVE  Package \in Bytestring
<1> DEFINE h == HeadLength(HeadOf(buffer))
           n == read_size(buffer)
<1>1. /\ n \in Nat /\ h \in Nat /\ h + n <= Len(buffer) /\ buffer \in Seq(ByteType)
      /\ MaskOf(buffer) \in ((DOMAIN sent) \X Nat) \cup {None}
  BY FrameAt, FrameHead DEF Bytestring
<1>2. Package = decode_wsmask_data(SubSeq(buffer, h + 1, h + n), MaskOf(buffer), 0)
  BY DEF Package
<1> HIDE DEF h, n
<1>3. SubSeq(buffer, h + 1, h + n) \in Bytestring
  BY <1>1, Part DEF Bytestring
<1> QED
  BY <1>1, <1>2, <1>3, Decoded

LEMMA SoundFrameSkipped ==
  ASSUME Sound, FrameSkipped PROVE Sound'
<1> USE DEF Sound
<1>1. /\ AtFrame /\ read_size(buffer) # -1 /\ pc' = pc /\ cur' = cur /\ uc' = uc
  BY DEF FrameSkipped
<1>2. UNCHANGED <<sent, stream, arrived, sock, phase, structs, bufs, lost, hash, queue, reported>>
  BY DEF FrameSkipped, cvars, fvars, hvars
<1>3. cur \in Fds /\ Absent(cur) /\ sz \in Nat /\ 2 <= sz /\ pc \notin {"header", "fill", "idle"}
  BY <1>1, FrameAt, ReadSize
<1>4. Streams'
  BY <1>2, <1>3, Advanced DEF FrameSkipped, Drop
<1>5. Marks' /\ Packages' /\ queue_size(queue') = queue_size(queue) /\ Chained' /\ Waiting' = Waiting
  BY <1>2, MarksSame, PackagesSame, ChainedSame
<1>6. Call'
  <2>1. Struct' = Struct
    BY <1>2, SameTypes
  <2>2. Absent(cur)'
    BY <1>1, <1>2, <1>3 DEF Absent, Chain
  <2> QED
    BY <1>1, <1>3, <2>1, <2>2 DEF Call
<1>7. Heap'
  BY <1>1, <1>2, <1>3, <1>5, HeapNow, HeapFree
<1> QED
  BY <1>4, <1>5, <1>6, <1>7

LEMMA SoundFrameCloses ==
  ASSUME Sound, FrameCloses PROVE Sound'
<1> USE DEF Sound
<1>1. pc = "frame" /\ AtFrame /\ Return /\ reported' = reported \cup {cur}
  BY DEF FrameCloses, AtFrame
<1>2. UNCHANGED <<sent, stream, arrived, sock, phase, structs, bufs, lost, hash, queue>>
  BY DEF FrameCloses, cvars, fvars, hvars
<1>3. cur \in Fds /\ sz \in Nat
  BY <1>1, FrameAt
<1>4. Streams'
  BY <1>2, <1>3, Advanced DEF FrameCloses, Drop
<1>5. Packages' /\ queue_size(queue') = queue_size(queue) /\ Chained' /\ Waiting' = Waiting
      /\ Call' /\ pc' = "idle"
  BY <1>1, <1>2, PackagesSame, ChainedSame, Returned
<1>6. Marks'
  BY <1>1, <1>2, <1>3 DEF Marks
<1>7. Heap'
  BY <1>1, <1>2, <1>5, HeapNow, HeapFree
<1> QED
  BY <1>4, <1>5, <1>6, <1>7

LEMMA SoundFrameHeaderWaits ==
  ASSUME Sound, FrameHeaderWaits
  PROVE  Sound' /\ \E u : u.id = cur /\ Waiting' = Waiting \cup {u}
<1> USE DEF Sound
<1>1. AtFrame /\ Return /\ hash' = Linked(Uncomplete(cur, buffer)) /\ structs' = structs + 1
  BY DEF FrameHeaderWaits
<1>2. UNCHANGED <<sent, stream, arrived, sock, phase, bufs, lost, queue, reported>>
  BY DEF FrameHeaderWaits, cvars, fvars
<1>3. /\ cur \in Fds /\ Absent(cur) /\ sz \in Nat /\ buffer \in Bytestring
      /\ pc \notin {"header", "fill"}
  BY <1>1, FrameAt
<1>4. PICK u : u = Uncomplete(cur, buffer)
  OBVIOUS
<1>5. u \in Struct /\ u.id = cur /\ u.read = -1 /\ u.size = 0
  BY <1>3, <1>4, UncompleteType
<1>6. u.read \in -1..(u.size - 1) /\ Absent(u.id)
  BY <1>3, <1>5
<1>7. Chained' /\ Waiting' = Waiting \cup {u} /\ u \notin Waiting
  BY <1>1, <1>2, <1>4, <1>5, <1>6, LinkedFacts
<1>8. Streams'
  BY <1>2, <1>3, Advanced DEF FrameHeaderWaits
<1>9. Marks' /\ Packages' /\ queue_size(queue') = queue_size(queue) /\ Call' /\ pc' = "idle"
  BY <1>1, <1>2, MarksSame, PackagesSame, Returned
<1>10. Heap'
  <2>1. HasBuffer(u) = 0
    BY <1>5 DEF HasBuffer
  <2>2. /\ IsFiniteSet(Waiting') /\ Cardinality(Waiting') = Cardinality(Waiting) + 1
        /\ Buffers(Waiting') = Buffers(Waiting) + 0
    BY <1>7, <2>1, HeapNow, CountAdd
  <2> QED
    BY <1>1, <1>2, <1>3, <1>9, <2>2, HeapNow, HeapFree
<1> QED
  BY <1>5, <1>7, <1>8, <1>9, <1>10

LEMMA SoundFrameWaits ==
  ASSUME Sound, FrameWaits
  PROVE  Sound' /\ \E u : u.id = cur /\ Waiting' = Waiting \cup {u}
<1> USE DEF Sound
<1> DEFINE first == SubSeq(buffer, sz - inside + 1, sz)
<1>1. /\ AtFrame /\ Return /\ structs' = structs + 1 /\ bufs' = bufs + 1
      /\ read_size(buffer) >= 0 /\ inside < read_size(buffer)
      /\ hash' = Linked(Started(cur, read_size(buffer), MaskOf(buffer), first))
  BY DEF FrameWaits
<1>2. UNCHANGED <<sent, stream, arrived, sock, phase, lost, queue, reported>>
  BY DEF FrameWaits, cvars, fvars
<1>3. /\ cur \in Fds /\ Absent(cur) /\ sz \in Nat /\ buffer \in Bytestring /\ Len(buffer) = sz
      /\ pc \notin {"header", "fill"}
  BY <1>1, FrameAt
<1>4. PICK n, m, h, k :
        /\ n = read_size(buffer) /\ m = MaskOf(buffer)
        /\ h = HeadLength(HeadOf(buffer)) /\ k = inside
  OBVIOUS
<1>0. n \in Nat /\ h \in Nat /\ k \in Nat /\ sz = h + k
  BY <1>1, <1>4, FrameHead
<1>5. first \in Bytestring /\ Len(first) = k
  <2>0. sz - inside + 1 = h + 1 /\ sz = h + k
    BY <1>0, <1>4
  <2>1. first = SubSeq(buffer, h + 1, h + k)
    BY <2>0, Zenon
  <2>2. /\ SubSeq(buffer, h + 1, h + k) \in Seq(ByteType)
        /\ Len(SubSeq(buffer, h + 1, h + k)) = k
    BY <1>0, <1>3, Part DEF Bytestring
  <2> QED
    BY <2>1, <2>2 DEF Bytestring
<1> HIDE DEF first
<1>6. PICK u : u = Started(cur, n, m, first)
  OBVIOUS
<1>7. u \in Struct /\ u.id = cur /\ u.read = k /\ u.size = n
  <2>1. /\ Started(cur, n, m, first) \in Struct /\ Started(cur, n, m, first).id = cur
        /\ Started(cur, n, m, first).size = n /\ Started(cur, n, m, first).read = Len(first)
    <3>1. Streams /\ cur \in Fds /\ n \in Nat
      BY <1>0, <1>3
    <3>2. PICK b \in Bytestring : b = first
      BY <1>5
    <3>3. PICK w \in ((DOMAIN sent) \X Nat) \cup {None} : w = m
      BY <1>1, <1>4, FrameHead
    <3>4. /\ Started(cur, n, w, b) \in Struct /\ Started(cur, n, w, b).id = cur
          /\ Started(cur, n, w, b).size = n /\ Started(cur, n, w, b).read = Len(b)
      BY <3>1, StartedType
    <3> QED
      BY <3>2, <3>3, <3>4
  <2> QED
    BY <1>5, <1>6, <2>1
<1>8. u.read \in -1..(u.size - 1) /\ Absent(u.id)
  BY <1>0, <1>1, <1>3, <1>4, <1>7
<1>9. Chained' /\ Waiting' = Waiting \cup {u} /\ u \notin Waiting
  <2>1. hash' = Linked(u)
    BY <1>1, <1>4, <1>6
  <2> QED
    BY <1>2, <1>7, <1>8, <2>1, LinkedFacts
<1>10. Streams'
  BY <1>2, <1>3, Advanced DEF FrameWaits
<1>11. Marks' /\ Packages' /\ queue_size(queue') = queue_size(queue) /\ Call' /\ pc' = "idle"
  BY <1>1, <1>2, MarksSame, PackagesSame, Returned
<1>12. Heap'
  <2>1. HasBuffer(u) = 1
    BY <1>0, <1>7 DEF HasBuffer
  <2>2. /\ IsFiniteSet(Waiting') /\ Cardinality(Waiting') = Cardinality(Waiting) + 1
        /\ Buffers(Waiting') = Buffers(Waiting) + 1
    BY <1>9, <2>1, HeapNow, CountAdd
  <2> QED
    BY <1>1, <1>2, <1>3, <1>11, <2>2, HeapNow, HeapFree
<1> QED
  BY <1>7, <1>9, <1>10, <1>11, <1>12

LEMMA SoundFrameAlone ==
  ASSUME Sound, FrameAlone PROVE Sound'
<1> USE DEF Sound
<1>1. pc = "frame" /\ AtFrame /\ Return
  BY DEF FrameAlone, AtFrame
<1>2. UNCHANGED <<sent, stream, arrived, sock, phase, structs, bufs, lost, hash, queue, reported>>
  BY DEF FrameAlone, cvars, fvars, hvars
<1>3. cur \in Fds /\ sz \in Nat
  BY <1>1, FrameAt
<1>4. Streams'
  BY <1>2, <1>3, Advanced DEF FrameAlone
<1>5. Marks' /\ Packages' /\ queue_size(queue') = queue_size(queue) /\ Chained' /\ Waiting' = Waiting
      /\ Call' /\ pc' = "idle"
  BY <1>1, <1>2, MarksSame, PackagesSame, ChainedSame, Returned
<1>6. Heap'
  BY <1>1, <1>2, <1>5, HeapNow, HeapFree
<1> QED
  BY <1>4, <1>5, <1>6

LEMMA SoundFramePushed ==
  ASSUME Sound, FramePushed PROVE Sound'
<1> USE DEF Sound
<1>1. /\ AtFrame /\ read_size(buffer) >= 0 /\ queue' = push_data(queue, cur, Package)
      /\ bufs' = bufs + 1
      /\ \/ pc' = "more" /\ cur' = cur /\ uc' = uc
         \/ Return
  BY DEF FramePushed
<1>2. UNCHANGED <<sent, stream, arrived, sock, phase, structs, lost, hash, reported>>
  BY DEF FramePushed, cvars, fvars
<1>3. cur \in Fds /\ Absent(cur) /\ sz \in Nat /\ pc \notin {"header", "fill"}
  BY <1>1, FrameAt
<1>4. inside \in Nat /\ read_size(buffer) \in Nat /\ inside >= read_size(buffer) /\ inside <= sz
  BY <1>1, FrameHead DEF FramePushed
<1>5. Streams'
  <2>1. sz - inside + read_size(buffer) \in Nat /\ sz - inside + read_size(buffer) <= sz
    BY <1>3, <1>4
  <2> QED
    BY <1>2, <1>3, <2>1, Advanced DEF FramePushed
<1>6. Package \in Bytestring
  BY <1>1, <1>4, PackageType
<1>7. Packages' /\ queue_size(queue') = queue_size(queue) + 1
  BY <1>1, <1>2, <1>3, <1>6, Pushed
<1>8. Marks' /\ Chained' /\ Waiting' = Waiting
  BY <1>2, MarksSame, ChainedSame
<1>9. Call' /\ pc' \notin {"header", "fill"}
  <2>1. CASE Return
    BY <2>1, Returned
  <2>2. CASE pc' = "more" /\ cur' = cur /\ uc' = uc
    <3>1. Struct' = Struct
      BY <1>2, SameTypes
    <3>2. Absent(cur)'
      BY <1>2, <1>3, <2>2 DEF Absent, Chain
    <3> QED
      BY <1>3, <2>2, <3>1, <3>2 DEF Call
  <2> QED
    BY <1>1, <2>1, <2>2
<1>10. Heap'
  BY <1>1, <1>2, <1>3, <1>7, <1>8, <1>9, HeapNow, HeapFree
<1> QED
  BY <1>5, <1>7, <1>8, <1>9, <1>10

(***************************************************************************)
(* The other steps.                                                        *)
(***************************************************************************)
LEMMA SoundData ==
  ASSUME Sound, NEW fd \in Fds, NEW n \in 1..Len(stream[fd]), Data(fd, n) PROVE Sound'
<1> USE DEF Sound
<1>1. /\ pc = "idle" /\ cur' = fd /\ arrived' = [arrived EXCEPT ![fd] = arrived[fd] + n]
      /\ arrived[fd] + n <= Len(stream[fd])
  BY DEF Data, Streams
<1>2. UNCHANGED <<sent, stream, structs, bufs, lost, pos, sock, phase, queue, reported>>
  BY DEF Data, cvars, hvars
<1>3. arrived[fd] \in Nat /\ pos[fd] \in Nat /\ pos[fd] <= arrived[fd] /\ n \in Nat /\ n >= 1
  BY DEF Streams
<1>4. Streams'
  <2>1. Bytestring' = Bytestring
    BY <1>2, SameTypes
  <2>2. arrived' \in [Fds -> Nat]
    BY <1>1, <1>3 DEF Streams
  <2>3. \A f \in Fds : pos[f] <= arrived'[f] /\ arrived'[f] <= Len(stream[f])
    BY <1>1, <1>3 DEF Streams
  <2> QED
    BY <1>2, <2>1, <2>2, <2>3 DEF Streams
<1>5. pos'[fd] < arrived'[fd]
  BY <1>1, <1>2, <1>3 DEF Streams
<1>6. Marks' /\ Packages' /\ queue_size(queue') = queue_size(queue) /\ Struct' = Struct
  BY <1>2, MarksSame, PackagesSame, SameTypes
<1>7. CASE Place(fd) = 0 /\ pc' = "frame" /\ uc' = None /\ UNCHANGED hash
  <2>1. Chained' /\ Waiting' = Waiting
    BY <1>2, <1>7, ChainedSame
  <2>2. Absent(fd)'
    BY <1>7, NotFound DEF Absent, Chain
  <2>3. Call'
    BY <1>1, <1>7, <2>2 DEF Call
  <2>4. Heap'
    BY <1>1, <1>2, <1>6, <1>7, <2>1, HeapNow, HeapFree
  <2> QED
    BY <1>4, <1>6, <2>1, <2>3, <2>4
<1>8. CASE /\ Place(fd) # 0 /\ uc' = Chain(fd)[Place(fd)] /\ hash' = Unlinked(fd)
           /\ pc' = IF uc'.read < 0 THEN "header" ELSE "fill"
  <2>1. /\ Chained' /\ Absent(fd)' /\ Waiting' = Waiting \ {uc'} /\ uc' \in Waiting
        /\ uc' \in Struct /\ uc'.id = fd /\ uc'.read \in -1..(uc'.size - 1)
    BY <1>2, <1>8, UnlinkedFacts
  <2>2. uc'.size \in Nat
    BY <2>1 DEF Struct
  <2>3. /\ pc' \in {"header", "fill"}
        /\ pc' = "header" => uc'.read = -1
        /\ pc' = "fill" => uc'.read \in 0..uc'.size
    BY <1>8, <2>1, <2>2
  <2>4. Call'
    BY <1>1, <1>5, <1>6, <2>1, <2>3 DEF Call
  <2>5. /\ IsFiniteSet(Waiting') /\ Cardinality(Waiting') = Cardinality(Waiting) - 1
        /\ Buffers(Waiting') = Buffers(Waiting) - HasBuffer(uc')
    BY <2>1, HeapNow, CountRemove
  <2>6. HasBuffer(uc') \in Nat
    BY DEF HasBuffer
  <2>7. Heap'
    BY <1>1, <1>2, <1>6, <2>3, <2>5, <2>6, HeapNow, HeapHeld
  <2> QED
    BY <1>4, <1>6, <2>1, <2>4, <2>7
<1> QED
  BY <1>7, <1>8 DEF Data

LEMMA SoundLpop ==
  ASSUME Sound, lpop PROVE Sound'
<1> USE DEF Sound
<1>1. pc = "idle" /\ ~queue_empty(queue) /\ queue' = queue_pop(queue) /\ bufs' = bufs - 1
  BY DEF lpop
<1>2. UNCHANGED <<sent, stream, arrived, sock, phase, structs, lost, pos, hash, pc, cur, uc, reported>>
  BY DEF lpop, cvars, fvars
<1>3. Streams' /\ Marks' /\ Chained' /\ Waiting' = Waiting /\ Struct' = Struct
  BY <1>2, StreamsSame, MarksSame, ChainedSame, SameTypes DEF cvars
<1>4. Packages' /\ queue_size(queue') = queue_size(queue) - 1 /\ queue_size(queue') \in Nat
  <2> DEFINE T == [id : Fds, msg : Bytestring]
  <2>1. T' = T /\ Ring(queue, T)
    BY <1>2, SameTypes DEF Packages
  <2>2. Ring(queue', T) => Packages'
    BY <2>1 DEF Packages
  <2> HIDE DEF T
  <2>3. Ring(queue', T) /\ queue_size(queue') = queue_size(queue) - 1
    BY <1>1, <2>1, RingPop
  <2>4. queue_size(queue') \in Nat
    BY <2>3, RingSize
  <2> QED
    BY <2>2, <2>3, <2>4
<1>5. Call'
  BY <1>1, <1>2, <1>3 DEF Call
<1>6. Heap'
  BY <1>1, <1>2, <1>3, <1>4, HeapNow, HeapFree
<1> QED
  BY <1>3, <1>4, <1>5, <1>6

LEMMA SoundClose ==
  ASSUME Sound, NEW fd \in Fds, Close(fd) PROVE Sound'
<1> USE DEF Sound
<1>1. pc = "idle" /\ close_uncomplete(fd) /\ sock' = [sock EXCEPT ![fd] = "closed"]
  BY DEF Close
<1>2. UNCHANGED <<sent, stream, arrived, phase, lost, pos, queue, pc, cur, uc, reported>>
  BY DEF Close, cvars
<1>3. Streams' /\ Packages' /\ queue_size(queue') = queue_size(queue) /\ Struct' = Struct
  BY <1>2, StreamsSame, PackagesSame, SameTypes DEF cvars
<1>4. Marks'
  BY <1>1, <1>2 DEF Marks
<1>5. Call'
  BY <1>1, <1>2, <1>3 DEF Call
<1>6. CASE Place(fd) = 0
  <2>1. UNCHANGED <<hash, structs, bufs>>
    BY <1>1, <1>6 DEF close_uncomplete
  <2>2. Chained' /\ Waiting' = Waiting
    BY <1>2, <2>1, ChainedSame
  <2>3. Heap'
    BY <1>1, <1>2, <1>3, <2>1, <2>2, HeapNow, HeapFree
  <2> QED
    BY <1>3, <1>4, <1>5, <2>2, <2>3
<1>7. CASE Place(fd) # 0
  <2>1. PICK u : u = Chain(fd)[Place(fd)]
    OBVIOUS
  <2>2. /\ hash' = Unlinked(fd) /\ structs' = structs - 1 /\ bufs' = bufs - Buffers({u})
    BY <1>1, <1>7, <2>1 DEF close_uncomplete
  <2>3. Chained' /\ Waiting' = Waiting \ {u} /\ u \in Waiting
    BY <1>2, <1>7, <2>1, <2>2, UnlinkedFacts
  <2>4. /\ IsFiniteSet(Waiting') /\ Cardinality(Waiting') = Cardinality(Waiting) - 1
        /\ Buffers(Waiting') = Buffers(Waiting) - HasBuffer(u)
    BY <2>3, HeapNow, CountRemove
  <2>5. Buffers({u}) = HasBuffer(u) /\ HasBuffer(u) \in Nat
    BY CountOne DEF HasBuffer
  <2>6. Heap'
    BY <1>1, <1>2, <1>3, <2>2, <2>4, <2>5, HeapNow, HeapFree
  <2> QED
    BY <1>3, <1>4, <1>5, <2>3, <2>6
<1> QED
  BY <1>6, <1>7

LEMMA SoundLclear ==
  ASSUME Sound, lclear PROVE Sound'
<1> USE DEF Sound
<1>1. /\ pc = "idle" /\ phase' = "cleared" /\ hash' = [h \in DOMAIN hash |-> <<>>]
      /\ queue' = [queue EXCEPT !.head = 0, !.tail = 0]
      /\ structs' = structs - Cardinality(Waiting)
      /\ bufs' = bufs - Buffers(Waiting) - queue_size(queue)
  BY DEF lclear
<1>2. UNCHANGED <<sent, stream, arrived, sock, lost, pos, pc, cur, uc, reported>>
  BY DEF lclear, cvars
<1>3. Streams' /\ Struct' = Struct
  BY <1>2, StreamsSame, SameTypes DEF cvars
<1>4. Marks'
  BY <1>1, <1>2 DEF Marks
<1>5. Packages' /\ queue_size(queue') = 0
  <2> DEFINE T == [id : Fds, msg : Bytestring]
  <2>1. T' = T /\ Ring(queue, T)
    BY <1>2, SameTypes DEF Packages
  <2>2. Ring(queue', T) => Packages'
    BY <2>1 DEF Packages
  <2> HIDE DEF T
  <2>3. Ring(queue', T) /\ queue_size(queue') = 0
    BY <1>1, <2>1, RingReset
  <2> QED
    BY <2>2, <2>3
<1>6. Chained'
  <2>1. DOMAIN hash' = Range(hash_fd) /\ \A h \in DOMAIN hash' : hash'[h] = <<>>
    BY <1>1 DEF Chained
  <2>2. hash' \in [Range(hash_fd) -> Seq(Struct)]
    BY <1>1 DEF Chained
  <2>3. \A h \in DOMAIN hash' : DOMAIN hash'[h] = {}
    BY <2>1
  <2> QED
    BY <1>3, <2>2, <2>3 DEF Chained
<1>7. Waiting' = {}
  <2>1. \A h \in DOMAIN hash' : ToSet(hash'[h]) = {}
    BY <1>1 DEF ToSet
  <2> QED
    BY <2>1 DEF Waiting
<1>8. Call'
  BY <1>1, <1>2, <1>3 DEF Call
<1>9. Heap'
  <2>1. IsFiniteSet(Waiting') /\ Cardinality(Waiting') = 0 /\ Buffers(Waiting') = 0
    BY <1>7, FS_EmptySet, CountNone
  <2> QED
    BY <1>1, <1>2, <1>5, <2>1, HeapNow, HeapFree
<1> QED
  BY <1>3, <1>4, <1>5, <1>6, <1>8, <1>9

\* A frame as it is sent, of whatever number.
LEMMA EncodeType ==
  ASSUME NEW frame \in Frame, NEW D, D \subseteq Nat, NEW f \in D
  PROVE  Encode(f, frame) \in Seq([f : D, j : Nat, keys : SUBSET ((D \X Nat) \X (0..(MaskLen - 1)))])
<1> DEFINE T == [f : D, j : Nat, keys : SUBSET ((D \X Nat) \X (0..(MaskLen - 1)))]
           h == HeadLength(frame)
           key(j) == IF frame.mask /\ j > h THEN {<<<<f, 2>>, (j - h - 1) % MaskLen>>} ELSE {}
           e == [j \in 1..(h + frame.len) |-> Byte(f, j, key(j))]
<1>1. h \in Nat /\ frame.len \in Nat
  BY FrameFields, HeadLengthType
<1>2. Encode(f, frame) = e
  BY DEF Encode
<1> HIDE DEF h
<1>3. ASSUME NEW j \in 1..(h + frame.len) PROVE Byte(f, j, key(j)) \in T
  <2>1. j \in Nat
    BY <1>1
  <2>2. key(j) \in SUBSET ((D \X Nat) \X (0..(MaskLen - 1)))
    <3>1. CASE frame.mask /\ j > h
      <4>1. (j - h - 1) % MaskLen \in 0..(MaskLen - 1)
        BY <1>1, <2>1, <3>1, SizeAssumption
      <4> QED
        BY <3>1, <4>1
    <3>2. CASE ~(frame.mask /\ j > h)
      BY <3>2
    <3> QED
      BY <3>1, <3>2
  <2>3. PICK k : k = key(j)
    OBVIOUS
  <2>4. Byte(f, j, k) \in T
    BY <2>1, <2>2, <2>3 DEF Byte
  <2> QED
    BY <2>3, <2>4
<1> HIDE DEF key, T
<1>4. e \in Seq(T)
  BY <1>1, <1>3
<1> QED
  BY <1>2, <1>4 DEF T

LEMMA SoundLsend ==
  ASSUME Sound, NEW fd \in Fds, NEW frame \in Frames, lsend(fd, frame) PROVE Sound'
<1> USE DEF Sound
<1> DEFINE b == Encode(Len(sent) + 1, frame)
           e == [fd |-> fd, frame |-> frame, end |-> Len(stream'[fd])]
<1>1. stream' = [stream EXCEPT ![fd] = stream[fd] \o b] /\ sent' = Append(sent, e)
  BY DEF lsend, Streams
<1>2. UNCHANGED <<arrived, sock, phase, structs, bufs, lost, pos, hash, queue, pc, cur, uc, reported>>
  BY DEF lsend, fvars, hvars
<1>3. sent \in Seq([fd : Fds, frame : Frames, end : Nat]) /\ Len(sent) \in Nat /\ DOMAIN sent = 1..Len(sent)
  BY LenProperties DEF Streams
<1>4. DOMAIN sent' = 1..(Len(sent) + 1) /\ DOMAIN sent \subseteq DOMAIN sent'
  BY <1>1, <1>3
<1>5. ByteType \subseteq ByteType'
  BY <1>4 DEF ByteType
<1>6. Bytestring \subseteq Bytestring'
  BY <1>5, SeqMonotonic DEF Bytestring
<1>7. Struct \subseteq Struct'
  BY <1>4, <1>6 DEF Struct
<1>8. b \in Bytestring'
  <2>1. frame \in Frame
    BY FrameAssumption
  <2>2. Len(sent) + 1 \in DOMAIN sent' /\ DOMAIN sent' \subseteq Nat
    BY <1>3, <1>4
  <2> QED
    BY <2>1, <2>2, EncodeType DEF Bytestring, ByteType
<1> HIDE DEF b
<1>9. \A f \in Fds : stream[f] \in Bytestring' /\ Len(stream[f]) \in Nat
  BY <1>6, LenProperties DEF Streams, Bytestring
<1>10. /\ stream[fd] \o b \in Bytestring' /\ Len(stream[fd] \o b) \in Nat
       /\ Len(stream[fd] \o b) >= Len(stream[fd])
  <2>1. stream[fd] \in Seq(ByteType') /\ b \in Seq(ByteType')
    BY <1>8, <1>9 DEF Bytestring
  <2>2. stream[fd] \o b \in Seq(ByteType') /\ Len(stream[fd] \o b) = Len(stream[fd]) + Len(b)
    BY <2>1, ConcatProperties
  <2>3. Len(stream[fd]) \in Nat /\ Len(b) \in Nat
    BY <2>1, LenProperties
  <2> QED
    BY <2>2, <2>3 DEF Bytestring
<1>11. stream'[fd] = stream[fd] \o b /\ \A f \in Fds : f # fd => stream'[f] = stream[f]
  BY <1>1 DEF Streams
<1>12. stream' \in [Fds -> Bytestring']
  BY <1>1, <1>9, <1>10 DEF Streams
<1>13. Streams'
  <2>1. e \in [fd : Fds, frame : Frames, end : Nat]
    BY <1>10, <1>11
  <2>2. sent' \in Seq([fd : Fds, frame : Frames, end : Nat])
    BY <1>1, <1>3, <2>1, AppendProperties
  <2>3. \A f \in Fds : pos[f] <= arrived[f] /\ arrived[f] <= Len(stream'[f])
    <3> TAKE f \in Fds
    <3>1. pos[f] <= arrived[f] /\ arrived[f] <= Len(stream[f]) /\ arrived[f] \in Nat
      BY DEF Streams
    <3>2. CASE f = fd
      <4>1. Len(stream'[f]) \in Nat /\ Len(stream'[f]) >= Len(stream[f]) /\ Len(stream[f]) \in Nat
        BY <1>9, <1>10, <1>11, <3>2
      <4> QED
        BY <3>1, <4>1
    <3>3. CASE f # fd
      BY <1>11, <3>1, <3>3
    <3> QED
      BY <3>2, <3>3
  <2> QED
    BY <1>2, <1>12, <2>2, <2>3 DEF Streams
<1>14. Marks'
  BY <1>2, MarksSame
<1>15. Packages'
  <2>1. [id : Fds, msg : Bytestring] \subseteq [id : Fds, msg : Bytestring']
    BY <1>6
  <2>2. Ring(queue, [id : Fds, msg : Bytestring'])
    BY <2>1, RingWider DEF Packages
  <2> QED
    BY <1>2, <2>2 DEF Packages
<1>16. Chained'
  <2>1. Seq(Struct) \subseteq Seq(Struct')
    BY <1>7, SeqMonotonic
  <2> QED
    BY <1>2, <2>1 DEF Chained
<1>17. Call'
  BY <1>2, <1>7 DEF Call, Absent, Chain
<1>18. Heap'
  BY <1>2 DEF Heap, HeapExact, Taken, Waiting
<1> QED
  BY <1>13, <1>14, <1>15, <1>16, <1>17, <1>18

LEMMA SoundInit == Init => Sound
<1> SUFFICES ASSUME Init PROVE Sound
  OBVIOUS
<1> USE DEF Init
<1>1. <<>> \in Bytestring /\ Len(<<>>) = 0
  BY DEF Bytestring
<1>2. Streams
  BY <1>1 DEF Streams
<1>3. Marks
  BY DEF Marks
<1>4. Packages /\ queue_size(queue) = 0
  BY RingInit DEF Packages
<1>5. Chained
  BY DEF Chained
<1>6. Call
  BY DEF Call
<1>7. Waiting = {}
  BY DEF Waiting, ToSet
<1>8. Heap
  <2>1. Taken = {}
    BY DEF Taken
  <2> QED
    BY <1>4, <1>7, <2>1, CountNone, FS_EmptySet DEF Heap, HeapExact
<1> QED
  BY <1>2, <1>3, <1>4, <1>5, <1>6, <1>8 DEF Sound

LEMMA SoundNext == Sound /\ [Next]_vars => Sound'
<1> SUFFICES ASSUME Sound, [Next]_vars PROVE Sound'
  OBVIOUS
<1>1. ASSUME NEW fd \in Fds, NEW frame \in Frames, lsend(fd, frame) PROVE Sound'
  BY <1>1, SoundLsend
<1>2. ASSUME NEW fd \in Fds, NEW n \in 1..Len(stream[fd]), Data(fd, n) PROVE Sound'
  BY <1>2, SoundData
<1>3. ASSUME NEW fd \in Fds, Close(fd) PROVE Sound'
  BY <1>3, SoundClose
<1>4. CASE Filter
  BY <1>4, SoundHeaderGoesOn, SoundHeaderWaits, SoundHeaderCloses, SoundHeaderDone,
     SoundFillPart, SoundFillLast, SoundFillMore, SoundFrameSkipped, SoundFrameCloses,
     SoundFrameHeaderWaits, SoundFrameWaits, SoundFrameAlone, SoundFramePushed DEF Filter
<1>5. CASE lpop
  BY <1>5, SoundLpop
<1>6. CASE lclear
  BY <1>6, SoundLclear
<1>7. CASE UNCHANGED vars
  <2>1. UNCHANGED <<sent, stream, arrived, sock, phase, structs, bufs, lost, pos, hash, queue,
                    pc, cur, uc, reported>>
    BY <1>7 DEF vars, cvars, fvars, hvars
  <2>2. Struct' = Struct
    BY <2>1, SameTypes
  <2>3. Streams' /\ Marks' /\ Packages' /\ Chained'
    BY <2>1, StreamsSame, MarksSame, PackagesSame, ChainedSame DEF Sound, cvars
  <2>4. Call'
    BY <2>1, <2>2 DEF Sound, Call, Absent, Chain
  <2>5. Heap'
    BY <2>1 DEF Sound, Heap, HeapExact, Taken, Waiting
  <2> QED
    BY <2>3, <2>4, <2>5 DEF Sound
<1> QED
  BY <1>1, <1>2, <1>3, <1>4, <1>5, <1>6, <1>7 DEF Next

\* Only the socket of a call goes astray.
LEMMA StraysStep ==
  ASSUME [Next]_vars
  PROVE  astray' = astray \/ (pc # "idle" /\ astray' = astray \cup {cur})
<1>1. ASSUME NEW n, Drop(n) PROVE astray' = astray \/ astray' = astray \cup {cur}
  BY <1>1 DEF Drop
<1>2. CASE HeaderGoesOn \/ HeaderWaits
  BY <1>1, <1>2 DEF HeaderGoesOn, HeaderWaits, NextByte
<1>3. CASE HeaderCloses \/ FrameSkipped \/ FrameCloses
  BY <1>1, <1>3 DEF HeaderCloses, FrameSkipped, FrameCloses, AtFrame
<1>4. CASE HeaderDone \/ FillPart \/ FillLast \/ FillMore
  BY <1>4 DEF HeaderDone, FillPart, FillLast, FillMore
<1>5. CASE FrameHeaderWaits \/ FrameWaits \/ FrameAlone \/ FramePushed
  BY <1>5 DEF FrameHeaderWaits, FrameWaits, FrameAlone, FramePushed
<1>6. CASE Filter
  BY <1>2, <1>3, <1>4, <1>5, <1>6 DEF Filter
<1>7. ASSUME NEW fd \in Fds
      PROVE  /\ \A frame \in Frames : lsend(fd, frame) => astray' = astray
             /\ \A n \in 1..Len(stream[fd]) : Data(fd, n) => astray' = astray
             /\ Close(fd) => astray' = astray
  BY DEF Close, lsend, Data
<1>8. CASE lpop \/ lclear \/ UNCHANGED vars
  BY <1>8 DEF lpop, lclear, vars
<1> QED
  BY <1>6, <1>7, <1>8 DEF Next

LEMMA StraysNext == Sound /\ Strays /\ [Next]_vars => Strays'
<1> SUFFICES ASSUME Sound, Strays, [Next]_vars PROVE Strays'
  OBVIOUS
<1>1. pc # "idle" => cur \in Fds
  BY DEF Sound, Call
<1> QED
  BY <1>1, StraysStep DEF Strays

\* lua-websocketnetpack.c is always in a sound state: filter never has two
\* struct uncompletes of a socket, nor reads past the read it was given.
THEOREM WebsocketSound == Spec => []Sound
  BY SoundInit, SoundNext, PTL DEF Spec

\* The types; a struct uncomplete in the table has less than its package, is in
\* the chain where find_uncomplete looks for it, and is the only one of its
\* socket; the ring never overruns.
THEOREM WebsocketTypeOK == Spec => []TypeOK
<1>1. Init => Strays
  BY DEF Init, Strays
<1>2. Sound /\ Strays /\ [Next]_vars => Strays'
  BY StraysNext
<1>3. Sound /\ Strays => TypeOK
  BY SoundTypeOK
<1> QED
  BY <1>1, <1>2, <1>3, WebsocketSound, PTL DEF Spec

\* filter, pop, close and clear free what they allocate, once: the struct
\* uncompletes and the buffers in use are those in the table, in hand or in
\* the ring, but for the struct uncompletes that a close frame read with its
\* header in pieces leaves behind (HeaderCloses).
THEOREM WebsocketHeapExact == Spec => []HeapExact
<1>1. Sound => HeapExact
  BY DEF Sound, Heap
<1> QED
  BY <1>1, WebsocketSound, PTL

(***************************************************************************)
(* The frames.                                                             *)
(***************************************************************************)
\* Where a frame begins in the stream of its socket, and its bytes.
Size(f)  == HeadLength(sent[f].frame) + sent[f].frame.len
Start(f) == sent[f].end - Size(f)
Of(fd)   == {f \in DOMAIN sent : sent[f].fd = fd}

\* The mask that its header gives.
MaskName(f) == IF sent[f].frame.mask THEN <<f, 2>> ELSE None

\* A stream is its frames, as they are encoded, one after the other, without
\* gaps; the close frame is the last one.
Encoded ==
  /\ \A fd \in Fds : \A f \in Of(fd) :
       /\ Start(f) \in Nat /\ sent[f].end <= Len(stream[fd])
       /\ \A j \in 1..Size(f) : stream[fd][Start(f) + j] = Encode(f, sent[f].frame)[j]
  /\ \A fd \in Fds : \A f, g \in Of(fd) :
       f < g => sent[f].end <= Start(g) /\ sent[f].frame.op # "close"
  /\ \A fd \in Fds : \A p \in Nat :
       p < Len(stream[fd]) => \E f \in Of(fd) : Start(f) <= p /\ p < sent[f].end

\* datas has the data frames of each socket in the order in which they were sent.
Numbered ==
  /\ datas \in [Fds -> Seq(Nat)]
  /\ \A fd \in Fds : \A i \in 1..Len(datas[fd]) :
       /\ datas[fd][i] \in Of(fd) /\ sent[datas[fd][i]].frame.op = "data"
       /\ \A k \in 1..Len(datas[fd]) : i < k => datas[fd][i] < datas[fd][k]
  /\ \A fd \in Fds : \A f \in Of(fd) :
       sent[f].frame.op = "data" => \E i \in 1..Len(datas[fd]) : datas[fd][i] = f

\* The bytes of any frame.
Octet == [f : Nat, j : Nat, keys : SUBSET ((Nat \X Nat) \X Nat)]

\* What the caller got, and the ring: it has packages of one socket, the one
\* of the call; before the first package of a read it is empty.
Returns ==
  /\ out \in [Fds -> Seq(Seq(Octet))]
  /\ \A i \in 1..queue_size(queue) :
       At(queue, i) \in [id : Fds, msg : Seq(Octet)] /\ At(queue, i).id = At(queue, 1).id
  /\ pc # "idle" => sock[cur] = "open"
  /\ pc \in {"header", "fill", "frame"} => queue_size(queue) = 0
  /\ pc = "more" /\ queue_size(queue) > 0 => At(queue, 1).id = cur

\* No frame has bytes on both sides of the place.
Between(fd, p) == \A f \in Of(fd) : p <= Start(f) \/ sent[f].end <= p

\* All packages that end before the place were made, and it is between frames.
Passed(fd, p) == p <= Len(stream[fd]) /\ Between(fd, p) /\ Delivered(fd, p)

\* A struct uncomplete whose frame begins at the place: it has the bytes of
\* a header that is not complete, or of a close frame (filter goes on to the
\* end of the read then) ...
HeaderRead(u, p) ==
  /\ u.read = -1 /\ pos[u.id] = p + Len(u.header)
  /\ \A j \in 1..Len(u.header) : u.header[j] = stream[u.id][p + j]
  /\ read_size(u.header) \in {-1, -3}

\* ... or what the header of data frame f says, and the first bytes of its
\* contents, decoded.
ContentsRead(u, p, f) ==
  /\ f \in Of(u.id) /\ sent[f].frame.op = "data" /\ Start(f) = p
  /\ u.read \in Nat /\ pos[u.id] = p + HeadLength(sent[f].frame) + u.read
  /\ u.size = sent[f].frame.len
  /\ u.mask = MaskName(f)
  /\ Len(u.buffer) = u.read
  /\ \A i \in 1..u.read : u.buffer[i] = Plain(f)[i]

BegunAt(u, p) ==
  /\ Passed(u.id, p)
  /\ \/ HeaderRead(u, p)
     \/ \E f \in Of(u.id) : ContentsRead(u, p, f)

Begun(u) == \E p \in Nat : BegunAt(u, p)

Held == Waiting \cup Taken
Busy(fd) == pc # "idle" /\ cur = fd

\* How far filter is with a socket: at a frame's beginning, or in the frame of
\* the socket's struct uncomplete.
Followed(fd) ==
  /\ sock[fd] = "closed" => Delivered(fd, arrived[fd])
  /\ sock[fd] = "open" =>
       /\ ~Busy(fd) => pos[fd] = arrived[fd]
       /\ \A u \in Held : u.id = fd => Begun(u)
       /\ (\A u \in Held : u.id # fd) => Passed(fd, pos[fd])

\* A socket that went astray is not followed any more.
Tracked(fd) == fd \notin astray => Followed(fd)

Exact ==
  /\ Encoded /\ Numbered
  /\ pc # "idle" => phase = "running"
  /\ phase = "running" => Returns /\ \A fd \in Fds : Tracked(fd)

\* A frame of a socket.
LEMMA FrameFacts ==
  ASSUME Streams, NEW fd \in Fds, NEW f \in Of(fd)
  PROVE  /\ f \in DOMAIN sent /\ f \in Nat /\ sent[f].fd = fd /\ sent[f].end \in Nat
         /\ sent[f].frame \in Frame
         /\ sent[f].frame.len \in Nat /\ sent[f].frame.len <= MaxPack
         /\ sent[f].frame.mask \in BOOLEAN
         /\ sent[f].frame.op \in {"data", "skip", "close"}
         /\ HeadLength(sent[f].frame) \in Nat /\ HeadLength(sent[f].frame) >= 2
         /\ Size(f) = HeadLength(sent[f].frame) + sent[f].frame.len
         /\ Size(f) \in Nat /\ Size(f) >= 2
<1>1. f \in DOMAIN sent /\ sent[f].fd = fd
  BY DEF Of
<1>2. f \in Nat
  <2>1. DOMAIN sent = 1..Len(sent) /\ Len(sent) \in Nat
    BY LenProperties DEF Streams
  <2> QED
    BY <1>1, <2>1
<1>3. sent[f] \in [fd : Fds, frame : Frames, end : Nat] /\ sent[f].frame \in Frame
  BY <1>1, FrameOf, ElementOfSeq, LenProperties DEF Streams
<1>4. PICK r : r = sent[f].frame
  OBVIOUS
<1>5. /\ r \in Frame /\ r.len \in 0..MaxPack /\ r.len \in Nat /\ r.mask \in BOOLEAN
      /\ r.op \in {"data", "skip", "close"}
  BY <1>3, <1>4, FrameFields
<1>6. HeadLength(r) \in Nat /\ HeadLength(r) >= 2
  BY <1>5, HeadLengthType
<1>7. MaxPack \in Nat
  BY SizeAssumption
<1> QED
  BY <1>1, <1>2, <1>3, <1>4, <1>5, <1>6, <1>7 DEF Size

\* Where it is in the stream.
LEMMA Placed ==
  ASSUME Streams, Encoded, NEW fd \in Fds, NEW f \in Of(fd)
  PROVE  /\ Start(f) \in Nat /\ sent[f].end = Start(f) + Size(f)
         /\ Start(f) < sent[f].end
         /\ sent[f].end <= Len(stream[fd]) /\ Len(stream[fd]) \in Nat
<1>1. Len(stream[fd]) \in Nat
  BY LenProperties DEF Streams, Bytestring
<1> QED
  BY <1>1, FrameFacts DEF Encoded, Start

\* Frames do not overlap.
LEMMA InOrder ==
  ASSUME Streams, Encoded, NEW fd \in Fds, NEW f \in Of(fd), NEW g \in Of(fd), g # f
  PROVE  \/ g < f /\ sent[g].end <= Start(f)
         \/ f < g /\ sent[f].end <= Start(g) /\ sent[f].frame.op # "close"
<1>1. f \in Nat /\ g \in Nat
  BY FrameFacts
<1> QED
  BY <1>1 DEF Encoded

\* A place between frames is the beginning of one, or the end of the stream.
LEMMA FrameThere ==
  ASSUME Streams, Encoded, NEW fd \in Fds, NEW p \in Nat, Between(fd, p), p < Len(stream[fd])
  PROVE  \E f \in Of(fd) : Start(f) = p
<1>1. PICK f \in Of(fd) : Start(f) <= p /\ p < sent[f].end
  BY DEF Encoded
<1>2. Start(f) \in Nat /\ sent[f].end \in Nat
  BY Placed, FrameFacts
<1>3. p <= Start(f) \/ sent[f].end <= p
  BY DEF Between
<1> QED
  BY <1>1, <1>2, <1>3

\* The close frame is the last one of a stream.
LEMMA CloseLast ==
  ASSUME Streams, Encoded, NEW fd \in Fds, NEW f \in Of(fd), sent[f].frame.op = "close"
  PROVE  Len(stream[fd]) = sent[f].end
<1>1. /\ sent[f].end \in Nat /\ Len(stream[fd]) \in Nat /\ sent[f].end <= Len(stream[fd])
      /\ Start(f) \in Nat /\ Start(f) < sent[f].end
  BY Placed, FrameFacts
<1> SUFFICES ASSUME sent[f].end < Len(stream[fd]) PROVE FALSE
  BY <1>1
<1>2. PICK g \in Of(fd) : Start(g) <= sent[f].end /\ sent[f].end < sent[g].end
  BY <1>1 DEF Encoded
<1>3. sent[g].end \in Nat
  BY FrameFacts
<1>4. g # f
  BY <1>1, <1>2
<1> QED
  BY <1>1, <1>2, <1>3, <1>4, InOrder

\* The end of a frame is between frames.
LEMMA BetweenEnd ==
  ASSUME Streams, Encoded, NEW fd \in Fds, NEW f \in Of(fd)
  PROVE  Between(fd, sent[f].end)
<1> SUFFICES ASSUME NEW g \in Of(fd)
             PROVE  sent[f].end <= Start(g) \/ sent[g].end <= sent[f].end
  BY DEF Between
<1>1. /\ Start(f) \in Nat /\ sent[f].end \in Nat /\ sent[f].end > Start(f)
      /\ Start(g) \in Nat /\ sent[g].end \in Nat
  BY Placed, FrameFacts
<1>2. CASE g = f
  BY <1>1, <1>2
<1>3. CASE g # f
  BY <1>1, <1>3, InOrder
<1> QED
  BY <1>2, <1>3

\* The bytes of a frame.
LEMMA FrameByte ==
  ASSUME Streams, Encoded, NEW fd \in Fds, NEW f \in Of(fd), NEW j \in 1..Size(f)
  PROVE  stream[fd][Start(f) + j]
           = Byte(f, j, IF sent[f].frame.mask /\ j > HeadLength(sent[f].frame)
                        THEN {<<<<f, 2>>, (j - HeadLength(sent[f].frame) - 1) % MaskLen>>} ELSE {})
<1>1. stream[fd][Start(f) + j] = Encode(f, sent[f].frame)[j]
  BY DEF Encoded
<1> QED
  BY <1>1 DEF Encode, Size

\* What filter finds in the first bytes of a frame: the frame's own header.
LEMMA HeadRead ==
  ASSUME Streams, Encoded, NEW fd \in Fds, NEW f \in Of(fd), NEW b \in Bytestring,
         Start(f) + Len(b) <= Len(stream[fd]),
         \A j \in 1..Len(b) : b[j] = stream[fd][Start(f) + j]
  PROVE  /\ Len(b) < 2 => read_size(b) = -1
         /\ Len(b) >= 2 =>
              /\ HeadOf(b) = sent[f].frame
              /\ MaskOf(b) = MaskName(f)
              /\ sent[f].frame.op = "skip"  => read_size(b) = -2
              /\ sent[f].frame.op = "close" => read_size(b) = -3
              /\ sent[f].frame.op = "data" =>
                   read_size(b) = IF Len(b) < HeadLength(sent[f].frame) THEN -1
                                  ELSE sent[f].frame.len
<1>1. Len(b) \in Nat
  BY LenProperties DEF Bytestring
<1>2. CASE Len(b) < 2
  BY <1>1, <1>2 DEF read_size
<1>3. CASE Len(b) >= 2
  <2> DEFINE r == sent[f].frame
  <2>1. /\ Size(f) \in Nat /\ Size(f) >= 2 /\ r \in Frame
        /\ r.len \in Nat /\ r.len <= MaxPack /\ MaxPack \in Nat /\ r.mask \in BOOLEAN
        /\ HeadLength(r) \in Nat
        /\ r.op \in {"data", "skip", "close"}
    BY FrameFacts, SizeAssumption
  <2>2. b[1] = stream[fd][Start(f) + 1] /\ b[2] = stream[fd][Start(f) + 2]
    BY <1>1, <1>3
  <2>3. 1 \in 1..Size(f) /\ 2 \in 1..Size(f)
    BY <2>1
  <2>0. ASSUME NEW j \in 1..Size(f)
          PROVE  stream[fd][Start(f) + j].f = f /\ stream[fd][Start(f) + j].j = j
    <3>1. \E K : stream[fd][Start(f) + j] = Byte(f, j, K)
      BY FrameByte
    <3> QED
      BY <3>1 DEF Byte
  <2>4. b[1].f = f /\ b[1].j = 1
    BY <2>0, <2>2, <2>3
  <2>5. b[2].f = f /\ b[2].j = 2
    BY <2>0, <2>2, <2>3
  <2>6. HeadOf(b) = [r EXCEPT !.op = r.op]
    BY <2>4, <2>5 DEF HeadOf, Seen
  <2> HIDE DEF r
  <2>7. r = [op |-> r.op, mask |-> r.mask, len |-> r.len]
    BY <2>1 DEF Frame, Header
  <2>8. HeadOf(b) = r
    BY <2>6, <2>7
  <2>9. MaskOf(b) = IF sent[f].frame.mask THEN <<f, 2>> ELSE None
    BY <2>5, <2>8 DEF MaskOf, r
  <2>10. /\ r.op = "skip"  => read_size(b) = -2
         /\ r.op = "close" => read_size(b) = -3
         /\ r.op = "data" => read_size(b) = IF Len(b) < HeadLength(r) THEN -1 ELSE r.len
    BY <1>1, <1>3, <2>1, <2>8 DEF read_size
  <2> QED
    BY <1>1, <1>3, <2>8, <2>9, <2>10 DEF r, MaskName
<1> QED
  BY <1>1, <1>2, <1>3

\* A second XOR with the same mask byte undoes the first.
LEMMA XorTwice ==
  ASSUME NEW g, NEW l, NEW z
  PROVE  Xor(Byte(g, l, {z}), z) = Byte(g, l, {})
  BY DEF Xor, Byte

\* decode_wsmask_data undoes the mask: what it makes of bytes of a frame's
\* contents, of which n are decoded already, are the next ones of Plain.
LEMMA Unmasked ==
  ASSUME Streams, Encoded, NEW fd \in Fds, NEW f \in Of(fd), NEW b \in Bytestring,
         NEW n \in Nat, n + Len(b) <= sent[f].frame.len,
         \A i \in 1..Len(b) :
           b[i] = stream[fd][Start(f) + HeadLength(sent[f].frame) + n + i]
  PROVE  \A i \in 1..Len(b) : decode_wsmask_data(b, MaskName(f), n)[i] = Plain(f)[n + i]
<1> SUFFICES ASSUME NEW i \in 1..Len(b)
             PROVE  decode_wsmask_data(b, MaskName(f), n)[i] = Plain(f)[n + i]
  OBVIOUS
<1>0. PICK m : m = MaskName(f)
  OBVIOUS
<1> DEFINE r == sent[f].frame
           h == HeadLength(r)
           k == (n + i - 1) % MaskLen
<1>1. /\ Len(b) \in Nat /\ DOMAIN b = 1..Len(b) /\ h \in Nat /\ r.len \in Nat /\ r.mask \in BOOLEAN
      /\ Size(f) = h + r.len /\ Start(f) \in Nat /\ i \in Nat /\ f \in Nat
  BY LenProperties, FrameFacts, Placed DEF Bytestring
<1>2. /\ h + n + i \in 1..Size(f) /\ h + n + i > h /\ (h + n + i) - h - 1 = n + i - 1
      /\ Start(f) + h + n + i = Start(f) + (h + n + i) /\ i - 1 + n = n + i - 1
  <2>1. n + i <= r.len /\ i >= 1
    BY <1>1
  <2>2. h \in Nat /\ r.len \in Nat /\ Size(f) = h + r.len /\ Start(f) \in Nat /\ i \in Nat
    BY <1>1
  <2> HIDE DEF h, r
  <2>3. h + n + i \in 1..Size(f) /\ h + n + i > h
    BY <2>1, <2>2
  <2>4. Start(f) + h + n + i = Start(f) + (h + n + i)
    BY <2>1, <2>2
  <2>5. (h + n + i) - h - 1 = n + i - 1 /\ i - 1 + n = n + i - 1
    BY <2>2
  <2> QED
    BY <2>3, <2>4, <2>5
<1>3. b[i] = stream[fd][Start(f) + (h + n + i)]
  BY <1>2
<1>4. b[i] = Byte(f, h + n + i, IF r.mask THEN {<<<<f, 2>>, k>>} ELSE {})
  <2>1. PICK j \in 1..Size(f) : j = h + n + i
    BY <1>2
  <2>2. stream[fd][Start(f) + j]
           = Byte(f, j, IF r.mask /\ j > h THEN {<<<<f, 2>>, (j - h - 1) % MaskLen>>} ELSE {})
    BY FrameByte
  <2>3. j > h /\ j - h - 1 = n + i - 1
    BY <1>2, <2>1
  <2> QED
    BY <1>3, <2>1, <2>2, <2>3
<1>5. decode_wsmask_data(b, m, n)[i] = IF m = None THEN b[i] ELSE Xor(b[i], <<m, k>>)
  BY <1>1, <1>2 DEF decode_wsmask_data
<1>6. Plain(f)[n + i] = Byte(f, h + n + i, {})
  <2>1. n + i \in 1..r.len /\ h + (n + i) = h + n + i
    BY <1>1
  <2> QED
    BY <2>1 DEF Plain
<1> HIDE DEF h, k
<1>7. CASE r.mask
  <2>1. m = <<f, 2>> /\ m # None
    BY <1>0, <1>1, <1>7, NoneAssumption DEF MaskName
  <2>2. PICK z : z = <<<<f, 2>>, k>>
    OBVIOUS
  <2>3. b[i] = Byte(f, h + n + i, {z})
    BY <1>4, <1>7, <2>2
  <2>4. decode_wsmask_data(b, m, n)[i] = Xor(b[i], z)
    BY <1>5, <2>1, <2>2
  <2>5. Xor(b[i], z) = Byte(f, h + n + i, {})
    BY <2>3, XorTwice
  <2> QED
    BY <1>0, <1>6, <2>4, <2>5
<1>8. CASE ~r.mask
  <2>1. m = None
    BY <1>0, <1>8 DEF MaskName
  <2>2. decode_wsmask_data(b, m, n)[i] = b[i]
    BY <1>5, <2>1
  <2>3. b[i] = Byte(f, h + n + i, {})
    BY <1>4, <1>8
  <2> QED
    BY <1>0, <1>6, <2>2, <2>3
<1> QED
  BY <1>0, <1>1, <1>7, <1>8

(***************************************************************************)
(* The packages that were made.                                            *)
(***************************************************************************)
\* The data frames of a socket.
LEMMA DataFacts ==
  ASSUME Streams, Encoded, Numbered, NEW fd \in Fds, NEW i \in 1..Len(datas[fd])
  PROVE  /\ datas[fd][i] \in Of(fd) /\ sent[datas[fd][i]].frame.op = "data"
         /\ datas[fd][i] \in Nat /\ sent[datas[fd][i]].end \in Nat
         /\ Len(datas[fd]) \in Nat /\ i \in Nat
<1>1. datas[fd][i] \in Of(fd) /\ sent[datas[fd][i]].frame.op = "data"
  BY DEF Numbered
<1>2. Len(datas[fd]) \in Nat
  BY LenProperties DEF Numbered
<1> QED
  BY <1>1, <1>2, FrameFacts

LEMMA CountNat ==
  ASSUME Packages, Returns, NEW fd \in Fds
  PROVE  Count(fd) \in Nat /\ Len(out[fd]) \in Nat /\ queue_size(queue) \in Nat
<1>1. Len(out[fd]) \in Nat
  BY LenProperties DEF Returns
<1>2. queue_size(queue) \in Nat
  BY RingSize DEF Packages
<1> QED
  BY <1>1, <1>2 DEF Count

\* Bytes in which no data frame ends make no difference.
LEMMA DeliveredTo ==
  ASSUME Streams, Encoded, Numbered, NEW fd \in Fds, NEW p, NEW n, Delivered(fd, p),
         \A g \in Of(fd) : sent[g].frame.op = "data" => (sent[g].end <= p <=> sent[g].end <= n)
  PROVE  Delivered(fd, n)
<1>1. ASSUME NEW i \in 1..Len(datas[fd])
      PROVE  i <= Count(fd) <=> sent[datas[fd][i]].end <= n
  <2>1. datas[fd][i] \in Of(fd) /\ sent[datas[fd][i]].frame.op = "data"
    BY DataFacts
  <2>2. i <= Count(fd) <=> sent[datas[fd][i]].end <= p
    BY DEF Delivered
  <2> QED
    BY <2>1, <2>2
<1> QED
  BY <1>1 DEF Delivered

\* A frame without package is passed.
LEMMA PassedOver ==
  ASSUME Streams, Encoded, Numbered, NEW fd \in Fds, NEW f \in Of(fd),
         sent[f].frame.op # "data", Passed(fd, Start(f))
  PROVE  Passed(fd, sent[f].end)
<1>1. ASSUME NEW g \in Of(fd), sent[g].frame.op = "data"
      PROVE  sent[g].end <= Start(f) <=> sent[g].end <= sent[f].end
  <2>1. g # f
    BY <1>1
  <2>2. /\ Start(f) \in Nat /\ sent[f].end \in Nat /\ Start(f) < sent[f].end
        /\ Start(g) \in Nat /\ sent[g].end \in Nat /\ Start(g) < sent[g].end
    BY Placed, FrameFacts
  <2> QED
    BY <2>1, <2>2, InOrder
<1>2. Delivered(fd, sent[f].end)
  BY <1>1, DeliveredTo DEF Passed
<1> QED
  BY <1>2, BetweenEnd, Placed DEF Passed

\* The package of a data frame is the next one of its socket.
LEMMA NextPackage ==
  ASSUME Streams, Encoded, Numbered, Packages, Returns, NEW fd \in Fds, NEW f \in Of(fd),
         sent[f].frame.op = "data", Delivered(fd, Start(f))
  PROVE  /\ Count(fd) \in Nat /\ Count(fd) + 1 <= Len(datas[fd]) /\ Len(datas[fd]) \in Nat
         /\ datas[fd][Count(fd) + 1] = f
         /\ \A i \in 1..Len(datas[fd]) :
              i <= Count(fd) + 1 <=> sent[datas[fd][i]].end <= sent[f].end
<1>1. PICK k \in 1..Len(datas[fd]) : datas[fd][k] = f
  BY DEF Numbered
<1>2. /\ Count(fd) \in Nat /\ Len(datas[fd]) \in Nat /\ k \in Nat
      /\ Start(f) \in Nat /\ sent[f].end \in Nat /\ Start(f) < sent[f].end /\ f \in Nat
  BY <1>1, CountNat, DataFacts, Placed, FrameFacts
<1>3. \A i \in 1..Len(datas[fd]) : i <= Count(fd) <=> sent[datas[fd][i]].end <= Start(f)
  BY DEF Delivered
<1>4. ~(k <= Count(fd))
  BY <1>1, <1>2, <1>3
<1>5. ASSUME NEW i \in 1..Len(datas[fd]), i < k PROVE sent[datas[fd][i]].end <= Start(f)
  <2>1. datas[fd][i] < f
    BY <1>1, <1>5 DEF Numbered
  <2>2. datas[fd][i] \in Of(fd) /\ datas[fd][i] \in Nat
    BY DataFacts
  <2>3. datas[fd][i] # f
    BY <1>2, <2>1, <2>2
  <2> QED
    BY <1>2, <2>1, <2>2, <2>3, InOrder
<1>6. ASSUME NEW i \in 1..Len(datas[fd]), k < i PROVE sent[f].end < sent[datas[fd][i]].end
  <2>1. f < datas[fd][i]
    BY <1>1, <1>6 DEF Numbered
  <2>2. datas[fd][i] \in Of(fd) /\ datas[fd][i] \in Nat
    BY DataFacts
  <2>3. datas[fd][i] # f
    BY <1>2, <2>1, <2>2
  <2>4. sent[f].end <= Start(datas[fd][i])
    BY <1>2, <2>1, <2>2, <2>3, InOrder
  <2>5. Start(datas[fd][i]) \in Nat /\ Start(datas[fd][i]) < sent[datas[fd][i]].end
        /\ sent[datas[fd][i]].end \in Nat
    BY <2>2, Placed, FrameFacts
  <2> QED
    BY <1>2, <2>4, <2>5
<1>7. k = Count(fd) + 1
  <2> SUFFICES ASSUME k > Count(fd) + 1 PROVE FALSE
    BY <1>2, <1>4
  <2>1. Count(fd) + 1 \in 1..Len(datas[fd]) /\ Count(fd) + 1 < k
    BY <1>2
  <2> QED
    BY <1>2, <1>3, <1>5, <2>1
<1>8. ASSUME NEW i \in 1..Len(datas[fd])
      PROVE  i <= Count(fd) + 1 <=> sent[datas[fd][i]].end <= sent[f].end
  <2>1. i \in Nat /\ sent[datas[fd][i]].end \in Nat
    BY DataFacts
  <2>2. CASE i < k
    BY <1>2, <1>5, <1>7, <2>1, <2>2
  <2>3. CASE i = k
    BY <1>1, <1>2, <1>7, <2>1, <2>3
  <2>4. CASE k < i
    BY <1>2, <1>6, <1>7, <2>1, <2>4
  <2> QED
    BY <1>2, <2>1, <2>2, <2>3, <2>4
<1> QED
  BY <1>1, <1>2, <1>7, <1>8

\* A step that makes no package for a socket.
LEMMA SamePackages ==
  ASSUME UNCHANGED <<sent, stream, datas>>, NEW fd \in Fds, Count(fd)' = Count(fd),
         \A i \in 1..Count(fd) : Made(fd, i)' = Made(fd, i),
         NEW p
  PROVE  /\ Delivered(fd, p) => Delivered(fd, p)'
         /\ Passed(fd, p) => Passed(fd, p)'
<1>1. \A f : Plain(f)' = Plain(f)
  BY DEF Plain
<1>2. Delivered(fd, p) => Delivered(fd, p)'
  BY <1>1 DEF Delivered
<1>3. Between(fd, p)' = Between(fd, p)
  BY DEF Between, Of, Start, Size
<1> QED
  BY <1>2, <1>3 DEF Passed

\* A step that makes one.
LEMMA OneMore ==
  ASSUME Streams, Encoded, Numbered, Packages, Returns, UNCHANGED <<sent, stream, datas>>,
         NEW fd \in Fds, NEW f \in Of(fd), sent[f].frame.op = "data", Passed(fd, Start(f)),
         Count(fd)' = Count(fd) + 1,
         \A i \in 1..Count(fd) : Made(fd, i)' = Made(fd, i),
         NEW n, n = Count(fd) + 1, Made(fd, n)' = Plain(f),
         NEW p, p = sent[f].end
  PROVE  Passed(fd, p)'
<1>1. \A g : Plain(g)' = Plain(g)
  BY DEF Plain
<1>2. /\ Count(fd) \in Nat /\ Count(fd) + 1 <= Len(datas[fd])
      /\ datas[fd][Count(fd) + 1] = f
      /\ \A i \in 1..Len(datas[fd]) : i <= Count(fd) + 1 <=> sent[datas[fd][i]].end <= sent[f].end
  BY NextPackage DEF Passed
<1>3. ASSUME NEW i \in 1..(Count(fd) + 1) PROVE Made(fd, i)' = Plain(datas[fd][i])
  <2>1. CASE i = Count(fd) + 1
    BY <1>2, <2>1
  <2>2. CASE i # Count(fd) + 1
    <3>1. i \in 1..Count(fd)
      BY <1>2, <2>2
    <3> QED
      BY <3>1 DEF Passed, Delivered
  <2> QED
    BY <2>1, <2>2
<1>4. Delivered(fd, p)'
  BY <1>1, <1>2, <1>3 DEF Delivered
<1>5. Between(fd, p)
  BY BetweenEnd
<1>6. Between(fd, p)'
  BY <1>5 DEF Between, Of, Start, Size
<1>7. p <= Len(stream[fd])
  BY Placed
<1> QED
  BY <1>4, <1>6, <1>7 DEF Passed

\* A struct uncomplete that waits has less than its frame: no package ends
\* between the beginning of the frame and what was read.
LEMMA Settled ==
  ASSUME Streams, Encoded, Numbered, NEW u \in Struct, u.read \in -1..(u.size - 1), Begun(u)
  PROVE  Delivered(u.id, pos[u.id])
<1>0. u.id \in Fds /\ u.size \in Nat /\ u.header \in Bytestring /\ Len(u.header) \in Nat
  BY LenProperties DEF Struct, Bytestring
<1> DEFINE fd == u.id
<1>1. PICK p \in Nat : BegunAt(u, p)
  BY DEF Begun
<1>2. /\ p <= Len(stream[fd]) /\ Between(fd, p) /\ Delivered(fd, p)
      /\ Len(stream[fd]) \in Nat /\ pos[fd] \in Nat /\ pos[fd] <= Len(stream[fd])
  <2>1. Len(stream[fd]) \in Nat /\ arrived[fd] \in Nat /\ arrived[fd] <= Len(stream[fd])
        /\ pos[fd] \in Nat /\ pos[fd] <= arrived[fd]
    BY <1>0, LenProperties DEF Streams, Bytestring
  <2> QED
    BY <1>1, <2>1 DEF BegunAt, Passed
<1>3. p <= pos[fd]
  <2>1. CASE HeaderRead(u, p)
    BY <1>0, <2>1 DEF HeaderRead
  <2>2. CASE \E f \in Of(fd) : ContentsRead(u, p, f)
    <3>1. PICK f \in Of(fd) : ContentsRead(u, p, f)
      BY <2>2
    <3> QED
      BY <1>0, <3>1, FrameFacts DEF ContentsRead
  <2> QED
    BY <1>1, <2>1, <2>2 DEF BegunAt
<1>4. CASE pos[fd] = p
  BY <1>2, <1>4
<1>5. CASE p < pos[fd]
  <2>1. PICK f \in Of(fd) : Start(f) = p
    BY <1>0, <1>2, <1>5, FrameThere
  <2>2. /\ sent[f].end \in Nat /\ sent[f].end = p + HeadLength(sent[f].frame) + sent[f].frame.len
        /\ HeadLength(sent[f].frame) \in Nat /\ HeadLength(sent[f].frame) >= 2
        /\ sent[f].frame.len \in Nat /\ sent[f].frame.op \in {"data", "skip", "close"}
    BY <1>0, <2>1, FrameFacts, Placed
  <2>3. \/ pos[fd] < sent[f].end
        \/ sent[f].frame.op = "close" /\ pos[fd] <= sent[f].end
    <3>1. CASE HeaderRead(u, p)
      <4>1. Start(f) + Len(u.header) <= Len(stream[fd]) /\ pos[fd] = p + Len(u.header)
        BY <1>0, <1>2, <2>1, <3>1 DEF HeaderRead
      <4>2. \A j \in 1..Len(u.header) : u.header[j] = stream[fd][Start(f) + j]
        BY <2>1, <3>1 DEF HeaderRead
      <4>3. read_size(u.header) \in {-1, -3}
        BY <3>1 DEF HeaderRead
      <4>4. Len(u.header) >= 2 =>
              /\ sent[f].frame.op = "skip"  => read_size(u.header) = -2
              /\ sent[f].frame.op = "close" => read_size(u.header) = -3
              /\ sent[f].frame.op = "data" =>
                   read_size(u.header) = IF Len(u.header) < HeadLength(sent[f].frame) THEN -1
                                         ELSE sent[f].frame.len
        BY <1>0, <4>1, <4>2, HeadRead
      <4>5. Len(u.header) < HeadLength(sent[f].frame) \/ sent[f].frame.op = "close"
        BY <1>0, <2>2, <4>3, <4>4, SMTT(30)
      <4>6. sent[f].frame.op = "close" => pos[fd] <= sent[f].end
        BY <1>0, <1>2, CloseLast
      <4>7. CASE sent[f].frame.op = "close"
        BY <4>6, <4>7
      <4>8. CASE Len(u.header) < HeadLength(sent[f].frame)
        <5>1. PICK q, h, l, n, e : /\ q = pos[fd] /\ h = Len(u.header) /\ e = sent[f].end
                                   /\ l = HeadLength(sent[f].frame) /\ n = sent[f].frame.len
          OBVIOUS
        <5>2. /\ q = p + h /\ e = p + l + n /\ h < l
              /\ h \in Nat /\ l \in Nat /\ n \in Nat /\ e \in Nat
          BY <1>0, <2>2, <4>1, <4>8, <5>1
        <5>3. q < e
          BY <5>2
        <5> QED
          BY <5>1, <5>3
      <4> QED
        BY <4>5, <4>7, <4>8
    <3>2. CASE \E g \in Of(fd) : ContentsRead(u, p, g)
      <4>1. PICK g \in Of(fd) : ContentsRead(u, p, g)
        BY <3>2
      <4>2. g = f
        <5>1. Start(g) = p
          BY <4>1 DEF ContentsRead
        <5>2. Start(g) < sent[g].end /\ Start(f) < sent[f].end /\ sent[g].end \in Nat
          BY <1>0, Placed, FrameFacts
        <5> QED
          BY <1>0, <2>1, <2>2, <5>1, <5>2, InOrder, SMTT(30)
      <4> QED
        BY <1>0, <2>2, <4>1, <4>2, SMTT(30) DEF ContentsRead
    <3> QED
      BY <1>1, <3>1, <3>2 DEF BegunAt
  <2>4. ASSUME NEW g \in Of(fd), sent[g].frame.op = "data"
        PROVE  sent[g].end <= p <=> sent[g].end <= pos[fd]
    <3>1. sent[g].end \in Nat /\ Start(g) \in Nat /\ Start(g) < sent[g].end
      BY <1>0, Placed, FrameFacts
    <3>2. CASE g = f
      BY <1>2, <2>2, <2>3, <2>4, <3>2
    <3>3. CASE g # f
      BY <1>0, <1>2, <1>5, <2>1, <2>2, <2>3, <3>1, <3>3, InOrder, SMTT(30)
    <3> QED
      BY <3>2, <3>3
  <2> QED
    BY <1>0, <1>2, <2>4, DeliveredTo
<1> QED
  BY <1>2, <1>3, <1>4, <1>5

\* The contents of a frame are bytes.
LEMMA PlainType ==
  ASSUME Streams, NEW fd \in Fds, NEW f \in Of(fd)
  PROVE  Plain(f) \in Seq(Octet)
<1> DEFINE h == HeadLength(sent[f].frame)
           n == sent[f].frame.len
<1>1. f \in Nat /\ h \in Nat /\ n \in Nat
  BY FrameFacts
<1>2. Plain(f) = [i \in 1..n |-> Byte(f, h + i, {})]
  BY DEF Plain
<1> HIDE DEF h, n
<1>3. \A i \in 1..n : Byte(f, h + i, {}) \in Octet
  <2> TAKE i \in 1..n
  <2>1. h + i \in Nat /\ {} \in SUBSET ((Nat \X Nat) \X Nat)
    BY <1>1
  <2> QED
    BY <1>1, <2>1 DEF Byte, Octet
<1> QED
  BY <1>1, <1>2, <1>3

\* So are those of the sockets.
LEMMA Octets ==
  ASSUME Streams, NEW b \in Bytestring
  PROVE  b \in Seq(Octet)
<1>1. DOMAIN sent \subseteq Nat /\ 0..(MaskLen - 1) \subseteq Nat
  <2>1. DOMAIN sent = 1..Len(sent) /\ Len(sent) \in Nat
    BY LenProperties DEF Streams
  <2>2. 0..(MaskLen - 1) \subseteq Nat
    BY SizeAssumption
  <2> QED
    BY <2>1, <2>2
<1>2. ((DOMAIN sent) \X Nat) \X (0..(MaskLen - 1)) \subseteq (Nat \X Nat) \X Nat
  <2>1. PICK D, K : D = DOMAIN sent /\ K = 0..(MaskLen - 1)
    OBVIOUS
  <2>2. D \subseteq Nat /\ K \subseteq Nat
    BY <1>1, <2>1
  <2>3. (D \X Nat) \X K \subseteq (Nat \X Nat) \X Nat
    BY <2>2
  <2> QED
    BY <2>1, <2>3
<1>3. ByteType \subseteq Octet
  <2>1. PICK A, B : A = ((DOMAIN sent) \X Nat) \X (0..(MaskLen - 1)) /\ B = (Nat \X Nat) \X Nat
    OBVIOUS
  <2>2. SUBSET A \subseteq SUBSET B
    BY <1>2, <2>1
  <2> QED
    BY <1>1, <2>1, <2>2 DEF ByteType, Octet
<1> QED
  BY <1>3 DEF Bytestring

\* Bytes that are those of the contents, one by one.
LEMMA IsPlain ==
  ASSUME NEW T, NEW s \in Seq(T), NEW f, Len(s) = sent[f].frame.len,
         \A i \in 1..Len(s) : s[i] = Plain(f)[i]
  PROVE  s = Plain(f)
<1>1. s = [i \in 1..Len(s) |-> s[i]]
  BY LenProperties
<1>2. Plain(f) = [i \in 1..Len(s) |-> Plain(f)[i]]
  BY DEF Plain
<1> QED
  BY <1>1, <1>2

\* A step without packages.
LEMMA Quiet ==
  ASSUME UNCHANGED <<out, queue>>, NEW fd
  PROVE  Count(fd)' = Count(fd) /\ \A i : Made(fd, i)' = Made(fd, i)
  BY DEF Count, Made

\* A package is given to the caller.
LEMMA Given ==
  ASSUME Packages, Returns, UNCHANGED queue, queue_size(queue) = 0, NEW c \in Fds,
         NEW msg \in Seq(Octet), out' = [out EXCEPT ![c] = Append(out[c], msg)]
  PROVE  /\ out' \in [Fds -> Seq(Seq(Octet))]
         /\ Count(c)' = Count(c) + 1
         /\ \A i \in 1..Count(c) : Made(c, i)' = Made(c, i)
         /\ \A n : n = Count(c) + 1 => Made(c, n)' = msg
         /\ \A fd \in Fds : fd # c =>
              Count(fd)' = Count(fd) /\ \A i : Made(fd, i)' = Made(fd, i)
<1>1. out \in [Fds -> Seq(Seq(Octet))] /\ out[c] \in Seq(Seq(Octet)) /\ Len(out[c]) \in Nat
  BY CountNat DEF Returns
<1>2. PICK a : a = Append(out[c], msg)
  OBVIOUS
<1>3. /\ a \in Seq(Seq(Octet)) /\ Len(a) = Len(out[c]) + 1 /\ a[Len(out[c]) + 1] = msg
      /\ \A i \in 1..Len(out[c]) : a[i] = out[c][i]
  BY <1>1, <1>2, AppendProperties
<1>4. out'[c] = a /\ \A fd \in Fds : fd # c => out'[fd] = out[fd]
  BY <1>1, <1>2
<1>5. out' \in [Fds -> Seq(Seq(Octet))]
  BY <1>1, <1>2, <1>3
<1>6. Count(c) = Len(out[c]) /\ Count(c)' = Len(out[c]) + 1
  BY <1>1, <1>3, <1>4 DEF Count
<1>7. \A i \in 1..Count(c) : Made(c, i)' = Made(c, i)
  BY <1>1, <1>3, <1>4, <1>6 DEF Made
<1>8. \A n : n = Count(c) + 1 => Made(c, n)' = msg
  BY <1>1, <1>3, <1>4, <1>6 DEF Made
<1>9. \A fd \in Fds : fd # c => Count(fd)' = Count(fd) /\ \A i : Made(fd, i)' = Made(fd, i)
  BY <1>4 DEF Count, Made
<1> QED
  BY <1>5, <1>6, <1>7, <1>8, <1>9

\* A package goes into the ring.
LEMMA Queued ==
  ASSUME Packages, Returns, UNCHANGED <<sent, out>>, NEW c \in Fds,
         queue_size(queue) > 0 => At(queue, 1).id = c,
         NEW msg \in Bytestring, msg \in Seq(Octet), queue' = push_data(queue, c, msg)
  PROVE  /\ queue_size(queue') > 0 /\ At(queue', 1).id = c
         /\ \A i \in 1..queue_size(queue') :
              At(queue', i) \in [id : Fds, msg : Seq(Octet)] /\ At(queue', i).id = c
         /\ Count(c)' = Count(c) + 1
         /\ \A i \in 1..Count(c) : Made(c, i)' = Made(c, i)
         /\ \A n : n = Count(c) + 1 => Made(c, n)' = msg
         /\ \A fd \in Fds : fd # c =>
              Count(fd)' = Count(fd) /\ \A i \in 1..Count(fd) : Made(fd, i)' = Made(fd, i)
<1> DEFINE k == queue_size(queue)
<1>1. k \in Nat /\ \A fd \in Fds : Len(out[fd]) \in Nat
  BY CountNat
<1>2. /\ queue_size(queue') = k + 1 /\ At(queue', k + 1) = [id |-> c, msg |-> msg]
      /\ \A i \in 1..k : At(queue', i) = At(queue, i)
  BY Pushed
<1>3. \A i \in 1..k : At(queue, i) \in [id : Fds, msg : Seq(Octet)] /\ At(queue, i).id = c
  <2>1. \A i \in 1..k : At(queue, i) \in [id : Fds, msg : Seq(Octet)] /\ At(queue, i).id = At(queue, 1).id
    BY DEF Returns
  <2> QED
    BY <1>1, <2>1
<1>4. \A fd \in Fds : Count(fd) = Len(out[fd]) + IF k > 0 /\ At(queue, 1).id = fd THEN k ELSE 0
  BY DEF Count
<1>5. \A fd \in Fds : Count(fd)' = Len(out[fd]) + IF At(queue', 1).id = fd THEN k + 1 ELSE 0
  BY <1>1, <1>2 DEF Count
<1>6. \A fd \in Fds : \A i : Made(fd, i)' = IF i <= Len(out[fd]) THEN out[fd][i]
                                             ELSE At(queue', i - Len(out[fd])).msg
  BY DEF Made
<1>7. \A fd \in Fds : \A i : Made(fd, i) = IF i <= Len(out[fd]) THEN out[fd][i]
                                            ELSE At(queue, i - Len(out[fd])).msg
  BY DEF Made
<1> HIDE DEF k
<1>8. At(queue', 1).id = c
  BY <1>1, <1>2, <1>3
<1>9. \A i \in 1..(k + 1) : At(queue', i) \in [id : Fds, msg : Seq(Octet)] /\ At(queue', i).id = c
  <2> TAKE i \in 1..(k + 1)
  <2>1. CASE i = k + 1
    BY <1>2, <2>1
  <2>2. CASE i # k + 1
    BY <1>1, <1>2, <1>3, <2>2
  <2> QED
    BY <2>1, <2>2
<1>10. Count(c) = Len(out[c]) + k /\ Count(c)' = Len(out[c]) + (k + 1)
  BY <1>1, <1>4, <1>5, <1>8 DEF k
<1>11. \A i \in 1..Count(c) : Made(c, i)' = Made(c, i)
  <2> TAKE i \in 1..Count(c)
  <2>1. CASE i <= Len(out[c])
    BY <1>6, <1>7, <2>1
  <2>2. CASE ~(i <= Len(out[c]))
    <3>1. i - Len(out[c]) \in 1..k
      BY <1>1, <1>10, <2>2
    <3> QED
      BY <1>2, <1>6, <1>7, <2>2, <3>1
  <2> QED
    BY <2>1, <2>2
<1>12. \A n : n = Count(c) + 1 => Made(c, n)' = msg
  BY <1>1, <1>2, <1>6, <1>10
<1>13. ASSUME NEW fd \in Fds, fd # c
       PROVE  Count(fd)' = Count(fd) /\ \A i \in 1..Count(fd) : Made(fd, i)' = Made(fd, i)
  <2>1. Count(fd) = Len(out[fd]) /\ Count(fd)' = Len(out[fd])
    BY <1>1, <1>4, <1>5, <1>8, <1>13 DEF k
  <2>2. \A i \in 1..Count(fd) : i <= Len(out[fd])
    BY <1>1, <2>1
  <2> QED
    BY <1>6, <1>7, <2>1, <2>2
<1>14. queue_size(queue') > 0
  BY <1>1, <1>2
<1>15. Count(c)' = Count(c) + 1
  <2>1. Len(out[c]) \in Nat
    BY <1>1
  <2>2. \A x, y \in Nat : x + (y + 1) = (x + y) + 1
    OBVIOUS
  <2> QED
    BY <1>1, <1>10, <2>1, <2>2, Zenon
<1>16. \A i \in 1..queue_size(queue') :
         At(queue', i) \in [id : Fds, msg : Seq(Octet)] /\ At(queue', i).id = c
  BY <1>2, <1>9
<1> QED
  BY <1>8, <1>11, <1>12, <1>13, <1>14, <1>15, <1>16

\* pop gives the first package of the ring to the caller.
LEMMA Popped ==
  ASSUME Packages, Returns, ~queue_empty(queue), queue' = queue_pop(queue),
         out' = [out EXCEPT ![queue_front(queue).id] =
                   Append(out[queue_front(queue).id], queue_front(queue).msg)]
  PROVE  /\ out' \in [Fds -> Seq(Seq(Octet))]
         /\ \A i \in 1..queue_size(queue') :
              At(queue', i) \in [id : Fds, msg : Seq(Octet)] /\ At(queue', i).id = At(queue', 1).id
         /\ \A fd \in Fds : /\ Count(fd)' = Count(fd)
                            /\ \A i \in 1..Count(fd) : Made(fd, i)' = Made(fd, i)
<1>0. PICK c, m : c = At(queue, 1).id /\ m = At(queue, 1).msg
  OBVIOUS
<1> DEFINE k == queue_size(queue)
<1>1. /\ k \in Nat /\ k > 0 /\ \A fd \in Fds : Len(out[fd]) \in Nat
      /\ out \in [Fds -> Seq(Seq(Octet))]
  <2>1. k \in Nat /\ k # 0
    BY RingSize DEF Packages
  <2> QED
    BY <2>1, CountNat DEF Returns
<1>2. /\ queue_size(queue') = k - 1 /\ queue_front(queue) = At(queue, 1)
      /\ \A i \in 1..(k - 1) : At(queue', i) = At(queue, i + 1)
  BY RingPop DEF Packages
<1>3. \A i \in 1..k : At(queue, i) \in [id : Fds, msg : Seq(Octet)] /\ At(queue, i).id = c
  BY <1>0 DEF Returns
<1>4. c \in Fds /\ m \in Seq(Octet)
  BY <1>0, <1>1, <1>3
<1>5. out' = [out EXCEPT ![c] = Append(out[c], m)]
  BY <1>0, <1>2
<1>6. \A fd \in Fds : Count(fd) = Len(out[fd]) + IF c = fd THEN k ELSE 0
  BY <1>0, <1>1 DEF Count
<1>7. \A fd \in Fds : Count(fd)' = Len(out'[fd]) + IF k - 1 > 0 /\ At(queue', 1).id = fd THEN k - 1 ELSE 0
  BY <1>2 DEF Count
<1>8. \A fd \in Fds : \A i : Made(fd, i)' = IF i <= Len(out'[fd]) THEN out'[fd][i]
                                             ELSE At(queue', i - Len(out'[fd])).msg
  BY DEF Made
<1>9. \A fd \in Fds : \A i : Made(fd, i) = IF i <= Len(out[fd]) THEN out[fd][i]
                                            ELSE At(queue, i - Len(out[fd])).msg
  BY DEF Made
<1> HIDE DEF k
<1>10. \A i \in 1..(k - 1) : At(queue', i) \in [id : Fds, msg : Seq(Octet)] /\ At(queue', i).id = c
  <2> TAKE i \in 1..(k - 1)
  <2>1. i + 1 \in 1..k
    BY <1>1
  <2> QED
    BY <1>2, <1>3, <2>1
<1>11. PICK a : a = Append(out[c], m)
  OBVIOUS
<1>12. /\ a \in Seq(Seq(Octet)) /\ Len(a) = Len(out[c]) + 1 /\ a[Len(out[c]) + 1] = m
       /\ \A i \in 1..Len(out[c]) : a[i] = out[c][i]
  BY <1>1, <1>4, <1>11, AppendProperties
<1>13. /\ out'[c] = a /\ \A fd \in Fds : fd # c => out'[fd] = out[fd]
       /\ out' \in [Fds -> Seq(Seq(Octet))]
  BY <1>1, <1>4, <1>5, <1>11, <1>12
<1>14. k - 1 > 0 => At(queue', 1).id = c
  BY <1>1, <1>10
<1>16. ASSUME NEW fd \in Fds, fd # c
       PROVE  Count(fd)' = Count(fd) /\ \A i \in 1..Count(fd) : Made(fd, i)' = Made(fd, i)
  <2>0. Len(out[fd]) \in Nat /\ Len(out[fd]) + 0 = Len(out[fd]) /\ out'[fd] = out[fd]
    BY <1>1, <1>13, <1>16
  <2>1. Count(fd) = Len(out[fd]) /\ Count(fd)' = Len(out[fd])
    <3>1. Count(fd) = Len(out[fd]) + 0
      BY <1>6, <1>16
    <3>2. Count(fd)' = Len(out[fd]) + 0
      BY <1>7, <1>14, <1>16, <2>0
    <3> QED
      BY <2>0, <3>1, <3>2
  <2>2. \A i \in 1..Count(fd) : i <= Len(out[fd])
    BY <1>1, <2>1
  <2> QED
    BY <1>8, <1>9, <1>13, <1>16, <2>1, <2>2
<1>17. Count(c) = Len(out[c]) + k /\ Count(c)' = Len(out[c]) + 1 + (k - 1)
  <2>1. Count(c) = Len(out[c]) + k
    BY <1>4, <1>6
  <2>2. CASE k - 1 > 0
    BY <1>4, <1>7, <1>12, <1>13, <1>14, <2>1, <2>2
  <2>3. CASE ~(k - 1 > 0)
    <3>1. k = 1
      BY <1>1, <2>3
    <3> QED
      BY <1>1, <1>4, <1>7, <1>12, <1>13, <2>1, <3>1
  <2> QED
    BY <2>2, <2>3
<1>18. ASSUME NEW i \in 1..Count(c) PROVE Made(c, i)' = Made(c, i)
  <2>1. i \in Nat /\ i >= 1 /\ Len(out[c]) \in Nat /\ i <= Len(out[c]) + k
    BY <1>1, <1>4, <1>17
  <2>2. CASE i <= Len(out[c])
    <3>1. i \in 1..Len(out[c]) /\ i <= Len(a)
      BY <1>12, <2>1, <2>2
    <3>2. Made(c, i) = out[c][i]
      BY <1>4, <1>9, <2>2
    <3>3. Made(c, i)' = a[i]
      BY <1>4, <1>8, <1>13, <3>1
    <3> QED
      BY <1>12, <3>1, <3>2, <3>3
  <2>3. CASE i = Len(out[c]) + 1
    <3>1. ~(i <= Len(out[c])) /\ i - Len(out[c]) = 1 /\ i <= Len(a)
      BY <1>12, <2>1, <2>3
    <3>2. Made(c, i) = At(queue, 1).msg
      BY <1>4, <1>9, <3>1
    <3>3. Made(c, i)' = a[i]
      BY <1>4, <1>8, <1>13, <3>1
    <3> QED
      BY <1>0, <1>12, <2>3, <3>2, <3>3
  <2>4. CASE i > Len(out[c]) + 1
    <3> DEFINE j == i - Len(a)
    <3>1. j \in 1..(k - 1) /\ j + 1 = i - Len(out[c]) /\ ~(i <= Len(a)) /\ ~(i <= Len(out[c]))
      <4>1. PICK l : l = Len(out[c])
        OBVIOUS
      <4>2. k \in Nat /\ l \in Nat /\ Len(a) = l + 1 /\ i \in Nat /\ i <= l + k /\ i > l + 1
        BY <1>1, <1>12, <2>1, <2>4, <4>1
      <4> QED
        BY <4>1, <4>2
    <3>2. Made(c, i)' = At(queue', j).msg
      BY <1>4, <1>8, <1>13, <3>1
    <3>3. Made(c, i) = At(queue, j + 1).msg
      BY <1>4, <1>9, <3>1
    <3> HIDE DEF j
    <3> QED
      BY <1>2, <3>1, <3>2, <3>3
  <2> QED
    BY <2>1, <2>2, <2>3, <2>4
<1>19. Count(c)' = Count(c)
  BY <1>1, <1>4, <1>17
<1>20. \A fd \in Fds : Count(fd)' = Count(fd) /\ \A i \in 1..Count(fd) : Made(fd, i)' = Made(fd, i)
  BY <1>16, <1>18, <1>19
<1>21. \A i \in 1..queue_size(queue') :
         At(queue', i) \in [id : Fds, msg : Seq(Octet)] /\ At(queue', i).id = At(queue', 1).id
  BY <1>1, <1>2, <1>10, <1>14
<1> QED
  BY <1>13, <1>20, <1>21

(***************************************************************************)
(* How far filter is with the sockets.                                     *)
(***************************************************************************)
LEMMA EncodedSame ==
  ASSUME UNCHANGED <<sent, stream, datas>>
  PROVE  /\ Encoded => Encoded'
         /\ Numbered => Numbered'
  BY DEF Encoded, Numbered, Of, Start, Size

\* A struct uncomplete of a socket that a step does not concern.
LEMMA BegunSame ==
  ASSUME UNCHANGED <<sent, stream, datas>>, NEW u, u.id \in Fds, pos'[u.id] = pos[u.id],
         Count(u.id)' = Count(u.id),
         \A i \in 1..Count(u.id) : Made(u.id, i)' = Made(u.id, i),
         Begun(u)
  PROVE  Begun(u)'
<1>1. PICK p \in Nat : BegunAt(u, p)
  BY DEF Begun
<1>2. Passed(u.id, p)'
  BY <1>1, SamePackages DEF BegunAt
<1>3. HeaderRead(u, p) => HeaderRead(u, p)'
  BY DEF HeaderRead, read_size, HeadOf, Seen
<1>4. \A f : ContentsRead(u, p, f) => ContentsRead(u, p, f)'
  BY DEF ContentsRead, Of, Start, Size, Plain, MaskName
<1>5. Of(u.id)' = Of(u.id)
  BY DEF Of
<1>6. BegunAt(u, p)'
  BY <1>1, <1>2, <1>3, <1>4, <1>5 DEF BegunAt
<1> QED
  BY <1>6 DEF Begun

\* And such a socket.
LEMMA FollowedSame ==
  ASSUME UNCHANGED <<sent, stream, datas>>, NEW fd \in Fds, Followed(fd),
         pos'[fd] = pos[fd], arrived'[fd] = arrived[fd], sock'[fd] = sock[fd],
         Count(fd)' = Count(fd), \A i \in 1..Count(fd) : Made(fd, i)' = Made(fd, i),
         \A u : u.id = fd => (u \in Held' <=> u \in Held),
         ~Busy(fd)
  PROVE  Followed(fd)'
<1>1. ASSUME NEW u, u.id = fd, Begun(u) PROVE Begun(u)'
  BY <1>1, BegunSame
<1>2. sock[fd] = "closed" => Delivered(fd, arrived[fd])'
  <2>1. PICK p : p = arrived[fd]
    OBVIOUS
  <2>2. sock[fd] = "closed" => Delivered(fd, p)
    BY <2>1 DEF Followed
  <2>3. sock[fd] = "closed" => Delivered(fd, p)'
    BY <2>2, SamePackages
  <2> QED
    BY <2>1, <2>3 DEF Delivered
<1>3. sock[fd] = "open" /\ (\A u \in Held' : u.id # fd) => Passed(fd, pos[fd])'
  <2>1. PICK p : p = pos[fd]
    OBVIOUS
  <2>2. sock[fd] = "open" /\ (\A u \in Held' : u.id # fd) => Passed(fd, p)
    BY <2>1 DEF Followed
  <2>3. sock[fd] = "open" /\ (\A u \in Held' : u.id # fd) => Passed(fd, p)'
    BY <2>2, SamePackages
  <2> QED
    BY <2>1, <2>3 DEF Passed, Delivered, Between
<1>4. sock[fd] = "open" => pos'[fd] = arrived'[fd]
  BY DEF Followed
<1>5. sock[fd] = "open" => \A u \in Held' : u.id = fd => Begun(u)'
  BY <1>1 DEF Followed
<1> QED
  BY <1>2, <1>3, <1>4, <1>5 DEF Followed

\* A socket that find_uncomplete does not find has no struct uncomplete.
LEMMA NoneWaits ==
  ASSUME Chained, NEW fd \in Fds, Absent(fd), NEW u \in Waiting
  PROVE  u.id # fd
<1> SUFFICES ASSUME u.id = fd PROVE FALSE
  OBVIOUS
<1>1. PICK h \in DOMAIN hash : u \in ToSet(hash[h])
  BY DEF Waiting
<1>2. h = hash_fd[fd] /\ hash[h] \in Seq(Struct)
  BY <1>1, ChainFacts
<1>3. PICK i \in 1..Len(hash[h]) : hash[h][i] = u
  BY <1>1, <1>2, InToSet
<1>4. i \in DOMAIN Chain(fd) /\ Chain(fd)[i] = u
  BY <1>2, <1>3, LenProperties DEF Chain
<1> QED
  BY <1>4 DEF Absent

\* The struct uncompletes of the socket of the call.
LEMMA HeldNow ==
  ASSUME Sound, pc # "idle"
  PROVE  /\ cur \in Fds /\ \A u \in Waiting : u.id # cur
         /\ pc \in {"header", "fill"} => Held = Waiting \cup {uc} /\ uc.id = cur
         /\ pc \notin {"header", "fill"} => Held = Waiting
<1>1. cur \in Fds /\ Absent(cur) /\ Chained
  BY DEF Sound, Call
<1>2. \A u \in Waiting : u.id # cur
  BY <1>1, NoneWaits
<1>3. pc \in {"header", "fill"} => Held = Waiting \cup {uc} /\ uc.id = cur
  BY DEF Held, Taken, Sound, Call
<1>4. pc \notin {"header", "fill"} => Held = Waiting
  BY DEF Held, Taken
<1> QED
  BY <1>1, <1>2, <1>3, <1>4

\* A step of filter concerns its own socket only.
Moved ==
  /\ pc # "idle"
  /\ pc' = "idle" \/ cur' = cur
  /\ UNCHANGED <<sent, stream, datas, arrived, sock, phase>>
  /\ \A fd \in Fds : fd # cur =>
       /\ fd \in astray' <=> fd \in astray
       /\ pos'[fd] = pos[fd] /\ Count(fd)' = Count(fd)
       /\ \A i \in 1..Count(fd) : Made(fd, i)' = Made(fd, i)

LEMMA OthersTracked ==
  ASSUME Sound, \A fd \in Fds : Tracked(fd), Moved,
         \A u : u.id # cur => (u \in Held' <=> u \in Held),
         NEW fd \in Fds, fd # cur
  PROVE  Tracked(fd)'
<1>1. ~Busy(fd)
  BY DEF Busy
<1>2. \A u : u.id = fd => (u \in Held' <=> u \in Held)
  OBVIOUS
<1>3. /\ UNCHANGED <<sent, stream, datas>>
      /\ pos'[fd] = pos[fd] /\ arrived'[fd] = arrived[fd] /\ sock'[fd] = sock[fd]
      /\ Count(fd)' = Count(fd) /\ \A i \in 1..Count(fd) : Made(fd, i)' = Made(fd, i)
  BY DEF Moved
<1>4. Followed(fd) => Followed(fd)'
  BY <1>1, <1>2, <1>3, FollowedSame
<1>5. fd \in astray' <=> fd \in astray
  BY DEF Moved
<1> QED
  BY <1>4, <1>5 DEF Tracked

\* A step after which filter is between two frames of its socket.
LEMMA StepBetween ==
  ASSUME Sound, \A fd \in Fds : Tracked(fd), Moved, NEW c, c = cur, sock[c] = "open",
         Waiting' = Waiting, pc' \notin {"header", "fill"},
         NEW p, p = pos'[c], Passed(c, p)', pc' = "idle" => p = arrived[c]
  PROVE  \A fd \in Fds : Tracked(fd)'
<1>1. /\ pc # "idle" /\ arrived' = arrived /\ sock' = sock
      /\ pc' = "idle" \/ cur' = c
  BY DEF Moved
<1>2. c \in Fds /\ \A u \in Waiting : u.id # c
  BY <1>1, HeldNow
<1>3. Held' = Waiting
  BY DEF Held, Taken
<1>4. \A u : u.id # cur => (u \in Held' <=> u \in Held)
  BY <1>1, <1>3, HeldNow
<1>5. Passed(c, pos[c])'
  BY DEF Passed, Delivered, Between
<1>6. Followed(c)'
  BY <1>1, <1>2, <1>3, <1>5 DEF Followed, Busy
<1> QED
  BY <1>4, <1>6, OthersTracked DEF Tracked

\* A step after which the socket has a struct uncomplete in the table.
LEMMA StepWaits ==
  ASSUME Sound, \A fd \in Fds : Tracked(fd), Moved, NEW c, c = cur, sock[c] = "open",
         pc' = "idle", NEW u, u.id = c, Waiting' = Waiting \cup {u}, Begun(u)',
         pos'[c] = arrived[c]
  PROVE  \A fd \in Fds : Tracked(fd)'
<1>1. pc # "idle" /\ arrived' = arrived /\ sock' = sock
  BY DEF Moved
<1>2. c \in Fds /\ \A v \in Waiting : v.id # c
  BY <1>1, HeldNow
<1>3. Held' = Waiting \cup {u}
  BY DEF Held, Taken
<1>4. \A v : v.id # cur => (v \in Held' <=> v \in Held)
  BY <1>1, <1>3, HeldNow
<1>5. \A v \in Held' : v.id = c => v = u
  BY <1>2, <1>3
<1>6. Followed(c)'
  BY <1>1, <1>2, <1>3, <1>5 DEF Followed
<1> QED
  BY <1>4, <1>6, OthersTracked DEF Tracked

\* A step after which filter has one in hand.
LEMMA StepHolds ==
  ASSUME Sound, \A fd \in Fds : Tracked(fd), Moved, NEW c, c = cur, sock[c] = "open",
         pc' \in {"header", "fill"}, NEW u, u = uc', u.id = c, Waiting' = Waiting, Begun(u)'
  PROVE  \A fd \in Fds : Tracked(fd)'
<1>1. pc # "idle" /\ arrived' = arrived /\ sock' = sock /\ cur' = c
  BY DEF Moved
<1>2. c \in Fds /\ \A v \in Waiting : v.id # c
  BY <1>1, HeldNow
<1>3. Held' = Waiting \cup {u}
  BY DEF Held, Taken
<1>4. \A v : v.id # cur => (v \in Held' <=> v \in Held)
  BY <1>1, <1>3, HeldNow
<1>5. \A v \in Held' : v.id = c => v = u
  BY <1>2, <1>3
<1>6. Followed(c)'
  BY <1>1, <1>2, <1>3, <1>5 DEF Followed, Busy
<1> QED
  BY <1>4, <1>6, OthersTracked DEF Tracked

(***************************************************************************)
(* The steps of filter, again.                                             *)
(***************************************************************************)
\* The call that runs.
LEMMA CallNow ==
  ASSUME Sound, Exact, pc # "idle"
  PROVE  /\ Streams /\ Packages /\ Encoded /\ Numbered /\ Returns /\ phase = "running"
         /\ \A fd \in Fds : Tracked(fd)
         /\ cur \in Fds /\ sock[cur] = "open"
         /\ pos[cur] \in Nat /\ arrived[cur] \in Nat /\ Len(stream[cur]) \in Nat /\ sz \in Nat
         /\ pos[cur] + sz = arrived[cur] /\ arrived[cur] <= Len(stream[cur])
         /\ pc \in {"header", "fill"} => uc.id = cur /\ uc \in Struct
         /\ pc \in {"header", "fill"} /\ cur \notin astray => Begun(uc)
         /\ pc \notin {"header", "fill"} /\ cur \notin astray => Passed(cur, pos[cur])
<1>1. /\ Streams /\ Packages /\ Encoded /\ Numbered /\ Returns /\ phase = "running"
      /\ \A fd \in Fds : Tracked(fd)
  BY DEF Sound, Exact
<1>2. cur \in Fds /\ sock[cur] = "open"
  BY <1>1, HeldNow DEF Returns
<1>3. /\ pos[cur] \in Nat /\ arrived[cur] \in Nat /\ Len(stream[cur]) \in Nat /\ sz \in Nat
      /\ pos[cur] + sz = arrived[cur] /\ arrived[cur] <= Len(stream[cur])
  BY <1>1, <1>2, SzType, LenProperties DEF Streams, Bytestring
<1>4. pc \in {"header", "fill"} => uc.id = cur /\ uc \in Struct
  BY HeldNow DEF Sound, Call
<1>5. pc \in {"header", "fill"} /\ cur \notin astray => Begun(uc)
  BY <1>1, <1>2, HeldNow DEF Tracked, Followed
<1>6. pc \notin {"header", "fill"} /\ cur \notin astray => Passed(cur, pos[cur])
  BY <1>1, <1>2, HeldNow DEF Tracked, Followed
<1> QED
  BY <1>1, <1>2, <1>3, <1>4, <1>5, <1>6

\* The bytes of the read.
LEMMA ReadBytes ==
  ASSUME Streams, cur \in Fds, NEW n \in Nat, n <= sz
  PROVE  /\ Bytes(n) \in Bytestring /\ Len(Bytes(n)) = n
         /\ \A i \in 1..n : Bytes(n)[i] = stream[cur][pos[cur] + i]
<1>1. Bytes(n) \in Bytestring /\ Len(Bytes(n)) = n
  BY BytesRead
<1>2. /\ stream[cur] \in Seq(ByteType) /\ Len(stream[cur]) \in Nat
      /\ pos[cur] \in Nat /\ arrived[cur] \in Nat /\ arrived[cur] <= Len(stream[cur])
      /\ sz = arrived[cur] - pos[cur]
  BY SzType, LenProperties DEF Streams, Bytestring
<1>3. pos[cur] + n <= Len(stream[cur])
  BY <1>2
<1>4. \A i \in 1..n : SubSeq(stream[cur], pos[cur] + 1, pos[cur] + n)[i] = stream[cur][pos[cur] + i]
  BY <1>2, <1>3, Part
<1> QED
  BY <1>1, <1>4 DEF Bytes

\* A step without packages of a socket that has a call.
LEMMA MovedQuiet ==
  ASSUME Streams, pc # "idle", pc' = "idle" \/ cur' = cur, cur \in Fds, NEW n, Advance(n),
         astray' = astray \/ astray' = astray \cup {cur},
         UNCHANGED <<sent, stream, datas, arrived, sock, phase, out, queue>>
  PROVE  Moved /\ pos'[cur] = pos[cur] + n
<1>1. pos'[cur] = pos[cur] + n /\ \A fd \in Fds : fd # cur => pos'[fd] = pos[fd]
  BY DEF Streams, Advance
<1> QED
  BY <1>1, Quiet DEF Moved

\* The parts of Exact after such a step.
LEMMA ExactNext ==
  ASSUME Encoded, Numbered, UNCHANGED <<sent, stream, datas, phase>>, phase = "running",
         Returns', \A fd \in Fds : Tracked(fd)'
  PROVE  Exact'
  BY EncodedSame DEF Exact

\* What a call at a header has: the first bytes of a frame.
LEMMA HeaderAt ==
  ASSUME Sound, Exact, pc = "header", cur \notin astray
  PROVE  \E p \in Nat : Passed(cur, p) /\ HeaderRead(uc, p)
<1>1. Begun(uc) /\ uc.id = cur /\ uc.read = -1
  BY CallNow DEF Sound, Call
<1>2. PICK p \in Nat : BegunAt(uc, p)
  BY <1>1 DEF Begun
<1>3. \A f : ~ContentsRead(uc, p, f)
  BY <1>1 DEF ContentsRead
<1> QED
  BY <1>1, <1>2, <1>3 DEF BegunAt

\* A frame that ends in another one is that one.
LEMMA EndsThere ==
  ASSUME Streams, Encoded, NEW fd \in Fds, NEW f \in Of(fd), NEW g \in Of(fd),
         Start(f) < sent[g].end, sent[g].end <= sent[f].end
  PROVE  g = f
<1> SUFFICES ASSUME g # f PROVE FALSE
  OBVIOUS
<1>1. /\ Start(f) \in Nat /\ sent[f].end \in Nat
      /\ Start(g) \in Nat /\ sent[g].end \in Nat /\ Start(g) < sent[g].end
  BY Placed, FrameFacts
<1> QED
  BY <1>1, InOrder

\* A socket that bytes are dropped of and that does not go astray is at the end
\* of a frame.
LEMMA Dropped ==
  ASSUME NEW n, Drop(n)
  PROVE  /\ astray' = astray \/ astray' = astray \cup {cur}
         /\ cur \notin astray' => cur \notin astray /\ \E g \in Of(cur) : sent[g].end = pos[cur] + n
         /\ cur \in astray' /\ cur \notin astray => \A g \in Of(cur) : sent[g].end # pos[cur] + n
  BY DEF Drop, Of

LEMMA NextDropped ==
  ASSUME NextByte
  PROVE  /\ astray' = astray \/ astray' = astray \cup {cur}
         /\ cur \notin astray' =>
              /\ cur \notin astray
              /\ read_size(Longer) = -2 => \E g \in Of(cur) : sent[g].end = pos[cur] + 1
         /\ cur \in astray' /\ cur \notin astray =>
              read_size(Longer) = -2 /\ \A g \in Of(cur) : sent[g].end # pos[cur] + 1
<1>1. CASE read_size(Longer) = -2
  BY <1>1, Dropped DEF NextByte
<1>2. CASE read_size(Longer) # -2
  BY <1>2 DEF NextByte
<1> QED
  BY <1>1, <1>2

\* Longer is the first bytes of a frame: of a data frame not more than its
\* header, of a frame that filter drops the two bytes that it drops.
LEMMA LongerAt ==
  ASSUME Sound, Exact, pc = "header", cur \notin astray
  PROVE  /\ Longer \in Bytestring /\ Len(Longer) \in Nat /\ sz >= 1
         /\ \E f \in Of(cur) :
              /\ Start(f) \in Nat /\ Passed(cur, Start(f))
              /\ pos[cur] + 1 = Start(f) + Len(Longer)
              /\ Start(f) + Len(Longer) <= Len(stream[cur])
              /\ \A j \in 1..Len(Longer) : Longer[j] = stream[cur][Start(f) + j]
              /\ sent[f].frame.op = "data" => Len(Longer) <= HeadLength(sent[f].frame)
              /\ read_size(Longer) = -2 => Len(Longer) = 2 /\ sent[f].frame.op = "skip"
              /\ read_size(Longer) = -3 => Len(Longer) >= 2 /\ sent[f].frame.op = "close"
<1>1. /\ Streams /\ Encoded /\ Numbered /\ cur \in Fds /\ uc \in Struct
      /\ pos[cur] \in Nat /\ arrived[cur] \in Nat /\ Len(stream[cur]) \in Nat /\ sz \in Nat
      /\ pos[cur] + sz = arrived[cur] /\ arrived[cur] <= Len(stream[cur]) /\ uc.id = cur
  BY CallNow
<1>2. sz >= 1
  BY InHand DEF Sound
<1>3. PICK p \in Nat : Passed(cur, p) /\ HeaderRead(uc, p)
  BY HeaderAt
<1> DEFINE a == uc.header
           b == Append(a, Bytes(1)[1])
<1>4. a \in Seq(ByteType) /\ a \in Bytestring /\ Len(a) \in Nat
  BY <1>1, LenProperties DEF Struct, Bytestring
<1>5. /\ pos[cur] = p + Len(a) /\ read_size(a) \in {-1, -3}
      /\ \A j \in 1..Len(a) : a[j] = stream[cur][p + j]
  BY <1>1, <1>3 DEF HeaderRead
<1>6. Bytes(1)[1] \in ByteType /\ Bytes(1)[1] = stream[cur][pos[cur] + 1]
  <2>1. Bytes(1) \in Seq(ByteType) /\ Len(Bytes(1)) = 1 /\ \A i \in 1..1 : Bytes(1)[i] = stream[cur][pos[cur] + i]
    BY <1>1, <1>2, ReadBytes DEF Bytestring
  <2> QED
    BY <2>1, ElementOfSeq
<1>7. /\ b \in Bytestring /\ Len(b) = Len(a) + 1 /\ b[Len(a) + 1] = Bytes(1)[1]
      /\ \A j \in 1..Len(a) : b[j] = a[j]
  BY <1>4, <1>6, AppendProperties DEF Bytestring
<1> HIDE DEF b
<1>8. \A j \in 1..Len(b) : b[j] = stream[cur][p + j]
  <2> TAKE j \in 1..Len(b)
  <2>1. CASE j = Len(a) + 1
    <3>1. pos[cur] + 1 = p + j
      BY <1>4, <1>5, <2>1
    <3> QED
      BY <1>6, <1>7, <2>1, <3>1
  <2>2. CASE j # Len(a) + 1
    <3>1. j \in 1..Len(a)
      BY <1>4, <1>7, <2>2
    <3> QED
      BY <1>5, <1>7, <3>1
  <2> QED
    BY <2>1, <2>2
<1> HIDE DEF a
<1>9. p + Len(b) <= Len(stream[cur]) /\ p + Len(b) = pos[cur] + 1 /\ p < Len(stream[cur])
  BY <1>1, <1>2, <1>4, <1>5, <1>7
<1>10. PICK f \in Of(cur) : Start(f) = p
  BY <1>1, <1>3, <1>9, FrameThere DEF Passed
<1> DEFINE r == sent[f].frame
<1>11. /\ r.op \in {"data", "skip", "close"} /\ r.len \in Nat
       /\ HeadLength(r) \in Nat /\ HeadLength(r) >= 2
  BY <1>1, FrameFacts
<1>12. /\ Len(a) < 2 => read_size(a) = -1
       /\ Len(a) >= 2 =>
            /\ r.op = "skip"  => read_size(a) = -2
            /\ r.op = "close" => read_size(a) = -3
            /\ r.op = "data" => read_size(a) = IF Len(a) < HeadLength(r) THEN -1 ELSE r.len
  <2>1. Start(f) + Len(a) <= Len(stream[cur])
    BY <1>1, <1>4, <1>5, <1>10
  <2> QED
    BY <1>1, <1>4, <1>5, <1>10, <2>1, HeadRead
<1>13. /\ Len(b) < 2 => read_size(b) = -1
       /\ Len(b) >= 2 =>
            /\ r.op = "skip"  => read_size(b) = -2
            /\ r.op = "close" => read_size(b) = -3
            /\ r.op = "data" => read_size(b) = IF Len(b) < HeadLength(r) THEN -1 ELSE r.len
  BY <1>1, <1>7, <1>8, <1>9, <1>10, HeadRead
<1> HIDE DEF r
<1>14. r.op = "data" => Len(b) <= HeadLength(r)
  BY <1>4, <1>5, <1>7, <1>11, <1>12
<1>15. read_size(b) = -2 => Len(b) = 2 /\ r.op = "skip"
  BY <1>4, <1>5, <1>7, <1>11, <1>12, <1>13
<1>16. read_size(b) = -3 => Len(b) >= 2 /\ r.op = "close"
  BY <1>4, <1>7, <1>11, <1>13
<1>17. b = Longer /\ Len(b) \in Nat
  BY <1>4, <1>7 DEF b, a, Longer
<1> QED
  BY <1>2, <1>3, <1>7, <1>8, <1>9, <1>10, <1>14, <1>15, <1>16, <1>17 DEF r

\* NextHeader is the first bytes of a frame, and not more than its header,
\* unless a frame that filter drops goes on after the two bytes.
LEMMA NextHeaderAt ==
  ASSUME Sound, Exact, pc = "header", cur \notin astray,
         read_size(Longer) = -2 => \E g \in Of(cur) : sent[g].end = pos[cur] + 1
  PROVE  /\ NextHeader \in Bytestring /\ Len(NextHeader) \in Nat /\ sz >= 1
         /\ read_size(NextHeader) # -2
         /\ \E q \in Nat :
              /\ Passed(cur, q) /\ pos[cur] + 1 = q + Len(NextHeader)
              /\ \A j \in 1..Len(NextHeader) : NextHeader[j] = stream[cur][q + j]
              /\ \A f \in Of(cur) : Start(f) = q /\ sent[f].frame.op = "data"
                                      => Len(NextHeader) <= HeadLength(sent[f].frame)
<1>1. Streams /\ Encoded /\ Numbered /\ cur \in Fds
  BY CallNow
<1>2. Longer \in Bytestring /\ Len(Longer) \in Nat /\ sz >= 1
  BY LongerAt
<1>3. PICK f \in Of(cur) :
        /\ Start(f) \in Nat /\ Passed(cur, Start(f))
        /\ pos[cur] + 1 = Start(f) + Len(Longer)
        /\ \A j \in 1..Len(Longer) : Longer[j] = stream[cur][Start(f) + j]
        /\ sent[f].frame.op = "data" => Len(Longer) <= HeadLength(sent[f].frame)
        /\ read_size(Longer) = -2 => Len(Longer) = 2 /\ sent[f].frame.op = "skip"
  BY LongerAt
<1>4. PICK b, p : b = Longer /\ p = Start(f)
  OBVIOUS
<1>5. NextHeader = IF read_size(b) = -2 THEN SubSeq(b, 3, Len(b)) ELSE b
  BY <1>4 DEF NextHeader
<1>6. CASE read_size(b) = -2
  <2>1. Len(b) = 2 /\ b \in Seq(ByteType) /\ sent[f].frame.op # "data" /\ p \in Nat
    BY <1>2, <1>3, <1>4, <1>6 DEF Bytestring
  <2>2. NextHeader = SubSeq(b, 2 + 1, 2 + 0)
    BY <1>5, <1>6, <2>1
  <2>3. NextHeader \in Bytestring /\ Len(NextHeader) = 0
    BY <2>1, <2>2, Part DEF Bytestring
  <2>4. sent[f].end = p + 2 /\ pos[cur] + 1 = p + 2
    <3>1. PICK g \in Of(cur) : sent[g].end = p + 2
      BY <1>3, <1>4, <1>6, <2>1
    <3>2. sent[f].end = p + Size(f) /\ Size(f) \in Nat /\ Size(f) >= 2 /\ sent[f].end \in Nat
      BY <1>1, <1>4, Placed, FrameFacts
    <3>3. g = f
      BY <1>1, <1>4, <2>1, <3>1, <3>2, EndsThere
    <3> QED
      BY <1>3, <1>4, <2>1, <3>1, <3>3
  <2>5. Passed(cur, sent[f].end)
    BY <1>1, <1>3, <2>1, PassedOver
  <2>6. \A g \in Of(cur) : HeadLength(sent[g].frame) \in Nat
    BY <1>1, FrameFacts
  <2>7. read_size(NextHeader) = -1
    BY <2>3 DEF read_size
  <2>8. p + 2 \in Nat /\ Passed(cur, p + 2) /\ pos[cur] + 1 = (p + 2) + Len(NextHeader)
    BY <2>1, <2>3, <2>4, <2>5
  <2>9. \A j \in 1..Len(NextHeader) : NextHeader[j] = stream[cur][(p + 2) + j]
    BY <2>3
  <2>10. \A g \in Of(cur) : Len(NextHeader) <= HeadLength(sent[g].frame)
    BY <2>3, <2>6
  <2> QED
    BY <1>2, <2>3, <2>7, <2>8, <2>9, <2>10
<1>7. CASE read_size(b) # -2
  <2>1. NextHeader = b
    BY <1>5, <1>7
  <2>2. ASSUME NEW g \in Of(cur), Start(g) = p, sent[g].frame.op = "data"
        PROVE  Len(b) <= HeadLength(sent[g].frame)
    <3>1. g = f
      <4>1. Start(g) < sent[g].end /\ Start(f) < sent[f].end /\ sent[g].end \in Nat /\ sent[f].end \in Nat
        BY <1>1, Placed, FrameFacts
      <4> QED
        BY <1>1, <1>3, <1>4, <2>2, <4>1, InOrder
    <3> QED
      BY <1>3, <1>4, <2>2, <3>1
  <2> QED
    BY <1>2, <1>3, <1>4, <1>7, <2>1, <2>2
<1> QED
  BY <1>6, <1>7

\* Nothing is left of a header that is dropped.
LEMMA HeaderDropped ==
  ASSUME Sound, Exact, pc = "header", cur \notin astray, read_size(Longer) = -2
  PROVE  read_size(NextHeader) = -1
<1>1. Longer \in Seq(ByteType) /\ Len(Longer) = 2
  BY LongerAt DEF Bytestring
<1>2. NextHeader = SubSeq(Longer, 3, Len(Longer))
  BY DEF NextHeader
<1>3. NextHeader = SubSeq(Longer, 2 + 1, 2 + 0)
  BY <1>1, <1>2
<1>4. Len(NextHeader) = 0
  BY <1>1, <1>3, Part
<1> QED
  BY <1>4 DEF read_size

\* The header of a close frame, which ends the stream.
LEMMA HeaderOfClose ==
  ASSUME Sound, Exact, pc = "header", cur \notin astray, read_size(NextHeader) = -3
  PROVE  /\ NextHeader = Longer
         /\ \E f \in Of(cur) :
              /\ sent[f].frame.op = "close" /\ Passed(cur, Start(f))
              /\ Start(f) + 2 <= pos[cur] + 1 /\ pos[cur] + 1 <= sent[f].end
<1>1. Streams /\ Encoded /\ cur \in Fds
  BY CallNow
<1>2. Longer \in Bytestring /\ Len(Longer) \in Nat
  BY LongerAt
<1>3. PICK f \in Of(cur) :
        /\ Start(f) \in Nat /\ Passed(cur, Start(f))
        /\ pos[cur] + 1 = Start(f) + Len(Longer)
        /\ Start(f) + Len(Longer) <= Len(stream[cur])
        /\ read_size(Longer) = -2 => Len(Longer) = 2 /\ sent[f].frame.op = "skip"
        /\ read_size(Longer) = -3 => Len(Longer) >= 2 /\ sent[f].frame.op = "close"
  BY LongerAt
<1>4. read_size(Longer) # -2
  BY HeaderDropped
<1>5. NextHeader = Longer
  BY <1>4 DEF NextHeader
<1>6. sent[f].frame.op = "close" /\ Len(Longer) >= 2
  BY <1>3, <1>5
<1>7. sent[f].end = Len(stream[cur])
  BY <1>1, <1>6, CloseLast
<1> QED
  BY <1>2, <1>3, <1>5, <1>6, <1>7

LEMMA ExactHeaderGoesOn ==
  ASSUME Sound, Exact, HeaderGoesOn, cur \notin astray' PROVE Exact'
<1>0. /\ cur \notin astray /\ (astray' = astray \/ astray' = astray \cup {cur})
      /\ read_size(Longer) = -2 => \E g \in Of(cur) : sent[g].end = pos[cur] + 1
  BY NextDropped DEF HeaderGoesOn
<1>1. /\ pc = "header" /\ pc' = pc /\ cur' = cur /\ uc' = [uc EXCEPT !.header = NextHeader]
      /\ read_size(NextHeader) < 0 /\ sz > 1 /\ Advance(1)
  BY NextByteAdvances DEF HeaderGoesOn
<1>2. UNCHANGED <<sent, stream, datas, arrived, sock, phase, hash, out, queue>>
  BY DEF HeaderGoesOn, cvars, fvars
<1>3. /\ Streams /\ Encoded /\ Numbered /\ cur \in Fds /\ uc \in Struct /\ uc.id = cur
      /\ pos[cur] \in Nat /\ arrived[cur] \in Nat /\ Len(stream[cur]) \in Nat /\ sz \in Nat
      /\ pos[cur] + sz = arrived[cur] /\ arrived[cur] <= Len(stream[cur])
      /\ Returns /\ phase = "running" /\ sock[cur] = "open" /\ \A fd \in Fds : Tracked(fd)
  BY <1>1, CallNow
<1>4. NextHeader \in Bytestring /\ read_size(NextHeader) # -2
  BY <1>0, <1>1, NextHeaderAt
<1>5. read_size(NextHeader) \in {-1, -3}
  BY <1>1, <1>3, <1>4, ReadSize
<1>6. PICK q \in Nat : /\ Passed(cur, q) /\ pos[cur] + 1 = q + Len(NextHeader)
                       /\ \A j \in 1..Len(NextHeader) : NextHeader[j] = stream[cur][q + j]
  BY <1>0, <1>1, NextHeaderAt
<1>7. PICK c, u, b : c = cur /\ u = uc' /\ b = NextHeader
  OBVIOUS
<1>8. u.id = c /\ u.read = -1 /\ u.header = b
  <2>1. uc.read = -1
    BY <1>1, InHand DEF Sound
  <2> QED
    BY <1>1, <1>3, <1>7, <2>1 DEF Struct
<1>9. Moved /\ pos'[c] = pos[c] + 1
  BY <1>0, <1>1, <1>2, <1>3, <1>7, MovedQuiet
<1>10. Passed(c, q)'
  BY <1>2, <1>3, <1>6, <1>7, Quiet, SamePackages
<1>11. HeaderRead(u, q)'
  <2>1. read_size(b)' = read_size(b)
    BY <1>2 DEF read_size, HeadOf, Seen
  <2> QED
    BY <1>2, <1>5, <1>6, <1>7, <1>8, <1>9, <2>1 DEF HeaderRead
<1>12. Begun(u)'
  BY <1>8, <1>10, <1>11 DEF Begun, BegunAt
<1>13. Waiting' = Waiting
  BY <1>2 DEF Waiting
<1>14. \A fd \in Fds : Tracked(fd)'
  BY <1>1, <1>3, <1>7, <1>8, <1>9, <1>12, <1>13, StepHolds
<1>15. Returns'
  BY <1>1, <1>2, <1>3 DEF Returns
<1> QED
  BY <1>2, <1>3, <1>14, <1>15, ExactNext

LEMMA ExactHeaderWaits ==
  ASSUME Sound, Exact, HeaderWaits, cur \notin astray' PROVE Exact'
<1>0. /\ cur \notin astray /\ (astray' = astray \/ astray' = astray \cup {cur})
      /\ read_size(Longer) = -2 => \E g \in Of(cur) : sent[g].end = pos[cur] + 1
  BY NextDropped DEF HeaderWaits
<1>1. /\ pc = "header" /\ pc' = "idle" /\ read_size(NextHeader) = -1 /\ sz = 1 /\ Advance(1)
      /\ hash' = Linked([uc EXCEPT !.header = NextHeader])
  BY NextByteAdvances DEF HeaderWaits, Return
<1>2. UNCHANGED <<sent, stream, datas, arrived, sock, phase, out, queue>>
  BY DEF HeaderWaits, cvars, fvars
<1>3. /\ Streams /\ Encoded /\ Numbered /\ cur \in Fds /\ uc \in Struct /\ uc.id = cur
      /\ pos[cur] + sz = arrived[cur]
      /\ Returns /\ phase = "running" /\ sock[cur] = "open" /\ \A fd \in Fds : Tracked(fd)
  BY <1>1, CallNow
<1>4. NextHeader \in Bytestring
  BY <1>0, <1>1, NextHeaderAt
<1>5. PICK q \in Nat : /\ Passed(cur, q) /\ pos[cur] + 1 = q + Len(NextHeader)
                       /\ \A j \in 1..Len(NextHeader) : NextHeader[j] = stream[cur][q + j]
  BY <1>0, <1>1, NextHeaderAt
<1>6. PICK c, u, b : c = cur /\ u = [uc EXCEPT !.header = NextHeader] /\ b = NextHeader
  OBVIOUS
<1>7. /\ u \in Struct /\ u.id = c /\ u.read = -1 /\ u.header = b /\ Absent(u.id)
      /\ u.read \in -1..(u.size - 1)
  <2>1. uc.read = -1 /\ Absent(cur) /\ uc.size \in Nat
    BY <1>1, InHand DEF Sound
  <2> QED
    BY <1>3, <1>4, <1>6, <2>1 DEF Struct
<1>8. Moved /\ pos'[c] = pos[c] + 1
  BY <1>0, <1>1, <1>2, <1>3, <1>6, MovedQuiet
<1>9. Passed(c, q)'
  BY <1>2, <1>3, <1>5, <1>6, Quiet, SamePackages
<1>10. HeaderRead(u, q)'
  <2>1. read_size(b)' = read_size(b)
    BY <1>2 DEF read_size, HeadOf, Seen
  <2> QED
    BY <1>1, <1>2, <1>5, <1>6, <1>7, <1>8, <2>1 DEF HeaderRead
<1>11. Begun(u)'
  BY <1>7, <1>9, <1>10 DEF Begun, BegunAt
<1>12. Waiting' = Waiting \cup {u}
  BY <1>1, <1>2, <1>6, <1>7, LinkedFacts DEF Sound
<1>13. \A fd \in Fds : Tracked(fd)'
  BY <1>1, <1>3, <1>6, <1>7, <1>8, <1>11, <1>12, StepWaits
<1>14. Returns'
  BY <1>1, <1>2, <1>3 DEF Returns
<1> QED
  BY <1>2, <1>3, <1>13, <1>14, ExactNext

LEMMA ExactHeaderCloses ==
  ASSUME Sound, Exact, HeaderCloses, cur \notin astray' PROVE Exact'
<1>0. /\ cur \notin astray /\ (astray' = astray \/ astray' = astray \cup {cur})
      /\ \E g \in Of(cur) : sent[g].end = pos[cur] + 1
  BY Dropped DEF HeaderCloses
<1>1. /\ pc = "header" /\ pc' = "idle" /\ read_size(NextHeader) = -3 /\ sz = 1 /\ Advance(1)
  BY DEF HeaderCloses, Drop, Return
<1>2. UNCHANGED <<sent, stream, datas, arrived, sock, phase, hash, out, queue>>
  BY DEF HeaderCloses, cvars, fvars
<1>3. /\ Streams /\ Encoded /\ Numbered /\ cur \in Fds
      /\ pos[cur] + sz = arrived[cur]
      /\ Returns /\ phase = "running" /\ sock[cur] = "open" /\ \A fd \in Fds : Tracked(fd)
  BY <1>1, CallNow
<1>4. PICK c, p : c = cur /\ p = pos[cur] + 1
  OBVIOUS
<1>5. Passed(c, p)
  <2>1. PICK f \in Of(cur) : /\ sent[f].frame.op = "close" /\ Passed(cur, Start(f))
                             /\ Start(f) + 2 <= p /\ p <= sent[f].end
    BY <1>0, <1>1, <1>4, HeaderOfClose
  <2>2. PICK g \in Of(cur) : sent[g].end = p
    BY <1>0, <1>4
  <2>3. g = f
    <3>1. Start(f) \in Nat /\ p \in Nat
      BY <1>3, <2>2, Placed, FrameFacts
    <3> QED
      BY <1>3, <2>1, <2>2, <3>1, EndsThere
  <2> QED
    BY <1>3, <1>4, <2>1, <2>2, <2>3, PassedOver
<1>6. Moved /\ pos'[c] = p
  BY <1>0, <1>1, <1>2, <1>3, <1>4, MovedQuiet
<1>7. Passed(c, p)'
  BY <1>2, <1>3, <1>4, <1>5, Quiet, SamePackages
<1>8. Waiting' = Waiting
  BY <1>2 DEF Waiting
<1>9. \A fd \in Fds : Tracked(fd)'
  BY <1>1, <1>3, <1>4, <1>6, <1>7, <1>8, StepBetween
<1>10. Returns'
  BY <1>1, <1>2, <1>3 DEF Returns
<1> QED
  BY <1>2, <1>3, <1>9, <1>10, ExactNext

LEMMA ExactHeaderDone ==
  ASSUME Sound, Exact, HeaderDone, cur \notin astray' PROVE Exact'
<1> DEFINE b == NextHeader
<1>1. /\ pc = "header" /\ pc' = "fill" /\ cur' = cur /\ read_size(b) >= 0 /\ Advance(1)
      /\ uc' = Started(cur, read_size(b), MaskOf(b), <<>>)
  BY DEF HeaderDone
<1>2. UNCHANGED <<sent, stream, datas, arrived, sock, phase, astray, hash, out, queue>>
  BY DEF HeaderDone, cvars, fvars
<1>3. /\ Streams /\ Encoded /\ Numbered /\ cur \in Fds
      /\ pos[cur] \in Nat /\ arrived[cur] \in Nat /\ Len(stream[cur]) \in Nat /\ sz \in Nat
      /\ pos[cur] + sz = arrived[cur] /\ arrived[cur] <= Len(stream[cur])
      /\ Returns /\ phase = "running" /\ sock[cur] = "open" /\ \A fd \in Fds : Tracked(fd)
  BY <1>1, CallNow
<1>0. read_size(Longer) # -2 /\ cur \notin astray
  BY <1>1, <1>2, HeaderDropped
<1>4. b \in Bytestring /\ Len(b) \in Nat /\ sz >= 1
  BY <1>0, <1>1, NextHeaderAt
<1>5. PICK q \in Nat :
        /\ Passed(cur, q) /\ pos[cur] + 1 = q + Len(b)
        /\ \A j \in 1..Len(b) : b[j] = stream[cur][q + j]
        /\ \A f \in Of(cur) : Start(f) = q /\ sent[f].frame.op = "data"
                                => Len(b) <= HeadLength(sent[f].frame)
  BY <1>0, <1>1, NextHeaderAt
<1> HIDE DEF b
<1>6. Len(b) >= 2
  BY <1>1, <1>3, <1>4, ReadSize
<1>7. q < Len(stream[cur]) /\ q + Len(b) <= Len(stream[cur])
  BY <1>3, <1>4, <1>5, <1>6
<1>8. PICK f \in Of(cur) : Start(f) = q
  BY <1>3, <1>5, <1>7, FrameThere DEF Passed
<1>9. /\ sent[f].frame.op \in {"data", "skip", "close"} /\ sent[f].frame.len \in Nat
      /\ HeadLength(sent[f].frame) \in Nat /\ f \in DOMAIN sent
  BY <1>3, FrameFacts
<1>10. /\ MaskOf(b) = MaskName(f)
       /\ sent[f].frame.op = "skip"  => read_size(b) = -2
       /\ sent[f].frame.op = "close" => read_size(b) = -3
       /\ sent[f].frame.op = "data" =>
            read_size(b) = IF Len(b) < HeadLength(sent[f].frame) THEN -1 ELSE sent[f].frame.len
  BY <1>3, <1>4, <1>5, <1>6, <1>7, <1>8, HeadRead
<1>11. sent[f].frame.op = "data"
  BY <1>1, <1>9, <1>10
<1>12. Len(b) = HeadLength(sent[f].frame) /\ read_size(b) = sent[f].frame.len
  BY <1>1, <1>4, <1>5, <1>8, <1>9, <1>10, <1>11
<1>13. PICK c, u, m : c = cur /\ u = uc' /\ m = MaskOf(b)
  OBVIOUS
<1>14. u.id = c /\ u.read = 0 /\ u.size = sent[f].frame.len /\ u.mask = m /\ Len(u.buffer) = 0
  <2>1. m \in ((DOMAIN sent) \X Nat) \cup {None} /\ <<>> \in Bytestring /\ Len(<<>>) = 0
    BY <1>9, <1>10, <1>13 DEF Bytestring, MaskName
  <2>2. Len(decode_wsmask_data(<<>>, m, 0)) = 0
    BY <1>3, <2>1, Decoded, SMTT(30)
  <2> QED
    BY <1>1, <1>12, <1>13, <2>2 DEF Started
<1>15. Moved /\ pos'[c] = pos[c] + 1
  BY <1>1, <1>2, <1>3, <1>13, MovedQuiet
<1>16. Passed(c, q)'
  BY <1>2, <1>3, <1>5, <1>13, Quiet, SamePackages
<1>17. ContentsRead(u, q, f)'
  <2>1. \A i \in 1..0 : u.buffer[i] = Plain(f)[i]
    OBVIOUS
  <2>2. pos'[c] = q + HeadLength(sent[f].frame) + 0
    BY <1>5, <1>9, <1>12, <1>13, <1>15
  <2>3. Of(c)' = Of(c) /\ Start(f)' = Start(f) /\ MaskName(f)' = MaskName(f)
    BY <1>2 DEF Of, Start, Size, MaskName
  <2> QED
    BY <1>2, <1>8, <1>10, <1>11, <1>13, <1>14, <2>2, <2>3 DEF ContentsRead
<1>18. Begun(u)'
  <2>1. f \in Of(c)'
    BY <1>2, <1>13 DEF Of
  <2> QED
    BY <1>14, <1>16, <1>17, <2>1 DEF Begun, BegunAt
<1>19. Waiting' = Waiting
  BY <1>2 DEF Waiting
<1>20. \A fd \in Fds : Tracked(fd)'
  BY <1>1, <1>3, <1>13, <1>14, <1>15, <1>18, <1>19, StepHolds
<1>21. Returns'
  BY <1>1, <1>2, <1>3 DEF Returns
<1> QED
  BY <1>2, <1>3, <1>20, <1>21, ExactNext

\* What a call inside a package has: the first bytes of the contents.
LEMMA FillAt ==
  ASSUME Sound, Exact, pc = "fill", cur \notin astray
  PROVE  \E f \in Of(cur) : Passed(cur, Start(f)) /\ ContentsRead(uc, Start(f), f)
<1>1. Begun(uc) /\ uc.id = cur /\ uc.read \in Nat
  BY CallNow, InHand DEF Sound
<1>2. PICK p \in Nat : BegunAt(uc, p)
  BY <1>1 DEF Begun
<1>3. ~HeaderRead(uc, p)
  BY <1>1 DEF HeaderRead
<1>4. PICK f \in Of(cur) : ContentsRead(uc, p, f)
  BY <1>1, <1>2, <1>3 DEF BegunAt
<1> QED
  BY <1>1, <1>2, <1>4 DEF BegunAt, ContentsRead

\* What it has with n bytes more.
LEMMA FillReads ==
  ASSUME Sound, Exact, pc = "fill", NEW f \in Of(cur), ContentsRead(uc, Start(f), f),
         NEW n \in Nat, n <= sz, n <= need, NEW b, b = Bytes(n),
         NEW u, u = Continued(uc, b)
  PROVE  /\ u \in Struct /\ u.id = cur /\ u.read = uc.read + n /\ u.read \in Nat
         /\ u.size = sent[f].frame.len /\ u.mask = uc.mask
         /\ u.buffer \in Bytestring /\ Len(u.buffer) = u.read
         /\ \A i \in 1..u.read : u.buffer[i] = Plain(f)[i]
<1>1. /\ Streams /\ Encoded /\ cur \in Fds /\ uc \in Struct /\ uc.id = cur
      /\ pos[cur] \in Nat /\ sz \in Nat
  BY CallNow
<1>2. uc.read \in Nat /\ uc.size \in Nat /\ uc.buffer \in Seq(ByteType) /\ uc.mask \in ((DOMAIN sent) \X Nat) \cup {None}
  BY <1>1, InHand DEF Sound, Struct, Bytestring
<1>3. b \in Bytestring /\ Len(b) = n /\ \A i \in 1..n : b[i] = stream[cur][pos[cur] + i]
  BY <1>1, ReadBytes
<1>4. /\ uc.size = sent[f].frame.len /\ uc.mask = MaskName(f)
      /\ pos[cur] = Start(f) + HeadLength(sent[f].frame) + uc.read
      /\ Len(uc.buffer) = uc.read /\ \A i \in 1..uc.read : uc.buffer[i] = Plain(f)[i]
  BY <1>1 DEF ContentsRead
<1> DEFINE d == decode_wsmask_data(b, uc.mask, uc.read)
<1>5. uc.read + Len(b) <= sent[f].frame.len
  BY <1>2, <1>3, <1>4 DEF need
<1>6. /\ HeadLength(sent[f].frame) \in Nat /\ Start(f) \in Nat
  BY <1>1, FrameFacts, Placed
<1>7. PICK k \in Nat : k = uc.read
  BY <1>2
<1>8. \A i \in 1..Len(b) : d[i] = Plain(f)[uc.read + i]
  <2>1. k + Len(b) <= sent[f].frame.len /\ b \in Bytestring
    BY <1>3, <1>5, <1>7
  <2>2. \A i \in 1..Len(b) : b[i] = stream[cur][Start(f) + HeadLength(sent[f].frame) + k + i]
    BY <1>3, <1>4, <1>7
  <2>3. \A i \in 1..Len(b) : decode_wsmask_data(b, MaskName(f), k)[i] = Plain(f)[k + i]
    BY <1>1, <2>1, <2>2, Unmasked
  <2> QED
    BY <1>4, <1>7, <2>3
<1>9. d \in Seq(ByteType) /\ Len(d) = n
  <2>1. PICK m \in ((DOMAIN sent) \X Nat) \cup {None} : m = uc.mask
    BY <1>2
  <2>2. decode_wsmask_data(b, m, k) \in Bytestring /\ Len(decode_wsmask_data(b, m, k)) = Len(b)
    BY <1>1, <1>3, Decoded
  <2> QED
    BY <1>3, <1>7, <2>1, <2>2 DEF Bytestring
<1> HIDE DEF d
<1>10. PICK e : e = uc.buffer \o d
  OBVIOUS
<1>11. /\ e \in Seq(ByteType) /\ Len(e) = uc.read + n
       /\ \A i \in 1..(uc.read + n) : e[i] = IF i <= uc.read THEN uc.buffer[i] ELSE d[i - uc.read]
  <2>1. /\ uc.buffer \o d \in Seq(ByteType)
        /\ Len(uc.buffer \o d) = Len(uc.buffer) + Len(d)
        /\ \A i \in 1..(Len(uc.buffer) + Len(d)) :
             (uc.buffer \o d)[i] = IF i <= Len(uc.buffer) THEN uc.buffer[i] ELSE d[i - Len(uc.buffer)]
    BY <1>2, <1>9, ConcatProperties
  <2> QED
    BY <1>4, <1>9, <1>10, <2>1
<1>12. \A i \in 1..(uc.read + n) : e[i] = Plain(f)[i]
  <2> TAKE i \in 1..(uc.read + n)
  <2>1. CASE i <= uc.read
    <3>1. i \in 1..uc.read
      BY <1>2, <2>1
    <3>2. e[i] = uc.buffer[i]
      BY <1>11, <2>1
    <3>3. uc.buffer[i] = Plain(f)[i]
      BY <1>4, <3>1
    <3> QED
      BY <3>2, <3>3
  <2>2. CASE ~(i <= uc.read)
    <3>1. i - uc.read \in 1..Len(b) /\ uc.read + (i - uc.read) = i
      BY <1>2, <1>3, <2>2
    <3>2. e[i] = d[i - uc.read]
      BY <1>11, <2>2
    <3>3. d[i - uc.read] = Plain(f)[uc.read + (i - uc.read)]
      BY <1>8, <3>1
    <3> QED
      BY <3>1, <3>2, <3>3
  <2> QED
    BY <2>1, <2>2
<1>13. u \in Struct /\ u.id = cur /\ u.size = uc.size /\ u.read = uc.read + n
  BY <1>1, <1>2, <1>3, ContinuedType
<1>14. u.buffer = e /\ u.mask = uc.mask
  BY <1>1, <1>10 DEF Continued, Struct, d
<1>15. e \in Bytestring
  BY <1>11 DEF Bytestring
<1>16. uc.read + n \in Nat
  BY <1>2
<1> QED
  BY <1>4, <1>11, <1>12, <1>13, <1>14, <1>15, <1>16

LEMMA ExactFillPart ==
  ASSUME Sound, Exact, FillPart, cur \notin astray' PROVE Exact'
<1>1. /\ pc = "fill" /\ pc' = "idle" /\ sz < need /\ Advance(sz)
      /\ hash' = Linked(Continued(uc, buffer))
  BY DEF FillPart, Return
<1>2. UNCHANGED <<sent, stream, datas, arrived, sock, phase, astray, out, queue>>
  BY DEF FillPart, cvars, fvars
<1>3. /\ Streams /\ Encoded /\ Numbered /\ cur \in Fds /\ uc \in Struct /\ uc.id = cur
      /\ pos[cur] \in Nat /\ sz \in Nat /\ pos[cur] + sz = arrived[cur]
      /\ Returns /\ phase = "running" /\ sock[cur] = "open" /\ \A fd \in Fds : Tracked(fd)
  BY <1>1, CallNow
<1>4. uc.read \in Nat /\ uc.size \in Nat /\ Absent(cur)
  BY <1>1, InHand DEF Sound
<1>5. PICK f \in Of(cur) : Passed(cur, Start(f)) /\ ContentsRead(uc, Start(f), f)
  BY <1>1, <1>2, FillAt
<1>6. PICK c, u, p : c = cur /\ u = Continued(uc, buffer) /\ p = Start(f)
  OBVIOUS
<1>7. /\ u \in Struct /\ u.id = c /\ u.read = uc.read + sz /\ u.read \in Nat
      /\ u.size = sent[f].frame.len /\ u.mask = uc.mask
      /\ Len(u.buffer) = u.read /\ \A i \in 1..u.read : u.buffer[i] = Plain(f)[i]
  <2>1. need \in Int
    BY <1>4 DEF need
  <2>2. sz <= sz /\ sz <= need /\ u = Continued(uc, Bytes(sz))
    BY <1>1, <1>3, <1>6, <2>1 DEF buffer
  <2> QED
    BY <1>1, <1>3, <1>5, <1>6, <2>2, FillReads
<1>8. /\ sent[f].frame.op = "data" /\ uc.mask = MaskName(f)
      /\ pos[c] = p + HeadLength(sent[f].frame) + uc.read /\ uc.size = sent[f].frame.len
  BY <1>3, <1>5, <1>6 DEF ContentsRead
<1>9. HeadLength(sent[f].frame) \in Nat /\ p \in Nat
  BY <1>3, <1>6, FrameFacts, Placed
<1>10. u.read \in -1..(u.size - 1)
  BY <1>1, <1>3, <1>4, <1>7, <1>8 DEF need
<1>11. Moved /\ pos'[c] = pos[c] + sz
  BY <1>1, <1>2, <1>3, <1>6, MovedQuiet
<1>12. Passed(c, p)'
  BY <1>2, <1>3, <1>5, <1>6, Quiet, SamePackages
<1>13. ContentsRead(u, p, f)'
  <2>1. pos'[c] = p + HeadLength(sent[f].frame) + u.read
    BY <1>3, <1>4, <1>7, <1>8, <1>9, <1>11
  <2>2. /\ Of(c)' = Of(c) /\ Start(f)' = Start(f) /\ Plain(f)' = Plain(f)
        /\ MaskName(f)' = MaskName(f)
    BY <1>2 DEF Of, Start, Size, Plain, MaskName
  <2> QED
    BY <1>2, <1>6, <1>7, <1>8, <2>1, <2>2 DEF ContentsRead
<1>14. Begun(u)'
  <2>1. f \in Of(c)'
    BY <1>2, <1>6 DEF Of
  <2> QED
    BY <1>7, <1>9, <1>12, <1>13, <2>1 DEF Begun, BegunAt
<1>15. Waiting' = Waiting \cup {u}
  BY <1>1, <1>2, <1>4, <1>6, <1>7, <1>10, LinkedFacts DEF Sound
<1>16. \A fd \in Fds : Tracked(fd)'
  BY <1>1, <1>3, <1>6, <1>7, <1>11, <1>14, <1>15, StepWaits
<1>17. Returns'
  BY <1>1, <1>2, <1>3 DEF Returns
<1> QED
  BY <1>2, <1>3, <1>16, <1>17, ExactNext

\* The package that a call completes is the contents of its frame.
LEMMA FillWhole ==
  ASSUME Sound, Exact, pc = "fill", NEW f \in Of(cur), ContentsRead(uc, Start(f), f), need <= sz
  PROVE  /\ need \in Nat
         /\ Continued(uc, Bytes(need)).buffer \in Bytestring
         /\ Continued(uc, Bytes(need)).buffer = Plain(f)
         /\ Plain(f) \in Seq(Octet)
         /\ sent[f].frame.op = "data" /\ pos[cur] + need = sent[f].end
<1>1. Streams /\ Encoded /\ cur \in Fds /\ uc.id = cur /\ sz \in Nat
  BY CallNow
<1>2. uc.read \in Nat /\ uc.size \in Nat /\ uc.read <= uc.size
  BY InHand DEF Sound
<1>3. need \in Nat /\ uc.read + need = uc.size
  BY <1>2 DEF need
<1>4. PICK u : u = Continued(uc, Bytes(need))
  OBVIOUS
<1>5. /\ u.read = uc.read + need /\ u.buffer \in Bytestring /\ Len(u.buffer) = u.read
      /\ \A i \in 1..u.read : u.buffer[i] = Plain(f)[i]
  BY <1>3, <1>4, FillReads
<1>6. /\ sent[f].frame.op = "data" /\ uc.size = sent[f].frame.len
      /\ pos[cur] = Start(f) + HeadLength(sent[f].frame) + uc.read
  BY <1>1 DEF ContentsRead
<1>7. u.buffer = Plain(f)
  BY <1>3, <1>5, <1>6, IsPlain DEF Bytestring
<1>8. sent[f].end = Start(f) + (HeadLength(sent[f].frame) + sent[f].frame.len)
      /\ Start(f) \in Nat /\ HeadLength(sent[f].frame) \in Nat
  BY <1>1, Placed, FrameFacts
<1>9. pos[cur] + need = sent[f].end
  BY <1>2, <1>3, <1>6, <1>8
<1> QED
  BY <1>1, <1>3, <1>4, <1>5, <1>6, <1>7, <1>9, PlainType

LEMMA ExactFillLast ==
  ASSUME Sound, Exact, FillLast, cur \notin astray' PROVE Exact'
<1>1. /\ pc = "fill" /\ pc' = "idle" /\ sz = need /\ Advance(need)
      /\ Deliver(Continued(uc, buffer).buffer)
  BY DEF FillLast, Return
<1>2. UNCHANGED <<sent, stream, datas, arrived, sock, phase, astray, hash, queue>>
  BY DEF FillLast, cvars, fvars
<1>3. /\ Streams /\ Packages /\ Encoded /\ Numbered /\ cur \in Fds
      /\ pos[cur] + sz = arrived[cur] /\ sz \in Nat
      /\ Returns /\ phase = "running" /\ sock[cur] = "open" /\ \A fd \in Fds : Tracked(fd)
  BY <1>1, CallNow
<1>4. PICK f \in Of(cur) : Passed(cur, Start(f)) /\ ContentsRead(uc, Start(f), f)
  BY <1>1, <1>2, FillAt
<1>5. PICK c, p, m, n : c = cur /\ p = sent[f].end /\ m = Plain(f) /\ n = Count(cur) + 1
  OBVIOUS
<1>6. /\ Continued(uc, buffer).buffer = m /\ m \in Seq(Octet)
      /\ sent[f].frame.op = "data" /\ pos[c] + need = p
  <2>1. need <= sz
    BY <1>1, <1>3
  <2> QED
    BY <1>1, <1>4, <1>5, <2>1, FillWhole DEF buffer
<1>7. out' = [out EXCEPT ![c] = Append(out[c], m)]
  BY <1>1, <1>3, <1>5, <1>6 DEF Deliver, Returns
<1>8. queue_size(queue) = 0
  BY <1>1, <1>3 DEF Returns
<1>9. /\ out' \in [Fds -> Seq(Seq(Octet))] /\ Count(c)' = Count(c) + 1
      /\ \A i \in 1..Count(c) : Made(c, i)' = Made(c, i)
      /\ Made(c, n)' = m
      /\ \A fd \in Fds : fd # c => Count(fd)' = Count(fd) /\ \A i : Made(fd, i)' = Made(fd, i)
  BY <1>2, <1>3, <1>5, <1>6, <1>7, <1>8, Given
<1>10. Passed(c, p)'
  BY <1>2, <1>3, <1>4, <1>5, <1>6, <1>9, OneMore
<1>11. pos'[c] = p /\ \A fd \in Fds : fd # c => pos'[fd] = pos[fd]
  BY <1>1, <1>3, <1>5, <1>6 DEF Streams, Advance
<1>12. Moved
  BY <1>1, <1>2, <1>5, <1>9, <1>11 DEF Moved
<1>13. Waiting' = Waiting
  BY <1>2 DEF Waiting
<1>14. \A fd \in Fds : Tracked(fd)'
  BY <1>1, <1>3, <1>5, <1>6, <1>10, <1>11, <1>12, <1>13, StepBetween
<1>15. Returns'
  BY <1>1, <1>2, <1>3, <1>9 DEF Returns
<1> QED
  BY <1>2, <1>3, <1>14, <1>15, ExactNext

LEMMA ExactFillMore ==
  ASSUME Sound, Exact, FillMore, cur \notin astray' PROVE Exact'
<1>1. /\ pc = "fill" /\ pc' = "more" /\ cur' = cur /\ sz > need /\ Advance(need)
      /\ queue' = push_data(queue, cur, Continued(uc, Bytes(need)).buffer)
  BY DEF FillMore
<1>2. UNCHANGED <<sent, stream, datas, arrived, sock, phase, astray, hash, out>>
  BY DEF FillMore, cvars, fvars
<1>3. /\ Streams /\ Packages /\ Encoded /\ Numbered /\ cur \in Fds /\ sz \in Nat
      /\ Returns /\ phase = "running" /\ sock[cur] = "open" /\ \A fd \in Fds : Tracked(fd)
  BY <1>1, CallNow
<1>4. PICK f \in Of(cur) : Passed(cur, Start(f)) /\ ContentsRead(uc, Start(f), f)
  BY <1>1, <1>2, FillAt
<1>5. PICK c, p, m, n : c = cur /\ p = sent[f].end /\ m = Plain(f) /\ n = Count(cur) + 1
  OBVIOUS
<1>6. /\ Continued(uc, Bytes(need)).buffer = m /\ m \in Bytestring /\ m \in Seq(Octet)
      /\ sent[f].frame.op = "data" /\ pos[c] + need = p
  <2>0. need \in Nat
    BY <1>1, InHand, <1>3 DEF need, Sound
  <2>1. need <= sz
    BY <1>1, <1>3, <2>0
  <2> QED
    BY <1>1, <1>4, <1>5, <2>1, FillWhole
<1>7. queue' = push_data(queue, c, m)
  BY <1>1, <1>5, <1>6
<1>8. queue_size(queue) > 0 => At(queue, 1).id = c
  BY <1>1, <1>3 DEF Returns
<1>9. /\ At(queue', 1).id = c
      /\ \A i \in 1..queue_size(queue') :
           At(queue', i) \in [id : Fds, msg : Seq(Octet)] /\ At(queue', i).id = c
      /\ Count(c)' = Count(c) + 1
      /\ \A i \in 1..Count(c) : Made(c, i)' = Made(c, i)
      /\ Made(c, n)' = m
      /\ \A fd \in Fds : fd # c =>
           Count(fd)' = Count(fd) /\ \A i \in 1..Count(fd) : Made(fd, i)' = Made(fd, i)
  BY <1>2, <1>3, <1>5, <1>6, <1>7, <1>8, Queued
<1>10. Passed(c, p)'
  BY <1>2, <1>3, <1>4, <1>5, <1>6, <1>9, OneMore
<1>11. pos'[c] = p /\ \A fd \in Fds : fd # c => pos'[fd] = pos[fd]
  BY <1>1, <1>3, <1>5, <1>6 DEF Streams, Advance
<1>12. Moved
  BY <1>1, <1>2, <1>5, <1>9, <1>11 DEF Moved
<1>13. Waiting' = Waiting
  BY <1>2 DEF Waiting
<1>14. \A fd \in Fds : Tracked(fd)'
  BY <1>1, <1>3, <1>5, <1>10, <1>11, <1>12, <1>13, StepBetween
<1>15. Returns'
  BY <1>1, <1>2, <1>3, <1>5, <1>9 DEF Returns
<1> QED
  BY <1>2, <1>3, <1>14, <1>15, ExactNext

\* What a call at a frame has: the first bytes of a frame.
LEMMA FrameNow ==
  ASSUME Sound, Exact, AtFrame, cur \notin astray, read_size(buffer) # -1
  PROVE  \E f \in Of(cur) :
           /\ Start(f) = pos[cur] /\ Passed(cur, Start(f))
           /\ HeadOf(buffer) = sent[f].frame /\ MaskOf(buffer) = MaskName(f)
           /\ read_size(buffer) = -2 => sent[f].frame.op = "skip"
           /\ read_size(buffer) = -3 => sent[f].frame.op = "close"
           /\ read_size(buffer) >= 0 =>
                sent[f].frame.op = "data" /\ read_size(buffer) = sent[f].frame.len
<1>1. Streams /\ Call /\ pc # "idle" /\ pc \notin {"header", "fill"}
  BY FrameAt DEF Sound
<1>2. /\ Encoded /\ cur \in Fds /\ Passed(cur, pos[cur])
      /\ pos[cur] \in Nat /\ arrived[cur] \in Nat /\ Len(stream[cur]) \in Nat /\ sz \in Nat
      /\ pos[cur] + sz = arrived[cur] /\ arrived[cur] <= Len(stream[cur])
  BY <1>1, CallNow
<1>3. PICK b : b = buffer
  OBVIOUS
<1>4. b \in Bytestring /\ Len(b) = sz /\ \A j \in 1..sz : b[j] = stream[cur][pos[cur] + j]
  <2>1. sz <= sz
    BY <1>2
  <2> QED
    BY <1>1, <1>2, <1>3, <2>1, ReadBytes DEF buffer
<1>5. Len(b) >= 2
  BY <1>1, <1>3, <1>4, ReadSize
<1>6. pos[cur] < Len(stream[cur]) /\ pos[cur] + Len(b) <= Len(stream[cur])
  BY <1>2, <1>4, <1>5
<1>7. PICK f \in Of(cur) : Start(f) = pos[cur]
  BY <1>1, <1>2, <1>6, FrameThere DEF Passed
<1>8. /\ HeadOf(b) = sent[f].frame
      /\ MaskOf(b) = MaskName(f)
      /\ sent[f].frame.op = "skip"  => read_size(b) = -2
      /\ sent[f].frame.op = "close" => read_size(b) = -3
      /\ sent[f].frame.op = "data" =>
           read_size(b) = IF Len(b) < HeadLength(sent[f].frame) THEN -1 ELSE sent[f].frame.len
  BY <1>1, <1>2, <1>4, <1>5, <1>6, <1>7, HeadRead
<1>9. sent[f].frame.op \in {"data", "skip", "close"} /\ sent[f].frame.len \in Nat
  BY <1>1, <1>2, FrameFacts
<1>10. /\ read_size(b) = -2 => sent[f].frame.op = "skip"
       /\ read_size(b) = -3 => sent[f].frame.op = "close"
       /\ read_size(b) >= 0 => sent[f].frame.op = "data" /\ read_size(b) = sent[f].frame.len
  BY <1>3, <1>8, <1>9
<1> QED
  BY <1>2, <1>3, <1>7, <1>8, <1>10

\* The package of a frame that is complete in the read.
LEMMA FrameWhole ==
  ASSUME Sound, Exact, AtFrame, read_size(buffer) >= 0, inside >= read_size(buffer),
         NEW f \in Of(cur), Start(f) = pos[cur],
         HeadOf(buffer) = sent[f].frame, MaskOf(buffer) = MaskName(f),
         read_size(buffer) = sent[f].frame.len
  PROVE  /\ Package \in Bytestring /\ Package = Plain(f) /\ Plain(f) \in Seq(Octet)
         /\ pos[cur] + (sz - inside + read_size(buffer)) = sent[f].end
<1>1. Streams /\ Call /\ pc # "idle"
  BY FrameAt DEF Sound
<1>2. Encoded /\ cur \in Fds /\ pos[cur] \in Nat
  BY <1>1, CallNow
<1>3. PICK h, n, m : h = HeadLength(sent[f].frame) /\ n = sent[f].frame.len /\ m = MaskName(f)
  OBVIOUS
<1>4. /\ h \in Nat /\ n \in Nat /\ inside \in Nat /\ sz = h + inside /\ sz \in Nat
      /\ m \in ((DOMAIN sent) \X Nat) \cup {None}
  BY <1>1, <1>3, FrameHead, FrameAt
<1>5. /\ buffer \in Bytestring /\ Len(buffer) = sz
      /\ \A j \in 1..sz : buffer[j] = stream[cur][pos[cur] + j]
  <2>1. sz <= sz
    BY <1>4
  <2> QED
    BY <1>1, <1>2, <1>4, <2>1, ReadBytes DEF buffer
<1>6. h + n <= Len(buffer)
  BY <1>3, <1>4, <1>5
<1>7. PICK a : a = SubSeq(buffer, h + 1, h + n)
  OBVIOUS
<1>8. a \in Bytestring /\ Len(a) = n /\ \A i \in 1..n : a[i] = buffer[h + i]
  BY <1>4, <1>5, <1>6, <1>7, Part DEF Bytestring
<1>9. Package = decode_wsmask_data(a, m, 0)
  BY <1>3, <1>7 DEF Package
<1>10. Package \in Bytestring /\ Len(Package) = n
  BY <1>1, <1>4, <1>8, <1>9, Decoded
<1>11. \A i \in 1..Len(a) : a[i] = stream[cur][Start(f) + HeadLength(sent[f].frame) + 0 + i]
  <2> TAKE i \in 1..Len(a)
  <2>1. h + i \in 1..sz /\ i \in 1..n
    BY <1>4, <1>5, <1>6, <1>8
  <2>2. a[i] = stream[cur][pos[cur] + (h + i)]
    BY <1>5, <1>8, <2>1
  <2>3. pos[cur] + (h + i) = Start(f) + HeadLength(sent[f].frame) + 0 + i
    BY <1>2, <1>3, <1>4, <2>1
  <2> QED
    BY <2>2, <2>3
<1>12. \A i \in 1..Len(a) : decode_wsmask_data(a, MaskName(f), 0)[i] = Plain(f)[0 + i]
  <2>1. 0 + Len(a) <= sent[f].frame.len /\ 0 \in Nat
    BY <1>3, <1>4, <1>8
  <2> QED
    BY <1>1, <1>2, <1>8, <1>11, <2>1, Unmasked
<1>13. \A i \in 1..Len(Package) : Package[i] = Plain(f)[i]
  <2> TAKE i \in 1..Len(Package)
  <2>1. i \in 1..Len(a) /\ 0 + i = i
    BY <1>4, <1>8, <1>10
  <2> QED
    BY <1>3, <1>9, <1>12, <2>1
<1>14. Package = Plain(f)
  BY <1>3, <1>10, <1>13, IsPlain DEF Bytestring
<1>15. sent[f].end = Start(f) + (HeadLength(sent[f].frame) + sent[f].frame.len)
  BY <1>1, <1>2, Placed, FrameFacts
<1>16. pos[cur] + (sz - inside + read_size(buffer)) = sent[f].end
  BY <1>2, <1>3, <1>4, <1>15
<1> QED
  BY <1>1, <1>2, <1>10, <1>14, <1>16, PlainType

LEMMA ExactFrameSkipped ==
  ASSUME Sound, Exact, FrameSkipped, cur \notin astray' PROVE Exact'
<1>0. /\ cur \notin astray /\ (astray' = astray \/ astray' = astray \cup {cur})
      /\ \E g \in Of(cur) : sent[g].end = pos[cur] + 2
  BY Dropped DEF FrameSkipped
<1>1. /\ AtFrame /\ pc' = pc /\ cur' = cur /\ Advance(2)
      /\ read_size(buffer) = -2 \/ read_size(buffer) = -3
  BY DEF FrameSkipped, Drop
<1>2. UNCHANGED <<sent, stream, datas, arrived, sock, phase, hash, out, queue>>
  BY DEF FrameSkipped, cvars, fvars
<1>3. pc # "idle" /\ pc \notin {"header", "fill"}
  BY <1>1 DEF AtFrame
<1>4. /\ Streams /\ Encoded /\ Numbered /\ cur \in Fds
      /\ Returns /\ phase = "running" /\ sock[cur] = "open" /\ \A fd \in Fds : Tracked(fd)
  BY <1>3, CallNow
<1>5. PICK f \in Of(cur) : /\ Start(f) = pos[cur] /\ Passed(cur, Start(f))
                           /\ sent[f].frame.op # "data"
  BY <1>0, <1>1, FrameNow
<1>6. PICK c, p : c = cur /\ p = sent[f].end
  OBVIOUS
<1>7. p = pos[c] + 2
  <2>1. PICK g \in Of(cur) : sent[g].end = pos[c] + 2
    BY <1>0, <1>6
  <2>2. Start(f) \in Nat /\ p = Start(f) + Size(f) /\ Size(f) \in Nat /\ Size(f) >= 2
    BY <1>4, <1>6, FrameFacts, Placed
  <2>3. g = f
    <3>1. Start(f) < sent[g].end /\ sent[g].end <= sent[f].end
      BY <1>5, <1>6, <2>1, <2>2
    <3> QED
      BY <1>4, <3>1, EndsThere
  <2> QED
    BY <1>6, <2>1, <2>3
<1>8. Passed(c, p)
  BY <1>4, <1>5, <1>6, PassedOver
<1>9. Moved /\ pos'[c] = p
  BY <1>0, <1>1, <1>2, <1>3, <1>4, <1>6, <1>7, MovedQuiet
<1>10. Passed(c, p)'
  BY <1>2, <1>4, <1>6, <1>8, Quiet, SamePackages
<1>11. Waiting' = Waiting
  BY <1>2 DEF Waiting
<1>12. \A fd \in Fds : Tracked(fd)'
  BY <1>1, <1>3, <1>4, <1>6, <1>9, <1>10, <1>11, StepBetween
<1>13. Returns'
  BY <1>1, <1>2, <1>4 DEF Returns
<1> QED
  BY <1>2, <1>4, <1>12, <1>13, ExactNext

LEMMA ExactFrameCloses ==
  ASSUME Sound, Exact, FrameCloses, cur \notin astray' PROVE Exact'
<1>0. /\ cur \notin astray /\ (astray' = astray \/ astray' = astray \cup {cur})
      /\ \E g \in Of(cur) : sent[g].end = pos[cur] + sz
  BY Dropped DEF FrameCloses
<1>1. pc = "frame" /\ pc' = "idle" /\ AtFrame /\ Advance(sz) /\ read_size(buffer) = -3
  BY DEF FrameCloses, Drop, Return, AtFrame
<1>2. UNCHANGED <<sent, stream, datas, arrived, sock, phase, hash, out, queue>>
  BY DEF FrameCloses, cvars, fvars
<1>3. /\ Streams /\ Encoded /\ Numbered /\ cur \in Fds
      /\ pos[cur] \in Nat /\ arrived[cur] \in Nat /\ Len(stream[cur]) \in Nat /\ sz \in Nat
      /\ pos[cur] + sz = arrived[cur] /\ arrived[cur] <= Len(stream[cur])
      /\ Returns /\ phase = "running" /\ sock[cur] = "open" /\ \A fd \in Fds : Tracked(fd)
  BY <1>1, CallNow
<1>4. PICK f \in Of(cur) : /\ Start(f) = pos[cur] /\ Passed(cur, Start(f))
                           /\ sent[f].frame.op = "close"
  BY <1>0, <1>1, FrameNow
<1>5. PICK c, p : c = cur /\ p = sent[f].end
  OBVIOUS
<1>6. sz >= 2
  BY <1>1, <1>3, BufferRead, ReadSize
<1>7. p = pos[c] + sz /\ p = arrived[c]
  <2>1. PICK g \in Of(cur) : sent[g].end = pos[c] + sz
    BY <1>0, <1>5
  <2>2. Start(f) \in Nat /\ p \in Nat /\ Len(stream[c]) = p
    BY <1>3, <1>4, <1>5, FrameFacts, Placed, CloseLast
  <2>3. g = f
    BY <1>3, <1>4, <1>5, <1>6, <2>1, <2>2, EndsThere
  <2> QED
    BY <1>3, <1>5, <2>1, <2>3
<1>8. Passed(c, p)
  BY <1>3, <1>4, <1>5, PassedOver
<1>9. Moved /\ pos'[c] = p
  BY <1>0, <1>1, <1>2, <1>3, <1>5, <1>7, MovedQuiet
<1>10. Passed(c, p)'
  BY <1>2, <1>3, <1>5, <1>8, Quiet, SamePackages
<1>11. Waiting' = Waiting
  BY <1>2 DEF Waiting
<1>12. \A fd \in Fds : Tracked(fd)'
  BY <1>1, <1>3, <1>5, <1>7, <1>9, <1>10, <1>11, StepBetween
<1>13. Returns'
  BY <1>1, <1>2, <1>3 DEF Returns
<1> QED
  BY <1>2, <1>3, <1>12, <1>13, ExactNext

LEMMA ExactFrameHeaderWaits ==
  ASSUME Sound, Exact, FrameHeaderWaits, cur \notin astray' PROVE Exact'
<1>1. /\ AtFrame /\ pc' = "idle" /\ Advance(sz) /\ read_size(buffer) = -1
      /\ hash' = Linked(Uncomplete(cur, buffer))
  BY DEF FrameHeaderWaits, Return
<1>2. UNCHANGED <<sent, stream, datas, arrived, sock, phase, astray, out, queue>>
  BY DEF FrameHeaderWaits, cvars, fvars
<1>3. pc # "idle" /\ pc \notin {"header", "fill"} /\ Absent(cur)
  BY <1>1, FrameAt DEF Sound
<1>4. /\ Streams /\ Encoded /\ Numbered /\ cur \in Fds /\ Passed(cur, pos[cur])
      /\ pos[cur] \in Nat /\ sz \in Nat /\ pos[cur] + sz = arrived[cur]
      /\ Returns /\ phase = "running" /\ sock[cur] = "open" /\ \A fd \in Fds : Tracked(fd)
  BY <1>2, <1>3, CallNow
<1>5. PICK c, p, b, u : c = cur /\ p = pos[cur] /\ b = buffer /\ u = Uncomplete(cur, buffer)
  OBVIOUS
<1>6. b \in Bytestring /\ Len(b) = sz /\ \A j \in 1..sz : b[j] = stream[c][p + j]
  <2>1. sz <= sz
    BY <1>4
  <2> QED
    BY <1>4, <1>5, <2>1, ReadBytes DEF buffer
<1>7. u \in Struct /\ u.id = c /\ u.read = -1 /\ u.header = b /\ u.size = 0
  BY <1>4, <1>5, <1>6, UncompleteType DEF Uncomplete
<1>8. u.read \in -1..(u.size - 1) /\ Absent(u.id)
  BY <1>3, <1>5, <1>7
<1>9. Moved /\ pos'[c] = p + sz
  BY <1>1, <1>2, <1>3, <1>4, <1>5, MovedQuiet
<1>10. Passed(c, p)'
  BY <1>2, <1>4, <1>5, Quiet, SamePackages
<1>11. HeaderRead(u, p)'
  <2>1. read_size(b)' = read_size(b)
    BY <1>2 DEF read_size, HeadOf, Seen
  <2> QED
    BY <1>1, <1>2, <1>5, <1>6, <1>7, <1>9, <2>1 DEF HeaderRead
<1>12. Begun(u)'
  BY <1>4, <1>5, <1>7, <1>10, <1>11 DEF Begun, BegunAt
<1>13. Waiting' = Waiting \cup {u}
  BY <1>1, <1>2, <1>5, <1>7, <1>8, LinkedFacts DEF Sound
<1>14. \A fd \in Fds : Tracked(fd)'
  BY <1>1, <1>4, <1>5, <1>7, <1>9, <1>12, <1>13, StepWaits
<1>15. Returns'
  BY <1>1, <1>2, <1>4 DEF Returns
<1> QED
  BY <1>2, <1>4, <1>14, <1>15, ExactNext

LEMMA ExactFrameWaits ==
  ASSUME Sound, Exact, FrameWaits, cur \notin astray' PROVE Exact'
<1>1. /\ AtFrame /\ pc' = "idle" /\ Advance(sz)
      /\ read_size(buffer) >= 0 /\ inside < read_size(buffer)
      /\ hash' = Linked(Started(cur, read_size(buffer), MaskOf(buffer),
                                SubSeq(buffer, sz - inside + 1, sz)))
  BY DEF FrameWaits, Return
<1>2. UNCHANGED <<sent, stream, datas, arrived, sock, phase, astray, out, queue>>
  BY DEF FrameWaits, cvars, fvars
<1>3. pc # "idle" /\ pc \notin {"header", "fill"} /\ Absent(cur) /\ Call
  BY <1>1, FrameAt DEF Sound
<1>4. /\ Streams /\ Encoded /\ Numbered /\ cur \in Fds
      /\ pos[cur] \in Nat /\ sz \in Nat /\ pos[cur] + sz = arrived[cur]
      /\ Returns /\ phase = "running" /\ sock[cur] = "open" /\ \A fd \in Fds : Tracked(fd)
  BY <1>3, CallNow
<1>5. PICK f \in Of(cur) :
        /\ Start(f) = pos[cur] /\ Passed(cur, Start(f))
        /\ HeadOf(buffer) = sent[f].frame /\ MaskOf(buffer) = MaskName(f)
        /\ sent[f].frame.op = "data" /\ read_size(buffer) = sent[f].frame.len
  <2>1. read_size(buffer) # -1
    BY <1>1
  <2> QED
    BY <1>1, <1>2, <2>1, FrameNow
<1>6. PICK h \in Nat, k \in Nat, n \in Nat, m \in ((DOMAIN sent) \X Nat) \cup {None} :
        /\ h = HeadLength(sent[f].frame) /\ k = inside /\ n = sent[f].frame.len
        /\ m = MaskName(f) /\ sz = h + k /\ k < n
  BY <1>1, <1>3, <1>4, <1>5, FrameHead
<1>7. /\ buffer \in Bytestring /\ Len(buffer) = sz
      /\ \A j \in 1..sz : buffer[j] = stream[cur][pos[cur] + j]
  <2>1. sz <= sz
    BY <1>4
  <2> QED
    BY <1>4, <2>1, ReadBytes DEF buffer
<1>8. PICK a : a = SubSeq(buffer, h + 1, h + k)
  OBVIOUS
<1>9. a \in Bytestring /\ Len(a) = k /\ \A i \in 1..k : a[i] = buffer[h + i]
  <2>1. h + k <= Len(buffer)
    BY <1>6, <1>7
  <2> QED
    BY <1>7, <1>8, <2>1, Part DEF Bytestring
<1>10. PICK c, p, u, d : /\ c = cur /\ p = pos[cur] /\ u = Started(cur, n, m, a)
                         /\ d = decode_wsmask_data(a, m, 0)
  OBVIOUS
<1>11. /\ u \in Struct /\ u.id = c /\ u.size = n /\ u.read = k
       /\ u.mask = m /\ u.buffer = d /\ Len(d) = k
  <2>0. Streams /\ cur \in Fds /\ a \in Bytestring
    BY <1>4, <1>9
  <2>1. /\ Started(cur, n, m, a) \in Struct /\ Started(cur, n, m, a).id = cur
        /\ Started(cur, n, m, a).size = n /\ Started(cur, n, m, a).read = Len(a)
    BY <2>0, StartedType
  <2>2. u.mask = m /\ u.buffer = d
    BY <1>10 DEF Started
  <2>3. Len(d) = k
    BY <1>4, <1>9, <1>10, Decoded
  <2> QED
    BY <1>9, <1>10, <2>1, <2>2, <2>3
<1>12. hash' = Linked(u)
  <2>1. sz - inside + 1 = h + 1 /\ sz = h + k
    BY <1>6
  <2>2. SubSeq(buffer, sz - inside + 1, sz) = a
    BY <1>8, <2>1, Zenon
  <2> QED
    BY <1>1, <1>5, <1>6, <1>10, <2>2
<1>13. \A i \in 1..k : d[i] = Plain(f)[i]
  <2>1. \A i \in 1..Len(a) : a[i] = stream[cur][Start(f) + HeadLength(sent[f].frame) + 0 + i]
    <3> TAKE i \in 1..Len(a)
    <3>1. h + i \in 1..sz /\ i \in 1..k
      BY <1>6, <1>9
    <3>2. a[i] = stream[cur][pos[cur] + (h + i)]
      BY <1>7, <1>9, <3>1
    <3>3. pos[cur] + (h + i) = Start(f) + HeadLength(sent[f].frame) + 0 + i
      BY <1>4, <1>5, <1>6, <3>1, SMTT(30)
    <3> QED
      BY <3>2, <3>3
  <2>2. 0 + Len(a) <= sent[f].frame.len /\ 0 \in Nat
    BY <1>6, <1>9
  <2>3. \A i \in 1..Len(a) : decode_wsmask_data(a, MaskName(f), 0)[i] = Plain(f)[0 + i]
    BY <1>4, <1>9, <2>1, <2>2, Unmasked
  <2> TAKE i \in 1..k
  <2>4. i \in 1..Len(a) /\ 0 + i = i
    BY <1>9
  <2> QED
    BY <1>6, <1>10, <2>3, <2>4
<1>14. u.read \in -1..(u.size - 1) /\ Absent(u.id)
  <2>1. k \in -1..(n - 1)
    BY <1>6
  <2> QED
    BY <1>3, <1>10, <1>11, <2>1
<1>15. Moved /\ pos'[c] = p + sz
  BY <1>1, <1>2, <1>3, <1>4, <1>10, MovedQuiet
<1>16. Passed(c, p)'
  BY <1>2, <1>4, <1>5, <1>10, Quiet, SamePackages
<1>17. ContentsRead(u, p, f)'
  <2>1. pos'[c] = p + HeadLength(sent[f].frame) + k
    BY <1>4, <1>6, <1>10, <1>15
  <2>2. /\ Of(c)' = Of(c) /\ Start(f)' = Start(f) /\ Plain(f)' = Plain(f)
        /\ MaskName(f)' = MaskName(f)
    BY <1>2 DEF Of, Start, Size, Plain, MaskName
  <2> QED
    BY <1>2, <1>5, <1>6, <1>10, <1>11, <1>13, <2>1, <2>2 DEF ContentsRead
<1>18. Begun(u)'
  <2>1. f \in Of(c)'
    BY <1>2, <1>10 DEF Of
  <2> QED
    BY <1>4, <1>10, <1>11, <1>16, <1>17, <2>1 DEF Begun, BegunAt
<1>19. Waiting' = Waiting \cup {u}
  BY <1>2, <1>11, <1>12, <1>14, LinkedFacts DEF Sound
<1>20. \A fd \in Fds : Tracked(fd)'
  BY <1>1, <1>4, <1>10, <1>11, <1>15, <1>18, <1>19, StepWaits
<1>21. Returns'
  BY <1>1, <1>2, <1>4 DEF Returns
<1> QED
  BY <1>2, <1>4, <1>20, <1>21, ExactNext

LEMMA ExactFrameAlone ==
  ASSUME Sound, Exact, FrameAlone, cur \notin astray' PROVE Exact'
<1>1. /\ pc = "frame" /\ AtFrame /\ pc' = "idle" /\ Advance(sz) /\ Deliver(Package)
      /\ read_size(buffer) >= 0 /\ inside = read_size(buffer)
  BY DEF FrameAlone, Return, AtFrame
<1>2. UNCHANGED <<sent, stream, datas, arrived, sock, phase, astray, hash, queue>>
  BY DEF FrameAlone, cvars, fvars
<1>3. /\ Streams /\ Packages /\ Encoded /\ Numbered /\ cur \in Fds
      /\ pos[cur] + sz = arrived[cur] /\ sz \in Nat
      /\ Returns /\ phase = "running" /\ sock[cur] = "open" /\ \A fd \in Fds : Tracked(fd)
  BY <1>1, CallNow
<1>4. PICK f \in Of(cur) :
        /\ Start(f) = pos[cur] /\ Passed(cur, Start(f))
        /\ HeadOf(buffer) = sent[f].frame /\ MaskOf(buffer) = MaskName(f)
        /\ sent[f].frame.op = "data" /\ read_size(buffer) = sent[f].frame.len
  <2>1. read_size(buffer) # -1
    BY <1>1
  <2> QED
    BY <1>1, <1>2, <2>1, FrameNow
<1>5. PICK c, p, m, n : c = cur /\ p = sent[f].end /\ m = Plain(f) /\ n = Count(cur) + 1
  OBVIOUS
<1>6. Package = m /\ m \in Seq(Octet) /\ pos[c] + sz = p
  <2>1. inside \in Nat /\ inside >= read_size(buffer)
    BY <1>1, <1>3, FrameHead DEF Sound
  <2>2. sz - inside + read_size(buffer) = sz
    BY <1>1, <1>3, <2>1
  <2> QED
    BY <1>1, <1>4, <1>5, <2>1, <2>2, FrameWhole
<1>7. out' = [out EXCEPT ![c] = Append(out[c], m)]
  BY <1>1, <1>3, <1>5, <1>6 DEF Deliver, Returns
<1>8. queue_size(queue) = 0
  BY <1>1, <1>3 DEF Returns
<1>9. /\ out' \in [Fds -> Seq(Seq(Octet))] /\ Count(c)' = Count(c) + 1
      /\ \A i \in 1..Count(c) : Made(c, i)' = Made(c, i)
      /\ Made(c, n)' = m
      /\ \A fd \in Fds : fd # c => Count(fd)' = Count(fd) /\ \A i : Made(fd, i)' = Made(fd, i)
  BY <1>2, <1>3, <1>5, <1>6, <1>7, <1>8, Given
<1>10. Passed(c, p)'
  BY <1>2, <1>3, <1>4, <1>5, <1>6, <1>9, OneMore
<1>11. pos'[c] = p /\ \A fd \in Fds : fd # c => pos'[fd] = pos[fd]
  BY <1>1, <1>3, <1>5, <1>6 DEF Streams, Advance
<1>12. Moved
  BY <1>1, <1>2, <1>5, <1>9, <1>11 DEF Moved
<1>13. Waiting' = Waiting
  BY <1>2 DEF Waiting
<1>14. \A fd \in Fds : Tracked(fd)'
  BY <1>1, <1>3, <1>5, <1>6, <1>10, <1>11, <1>12, <1>13, StepBetween
<1>15. Returns'
  BY <1>1, <1>2, <1>3, <1>9 DEF Returns
<1> QED
  BY <1>2, <1>3, <1>14, <1>15, ExactNext

LEMMA ExactFramePushed ==
  ASSUME Sound, Exact, FramePushed, cur \notin astray' PROVE Exact'
<1>1. /\ AtFrame /\ read_size(buffer) >= 0
      /\ queue' = push_data(queue, cur, Package)
      /\ Advance(sz - inside + read_size(buffer))
      /\ \/ inside > read_size(buffer) /\ pc' = "more" /\ cur' = cur
         \/ pc = "more" /\ inside = read_size(buffer) /\ pc' = "idle"
  BY DEF FramePushed, Return
<1>2. UNCHANGED <<sent, stream, datas, arrived, sock, phase, astray, hash, out>>
  BY DEF FramePushed, cvars, fvars
<1>3. pc # "idle" /\ pc \in {"frame", "more"}
  BY <1>1 DEF AtFrame
<1>4. /\ Streams /\ Packages /\ Encoded /\ Numbered /\ cur \in Fds /\ sz \in Nat
      /\ pos[cur] + sz = arrived[cur]
      /\ Returns /\ phase = "running" /\ sock[cur] = "open" /\ \A fd \in Fds : Tracked(fd)
  BY <1>3, CallNow
<1>5. PICK f \in Of(cur) :
        /\ Start(f) = pos[cur] /\ Passed(cur, Start(f))
        /\ HeadOf(buffer) = sent[f].frame /\ MaskOf(buffer) = MaskName(f)
        /\ sent[f].frame.op = "data" /\ read_size(buffer) = sent[f].frame.len
  <2>1. read_size(buffer) # -1
    BY <1>1
  <2> QED
    BY <1>1, <1>2, <2>1, FrameNow
<1>6. PICK c, p, m, n : c = cur /\ p = sent[f].end /\ m = Plain(f) /\ n = Count(cur) + 1
  OBVIOUS
<1>7. /\ inside \in Nat /\ read_size(buffer) \in Nat
  BY <1>1, FrameHead DEF Sound
<1>8. /\ Package = m /\ m \in Bytestring /\ m \in Seq(Octet)
      /\ pos[c] + (sz - inside + read_size(buffer)) = p
  <2>1. inside >= read_size(buffer)
    BY <1>1, <1>7
  <2> QED
    BY <1>1, <1>5, <1>6, <2>1, FrameWhole
<1>9. queue' = push_data(queue, c, m)
  BY <1>1, <1>6, <1>8
<1>10. queue_size(queue) > 0 => At(queue, 1).id = c
  BY <1>3, <1>4, <1>6 DEF Returns
<1>11. /\ At(queue', 1).id = c
       /\ \A i \in 1..queue_size(queue') :
            At(queue', i) \in [id : Fds, msg : Seq(Octet)] /\ At(queue', i).id = c
       /\ Count(c)' = Count(c) + 1
       /\ \A i \in 1..Count(c) : Made(c, i)' = Made(c, i)
       /\ Made(c, n)' = m
       /\ \A fd \in Fds : fd # c =>
            Count(fd)' = Count(fd) /\ \A i \in 1..Count(fd) : Made(fd, i)' = Made(fd, i)
  BY <1>2, <1>4, <1>6, <1>8, <1>9, <1>10, Queued
<1>12. Passed(c, p)'
  BY <1>2, <1>4, <1>5, <1>6, <1>8, <1>11, OneMore
<1>13. pos'[c] = p /\ \A fd \in Fds : fd # c => pos'[fd] = pos[fd]
  BY <1>1, <1>4, <1>6, <1>8 DEF Streams, Advance
<1>14. Moved
  BY <1>1, <1>2, <1>3, <1>6, <1>11, <1>13 DEF Moved
<1>15. Waiting' = Waiting
  BY <1>2 DEF Waiting
<1>16. pc' = "idle" => p = arrived[c]
  <2>1. inside = read_size(buffer) => sz - inside + read_size(buffer) = sz
    BY <1>4, <1>7
  <2> QED
    BY <1>1, <1>4, <1>6, <1>8, <2>1
<1>17. \A fd \in Fds : Tracked(fd)'
  <2>1. pc' \notin {"header", "fill"}
    BY <1>1
  <2> QED
    BY <1>4, <1>6, <1>12, <1>13, <1>14, <1>15, <1>16, <2>1, StepBetween
<1>18. Returns'
  BY <1>1, <1>2, <1>4, <1>6, <1>11 DEF Returns
<1> QED
  BY <1>2, <1>4, <1>17, <1>18, ExactNext

(***************************************************************************)
(* A socket that is astray: whatever filter makes of it, the others are not *)
(* concerned, and the packages made before stay as they are.               *)
(***************************************************************************)
Grows(fd) == Count(fd)' >= Count(fd) /\ \A i \in 1..Count(fd) : Made(fd, i)' = Made(fd, i)

Moves ==
  /\ Moved /\ Returns' /\ \A fd \in Fds : Grows(fd)
  /\ Waiting' = Waiting \/ \E u : u.id = cur /\ Waiting' = Waiting \cup {u}

\* Steps that make no package.
LEMMA MovesQuiet ==
  ASSUME Sound, Exact,
         \/ HeaderGoesOn \/ HeaderWaits \/ HeaderCloses \/ HeaderDone \/ FillPart
         \/ FrameSkipped \/ FrameCloses \/ FrameHeaderWaits \/ FrameWaits
  PROVE  Moves
<1>1. /\ pc # "idle" /\ (pc' = "idle" \/ (cur' = cur /\ (pc' = pc \/ (pc' = "fill" /\ pc = "header"))))
      /\ UNCHANGED <<sent, stream, datas, arrived, sock, phase, out, queue>>
      /\ (\E n : Advance(n)) /\ (astray' = astray \/ astray' = astray \cup {cur})
  <2>1. CASE HeaderGoesOn \/ HeaderWaits
    BY <2>1, NextByteAdvances, NextDropped DEF HeaderGoesOn, HeaderWaits, Return, cvars, fvars
  <2>2. CASE HeaderCloses \/ FrameSkipped \/ FrameCloses
    <3>1. ASSUME NEW n, Drop(n)
          PROVE  Advance(n) /\ (astray' = astray \/ astray' = astray \cup {cur})
      BY <3>1, Dropped DEF Drop
    <3>2. CASE HeaderCloses
      BY <3>1, <3>2 DEF HeaderCloses, Return, cvars, fvars
    <3>3. CASE FrameSkipped
      BY <3>1, <3>3 DEF FrameSkipped, AtFrame, cvars, fvars
    <3>4. CASE FrameCloses
      BY <3>1, <3>4 DEF FrameCloses, Return, cvars, fvars
    <3> QED
      BY <2>2, <3>2, <3>3, <3>4
  <2>3. CASE HeaderDone \/ FillPart
    BY <2>3 DEF HeaderDone, FillPart, Return, cvars, fvars
  <2>4. CASE FrameHeaderWaits \/ FrameWaits
    BY <2>4 DEF FrameHeaderWaits, FrameWaits, AtFrame, Return, cvars, fvars
  <2> QED
    BY <2>1, <2>2, <2>3, <2>4
<1>2. Waiting' = Waiting \/ \E u : u.id = cur /\ Waiting' = Waiting \cup {u}
  <2>1. CASE HeaderWaits \/ FillPart \/ FrameHeaderWaits \/ FrameWaits
    BY <2>1, SoundHeaderWaits, SoundFillPart, SoundFrameHeaderWaits, SoundFrameWaits
  <2>2. CASE HeaderGoesOn \/ HeaderCloses \/ HeaderDone \/ FrameSkipped \/ FrameCloses
    <3>1. UNCHANGED hash
      BY <2>2 DEF HeaderGoesOn, HeaderCloses, HeaderDone, FrameSkipped, FrameCloses
    <3> QED
      BY <3>1 DEF Waiting
  <2> QED
    BY <2>1, <2>2
<1>3. Streams /\ Packages /\ Returns /\ cur \in Fds
  BY <1>1, CallNow
<1>4. Moved
  BY <1>1, <1>3, MovedQuiet
<1>5. Returns'
  BY <1>1, <1>3 DEF Returns
<1>6. ASSUME NEW fd \in Fds PROVE Grows(fd)
  <2>1. Count(fd) \in Nat
    BY <1>3, CountNat
  <2>2. Count(fd)' = Count(fd) /\ \A i : Made(fd, i)' = Made(fd, i)
    BY <1>1, Quiet
  <2> QED
    BY <2>1, <2>2 DEF Grows
<1> QED
  BY <1>2, <1>4, <1>5, <1>6 DEF Moves

\* Steps that give the caller a package.
LEMMA MovesGiven ==
  ASSUME Sound, Exact, FillLast \/ FrameAlone
  PROVE  Moves
<1>1. pc \in {"fill", "frame"} /\ pc # "idle"
  BY DEF FillLast, FrameAlone
<1>2. Streams /\ Packages /\ Call /\ Returns /\ cur \in Fds
  BY <1>1, CallNow DEF Sound
<1>3. PICK msg \in Bytestring : Deliver(msg)
  <2>1. CASE FillLast
    <3>1. uc \in Struct /\ uc.read \in Nat
      BY <1>2, <2>1, InHand DEF FillLast
    <3>2. Continued(uc, buffer) \in Struct
      BY <1>2, <3>1, BufferRead, ContinuedType
    <3> QED
      BY <2>1, <3>2 DEF FillLast, Struct
  <2>2. CASE FrameAlone
    <3>1. AtFrame /\ read_size(buffer) >= 0 /\ inside = read_size(buffer) /\ Deliver(Package)
      BY <2>2 DEF FrameAlone, AtFrame
    <3>2. inside \in Nat
      BY <1>2, <3>1, FrameHead
    <3> QED
      BY <1>2, <3>1, <3>2, PackageType
  <2> QED
    BY <2>1, <2>2
<1>4. /\ pc' = "idle" /\ UNCHANGED <<sent, stream, datas, arrived, sock, phase, astray, hash, queue>>
      /\ \E n : Advance(n)
  BY DEF FillLast, FrameAlone, Return, cvars, fvars
<1>5. queue_size(queue) = 0
  BY <1>1, <1>2 DEF Returns
<1>6. PICK c : c = cur
  OBVIOUS
<1>7. out' = [out EXCEPT ![c] = Append(out[c], msg)] /\ msg \in Seq(Octet)
  BY <1>2, <1>3, <1>6, Octets DEF Deliver, Returns
<1>8. /\ out' \in [Fds -> Seq(Seq(Octet))] /\ Count(c)' = Count(c) + 1
      /\ \A i \in 1..Count(c) : Made(c, i)' = Made(c, i)
      /\ \A fd \in Fds : fd # c => Count(fd)' = Count(fd) /\ \A i : Made(fd, i)' = Made(fd, i)
  BY <1>2, <1>4, <1>5, <1>6, <1>7, Given
<1>9. \A fd \in Fds : fd # c => pos'[fd] = pos[fd]
  BY <1>2, <1>4, <1>6 DEF Streams, Advance
<1>10. Moved
  BY <1>1, <1>4, <1>6, <1>8, <1>9 DEF Moved
<1>11. \A fd \in Fds : Grows(fd)
  <2>1. \A fd \in Fds : Count(fd) \in Nat
    BY <1>2, CountNat
  <2> QED
    BY <1>2, <1>6, <1>8, <2>1 DEF Grows
<1>12. Returns'
  BY <1>2, <1>4, <1>8 DEF Returns
<1>13. Waiting' = Waiting
  BY <1>4 DEF Waiting
<1> QED
  BY <1>10, <1>11, <1>12, <1>13 DEF Moves

\* Steps that put one into the ring.
LEMMA MovesQueued ==
  ASSUME Sound, Exact, FillMore \/ FramePushed
  PROVE  Moves
<1>1. pc \in {"fill", "frame", "more"} /\ pc # "idle"
  BY DEF FillMore, FramePushed, AtFrame
<1>2. Streams /\ Packages /\ Call /\ Returns /\ cur \in Fds /\ sock[cur] = "open"
  BY <1>1, CallNow DEF Sound
<1>3. PICK msg \in Bytestring : queue' = push_data(queue, cur, msg)
  <2>1. CASE FillMore
    <3>1. uc \in Struct /\ uc.read \in Nat /\ uc.size \in Nat /\ uc.read <= uc.size /\ sz \in Nat
      BY <1>2, <2>1, InHand DEF FillMore
    <3>2. need \in Nat /\ need <= sz
      BY <2>1, <3>1 DEF FillMore, need
    <3>3. Continued(uc, Bytes(need)) \in Struct
      BY <1>2, <3>1, <3>2, BytesRead, ContinuedType
    <3> QED
      BY <2>1, <3>3 DEF FillMore, Struct
  <2>2. CASE FramePushed
    <3>1. AtFrame /\ read_size(buffer) >= 0 /\ queue' = push_data(queue, cur, Package)
      BY <2>2 DEF FramePushed
    <3>2. inside \in Nat /\ read_size(buffer) \in Nat
      BY <1>2, <3>1, FrameHead
    <3>3. inside >= read_size(buffer)
      BY <2>2, <3>2 DEF FramePushed
    <3> QED
      BY <1>2, <3>1, <3>3, PackageType
  <2> QED
    BY <2>1, <2>2
<1>4. /\ UNCHANGED <<sent, stream, datas, arrived, sock, phase, astray, hash, out>>
      /\ pc' = "idle" \/ (pc' = "more" /\ cur' = cur)
      /\ \E n : Advance(n)
  <2>1. CASE FillMore
    BY <2>1 DEF FillMore, cvars, fvars
  <2>2. CASE FramePushed
    BY <2>2 DEF FramePushed, Return, cvars, fvars
  <2> QED
    BY <2>1, <2>2
<1>5. PICK c : c = cur
  OBVIOUS
<1>6. queue_size(queue) > 0 => At(queue, 1).id = c
  BY <1>1, <1>2, <1>5 DEF Returns
<1>7. msg \in Seq(Octet) /\ queue' = push_data(queue, c, msg)
  BY <1>2, <1>3, <1>5, Octets
<1>8. /\ At(queue', 1).id = c
      /\ \A i \in 1..queue_size(queue') :
           At(queue', i) \in [id : Fds, msg : Seq(Octet)] /\ At(queue', i).id = c
      /\ Count(c)' = Count(c) + 1
      /\ \A i \in 1..Count(c) : Made(c, i)' = Made(c, i)
      /\ \A fd \in Fds : fd # c =>
           Count(fd)' = Count(fd) /\ \A i \in 1..Count(fd) : Made(fd, i)' = Made(fd, i)
  BY <1>2, <1>4, <1>5, <1>6, <1>7, Queued
<1>9. \A fd \in Fds : fd # c => pos'[fd] = pos[fd]
  BY <1>2, <1>4, <1>5 DEF Streams, Advance
<1>10. Moved
  BY <1>1, <1>4, <1>5, <1>8, <1>9 DEF Moved
<1>11. \A fd \in Fds : Grows(fd)
  <2>1. \A fd \in Fds : Count(fd) \in Nat
    BY <1>2, CountNat
  <2> QED
    BY <1>2, <1>5, <1>8, <2>1 DEF Grows
<1>12. Returns'
  BY <1>2, <1>4, <1>5, <1>8 DEF Returns
<1>13. Waiting' = Waiting
  BY <1>4 DEF Waiting
<1> QED
  BY <1>10, <1>11, <1>12, <1>13 DEF Moves

LEMMA FilterMoves ==
  ASSUME Sound, Exact, Filter PROVE Moves
  BY MovesQuiet, MovesGiven, MovesQueued DEF Filter

\* Nothing is said of a socket that is astray after a step.
LEMMA ExactAstray ==
  ASSUME Sound, Sound', Exact, Moves, cur \in astray' PROVE Exact'
<1>1. /\ pc # "idle" /\ Moved /\ Returns'
      /\ UNCHANGED <<sent, stream, datas, phase>> /\ (pc' = "idle" \/ cur' = cur)
  BY DEF Moves, Moved
<1>2. /\ Encoded /\ Numbered /\ phase = "running" /\ \A fd \in Fds : Tracked(fd)
  BY <1>1, CallNow
<1>3. PICK c, C : c = cur /\ C = astray'
  OBVIOUS
<1>4. \A u : u.id # cur => (u \in Held' <=> u \in Held)
  <2>1. \A u : u.id # cur => (u \in Waiting' <=> u \in Waiting)
    BY DEF Moves
  <2>2. \A u : u.id # cur => (u \in Held <=> u \in Waiting)
    BY <1>1, HeldNow
  <2>3. \A u : u.id # cur => (u \in Held' <=> u \in Waiting')
    <3>1. CASE pc' \in {"header", "fill"}
      <4>1. uc'.id = cur
        BY <1>1, <3>1 DEF Sound, Call
      <4>2. Held' = Waiting' \cup {uc'}
        BY <3>1 DEF Held, Taken
      <4> QED
        BY <4>1, <4>2
    <3>2. CASE pc' \notin {"header", "fill"}
      BY <3>2 DEF Held, Taken
    <3> QED
      BY <3>1, <3>2
  <2> QED
    BY <2>1, <2>2, <2>3
<1>5. \A fd \in Fds : fd # c => Tracked(fd)'
  BY <1>1, <1>2, <1>3, <1>4, OthersTracked
<1>6. c \in Fds => Tracked(c)'
  BY <1>3 DEF Tracked
<1> QED
  BY <1>1, <1>2, <1>5, <1>6, ExactNext

(***************************************************************************)
(* The other steps, again.                                                 *)
(***************************************************************************)
\* Between two calls.
LEMMA IdleNow ==
  ASSUME Sound, Exact, pc = "idle", phase = "running"
  PROVE  /\ Streams /\ Packages /\ Chained /\ Encoded /\ Numbered /\ Returns
         /\ \A fd \in Fds : Tracked(fd) /\ ~Busy(fd)
         /\ Held = Waiting
  BY DEF Sound, Exact, Busy, Held, Taken

\* All packages of which the bytes have come were made, at the end of a call.
LEMMA AllDelivered ==
  ASSUME Sound, Exact, pc = "idle", phase = "running", NEW fd \in Fds, fd \notin astray
  PROVE  Delivered(fd, arrived[fd])
<1>1. /\ Streams /\ Chained /\ Encoded /\ Numbered /\ Held = Waiting /\ Followed(fd) /\ ~Busy(fd)
  BY IdleNow DEF Tracked
<1>2. CASE sock[fd] = "closed"
  BY <1>1, <1>2 DEF Followed
<1>3. CASE sock[fd] = "open" /\ \A u \in Held : u.id # fd
  BY <1>1, <1>3 DEF Followed, Passed
<1>4. CASE sock[fd] = "open" /\ \E u \in Held : u.id = fd
  <2>1. PICK u \in Held : u.id = fd
    BY <1>4
  <2>2. PICK h \in DOMAIN hash : u \in ToSet(hash[h])
    BY <1>1, <2>1 DEF Waiting
  <2>3. u \in Struct /\ u.read \in -1..(u.size - 1)
    BY <1>1, <2>2, ChainFacts
  <2>4. Begun(u) /\ pos[fd] = arrived[fd]
    BY <1>1, <1>4, <2>1 DEF Followed
  <2> QED
    BY <1>1, <2>1, <2>3, <2>4, Settled
<1> QED
  BY <1>2, <1>3, <1>4 DEF Sound, Marks

LEMMA ExactData ==
  ASSUME Sound, Exact, NEW fd \in Fds, NEW n \in 1..Len(stream[fd]), Data(fd, n) PROVE Exact'
<1>1. /\ pc = "idle" /\ phase = "running" /\ queue_empty(queue) /\ sock[fd] = "open"
      /\ cur' = fd /\ pc' \in {"header", "fill", "frame"}
      /\ \A g \in Fds : g # fd => arrived'[g] = arrived[g]
  BY DEF Data, Sound, Streams
<1>2. UNCHANGED <<astray, sent, stream, datas, pos, sock, phase, out, queue>>
  BY DEF Data, cvars
<1>3. /\ Packages /\ Chained /\ Encoded /\ Numbered /\ Returns /\ Held = Waiting
      /\ \A g \in Fds : Tracked(g) /\ ~Busy(g)
  BY <1>1, IdleNow
<1>4. Held' = Held
  <2>1. CASE Place(fd) = 0 /\ pc' = "frame" /\ UNCHANGED hash
    BY <1>3, <2>1 DEF Held, Taken, Waiting
  <2>2. CASE /\ Place(fd) # 0 /\ uc' = Chain(fd)[Place(fd)] /\ hash' = Unlinked(fd)
             /\ pc' \in {"header", "fill"}
    <3>1. Waiting' = Waiting \ {uc'} /\ uc' \in Waiting
      BY <1>2, <1>3, <2>2, UnlinkedFacts
    <3>2. Held' = Waiting' \cup {uc'}
      BY <2>2 DEF Held, Taken
    <3> QED
      BY <1>3, <3>1, <3>2
  <2> QED
    BY <2>1, <2>2 DEF Data
<1>5. \A g \in Fds : Count(g)' = Count(g) /\ \A i : Made(g, i)' = Made(g, i)
  BY <1>2, Quiet
<1>6. ASSUME NEW g \in Fds, g # fd PROVE Tracked(g)'
  <2>1. Followed(g) => Followed(g)'
    BY <1>1, <1>2, <1>3, <1>4, <1>5, <1>6, FollowedSame
  <2> QED
    BY <1>2, <1>3, <2>1 DEF Tracked
<1>7. ASSUME fd \notin astray PROVE Followed(fd)'
  <2>0. Followed(fd)
    BY <1>3, <1>7 DEF Tracked
  <2>1. Busy(fd)' /\ sock'[fd] = "open"
    BY <1>1, <1>2 DEF Busy
  <2>2. ASSUME NEW u \in Held, u.id = fd PROVE Begun(u)'
    <3>1. Begun(u)
      BY <1>1, <1>3, <2>0, <2>2 DEF Followed
    <3> QED
      BY <1>2, <1>5, <2>2, <3>1, BegunSame
  <2>3. PICK p : p = pos[fd]
    OBVIOUS
  <2>4. (\A u \in Held : u.id # fd) => Passed(fd, p)'
    <3>1. (\A u \in Held : u.id # fd) => Passed(fd, p)
      BY <1>1, <1>3, <2>0, <2>3 DEF Followed
    <3> QED
      BY <1>2, <1>5, <3>1, SamePackages
  <2>5. (\A u \in Held' : u.id # fd) => Passed(fd, pos[fd])'
    BY <1>2, <1>4, <2>3, <2>4 DEF Passed, Delivered, Between
  <2> QED
    BY <1>4, <2>1, <2>2, <2>5 DEF Followed
<1>8. Returns'
  <2>1. queue_size(queue) = 0
    BY <1>1, <1>3 DEF queue_empty, queue_size, Packages, Ring
  <2> QED
    BY <1>1, <1>2, <1>3, <2>1 DEF Returns
<1> QED
  BY <1>1, <1>2, <1>3, <1>6, <1>7, <1>8, ExactNext DEF Tracked

LEMMA ExactLpop ==
  ASSUME Sound, Exact, lpop PROVE Exact'
<1>1. /\ pc = "idle" /\ pc' = "idle" /\ phase = "running" /\ ~queue_empty(queue)
      /\ queue' = queue_pop(queue)
      /\ out' = [out EXCEPT ![queue_front(queue).id] =
                   Append(@, queue_front(queue).msg)]
  BY DEF lpop
<1>2. UNCHANGED <<astray, sent, stream, datas, arrived, pos, sock, phase, hash, pc, cur, uc>>
  BY DEF lpop, cvars, fvars
<1>3. /\ Packages /\ Encoded /\ Numbered /\ Returns
      /\ \A g \in Fds : Tracked(g) /\ ~Busy(g)
  BY <1>1, IdleNow
<1>4. out' = [out EXCEPT ![queue_front(queue).id] =
                Append(out[queue_front(queue).id], queue_front(queue).msg)]
  BY <1>1, <1>3 DEF Returns
<1>5. /\ out' \in [Fds -> Seq(Seq(Octet))]
      /\ \A i \in 1..queue_size(queue') :
           At(queue', i) \in [id : Fds, msg : Seq(Octet)] /\ At(queue', i).id = At(queue', 1).id
      /\ \A fd \in Fds : /\ Count(fd)' = Count(fd)
                         /\ \A i \in 1..Count(fd) : Made(fd, i)' = Made(fd, i)
  BY <1>1, <1>3, <1>4, Popped
<1>6. Held' = Held
  BY <1>2 DEF Held, Taken, Waiting
<1>7. \A fd \in Fds : Tracked(fd)'
  <2>1. \A fd \in Fds : Followed(fd) => Followed(fd)'
    BY <1>2, <1>3, <1>5, <1>6, FollowedSame
  <2> QED
    BY <1>2, <1>3, <2>1 DEF Tracked
<1>8. Returns'
  BY <1>1, <1>5 DEF Returns
<1> QED
  BY <1>1, <1>2, <1>3, <1>7, <1>8, ExactNext

LEMMA ExactClose ==
  ASSUME Sound, Exact, NEW fd \in Fds, Close(fd) PROVE Exact'
<1>1. /\ pc = "idle" /\ pc' = "idle" /\ phase = "running" /\ close_uncomplete(fd)
      /\ sock' = [sock EXCEPT ![fd] = "closed"]
  BY DEF Close
<1>2. UNCHANGED <<astray, sent, stream, datas, arrived, pos, phase, queue, pc, cur, uc, out>>
  BY DEF Close, cvars
<1>3. /\ Chained /\ Encoded /\ Numbered /\ Returns /\ Held = Waiting
      /\ \A g \in Fds : Tracked(g) /\ ~Busy(g)
  BY <1>1, IdleNow
<1>4. \A u : u.id # fd => (u \in Held' <=> u \in Held)
  <2>1. Held' = Waiting'
    BY <1>1 DEF Held, Taken
  <2>2. CASE Place(fd) = 0
    BY <1>1, <1>3, <2>1, <2>2 DEF close_uncomplete, Waiting
  <2>3. CASE Place(fd) # 0
    <3>1. hash' = Unlinked(fd)
      BY <1>1, <2>3 DEF close_uncomplete
    <3>2. PICK v : v = Chain(fd)[Place(fd)]
      OBVIOUS
    <3>3. Waiting' = Waiting \ {v} /\ v.id = fd
      BY <1>2, <1>3, <2>3, <3>1, <3>2, UnlinkedFacts
    <3> QED
      BY <1>3, <2>1, <3>3
  <2> QED
    BY <2>2, <2>3
<1>5. \A g \in Fds : Count(g)' = Count(g) /\ \A i : Made(g, i)' = Made(g, i)
  BY <1>2, Quiet
<1>6. ASSUME NEW g \in Fds, g # fd PROVE Tracked(g)'
  <2>1. sock'[g] = sock[g]
    BY <1>1, <1>6 DEF Sound, Marks
  <2>2. Followed(g) => Followed(g)'
    BY <1>2, <1>3, <1>4, <1>5, <1>6, <2>1, FollowedSame
  <2> QED
    BY <1>2, <1>3, <2>2 DEF Tracked
<1>7. ASSUME fd \notin astray PROVE Followed(fd)'
  <2>1. sock'[fd] = "closed"
    BY <1>1 DEF Sound, Marks
  <2>2. PICK p : p = arrived[fd]
    OBVIOUS
  <2>3. Delivered(fd, p)
    BY <1>1, <1>7, <2>2, AllDelivered
  <2>4. Delivered(fd, p)'
    BY <1>2, <1>5, <2>3, SamePackages
  <2>5. Delivered(fd, arrived[fd])'
    BY <1>2, <2>2, <2>4 DEF Delivered
  <2> QED
    BY <2>1, <2>5 DEF Followed
<1>8. Returns'
  BY <1>1, <1>2, <1>3 DEF Returns
<1> QED
  BY <1>1, <1>2, <1>3, <1>6, <1>7, <1>8, ExactNext DEF Tracked

LEMMA ExactLclear ==
  ASSUME Sound, Exact, lclear PROVE Exact'
<1>1. pc' = "idle" /\ phase' = "cleared" /\ UNCHANGED <<sent, stream, datas>>
  BY DEF lclear, cvars
<1>2. Encoded' /\ Numbered'
  BY <1>1, EncodedSame DEF Exact
<1> QED
  BY <1>1, <1>2 DEF Exact

\* What lsend adds: a frame with the next number ...
LEMMA Sends ==
  ASSUME Streams, NEW fd \in Fds, NEW frame \in Frames, lsend(fd, frame),
         NEW F, F = Len(sent) + 1
  PROVE  /\ F \in Nat /\ F \notin DOMAIN sent /\ \A f \in DOMAIN sent : f \in Nat /\ f < F
         /\ DOMAIN sent' = DOMAIN sent \cup {F}
         /\ \A f \in DOMAIN sent : sent'[f] = sent[f]
         /\ sent'[F] = [fd |-> fd, frame |-> frame, end |-> Len(stream'[fd])]
         /\ HeadLength(frame) \in Nat /\ HeadLength(frame) >= 2 /\ frame.len \in Nat
<1>1. PICK e : e = [fd |-> fd, frame |-> frame, end |-> Len(stream'[fd])]
  OBVIOUS
<1>2. sent' = Append(sent, e)
  BY <1>1 DEF lsend
<1>3. sent \in Seq([fd : Fds, frame : Frames, end : Nat]) /\ Len(sent) \in Nat /\ DOMAIN sent = 1..Len(sent)
  BY LenProperties DEF Streams
<1>4. F \in Nat /\ F \notin DOMAIN sent /\ \A f \in DOMAIN sent : f \in Nat /\ f < F
  BY <1>3
<1>5. /\ DOMAIN sent' = DOMAIN sent \cup {F} /\ sent'[F] = e
      /\ \A f \in DOMAIN sent : sent'[f] = sent[f]
  BY <1>2, <1>3
<1>6. HeadLength(frame) \in Nat /\ HeadLength(frame) >= 2 /\ frame.len \in Nat
  BY FrameAssumption, FrameFields, HeadLengthType
<1> QED
  BY <1>1, <1>4, <1>5, <1>6

\* ... whose bytes are the last ones of its stream.
LEMMA SentBytes ==
  ASSUME Streams, NEW fd \in Fds, NEW frame \in Frames, lsend(fd, frame),
         NEW F, F = Len(sent) + 1
  PROVE  /\ Len(stream[fd]) \in Nat
         /\ Len(stream'[fd]) = Len(stream[fd]) + (HeadLength(frame) + frame.len)
         /\ \A i \in 1..Len(stream[fd]) : stream'[fd][i] = stream[fd][i]
         /\ \A j \in 1..(HeadLength(frame) + frame.len) :
              stream'[fd][Len(stream[fd]) + j] = Encode(F, frame)[j]
         /\ \A g \in Fds : g # fd => stream'[g] = stream[g]
<1> DEFINE b == Encode(F, frame)
           n == HeadLength(frame) + frame.len
<1>1. stream' = [stream EXCEPT ![fd] = stream[fd] \o b]
  BY DEF lsend, Streams
<1>2. HeadLength(frame) \in Nat /\ frame.len \in Nat
  BY Sends
<1>3. stream'[fd] = stream[fd] \o b /\ \A g \in Fds : g # fd => stream'[g] = stream[g]
  BY <1>1 DEF Streams
<1>4. PICK T : stream[fd] \in Seq(T) /\ b \in Seq(T)
  <2> DEFINE D == DOMAIN sent \cup {F}
             T == [f : D, j : Nat, keys : SUBSET ((D \X Nat) \X (0..(MaskLen - 1)))]
  <2>1. D \subseteq Nat /\ F \in D
    BY Sends
  <2> HIDE DEF D
  <2>2. b \in Seq(T)
    BY <2>1, FrameAssumption, EncodeType
  <2>3. ByteType \subseteq T
    BY DEF ByteType, D
  <2> HIDE DEF T
  <2>4. stream[fd] \in Seq(T)
    BY <2>3, SeqMonotonic DEF Streams, Bytestring
  <2> QED
    BY <2>2, <2>4
<1>5. Len(b) = n
  <2>1. DOMAIN b = 1..n /\ n \in Nat
    BY <1>2 DEF Encode
  <2> HIDE DEF b, n
  <2> QED
    BY <1>4, <2>1, LenProperties
<1> HIDE DEF b, n
<1>6. /\ Len(stream[fd] \o b) = Len(stream[fd]) + n /\ Len(stream[fd]) \in Nat /\ n \in Nat
      /\ \A i \in 1..(Len(stream[fd]) + n) :
           (stream[fd] \o b)[i] = IF i <= Len(stream[fd]) THEN stream[fd][i]
                                  ELSE b[i - Len(stream[fd])]
  BY <1>4, <1>5, ConcatProperties, LenProperties
<1>7. \A i \in 1..Len(stream[fd]) : stream'[fd][i] = stream[fd][i]
  BY <1>3, <1>6
<1>8. \A j \in 1..n : stream'[fd][Len(stream[fd]) + j] = b[j]
  <2> TAKE j \in 1..n
  <2>1. /\ Len(stream[fd]) + j \in 1..(Len(stream[fd]) + n) /\ ~(Len(stream[fd]) + j <= Len(stream[fd]))
        /\ (Len(stream[fd]) + j) - Len(stream[fd]) = j
    BY <1>6
  <2> QED
    BY <1>3, <1>6, <2>1
<1> QED
  BY <1>3, <1>6, <1>7, <1>8 DEF b, n

\* The frames of each socket afterwards, and that those it had are as before.
LEMMA SentFrames ==
  ASSUME Streams, NEW fd \in Fds, NEW frame \in Frames, lsend(fd, frame),
         NEW F, F = Len(sent) + 1, NEW L, L = Len(stream[fd])
  PROVE  /\ Of(fd)' = Of(fd) \cup {F}
         /\ \A g \in Fds : g # fd => Of(g)' = Of(g)
         /\ \A f \in DOMAIN sent : /\ Size(f)' = Size(f) /\ Start(f)' = Start(f)
                                   /\ Plain(f)' = Plain(f) /\ MaskName(f)' = MaskName(f)
         /\ Size(F)' = HeadLength(frame) + frame.len
         /\ Start(F)' = L /\ sent'[F].end = L + (HeadLength(frame) + frame.len)
<1>1. /\ F \in Nat /\ F \notin DOMAIN sent
      /\ DOMAIN sent' = DOMAIN sent \cup {F}
      /\ \A f \in DOMAIN sent : sent'[f] = sent[f]
      /\ HeadLength(frame) \in Nat /\ frame.len \in Nat
  BY Sends
<1>2. /\ sent'[F].fd = fd /\ sent'[F].frame = frame /\ sent'[F].end = Len(stream'[fd])
      /\ L \in Nat /\ Len(stream'[fd]) = L + (HeadLength(frame) + frame.len)
  <2>1. sent'[F] = [fd |-> fd, frame |-> frame, end |-> Len(stream'[fd])]
    BY Sends
  <2>2. L \in Nat /\ Len(stream'[fd]) = L + (HeadLength(frame) + frame.len)
    BY SentBytes
  <2> QED
    BY <2>1, <2>2
<1>3. Of(fd)' = Of(fd) \cup {F}
  BY <1>1, <1>2 DEF Of
<1>4. \A g \in Fds : g # fd => Of(g)' = Of(g)
  BY <1>1, <1>2 DEF Of
<1>5. ASSUME NEW f \in DOMAIN sent
      PROVE  /\ Size(f)' = Size(f) /\ Start(f)' = Start(f)
             /\ Plain(f)' = Plain(f) /\ MaskName(f)' = MaskName(f)
  BY <1>1 DEF Size, Start, Plain, MaskName
<1>6. Size(F)' = HeadLength(frame) + frame.len
  BY <1>2 DEF Size
<1>7. Start(F)' = L
  BY <1>1, <1>2, <1>6 DEF Start
<1> QED
  BY <1>1, <1>2, <1>3, <1>4, <1>5, <1>6, <1>7

LEMMA EncodedLsend ==
  ASSUME Streams, Encoded, NEW fd \in Fds, NEW frame \in Frames, lsend(fd, frame)
  PROVE  Encoded'
<1>1. PICK F, L, n : F = Len(sent) + 1 /\ L = Len(stream[fd]) /\ n = HeadLength(frame) + frame.len
  OBVIOUS
<1>2. /\ F \in Nat /\ F \notin DOMAIN sent /\ \A f \in DOMAIN sent : f \in Nat /\ f < F
      /\ \A f \in DOMAIN sent : sent'[f] = sent[f]
      /\ L \in Nat /\ n \in Nat /\ n >= 2 /\ Len(stream'[fd]) = L + n
      /\ \A i \in 1..L : stream'[fd][i] = stream[fd][i]
      /\ \A j \in 1..n : stream'[fd][L + j] = Encode(F, frame)[j]
      /\ \A g \in Fds : g # fd => stream'[g] = stream[g]
      /\ sent'[F].frame = frame
  <2>1. F = Len(sent) + 1
    BY <1>1
  <2>2. /\ F \in Nat /\ F \notin DOMAIN sent /\ \A f \in DOMAIN sent : f \in Nat /\ f < F
        /\ \A f \in DOMAIN sent : sent'[f] = sent[f]
        /\ sent'[F] = [fd |-> fd, frame |-> frame, end |-> Len(stream'[fd])]
        /\ HeadLength(frame) \in Nat /\ HeadLength(frame) >= 2 /\ frame.len \in Nat
    BY <2>1, Sends
  <2>3. /\ Len(stream[fd]) \in Nat
        /\ Len(stream'[fd]) = Len(stream[fd]) + (HeadLength(frame) + frame.len)
        /\ \A i \in 1..Len(stream[fd]) : stream'[fd][i] = stream[fd][i]
        /\ \A g \in Fds : g # fd => stream'[g] = stream[g]
    BY <2>1, SentBytes
  <2>4. \A j \in 1..(HeadLength(frame) + frame.len) :
          stream'[fd][Len(stream[fd]) + j] = Encode(F, frame)[j]
    BY <2>1, SentBytes
  <2>5. n \in Nat /\ n >= 2
    BY <1>1, <2>2
  <2> QED
    BY <1>1, <2>2, <2>3, <2>4, <2>5
<1>3. /\ Of(fd)' = Of(fd) \cup {F}
      /\ \A g \in Fds : g # fd => Of(g)' = Of(g)
      /\ \A f \in DOMAIN sent : Size(f)' = Size(f) /\ Start(f)' = Start(f)
      /\ Size(F)' = n /\ Start(F)' = L /\ sent'[F].end = L + n
  BY <1>1, SentFrames
<1>4. \A g \in Fds : Of(g) \subseteq DOMAIN sent
  BY DEF Of
<1>5. ASSUME NEW g \in Fds, NEW i \in 1..Len(stream[g]) PROVE stream'[g][i] = stream[g][i]
  BY <1>1, <1>2
<1>6. \A g \in Fds : Len(stream[g]) \in Nat
  BY LenProperties DEF Streams, Bytestring
<1>7. \A g \in Fds : Len(stream'[g]) \in Nat /\ Len(stream'[g]) >= Len(stream[g])
  <2> TAKE g \in Fds
  <2>1. CASE g = fd
    BY <1>1, <1>2, <2>1
  <2>2. CASE g # fd
    BY <1>2, <1>6, <2>2
  <2> QED
    BY <2>1, <2>2
<1>8. ASSUME NEW g \in Fds, NEW f \in Of(g)
      PROVE  /\ Start(f)' \in Nat /\ sent'[f].end <= Len(stream'[g])
             /\ \A j \in 1..Size(f)' : stream'[g][Start(f)' + j] = Encode(f, sent'[f].frame)[j]
  <2>1. f \in DOMAIN sent
    BY <1>4
  <2>2. /\ Start(f) \in Nat /\ sent[f].end = Start(f) + Size(f) /\ sent[f].end <= Len(stream[g])
        /\ Size(f) \in Nat /\ sent[f].end \in Nat
    BY Placed, FrameFacts
  <2>3. sent'[f].end <= Len(stream'[g]) /\ Start(f)' \in Nat
    BY <1>2, <1>3, <1>6, <1>7, <2>1, <2>2, SMTT(30)
  <2>4. ASSUME NEW j \in 1..Size(f) PROVE stream'[g][Start(f) + j] = Encode(f, sent[f].frame)[j]
    <3>1. Start(f) + j \in 1..Len(stream[g])
      BY <1>6, <2>2
    <3>2. stream[g][Start(f) + j] = Encode(f, sent[f].frame)[j]
      BY DEF Encoded
    <3> QED
      BY <1>5, <3>1, <3>2
  <2> QED
    BY <1>2, <1>3, <2>1, <2>3, <2>4
<1>9. /\ Start(F)' \in Nat /\ sent'[F].end <= Len(stream'[fd])
      /\ \A j \in 1..Size(F)' : stream'[fd][Start(F)' + j] = Encode(F, sent'[F].frame)[j]
  BY <1>2, <1>3
<1>10. ASSUME NEW g \in Fds, NEW f \in Of(g)'
       PROVE  /\ Start(f)' \in Nat /\ sent'[f].end <= Len(stream'[g])
              /\ \A j \in 1..Size(f)' : stream'[g][Start(f)' + j] = Encode(f, sent'[f].frame)[j]
  <2>1. CASE f \in Of(g)
    BY <1>8, <2>1
  <2>2. CASE g = fd /\ f = F
    BY <1>9, <2>2
  <2> QED
    BY <1>3, <1>10, <2>1, <2>2
<1>11. ASSUME NEW g \in Fds, NEW f \in Of(g)', NEW k \in Of(g)', f < k
       PROVE  sent'[f].end <= Start(k)' /\ sent'[f].frame.op # "close"
  <2>1. CASE f \in Of(g) /\ k \in Of(g)
    BY <1>2, <1>3, <1>4, <1>11, <2>1 DEF Encoded
  <2>2. CASE f \in Of(g) /\ k = F /\ g = fd
    <3>1. sent[f].end <= L
      BY <1>1, <2>2, Placed
    <3>2. sent[f].frame.op # "close"
      BY <2>2 DEF lsend, Of
    <3> QED
      BY <1>2, <1>3, <1>4, <2>2, <3>1, <3>2
  <2>3. CASE f = F /\ g = fd
    <3>1. k \in Nat /\ k <= F
      BY <1>2, <1>3, <1>4, <2>3
    <3> QED
      BY <1>2, <1>11, <2>3, <3>1
  <2> QED
    BY <1>3, <1>11, <2>1, <2>2, <2>3
<1>12. ASSUME NEW g \in Fds, NEW p \in Nat, p < Len(stream'[g])
       PROVE  \E f \in Of(g)' : Start(f)' <= p /\ p < sent'[f].end
  <2>1. CASE p < Len(stream[g])
    <3>1. PICK f \in Of(g) : Start(f) <= p /\ p < sent[f].end
      BY <2>1 DEF Encoded
    <3>2. f \in Of(g)' /\ f \in DOMAIN sent
      BY <1>3, <1>4
    <3> QED
      BY <1>2, <1>3, <3>1, <3>2
  <2>2. CASE ~(p < Len(stream[g]))
    <3>1. g = fd
      BY <1>2, <1>12, <2>2
    <3>2. F \in Of(g)' /\ Start(F)' <= p /\ p < sent'[F].end
      BY <1>1, <1>2, <1>3, <1>12, <2>2, <3>1
    <3> QED
      BY <3>2
  <2> QED
    BY <2>1, <2>2
<1> QED
  BY <1>10, <1>11, <1>12 DEF Encoded

\* The data frames of each socket: those it had, and then the new one.
LEMMA SentDatas ==
  ASSUME Streams, Numbered, NEW fd \in Fds, NEW frame \in Frames, lsend(fd, frame),
         NEW F, F = Len(sent) + 1, NEW g \in Fds
  PROVE  /\ datas'[g] \in Seq(Nat) /\ Len(datas[g]) \in Nat /\ Len(datas'[g]) \in Nat
         /\ \A i \in 1..Len(datas[g]) : datas'[g][i] = datas[g][i]
         /\ IF g = fd /\ frame.op = "data"
            THEN Len(datas'[g]) = Len(datas[g]) + 1 /\ datas'[g][Len(datas[g]) + 1] = F
            ELSE Len(datas'[g]) = Len(datas[g])
<1>1. datas \in [Fds -> Seq(Nat)] /\ datas[g] \in Seq(Nat) /\ Len(datas[g]) \in Nat
  BY LenProperties DEF Numbered
<1>2. F \in Nat
  BY Sends
<1>3. CASE g = fd /\ frame.op = "data"
  <2>1. datas'[g] = Append(datas[g], F)
    BY <1>1, <1>3 DEF lsend
  <2>2. PICK d : d = datas[g]
    OBVIOUS
  <2>3. /\ Append(d, F) \in Seq(Nat) /\ Len(Append(d, F)) = Len(d) + 1
        /\ Append(d, F)[Len(d) + 1] = F /\ \A i \in 1..Len(d) : Append(d, F)[i] = d[i]
    BY <1>1, <1>2, <2>2, AppendProperties
  <2> QED
    BY <1>1, <1>3, <2>1, <2>2, <2>3
<1>4. CASE ~(g = fd /\ frame.op = "data")
  <2>1. datas'[g] = datas[g]
    BY <1>1, <1>4 DEF lsend
  <2> QED
    BY <1>1, <1>4, <2>1
<1> QED
  BY <1>3, <1>4

LEMMA NumberedLsend ==
  ASSUME Streams, Numbered, NEW fd \in Fds, NEW frame \in Frames, lsend(fd, frame)
  PROVE  Numbered'
<1>1. PICK F : F = Len(sent) + 1
  OBVIOUS
<1>2. /\ F \in Nat /\ F \notin DOMAIN sent /\ \A f \in DOMAIN sent : f \in Nat /\ f < F
      /\ \A f \in DOMAIN sent : sent'[f] = sent[f]
      /\ sent'[F] = [fd |-> fd, frame |-> frame, end |-> Len(stream'[fd])]
  BY <1>1, Sends
<1>3. sent'[F].frame = frame
  BY <1>2
<1>4. Of(fd)' = Of(fd) \cup {F} /\ \A g \in Fds : g # fd => Of(g)' = Of(g)
  BY <1>1, SentFrames
<1>5. \A g \in Fds : Of(g) \subseteq DOMAIN sent
  BY DEF Of
<1>6. datas' \in [Fds -> Seq(Nat)]
  <2>1. DOMAIN datas' = Fds /\ datas' = [g \in DOMAIN datas' |-> datas'[g]]
    BY DEF lsend, Numbered
  <2>2. \A g \in Fds : datas'[g] \in Seq(Nat)
    BY <1>1, SentDatas
  <2> QED
    BY <2>1, <2>2
<1>7. ASSUME NEW g \in Fds
      PROVE  /\ \A i \in 1..Len(datas'[g]) :
                  /\ datas'[g][i] \in Of(g)' /\ sent'[datas'[g][i]].frame.op = "data"
                  /\ \A k \in 1..Len(datas'[g]) : i < k => datas'[g][i] < datas'[g][k]
             /\ \A f \in Of(g)' :
                  sent'[f].frame.op = "data" => \E i \in 1..Len(datas'[g]) : datas'[g][i] = f
  <2>1. PICK d, e, m : d = datas[g] /\ e = datas'[g] /\ m = Len(datas[g])
    OBVIOUS
  <2>2. /\ m \in Nat /\ Len(e) \in Nat /\ \A i \in 1..m : e[i] = d[i]
        /\ g = fd /\ frame.op = "data" => Len(e) = m + 1 /\ e[m + 1] = F
    BY <1>1, <2>1, SentDatas
  <2>3. ~(g = fd /\ frame.op = "data") => Len(e) = m
    BY <1>1, <2>1, SentDatas
  <2>4. /\ \A i \in 1..m : d[i] \in Of(g) /\ sent[d[i]].frame.op = "data"
        /\ \A i, k \in 1..m : i < k => d[i] < d[k]
        /\ \A f \in Of(g) : sent[f].frame.op = "data" => \E i \in 1..m : d[i] = f
    BY <2>1 DEF Numbered
  <2>5. \A i \in 1..m : /\ e[i] \in Of(g)' /\ sent'[e[i]].frame.op = "data"
                        /\ e[i] \in Nat /\ e[i] < F
    <3> TAKE i \in 1..m
    <3>1. e[i] = d[i] /\ d[i] \in Of(g) /\ d[i] \in DOMAIN sent /\ sent[d[i]].frame.op = "data"
      BY <1>5, <2>2, <2>4
    <3> QED
      BY <1>2, <1>4, <3>1
  <2>6. ASSUME NEW f \in Of(g), sent'[f].frame.op = "data" PROVE \E i \in 1..m : e[i] = f
    <3>1. sent[f].frame.op = "data"
      BY <1>2, <1>5, <2>6
    <3> QED
      BY <2>2, <2>4, <3>1
  <2>7. CASE g = fd /\ frame.op = "data"
    <3>1. Len(e) = m + 1 /\ e[m + 1] = F /\ F \in Of(g)' /\ sent'[F].frame.op = "data"
      BY <1>3, <1>4, <2>2, <2>7
    <3>2. ASSUME NEW i \in 1..(m + 1) PROVE e[i] \in Of(g)' /\ sent'[e[i]].frame.op = "data"
      <4>1. i \in 1..m \/ i = m + 1
        BY <2>2
      <4> QED
        BY <2>5, <3>1, <4>1
    <3>3. ASSUME NEW i \in 1..(m + 1), NEW k \in 1..(m + 1), i < k PROVE e[i] < e[k]
      <4>1. i \in 1..m /\ (k \in 1..m \/ k = m + 1)
        BY <2>2, <3>3
      <4> QED
        BY <2>2, <2>4, <2>5, <3>1, <3>3, <4>1
    <3>4. ASSUME NEW f \in Of(g)', sent'[f].frame.op = "data" PROVE \E i \in 1..(m + 1) : e[i] = f
      <4>1. m + 1 \in 1..(m + 1) /\ \A i \in 1..m : i \in 1..(m + 1)
        BY <2>2
      <4> QED
        BY <1>4, <2>6, <2>7, <3>1, <3>4, <4>1
    <3> QED
      BY <2>1, <3>1, <3>2, <3>3, <3>4
  <2>8. CASE ~(g = fd /\ frame.op = "data")
    <3>1. Len(e) = m
      BY <2>3, <2>8
    <3>2. \A i, k \in 1..m : i < k => e[i] < e[k]
      BY <2>2, <2>4
    <3>3. ASSUME NEW f \in Of(g)', sent'[f].frame.op = "data" PROVE \E i \in 1..m : e[i] = f
      BY <1>3, <1>4, <2>6, <2>8, <3>3
    <3> QED
      BY <2>1, <2>5, <3>1, <3>2, <3>3
  <2> QED
    BY <2>7, <2>8
<1> QED
  BY <1>6, <1>7 DEF Numbered

\* The packages made are not concerned.
LEMMA DeliveredLsend ==
  ASSUME Sound, Encoded, Numbered, Returns, NEW fd \in Fds, NEW frame \in Frames, lsend(fd, frame),
         NEW g \in Fds, NEW p \in Nat, p <= Len(stream[g]), Delivered(g, p)
  PROVE  Delivered(g, p)'
<1>1. PICK F, d, e, m, n : /\ F = Len(sent) + 1 /\ d = datas[g] /\ e = datas'[g]
                           /\ m = Len(datas[g]) /\ n = Count(g)
  OBVIOUS
<1>2. /\ F \in Nat /\ \A f \in DOMAIN sent : sent'[f] = sent[f]
      /\ \A f \in DOMAIN sent : Plain(f)' = Plain(f)
  <2>1. F = Len(sent) + 1 /\ Streams
    BY <1>1 DEF Sound
  <2>2. F \in Nat /\ \A f \in DOMAIN sent : sent'[f] = sent[f]
    BY <2>1, Sends
  <2> QED
    BY <2>2 DEF Plain
<1>3. n \in Nat /\ m \in Nat /\ Len(e) \in Nat /\ \A i \in 1..m : e[i] = d[i]
  BY <1>1, CountNat, SentDatas DEF Sound
<1>4. UNCHANGED <<out, queue>>
  BY DEF lsend
<1>5. Count(g)' = n /\ \A i : Made(g, i)' = Made(g, i)
  BY <1>1, <1>4, Quiet
<1>6. /\ n <= m /\ \A i \in 1..n : Made(g, i) = Plain(d[i])
      /\ \A i \in 1..m : i <= n <=> sent[d[i]].end <= p
  BY <1>1 DEF Delivered
<1>7. \A i \in 1..m : d[i] \in DOMAIN sent
  BY <1>1 DEF Numbered, Of
<1>8. \A i \in 1..n : Made(g, i)' = Plain(e[i])'
  <2> TAKE i \in 1..n
  <2>1. i \in 1..m
    BY <1>3, <1>6
  <2>2. e[i] = d[i] /\ d[i] \in DOMAIN sent
    BY <1>3, <1>7, <2>1
  <2>3. PICK f : f = d[i]
    OBVIOUS
  <2>4. Plain(f)' = Plain(f)
    BY <1>2, <2>2, <2>3
  <2>5. Plain(e[i])' = Plain(f)'
    BY <2>2, <2>3
  <2> QED
    BY <1>5, <1>6, <2>3, <2>4, <2>5
<1>9. \A i \in 1..m : i <= n <=> sent'[e[i]].end <= p
  <2> TAKE i \in 1..m
  <2>1. e[i] = d[i] /\ sent'[d[i]] = sent[d[i]]
    BY <1>2, <1>3, <1>7
  <2> QED
    BY <1>6, <2>1
<1>10. CASE g = fd /\ frame.op = "data"
  <2>0. F = Len(sent) + 1 /\ Streams
    BY <1>1 DEF Sound
  <2>1. Len(e) = m + 1 /\ e[m + 1] = F
    BY <1>1, <1>10, <2>0, SentDatas
  <2>2. sent'[F].end > p /\ sent'[F].end \in Nat
    <3>1. PICK L, h : L = Len(stream[fd]) /\ h = HeadLength(frame) + frame.len
      OBVIOUS
    <3>2. sent'[F].end = L + h
      BY <2>0, <3>1, SentFrames
    <3>3. h \in Nat /\ h >= 2
      <4>1. HeadLength(frame) \in Nat /\ HeadLength(frame) >= 2 /\ frame.len \in Nat
        BY <2>0, Sends
      <4> QED
        BY <3>1, <4>1
    <3>4. L \in Nat
      BY <2>0, <3>1, SentBytes
    <3> QED
      BY <1>10, <3>1, <3>2, <3>3, <3>4
  <2>3. \A i \in 1..Len(e) : i <= n <=> sent'[e[i]].end <= p
    <3> TAKE i \in 1..Len(e)
    <3>1. i \in 1..m \/ i = m + 1
      BY <1>3, <2>1
    <3>2. i = m + 1 => ~(i <= n) /\ ~(sent'[e[i]].end <= p)
      BY <1>3, <1>6, <2>1, <2>2
    <3> QED
      BY <1>9, <3>1, <3>2
  <2> QED
    BY <1>1, <1>3, <1>5, <1>6, <1>8, <2>1, <2>3 DEF Delivered
<1>11. CASE ~(g = fd /\ frame.op = "data")
  <2>0. F = Len(sent) + 1 /\ Streams
    BY <1>1 DEF Sound
  <2>1. Len(e) = m
    BY <1>1, <1>11, <2>0, SentDatas
  <2> QED
    BY <1>1, <1>5, <1>6, <1>8, <1>9, <2>1 DEF Delivered
<1> QED
  BY <1>10, <1>11

LEMMA PassedLsend ==
  ASSUME Sound, Encoded, Numbered, Returns, NEW fd \in Fds, NEW frame \in Frames, lsend(fd, frame),
         NEW g \in Fds, NEW p \in Nat, Passed(g, p)
  PROVE  Passed(g, p)'
<1>1. PICK F, L : F = Len(sent) + 1 /\ L = Len(stream[fd])
  OBVIOUS
<1>2. Streams /\ F = Len(sent) + 1
  BY <1>1 DEF Sound
<1>3. p <= Len(stream[g]) /\ Between(g, p) /\ Delivered(g, p) /\ Len(stream[g]) \in Nat
  BY <1>2, LenProperties DEF Passed, Streams, Bytestring
<1>4. Delivered(g, p)'
  BY <1>3, DeliveredLsend
<1>5. p <= Len(stream'[g])
  <2>1. CASE g # fd
    BY <1>2, <1>3, <2>1, SentBytes
  <2>2. CASE g = fd
    <3>1. Len(stream'[fd]) = Len(stream[fd]) + (HeadLength(frame) + frame.len)
      BY <1>2, SentBytes
    <3>2. HeadLength(frame) \in Nat /\ frame.len \in Nat
      BY <1>2, Sends
    <3> QED
      BY <1>3, <2>2, <3>1, <3>2
  <2> QED
    BY <2>1, <2>2
<1>6. Between(g, p)'
  <2>1. /\ Of(fd)' = Of(fd) \cup {F} /\ (g # fd => Of(g)' = Of(g))
        /\ \A f \in DOMAIN sent : Start(f)' = Start(f)
        /\ Start(F)' = L
    BY <1>1, <1>2, SentFrames
  <2>2. \A f \in DOMAIN sent : sent'[f] = sent[f]
    BY <1>2, Sends
  <2>3. ASSUME NEW f \in Of(g)' PROVE p <= Start(f)' \/ sent'[f].end <= p
    <3>1. CASE f \in Of(g)
      <4>1. f \in DOMAIN sent
        BY <3>1 DEF Of
      <4> QED
        BY <1>3, <2>1, <2>2, <3>1, <4>1 DEF Between
    <3>2. CASE f = F /\ g = fd
      BY <1>1, <1>3, <2>1, <3>2
    <3> QED
      BY <2>1, <2>3, <3>1, <3>2
  <2> QED
    BY <2>3 DEF Between
<1> QED
  BY <1>4, <1>5, <1>6 DEF Passed

LEMMA BegunLsend ==
  ASSUME Sound, Encoded, Numbered, Returns, NEW fd \in Fds, NEW frame \in Frames, lsend(fd, frame),
         NEW u \in Struct, Begun(u)
  PROVE  Begun(u)'
<1>1. PICK p \in Nat : BegunAt(u, p)
  BY DEF Begun
<1>2. PICK F, c, b : F = Len(sent) + 1 /\ c = u.id /\ b = u.header
  OBVIOUS
<1>3. Streams /\ F = Len(sent) + 1 /\ c \in Fds /\ b \in Seq(ByteType) /\ Len(b) \in Nat
  BY <1>2, LenProperties DEF Sound, Struct, Bytestring
<1>4. Passed(c, p)'
  BY <1>1, <1>2, <1>3, PassedLsend DEF BegunAt
<1>5. UNCHANGED pos /\ \A f \in DOMAIN sent : sent'[f] = sent[f]
  BY <1>3, Sends DEF lsend
<1>6. /\ Of(c) \subseteq Of(c)'
      /\ \A f \in DOMAIN sent : /\ Start(f)' = Start(f)
                                /\ Plain(f)' = Plain(f) /\ MaskName(f)' = MaskName(f)
  BY <1>3, SentFrames
<1>7. pos[c] <= Len(stream[c]) /\ pos[c] \in Nat /\ Len(stream[c]) \in Nat
  BY <1>3, LenProperties DEF Streams, Bytestring
<1>8. ASSUME HeaderRead(u, p) PROVE HeaderRead(u, p)'
  <2>1. /\ u.read = -1 /\ pos[c] = p + Len(b) /\ read_size(b) \in {-1, -3}
        /\ \A j \in 1..Len(b) : b[j] = stream[c][p + j]
    BY <1>2, <1>8 DEF HeaderRead
  <2>2. \A j \in 1..Len(b) : b[j] = stream'[c][p + j]
    <3> TAKE j \in 1..Len(b)
    <3>1. p + j \in 1..Len(stream[c])
      BY <1>3, <1>7, <2>1
    <3>2. stream'[c][p + j] = stream[c][p + j]
      <4>1. CASE c = fd
        BY <1>3, <3>1, <4>1, SentBytes
      <4>2. CASE c # fd
        BY <1>3, <4>2, SentBytes
      <4> QED
        BY <4>1, <4>2
    <3> QED
      BY <2>1, <3>2
  <2>3. read_size(b)' = read_size(b)
    <3>1. CASE Len(b) < 2
      BY <1>3, <3>1 DEF read_size
    <3>2. CASE Len(b) >= 2
      <4>1. b[1] \in ByteType /\ b[2] \in ByteType
        BY <1>3, <3>2, ElementOfSeq
      <4>2. b[1].f \in DOMAIN sent /\ b[2].f \in DOMAIN sent
        BY <4>1 DEF ByteType
      <4>3. HeadOf(b)' = HeadOf(b)
        BY <1>5, <4>2 DEF HeadOf, Seen
      <4> QED
        BY <4>3 DEF read_size
    <3> QED
      BY <1>3, <3>1, <3>2
  <2> QED
    BY <1>2, <1>5, <2>1, <2>2, <2>3 DEF HeaderRead
<1>9. ASSUME NEW f \in Of(c), ContentsRead(u, p, f) PROVE ContentsRead(u, p, f)'
  <2>1. f \in DOMAIN sent /\ f \in Of(c)'
    BY <1>6 DEF Of
  <2>2. /\ sent'[f] = sent[f] /\ Start(f)' = Start(f)
        /\ Plain(f)' = Plain(f) /\ MaskName(f)' = MaskName(f)
    BY <1>5, <1>6, <2>1
  <2> QED
    BY <1>2, <1>5, <1>9, <2>1, <2>2 DEF ContentsRead
<1>10. BegunAt(u, p)'
  BY <1>1, <1>2, <1>4, <1>6, <1>8, <1>9 DEF BegunAt
<1> QED
  BY <1>10 DEF Begun

LEMMA ExactLsend ==
  ASSUME Sound, Exact, NEW fd \in Fds, NEW frame \in Frames, lsend(fd, frame) PROVE Exact'
<1>1. UNCHANGED <<astray, arrived, sock, phase, pos, hash, queue, pc, cur, uc, out>>
  BY DEF lsend, fvars
<1>2. Streams /\ Encoded /\ Numbered
  BY DEF Sound, Exact
<1>3. Encoded' /\ Numbered'
  BY <1>2, EncodedLsend, NumberedLsend
<1>4. ASSUME phase = "running", NEW g \in Fds, g \notin astray PROVE Followed(g)'
  <2>1. Returns /\ Followed(g)
    BY <1>4 DEF Exact, Tracked
  <2>2. PICK p, q : p = pos[g] /\ q = arrived[g]
    OBVIOUS
  <2>3. p \in Nat /\ q \in Nat /\ q <= Len(stream[g])
    BY <1>2, <2>2 DEF Streams
  <2>4. Held' = Held /\ Busy(g)' = Busy(g)
    BY <1>1 DEF Held, Taken, Waiting, Busy
  <2>5. ASSUME NEW u \in Held, u.id = g, Begun(u) PROVE Begun(u)'
    <3>1. CASE u \in Waiting
      <4>1. PICK h \in DOMAIN hash : u \in ToSet(hash[h])
        BY <3>1 DEF Waiting
      <4>2. u \in Struct
        BY <4>1, ChainFacts DEF Sound
      <4> QED
        BY <1>2, <2>1, <2>5, <4>2, BegunLsend
    <3>2. CASE u \in Taken
      <4>1. u \in Struct
        BY <3>2 DEF Taken, Sound, Call
      <4> QED
        BY <1>2, <2>1, <2>5, <4>1, BegunLsend
    <3> QED
      BY <3>1, <3>2 DEF Held
  <2>6. Delivered(g, q) => Delivered(g, q)'
    BY <1>2, <2>1, <2>3, DeliveredLsend
  <2>7. Passed(g, p) => Passed(g, p)'
    BY <1>2, <2>1, <2>3, PassedLsend
  <2>8. sock[g] = "closed" => Delivered(g, arrived[g])'
    <3>1. sock[g] = "closed" => Delivered(g, q)'
      BY <2>1, <2>2, <2>6 DEF Followed
    <3> QED
      BY <1>1, <2>2, <3>1 DEF Delivered
  <2>9. sock[g] = "open" /\ (\A u \in Held : u.id # g) => Passed(g, pos[g])'
    <3>1. sock[g] = "open" /\ (\A u \in Held : u.id # g) => Passed(g, p)'
      BY <2>1, <2>2, <2>7 DEF Followed
    <3> QED
      BY <1>1, <2>2, <3>1 DEF Passed, Delivered, Between
  <2> QED
    BY <1>1, <2>1, <2>4, <2>5, <2>8, <2>9 DEF Followed
<1>5. phase = "running" => Returns'
  BY <1>1 DEF Exact, Returns
<1> QED
  BY <1>1, <1>3, <1>4, <1>5 DEF Exact, Tracked

LEMMA ExactInit == Init => Exact
<1> SUFFICES ASSUME Init PROVE Exact
  OBVIOUS
<1>1. /\ Streams /\ Packages
  BY SoundInit DEF Sound
<1>2. /\ sent = <<>> /\ stream = [f \in Fds |-> <<>>] /\ datas = [f \in Fds |-> <<>>]
      /\ arrived = [f \in Fds |-> 0] /\ pos = [f \in Fds |-> 0]
      /\ hash = [h \in Range(hash_fd) |-> <<>>] /\ queue = queue_init
      /\ pc = "idle" /\ phase = "running"
      /\ sock = [f \in Fds |-> "open"] /\ out = [f \in Fds |-> <<>>]
  BY DEF Init
<1>3. DOMAIN sent = {} /\ \A fd \in Fds : Of(fd) = {}
  BY <1>2 DEF Of
<1>4. /\ \A fd \in Fds : Len(stream[fd]) = 0 /\ Len(datas[fd]) = 0 /\ Len(out[fd]) = 0
  BY <1>2
<1>5. Encoded
  BY <1>3, <1>4 DEF Encoded
<1>6. Numbered
  BY <1>2, <1>3, <1>4 DEF Numbered
<1>7. queue_size(queue) = 0
  BY <1>2, RingInit
<1>8. Returns
  BY <1>2, <1>7 DEF Returns
<1>9. Held = {}
  BY <1>2 DEF Held, Taken, Waiting, ToSet
<1>10. \A fd \in Fds : Count(fd) = 0
  BY <1>4, <1>7 DEF Count
<1>11. \A fd \in Fds : Passed(fd, 0)
  BY <1>3, <1>4, <1>10 DEF Passed, Between, Delivered
<1>12. \A fd \in Fds : Tracked(fd)
  BY <1>2, <1>9, <1>11 DEF Followed, Tracked
<1> QED
  BY <1>2, <1>5, <1>6, <1>8, <1>12 DEF Exact

\* No step makes a package wrong, twice, too early or too late.
LEMMA ExactStep == Sound /\ Exact /\ [Next]_vars => Exact'
<1> SUFFICES ASSUME Sound, Exact, [Next]_vars PROVE Exact'
  OBVIOUS
<1>1. ASSUME NEW fd \in Fds, NEW frame \in Frames, lsend(fd, frame) PROVE Exact'
  BY <1>1, ExactLsend
<1>2. ASSUME NEW fd \in Fds, NEW n \in 1..Len(stream[fd]), Data(fd, n) PROVE Exact'
  BY <1>2, ExactData
<1>3. ASSUME NEW fd \in Fds, Close(fd) PROVE Exact'
  BY <1>3, ExactClose
<1>4. CASE Filter /\ cur \in astray'
  BY <1>4, FilterMoves, SoundNext, ExactAstray
<1>0. CASE Filter /\ cur \notin astray'
  BY <1>0, ExactHeaderGoesOn, ExactHeaderWaits, ExactHeaderCloses, ExactHeaderDone,
     ExactFillPart, ExactFillLast, ExactFillMore, ExactFrameSkipped, ExactFrameCloses,
     ExactFrameHeaderWaits, ExactFrameWaits, ExactFrameAlone, ExactFramePushed DEF Filter
<1>5. CASE lpop
  BY <1>5, ExactLpop
<1>6. CASE lclear
  BY <1>6, ExactLclear
<1>7. CASE UNCHANGED vars
  <2>1. UNCHANGED <<sent, stream, datas, arrived, sock, phase, pos, astray, hash, queue, pc, cur, uc, out>>
    BY <1>7 DEF vars, cvars, fvars
  <2>2. Encoded' /\ Numbered'
    BY <2>1, EncodedSame DEF Exact
  <2>3. phase = "running" => Returns'
    BY <2>1 DEF Exact, Returns
  <2>4. ASSUME phase = "running", NEW fd \in Fds, fd \notin astray PROVE Followed(fd)'
    <3>1. Followed(fd)
      BY <2>4 DEF Exact, Tracked
    <3>2. Held' = Held /\ Busy(fd)' = Busy(fd)
      BY <2>1 DEF Held, Taken, Waiting, Busy
    <3>3. Count(fd)' = Count(fd) /\ \A i : Made(fd, i)' = Made(fd, i)
      BY <2>1, Quiet
    <3>4. ASSUME NEW u, u.id = fd, Begun(u) PROVE Begun(u)'
      BY <2>1, <3>3, <3>4, BegunSame
    <3>5. PICK p, q : p = pos[fd] /\ q = arrived[fd]
      OBVIOUS
    <3>6. /\ Delivered(fd, q) => Delivered(fd, q)'
          /\ Passed(fd, p) => Passed(fd, p)'
      BY <2>1, <3>3, SamePackages
    <3>7. /\ Delivered(fd, q) => Delivered(fd, arrived[fd])'
          /\ Passed(fd, p) => Passed(fd, pos[fd])'
      BY <2>1, <3>5, <3>6 DEF Passed, Delivered, Between
    <3> QED
      BY <2>1, <3>1, <3>2, <3>4, <3>5, <3>7 DEF Followed
  <2> QED
    BY <2>1, <2>2, <2>3, <2>4 DEF Exact, Tracked
<1> QED
  BY <1>0, <1>1, <1>2, <1>3, <1>4, <1>5, <1>6, <1>7 DEF Next

(***************************************************************************)
(* What led a socket astray.                                               *)
(***************************************************************************)
Led == phase = "running" => \A fd \in Fds : fd \in astray => LedAstray(fd)

\* A socket goes astray in a frame that is no data and longer than two bytes.
LEMMA GoesAstray ==
  ASSUME Sound, Exact, Filter, cur \notin astray, cur \in astray'
  PROVE  \E f \in Of(cur) : sent[f].frame.op # "data" /\ Size(f) > 2 /\ Passed(cur, Start(f))
<1>1. pc # "idle"
  BY FilterMoves DEF Moves, Moved
<1>2. /\ Streams /\ Encoded /\ cur \in Fds
      /\ pos[cur] \in Nat /\ arrived[cur] \in Nat /\ Len(stream[cur]) \in Nat /\ sz \in Nat
      /\ pos[cur] + sz = arrived[cur] /\ arrived[cur] <= Len(stream[cur])
  BY <1>1, CallNow
<1>3. \A f \in Of(cur) : /\ sent[f].end = Start(f) + Size(f) /\ Start(f) \in Nat
                         /\ Size(f) \in Nat /\ Size(f) >= 2
  BY <1>2, Placed, FrameFacts
<1>4. CASE HeaderGoesOn \/ HeaderWaits
  <2>1. pc = "header" /\ NextByte
    BY <1>4 DEF HeaderGoesOn, HeaderWaits
  <2>2. read_size(Longer) = -2 /\ \A g \in Of(cur) : sent[g].end # pos[cur] + 1
    BY <2>1, NextDropped
  <2>3. PICK f \in Of(cur) : /\ Passed(cur, Start(f)) /\ pos[cur] + 1 = Start(f) + 2
                             /\ sent[f].frame.op = "skip"
    BY <2>1, <2>2, LongerAt
  <2>4. Size(f) > 2
    BY <1>3, <2>2, <2>3
  <2> QED
    BY <2>3, <2>4
<1>5. CASE HeaderCloses
  <2>1. pc = "header" /\ read_size(NextHeader) = -3 /\ Drop(1)
    BY <1>5 DEF HeaderCloses
  <2>2. \A g \in Of(cur) : sent[g].end # pos[cur] + 1
    BY <2>1, Dropped
  <2>3. PICK f \in Of(cur) : /\ sent[f].frame.op = "close" /\ Passed(cur, Start(f))
                             /\ Start(f) + 2 <= pos[cur] + 1 /\ pos[cur] + 1 <= sent[f].end
    BY <2>1, HeaderOfClose
  <2>4. Size(f) > 2
    BY <1>2, <1>3, <2>2, <2>3
  <2> QED
    BY <2>3, <2>4
<1>6. CASE FrameSkipped
  <2>1. AtFrame /\ Drop(2) /\ (read_size(buffer) = -2 \/ read_size(buffer) = -3)
    BY <1>6 DEF FrameSkipped
  <2>2. \A g \in Of(cur) : sent[g].end # pos[cur] + 2
    BY <2>1, Dropped
  <2>3. PICK f \in Of(cur) : /\ Start(f) = pos[cur] /\ Passed(cur, Start(f))
                             /\ sent[f].frame.op # "data"
    BY <2>1, FrameNow
  <2>4. Size(f) > 2
    BY <1>3, <2>2, <2>3
  <2> QED
    BY <2>3, <2>4
<1>7. CASE FrameCloses
  <2>1. AtFrame /\ Drop(sz) /\ read_size(buffer) = -3
    BY <1>7 DEF FrameCloses, AtFrame
  <2>2. \A g \in Of(cur) : sent[g].end # pos[cur] + sz
    BY <2>1, Dropped
  <2>3. PICK f \in Of(cur) : /\ Start(f) = pos[cur] /\ Passed(cur, Start(f))
                             /\ sent[f].frame.op = "close"
    BY <2>1, FrameNow
  <2>4. sz >= 2
    BY <1>2, <2>1, BufferRead, ReadSize
  <2>5. sent[f].end = Len(stream[cur])
    BY <1>2, <2>3, CloseLast
  <2>6. Size(f) > 2
    BY <1>2, <1>3, <2>2, <2>3, <2>4, <2>5
  <2> QED
    BY <2>3, <2>6
<1>8. CASE HeaderDone \/ FillPart \/ FillLast \/ FillMore
  BY <1>8 DEF HeaderDone, FillPart, FillLast, FillMore
<1>9. CASE FrameHeaderWaits \/ FrameWaits \/ FrameAlone \/ FramePushed
  BY <1>9 DEF FrameHeaderWaits, FrameWaits, FrameAlone, FramePushed
<1> QED
  BY <1>4, <1>5, <1>6, <1>7, <1>8, <1>9 DEF Filter

\* All packages before that frame were made.
LEMMA LedBy ==
  ASSUME Streams, Encoded, Numbered, NEW fd \in Fds, NEW f \in Of(fd),
         sent[f].frame.op # "data", Size(f) > 2, Passed(fd, Start(f))
  PROVE  LedAstray(fd)
<1>1. f \in DOMAIN sent /\ sent[f].fd = fd /\ f \in Nat
  BY FrameFacts
<1>2. ASSUME NEW i \in 1..Len(datas[fd]), datas[fd][i] < f
      PROVE  i <= Count(fd) /\ Made(fd, i) = Plain(datas[fd][i])
  <2>1. datas[fd][i] \in Of(fd) /\ datas[fd][i] \in Nat /\ i \in Nat
    BY DataFacts
  <2>2. sent[datas[fd][i]].end <= Start(f)
    BY <1>1, <1>2, <2>1, InOrder
  <2>3. i <= Count(fd)
    BY <2>2 DEF Passed, Delivered
  <2>4. Count(fd) <= Len(datas[fd]) /\ \A k \in 1..Count(fd) : Made(fd, k) = Plain(datas[fd][k])
    BY DEF Passed, Delivered
  <2> QED
    BY <2>1, <2>3, <2>4
<1> QED
  BY <1>1, <1>2 DEF LedAstray, Size

\* They stay, whatever is made after them.
LEMMA LedGrows ==
  ASSUME UNCHANGED <<sent, datas>>, NEW fd \in Fds,
         Count(fd) \in Nat, Count(fd)' \in Nat, Grows(fd), LedAstray(fd)
  PROVE  LedAstray(fd)'
<1>1. PICK f \in DOMAIN sent :
        /\ sent[f].fd = fd /\ sent[f].frame.op # "data"
        /\ HeadLength(sent[f].frame) + sent[f].frame.len > 2
        /\ \A i \in 1..Len(datas[fd]) :
             datas[fd][i] < f => i <= Count(fd) /\ Made(fd, i) = Plain(datas[fd][i])
  BY DEF LedAstray
<1>2. ASSUME NEW i \in 1..Len(datas[fd]), datas[fd][i] < f
      PROVE  i <= Count(fd)' /\ Made(fd, i)' = Plain(datas[fd][i])
  <2>1. i <= Count(fd) /\ Made(fd, i) = Plain(datas[fd][i]) /\ i \in Nat /\ i >= 1
    BY <1>1, <1>2
  <2>2. i \in 1..Count(fd)
    BY <2>1
  <2> QED
    BY <2>1, <2>2 DEF Grows
<1>3. \A g : Plain(g)' = Plain(g)
  BY DEF Plain
<1> QED
  BY <1>1, <1>2, <1>3 DEF LedAstray

\* A frame that is sent comes after the one that led the socket astray.
LEMMA LedLsend ==
  ASSUME Sound, Encoded, Numbered, NEW fd \in Fds, NEW frame \in Frames, lsend(fd, frame),
         NEW g \in Fds, LedAstray(g)
  PROVE  LedAstray(g)'
<1>1. PICK f \in DOMAIN sent :
        /\ sent[f].fd = g /\ sent[f].frame.op # "data"
        /\ HeadLength(sent[f].frame) + sent[f].frame.len > 2
        /\ \A i \in 1..Len(datas[g]) :
             datas[g][i] < f => i <= Count(g) /\ Made(g, i) = Plain(datas[g][i])
  BY DEF LedAstray
<1>2. PICK F, d, e, m : F = Len(sent) + 1 /\ d = datas[g] /\ e = datas'[g] /\ m = Len(datas[g])
  OBVIOUS
<1>3. /\ F \in Nat /\ DOMAIN sent' = DOMAIN sent \cup {F}
      /\ \A h \in DOMAIN sent : h \in Nat /\ h < F /\ sent'[h] = sent[h]
  BY <1>2, Sends DEF Sound
<1>4. \A h \in DOMAIN sent : Plain(h)' = Plain(h)
  BY <1>3 DEF Plain
<1>5. /\ m \in Nat /\ \A i \in 1..m : e[i] = d[i]
      /\ Len(e) = m \/ (Len(e) = m + 1 /\ e[m + 1] = F)
  BY <1>2, SentDatas DEF Sound
<1>6. \A i \in 1..m : d[i] \in DOMAIN sent
  BY <1>2 DEF Numbered, Of
<1>7. UNCHANGED <<out, queue>>
  BY DEF lsend
<1>8. Count(g)' = Count(g) /\ \A i : Made(g, i)' = Made(g, i)
  BY <1>7, Quiet
<1>9. ASSUME NEW i \in 1..Len(e), e[i] < f
      PROVE  i <= Count(g)' /\ Made(g, i)' = Plain(e[i])'
  <2>1. i \in 1..m
    <3> SUFFICES ASSUME i = m + 1 PROVE FALSE
      BY <1>5
    <3>1. e[i] = F
      BY <1>5
    <3> QED
      BY <1>3, <1>9, <3>1
  <2>2. e[i] = d[i] /\ d[i] \in DOMAIN sent
    BY <1>5, <1>6, <2>1
  <2>3. PICK h : h = d[i]
    OBVIOUS
  <2>4. i <= Count(g) /\ Made(g, i) = Plain(h)
    BY <1>1, <1>2, <1>9, <2>1, <2>2, <2>3
  <2>5. Plain(h)' = Plain(h) /\ Plain(e[i])' = Plain(h)'
    BY <1>4, <2>2, <2>3
  <2> QED
    BY <1>8, <2>4, <2>5
<1>10. f \in DOMAIN sent' /\ sent'[f] = sent[f]
  BY <1>3
<1> QED
  BY <1>1, <1>2, <1>9, <1>10 DEF LedAstray

LEMMA LedStep == Sound /\ Exact /\ Led /\ [Next]_vars => Led'
<1> SUFFICES ASSUME Sound, Exact, Led, [Next]_vars, phase' = "running",
                    NEW fd \in Fds, fd \in astray'
             PROVE  LedAstray(fd)'
  BY DEF Led
<1>1. Sound' /\ Exact'
  BY SoundNext, ExactStep
<1>2. Packages' /\ Returns'
  BY <1>1 DEF Sound, Exact
<1>3. Count(fd)' \in Nat
  <2>1. Len(out'[fd]) \in Nat
    BY <1>2, LenProperties DEF Returns
  <2>2. queue_size(queue') \in Nat
    BY <1>2, RingSize DEF Packages
  <2> QED
    BY <2>1, <2>2 DEF Count
<1>4. ASSUME phase = "running" PROVE Count(fd) \in Nat /\ (fd \in astray => LedAstray(fd))
  <2>1. Packages /\ Returns
    BY <1>4 DEF Sound, Exact
  <2> QED
    BY <1>4, <2>1, CountNat DEF Led
<1>5. ASSUME phase = "running", UNCHANGED <<sent, datas, astray, out, queue>>
      PROVE  LedAstray(fd)'
  <2>1. Count(fd) \in Nat /\ LedAstray(fd)
    BY <1>4, <1>5
  <2>2. Count(fd)' = Count(fd) /\ \A i : Made(fd, i)' = Made(fd, i)
    BY <1>5, Quiet
  <2>3. Grows(fd)
    BY <2>1, <2>2 DEF Grows
  <2> QED
    BY <1>3, <1>5, <2>1, <2>3, LedGrows
<1>6. ASSUME NEW g \in Fds, NEW frame \in Frames, lsend(g, frame) PROVE LedAstray(fd)'
  <2>1. UNCHANGED <<phase, astray>>
    BY <1>6 DEF lsend, fvars
  <2>2. LedAstray(fd) /\ Encoded /\ Numbered
    BY <1>4, <2>1 DEF Exact
  <2> QED
    BY <1>6, <2>2, LedLsend
<1>7. ASSUME NEW g \in Fds, NEW n \in 1..Len(stream[g]), Data(g, n) PROVE LedAstray(fd)'
  BY <1>5, <1>7 DEF Data, cvars
<1>8. ASSUME NEW g \in Fds, Close(g) PROVE LedAstray(fd)'
  BY <1>5, <1>8 DEF Close, cvars
<1>9. CASE Filter
  <2>1. Moves /\ Moved /\ pc # "idle" /\ UNCHANGED <<sent, datas>> /\ Grows(fd)
    BY <1>9, FilterMoves DEF Moves, Moved
  <2>2. Streams /\ Encoded /\ Numbered /\ phase = "running" /\ cur \in Fds
    BY <2>1, CallNow
  <2>3. LedAstray(fd)
    <3>1. CASE fd \in astray
      BY <1>4, <2>2, <3>1
    <3>2. CASE fd \notin astray
      <4>1. fd = cur
        BY <2>1, <3>2 DEF Moved
      <4>2. \E f \in Of(fd) : sent[f].frame.op # "data" /\ Size(f) > 2 /\ Passed(fd, Start(f))
        BY <1>9, <3>2, <4>1, GoesAstray
      <4> QED
        BY <2>2, <4>2, LedBy
    <3> QED
      BY <3>1, <3>2
  <2> QED
    BY <1>3, <1>4, <2>1, <2>2, <2>3, LedGrows
<1>10. CASE lpop
  <2>1. /\ phase = "running" /\ ~queue_empty(queue) /\ queue' = queue_pop(queue)
        /\ out' = [out EXCEPT ![queue_front(queue).id] = Append(@, queue_front(queue).msg)]
        /\ UNCHANGED <<sent, datas, astray>>
    BY <1>10 DEF lpop, cvars
  <2>2. Packages /\ Returns
    BY <2>1 DEF Sound, Exact
  <2>3. out' = [out EXCEPT ![queue_front(queue).id] =
                  Append(out[queue_front(queue).id], queue_front(queue).msg)]
    BY <2>1, <2>2 DEF Returns
  <2>4. Count(fd)' = Count(fd) /\ \A i \in 1..Count(fd) : Made(fd, i)' = Made(fd, i)
    BY <2>1, <2>2, <2>3, Popped
  <2>5. Count(fd) \in Nat /\ LedAstray(fd)
    BY <1>4, <2>1
  <2>6. Grows(fd)
    BY <2>4, <2>5 DEF Grows
  <2> QED
    BY <1>3, <2>1, <2>5, <2>6, LedGrows
<1>11. CASE lclear
  BY <1>11 DEF lclear
<1>12. CASE UNCHANGED vars
  BY <1>5, <1>12 DEF vars, cvars, fvars
<1> QED
  BY <1>6, <1>7, <1>8, <1>9, <1>10, <1>11, <1>12 DEF Next

\* Exact and Led say more than FramesExact.
LEMMA ExactFrames == Sound /\ Exact /\ Led => FramesExact
<1> SUFFICES ASSUME Sound, Exact, Led, pc = "idle", phase = "running"
             PROVE  /\ \A i \in 1..queue_size(queue) : At(queue, i).id = At(queue, 1).id
                    /\ \A fd \in Fds : IF fd \in astray THEN LedAstray(fd)
                                       ELSE Delivered(fd, arrived[fd])
  BY DEF FramesExact
<1>1. \A i \in 1..queue_size(queue) : At(queue, i).id = At(queue, 1).id
  BY DEF Exact, Returns
<1>2. \A fd \in Fds : fd \in astray => LedAstray(fd)
  BY DEF Led
<1>3. \A fd \in Fds : fd \notin astray => Delivered(fd, arrived[fd])
  BY AllDelivered
<1> QED
  BY <1>1, <1>2, <1>3

\* Whatever the cuts into reads and the order of the sockets, filter is at the
\* beginning of a frame of each socket, or in the frame that the socket's struct
\* uncomplete holds the first bytes of, decoded, and the packages it has made
\* are those of the frames before it, unless it dropped the beginning of a frame
\* of that socket and not the rest.
THEOREM WebsocketExact == Spec => []Exact
<1>1. Init => Sound /\ Exact
  BY SoundInit, ExactInit
<1>2. Sound /\ Exact /\ [Next]_vars => (Sound /\ Exact)'
  BY SoundNext, ExactStep
<1> QED
  BY <1>1, <1>2, PTL DEF Spec

\* filter gets out of step with a socket only in a frame that is no data and
\* longer than two bytes; the packages sent before it are all made, and right.
THEOREM WebsocketLed == Spec => []Led
<1>1. Init => Led
  BY DEF Init, Led
<1>2. Sound /\ Exact /\ Led /\ [Next]_vars => Led'
  BY LedStep
<1> QED
  BY <1>1, <1>2, WebsocketSound, WebsocketExact, PTL DEF Spec

\* Between two calls of filter the caller has got, or finds in the ring, every
\* package of which all bytes have come, once, with its mask undone and in the
\* order of its socket, and nothing else; the ring that dispatch_queue empties
\* has packages of one socket only.  On a socket where filter dropped two bytes
\* of a longer frame (a masked close frame, a fragment) this holds of the
\* packages sent before that frame, and the other sockets are not concerned.
THEOREM WebsocketFramesExact == Spec => []FramesExact
  BY ExactFrames, WebsocketSound, WebsocketExact, WebsocketLed, PTL
=============================================================================
