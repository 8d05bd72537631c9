----------------------------- MODULE RingProofs -----------------------------
(***************************************************************************)
(* What the operations on a ring do to the queue it stands for, for every  *)
(* first size and every growth of the ring.                                *)
(***************************************************************************)
EXTENDS RingQueue, TLAPS

\* The fields of a queue (struct queue).
LEMMA RingFields ==
  ASSUME NEW T, NEW q, Ring(q, T)
  PROVE  /\ q.cap \in Nat /\ q.cap > 0
         /\ q.head \in Nat /\ q.head < q.cap
         /\ q.tail \in Nat /\ q.tail < q.cap
         /\ q.buffer \in [0..(q.cap - 1) -> T \cup {Garbage}]
         /\ q = [cap |-> q.cap, head |-> q.head, tail |-> q.tail, buffer |-> q.buffer]
  BY DEF Ring

\* A queue from its fields.
LEMMA RingMade ==
  ASSUME NEW T, NEW c \in Nat, c > 0, NEW h \in Nat, h < c, NEW t \in Nat, t < c,
         NEW b \in [0..(c - 1) -> T \cup {Garbage}]
  PROVE  Ring([cap |-> c, head |-> h, tail |-> t, buffer |-> b], T)
  BY DEF Ring

\* queue_init: a new queue is an empty ring.
LEMMA RingInit ==
  ASSUME NEW T
  PROVE  Ring(queue_init, T) /\ queue_size(queue_init) = 0
<1> DEFINE b == [i \in 0..(InitCap - 1) |-> Garbage]
<1>1. b \in [0..(InitCap - 1) -> T \cup {Garbage}]
  OBVIOUS
<1>2. Ring([cap |-> InitCap, head |-> 0, tail |-> 0, buffer |-> b], T)
  BY <1>1, RingMade, CapAssumption
<1>3. queue_size(queue_init) = 0
  BY DEF queue_size, queue_init
<1> QED
  BY <1>2, <1>3 DEF queue_init

\* queue_size: a ring always has a free slot; queue_empty is size 0.
LEMMA RingSize ==
  ASSUME NEW T, NEW q, Ring(q, T)
  PROVE  /\ queue_size(q) \in Nat
         /\ queue_size(q) < q.cap
         /\ queue_empty(q) <=> queue_size(q) = 0
  BY RingFields DEF queue_size, queue_empty

\* A step round the ring from the head leads to the next slot.
LEMMA SlotNext ==
  ASSUME NEW c \in Nat, NEW h \in Nat, h < c, NEW q, NEW r,
         q.cap = c, q.head = h, r.cap = c, r.head = After(q, h),
         NEW i \in Nat, i + 1 < c
  PROVE  Slot(r, i) = Slot(q, i + 1)
<1>1. CASE h + 1 >= c
  BY <1>1 DEF Slot, After
<1>2. CASE h + 1 < c
  BY <1>2 DEF Slot, After
<1> QED
  BY <1>1, <1>2

\* Slots that are fewer than cap places behind the head are in the ring.
LEMMA SlotRange ==
  ASSUME NEW T, NEW q, Ring(q, T), NEW i \in Nat, i < q.cap
  PROVE  Slot(q, i) \in 0..(q.cap - 1)
  BY RingFields DEF Slot

\* Different places behind the head are different slots.
LEMMA SlotDiffers ==
  ASSUME NEW T, NEW q, Ring(q, T), NEW i \in Nat, i < q.cap, NEW j \in Nat, j < q.cap, i # j
  PROVE  Slot(q, i) # Slot(q, j)
  BY RingFields DEF Slot

\* The tail is the slot behind the last element.
LEMMA SlotTail ==
  ASSUME NEW T, NEW q, Ring(q, T)
  PROVE  Slot(q, queue_size(q)) = q.tail
  BY RingFields DEF Slot, queue_size

\* queue_pop: the elements move up by one.
LEMMA RingPop ==
  ASSUME NEW T, NEW q, Ring(q, T), ~queue_empty(q)
  PROVE  /\ Ring(queue_pop(q), T)
         /\ queue_size(queue_pop(q)) = queue_size(q) - 1
         /\ queue_front(q) = At(q, 1)
         /\ \A i \in 1..(queue_size(q) - 1) : At(queue_pop(q), i) = At(q, i + 1)
<1>0. /\ q.cap \in Nat /\ q.cap > 0
      /\ q.head \in Nat /\ q.head < q.cap
      /\ q.tail \in Nat /\ q.tail < q.cap
      /\ q.buffer \in [0..(q.cap - 1) -> T \cup {Garbage}]
  BY RingFields
<1>1. PICK r : r = queue_pop(q)
  OBVIOUS
<1>2. r = [cap |-> q.cap, head |-> After(q, q.head), tail |-> q.tail, buffer |-> q.buffer]
  BY <1>1, RingFields DEF queue_pop
<1>3. After(q, q.head) \in Nat /\ After(q, q.head) < q.cap
  BY <1>0 DEF After
<1>4. Ring(r, T)
  BY <1>0, <1>2, <1>3, RingMade
<1>5. r.cap = q.cap /\ r.head = After(q, q.head) /\ r.tail = q.tail /\ r.buffer = q.buffer
  BY <1>2
<1>6. queue_size(r) = queue_size(q) - 1
  BY <1>0, <1>5 DEF queue_size, After, queue_empty
<1>7. queue_front(q) = At(q, 1)
  BY <1>0 DEF queue_front, At, Slot
<1>8. ASSUME NEW i \in 1..(queue_size(q) - 1)
      PROVE  At(r, i) = At(q, i + 1)
  <2>1. queue_size(q) \in Nat /\ queue_size(q) < q.cap
    BY RingSize
  <2>2. i - 1 \in Nat /\ (i - 1) + 1 < q.cap /\ (i - 1) + 1 = (i + 1) - 1
    BY <2>1, <1>0
  <2>3. Slot(r, i - 1) = Slot(q, (i - 1) + 1)
    BY <2>2, <1>0, <1>5, SlotNext
  <2> QED
    BY <2>2, <2>3, <1>5 DEF At
<1> QED
  BY <1>1, <1>4, <1>6, <1>7, <1>8

\* A full ring has one free slot.
LEMMA RingFull ==
  ASSUME NEW T, NEW q, Ring(q, T), After(q, q.tail) = q.head
  PROVE  queue_size(q) = q.cap - 1
<1>1. /\ q.cap \in Nat /\ q.cap > 0
      /\ q.head \in Nat /\ q.head < q.cap
      /\ q.tail \in Nat /\ q.tail < q.cap
  BY RingFields
<1>2. CASE q.tail + 1 >= q.cap
  BY <1>1, <1>2 DEF queue_size, After
<1>3. CASE q.tail + 1 < q.cap
  BY <1>1, <1>3 DEF queue_size, After
<1> QED
  BY <1>1, <1>2, <1>3

\* The queue with the value in the slot at its tail.
Put(q, v) == [q EXCEPT !.tail = After(q, q.tail), !.buffer[q.tail] = v]

\* The queue copied, head first, into one of n slots, with the value behind.
Copied(q, v, n) ==
  [cap |-> n, head |-> 0, tail |-> q.cap,
   buffer |-> [i \in 0..(n - 1) |->
                 IF i < q.cap - 1 THEN q.buffer[Slot(q, i)]
                 ELSE IF i = q.cap - 1 THEN v ELSE Garbage]]

\* expand_queue: a ring that is full is copied, head first, into one of n
\* slots, and the new value goes behind the copies.
LEMMA RingGrows ==
  ASSUME NEW T, NEW q, Ring(q, T), NEW v \in T, After(q, q.tail) = q.head,
         NEW n \in Nat, n > q.cap
  PROVE  /\ Ring(Copied(q, v, n), T)
         /\ queue_size(Copied(q, v, n)) = queue_size(q) + 1
         /\ At(Copied(q, v, n), queue_size(q) + 1) = v
         /\ \A i \in 1..queue_size(q) : At(Copied(q, v, n), i) = At(q, i)
<1>r. PICK r : r = Copied(q, v, n)
  OBVIOUS
<1>q. /\ q.cap \in Nat /\ q.cap > 0
      /\ q.head \in Nat /\ q.head < q.cap
      /\ q.tail \in Nat /\ q.tail < q.cap
      /\ q.buffer \in [0..(q.cap - 1) -> T \cup {Garbage}]
  BY RingFields
<1> DEFINE b == [i \in 0..(n - 1) |->
                   IF i < q.cap - 1 THEN q.buffer[Slot(q, i)]
                   ELSE IF i = q.cap - 1 THEN v ELSE Garbage]
<1>1. r = [cap |-> n, head |-> 0, tail |-> q.cap, buffer |-> b]
  BY <1>r DEF Copied
<1>2. queue_size(q) = q.cap - 1
  BY RingFull
<1>3. \A i \in 0..(q.cap - 2) : q.buffer[Slot(q, i)] \in T \cup {Garbage}
  <2> TAKE i \in 0..(q.cap - 2)
  <2>1. i \in Nat /\ i < q.cap
    BY <1>q
  <2> QED
    BY <2>1, <1>q, SlotRange
<1>4. b \in [0..(n - 1) -> T \cup {Garbage}]
  BY <1>3, <1>q
<1>5. r.cap = n /\ r.head = 0 /\ r.tail = q.cap /\ r.buffer = b
  BY <1>1
<1>6. \A i \in 0..(q.cap - 2) : b[i] = q.buffer[Slot(q, i)]
  BY <1>q
<1>7. b[q.cap - 1] = v
  BY <1>q
<1> HIDE DEF b
<1>8. Ring(r, T)
  BY <1>1, <1>4, <1>q, RingMade
<1>9. queue_size(r) = q.cap
  BY <1>5, <1>q DEF queue_size
<1>10. \A i \in 0..(q.cap - 1) : Slot(r, i) = i
  BY <1>5, <1>q DEF Slot
<1>11. At(r, q.cap) = v
  BY <1>5, <1>7, <1>10, <1>q DEF At
<1>12. \A i \in 1..(q.cap - 1) : At(r, i) = At(q, i)
  BY <1>5, <1>6, <1>10, <1>q DEF At
<1> QED
  BY <1>r, <1>q, <1>2, <1>8, <1>9, <1>11, <1>12

\* A ring that is not full takes the value into the slot at its tail.
LEMMA RingTakes ==
  ASSUME NEW T, NEW q, Ring(q, T), NEW v \in T, After(q, q.tail) # q.head
  PROVE  /\ Ring(Put(q, v), T)
         /\ queue_size(Put(q, v)) = queue_size(q) + 1
         /\ At(Put(q, v), queue_size(q) + 1) = v
         /\ \A i \in 1..queue_size(q) : At(Put(q, v), i) = At(q, i)
<1>r. PICK r : r = Put(q, v)
  OBVIOUS
<1>q. /\ q.cap \in Nat /\ q.cap > 0
      /\ q.head \in Nat /\ q.head < q.cap
      /\ q.tail \in Nat /\ q.tail < q.cap
      /\ q.buffer \in [0..(q.cap - 1) -> T \cup {Garbage}]
  BY RingFields
<1>n. queue_size(q) \in Nat /\ queue_size(q) < q.cap
  BY RingSize
<1>1. r = [cap |-> q.cap, head |-> q.head, tail |-> After(q, q.tail),
           buffer |-> [q.buffer EXCEPT ![q.tail] = v]]
  <2> DEFINE p == [q EXCEPT !.tail = After(q, q.tail)]
  <2>1. r = [p EXCEPT !.buffer = [p.buffer EXCEPT ![q.tail] = v]]
    BY <1>r DEF Put
  <2>2. p = [cap |-> q.cap, head |-> q.head, tail |-> After(q, q.tail), buffer |-> q.buffer]
    BY RingFields
  <2> HIDE DEF p
  <2>3. /\ p.cap = q.cap /\ p.head = q.head
        /\ p.tail = After(q, q.tail) /\ p.buffer = q.buffer
        /\ p = [cap |-> p.cap, head |-> p.head, tail |-> p.tail, buffer |-> p.buffer]
    BY <2>2
  <2> QED
    BY <2>1, <2>3
<1>2. After(q, q.tail) \in Nat /\ After(q, q.tail) < q.cap
  BY <1>q DEF After
<1>3. [q.buffer EXCEPT ![q.tail] = v] \in [0..(q.cap - 1) -> T \cup {Garbage}]
  BY <1>q
<1>4. Ring(r, T)
  BY <1>1, <1>2, <1>3, <1>q, RingMade
<1>5. r.cap = q.cap /\ r.head = q.head /\ r.tail = After(q, q.tail)
      /\ r.buffer = [q.buffer EXCEPT ![q.tail] = v]
  BY <1>1
<1>6. queue_size(r) = queue_size(q) + 1
  BY <1>5, <1>q DEF queue_size, After
<1>7. \A i : Slot(r, i) = Slot(q, i)
  BY <1>5 DEF Slot
<1>8. At(r, queue_size(q) + 1) = v
  <2>1. Slot(r, (queue_size(q) + 1) - 1) = q.tail
    BY <1>7, <1>n, SlotTail
  <2> QED
    BY <2>1, <1>5, <1>q DEF At
<1>9. ASSUME NEW i \in 1..queue_size(q)
      PROVE  At(r, i) = At(q, i)
  <2>1. i - 1 \in Nat /\ i - 1 < q.cap /\ i - 1 # queue_size(q)
    BY <1>n, <1>q
  <2>2. Slot(q, i - 1) # q.tail /\ Slot(q, i - 1) \in 0..(q.cap - 1)
    BY <2>1, <1>n, SlotDiffers, SlotTail, SlotRange
  <2> QED
    BY <2>2, <1>5, <1>7, <1>q DEF At
<1> QED
  BY <1>r, <1>4, <1>6, <1>8, <1>9

\* queue_push: the value goes behind the elements, which stay in their order.
LEMMA RingPush ==
  ASSUME NEW T, NEW q, Ring(q, T), NEW v \in T
  PROVE  /\ Ring(queue_push(q, v), T)
         /\ queue_size(queue_push(q, v)) = queue_size(q) + 1
         /\ At(queue_push(q, v), queue_size(q) + 1) = v
         /\ \A i \in 1..queue_size(q) : At(queue_push(q, v), i) = At(q, i)
<1>1. CASE After(q, q.tail) = q.head
  <2>1. queue_push(q, v) = Copied(q, v, 2 * q.cap)
    BY <1>1 DEF queue_push, Grown, Copied
  <2>2. 2 * q.cap \in Nat /\ 2 * q.cap > q.cap
    BY RingFields
  <2> QED
    BY <1>1, <2>1, <2>2, RingGrows
<1>2. CASE After(q, q.tail) # q.head
  <2>1. queue_push(q, v) = Put(q, v)
    BY <1>2 DEF queue_push, Put
  <2> QED
    BY <1>2, <2>1, RingTakes
<1> QED
  BY <1>1, <1>2

\* package_release: a queue whose head is moved to its tail is empty.
LEMMA RingClear ==
  ASSUME NEW T, NEW q, Ring(q, T)
  PROVE  /\ Ring([q EXCEPT !.head = q.tail], T)
         /\ queue_size([q EXCEPT !.head = q.tail]) = 0
<1>1. [q EXCEPT !.head = q.tail]
        = [cap |-> q.cap, head |-> q.tail, tail |-> q.tail, buffer |-> q.buffer]
  BY RingFields
<1>2. Ring([cap |-> q.cap, head |-> q.tail, tail |-> q.tail, buffer |-> q.buffer], T)
  BY RingFields, RingMade
<1>3. queue_size([cap |-> q.cap, head |-> q.tail, tail |-> q.tail, buffer |-> q.buffer]) = 0
  BY RingFields DEF queue_size
<1> QED
  BY <1>1, <1>2, <1>3

\* lclear: a queue whose head and tail are set to 0 is empty.
LEMMA RingReset ==
  ASSUME NEW T, NEW q, Ring(q, T)
  PROVE  /\ Ring([q EXCEPT !.head = 0, !.tail = 0], T)
         /\ queue_size([q EXCEPT !.head = 0, !.tail = 0]) = 0
<1>1. [q EXCEPT !.head = 0, !.tail = 0]
        = [cap |-> q.cap, head |-> 0, tail |-> 0, buffer |-> q.buffer]
  <2>1. q = [cap |-> q.cap, head |-> q.head, tail |-> q.tail, buffer |-> q.buffer]
    BY RingFields
  <2>2. PICK p : p = [q EXCEPT !.head = 0]
    OBVIOUS
  <2>3. p = [cap |-> q.cap, head |-> 0, tail |-> q.tail, buffer |-> q.buffer]
    BY <2>1, <2>2
  <2>4. [p EXCEPT !.tail = 0] = [cap |-> q.cap, head |-> 0, tail |-> 0, buffer |-> q.buffer]
    BY <2>3
  <2> QED
    BY <2>2, <2>4
<1>2. Ring([cap |-> q.cap, head |-> 0, tail |-> 0, buffer |-> q.buffer], T)
  BY RingFields, RingMade
<1>3. queue_size([cap |-> q.cap, head |-> 0, tail |-> 0, buffer |-> q.buffer]) = 0
  BY DEF queue_size
<1> QED
  BY <1>1, <1>2, <1>3

\* A queue of elements of T is one of elements of a larger set.
LEMMA RingWider ==
  ASSUME NEW T, NEW U, T \subseteq U, NEW q, Ring(q, T)
  PROVE  Ring(q, U)
<1>1. /\ q.cap \in Nat /\ q.cap > 0
      /\ q.head \in Nat /\ q.head < q.cap
      /\ q.tail \in Nat /\ q.tail < q.cap
      /\ q.buffer \in [0..(q.cap - 1) -> T \cup {Garbage}]
      /\ q = [cap |-> q.cap, head |-> q.head, tail |-> q.tail, buffer |-> q.buffer]
  BY RingFields
<1>2. q.buffer \in [0..(q.cap - 1) -> U \cup {Garbage}]
  BY <1>1
<1>3. Ring([cap |-> q.cap, head |-> q.head, tail |-> q.tail, buffer |-> q.buffer], U)
  BY <1>1, <1>2, RingMade
<1> QED
  BY <1>1, <1>3
=============================================================================
