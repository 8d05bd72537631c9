----------------------------- MODULE RingQueue ------------------------------
(***************************************************************************)
(* struct queue of service_package.c: a ring of cap slots in which head is *)
(* the slot of the oldest element and tail the next free one.  One slot is *)
(* always free; a push that would fill the ring doubles it.                *)
(***************************************************************************)
EXTENDS Integers

CONSTANTS InitCap,  \* slots of a new queue: 4 in the code
          Garbage   \* what memory holds before it is written

ASSUME CapAssumption == InitCap \in Nat /\ InitCap > 0

queue_init == [cap |-> InitCap, head |-> 0, tail |-> 0,
               buffer |-> [i \in 0..(InitCap - 1) |-> Garbage]]

queue_empty(q) == q.head = q.tail

After_bug(q, i) == IF i + 1 > q.cap THEN 0 ELSE i + 1

\* The slot after i, round the ring.
After(q, i) == IF i + 1 >= q.cap THEN 0 ELSE i + 1

\* The two effects of queue_pop: what it returns, and the queue it leaves.
queue_front(q) == q.buffer[q.head]
queue_pop(q)   == [q EXCEPT !.head = After(q, q.head)]

\* The slot that is i places behind the head.
Slot(q, i) == IF q.head + i >= q.cap THEN q.head + i - q.cap ELSE q.head + i

Grown_bug(q, v) ==
  [cap |-> 2 * q.cap, head |-> 0, tail |-> q.cap,
   buffer |-> [i \in 0..(2 * q.cap - 1) |->
                 IF i < q.cap - 1 THEN q.buffer[i]
                 ELSE IF i = q.cap - 1 THEN v ELSE Garbage]]

\* A full ring is copied, head first, into one of twice the size; the new
\* value goes into the slot that push had taken, now the last of the copies.
Grown(q, v) ==
  [cap |-> 2 * q.cap, head |-> 0, tail |-> q.cap,
   buffer |-> [i \in 0..(2 * q.cap - 1) |->
                 IF i < q.cap - 1 THEN q.buffer[Slot(q, i)]
                 ELSE IF i = q.cap - 1 THEN v ELSE Garbage]]

queue_push(q, v) ==
  IF After(q, q.tail) = q.head THEN Grown(q, v)
  ELSE [q EXCEPT !.tail = After(q, q.tail), !.buffer[q.tail] = v]

queue_size(q) == IF q.head > q.tail THEN q.tail + q.cap - q.head
                                    ELSE q.tail - q.head

-----------------------------------------------------------------------------
\* The i-th element from the front: the FIFO a queue stands for.
At(q, i) == q.buffer[Slot(q, i - 1)]

Contents(q) == {At(q, i) : i \in 1..queue_size(q)}

\* A queue of elements of T.
Ring(q, T) ==
  /\ q \in [cap : Nat \ {0}, head : Nat, tail : Nat,
            buffer : [0..(q.cap - 1) -> T \cup {Garbage}]]
  /\ q.head < q.cap /\ q.tail < q.cap
=============================================================================
