----------------------------- MODULE DataProofs -----------------------------
(***************************************************************************)
(* Proofs about AgentData: the types, and that neither a payment nor a     *)
(* study record that the client was told of is lost.                       *)
(*                                                                         *)
(* The inductive invariant Kept has four parts.  Shape says which job each *)
(* coroutine of the database service can have and that the operations on   *)
(* their way are theirs, once each.  Money says that a course the client   *)
(* was told it has paid is in the database and in every copy of the list   *)
(* that CheckPayInfo reads or will read.  Names says, while no save of a   *)
(* close failed and $ took no wrong element, where the names of the        *)
(* records the client was told of are: in the database while no session is *)
(* open, in what an open has loaded, in the agent while it is online, and  *)
(* during a close in the database or among what the close has still to     *)
(* write.  Records says the same of the records themselves, and that there *)
(* are no others, while no save overlapped another one, an open or the     *)
(* close.                                                                  *)
(***************************************************************************)
EXTENDS AgentData, TLAPS, SequenceTheorems, NaturalsInduction, WellFoundedInduction

Course == [key : Keys]

\* A save: an operation under way with what is left to write, or its answer.
Save(T) == [op : {"find", "push", "set"}, todo : Seq(T) \ {<<>>}]
             \cup [op : {"done"}, todo : Seq(T)]

\* A load: the operation under way, or what it found.
Load(op, T) == [op : {op}, todo : {<<>>}] \cup [op : {"done"}, todo : Seq(T) \cup {None}]

Opening == {"loadpay", "loadrec"}

\* The types of the agent's variables and of the two arrays.
Plain ==
  /\ agent \in {"none", "loadpay", "loadrec", "online", "closing", "stuck"}
  /\ info = None \/ info \in Seq(Element)
  /\ kept \in Seq(Element) /\ recDoc \in Seq(Element)
  /\ payInfo = None \/ payInfo \in Seq(Course)
  /\ payDoc \in Seq(Course) /\ paid \in Seq(Course)
  /\ cs \in Seq(Request) /\ paying \in BOOLEAN
  /\ mixed \subseteq {"ResultInfo", "PayInfo"}
  /\ overlap \in BOOLEAN /\ failed \in BOOLEAN

\* The callers that write records, and all that write.
Recorders == {"close"} \cup Kickers
Savers == Recorders \cup {"pay"}

\* What caller c writes.
Item(c) == IF c = "pay" THEN Course ELSE Element

\* What each caller can have under way, and when.
Work ==
  /\ jobs \in [Callers -> Job \cup {None}]
  /\ agent = "loadpay" => jobs["open"] \in Load("GetPayInfo", Course)
  /\ agent = "loadrec" => jobs["open"] \in Load("getResultInfo", Element)
  /\ agent \notin Opening => Idle("open")
  /\ \A c \in Savers : Idle(c) \/ jobs[c] \in Save(Item(c))
  /\ Idle("close") \/ agent = "closing"
  /\ Idle("pay") <=> ~paying
  /\ paying => /\ cs # <<>> /\ Head(cs).type = "pay"
               /\ jobs["pay"].todo \in {<<>>, <<[key |-> Head(cs).key]>>}

\* The operations on their way are those of the coroutines that have one.
Mail ==
  /\ mq \in Seq(Callers) /\ IsInjective(mq)
  /\ \A c \in Callers : Saving(c) <=> c \in ToSet(mq)

Shape == Plain /\ Work /\ Mail

\* The payment that the database has written, or is about to.
Payments ==
  "PayInfo" \notin mixed =>
    /\ \A e \in ToSet(paid) : HasKey(payDoc, e.key)
    /\ paying /\ Done("pay") /\ jobs["pay"].todo # <<>> => HasKey(payDoc, Head(cs).key)
    /\ paying /\ jobs["pay"].op = "set" => Matches(payDoc, Head(cs).key)

\* A course that is paid is in the list that CheckPayInfo reads.
Known ==
  "PayInfo" \notin mixed =>
    /\ payInfo # None => \A e \in ToSet(paid) : HasKey(payInfo, e.key)
    /\ agent = "loadpay" /\ Done("open") /\ jobs["open"].todo # None =>
         \A e \in ToSet(paid) : HasKey(jobs["open"].todo, e.key)
    /\ paying => \A e \in ToSet(paid) : e.key # Head(cs).key
    /\ IsInjective(paid)

\* One element for each name.
Unique(list) ==
  \A i, j \in DOMAIN list : list[i].key = list[j].key => i = j

\* Every name of the one list is a name of the other.
Covers(big, small) == \A e \in ToSet(small) : HasKey(big, e.key)

Sane == ~failed /\ "ResultInfo" \notin mixed
Sound == Sane /\ ~overlap

\* The names the client was told of.
Named ==
  /\ agent \in {"none", "loadpay", "loadrec"} => Covers(recDoc, kept)
  /\ agent = "loadrec" /\ Done("open") /\ jobs["open"].todo # None
       => Covers(jobs["open"].todo, kept)
  /\ agent = "online" /\ info # None => Covers(info, kept)
  /\ agent = "closing" => \A e \in ToSet(kept) :
       HasKey(recDoc, e.key) \/ (Saving("close") /\ HasKey(jobs["close"].todo, e.key))

\* A save changes an element that is there.
Found(c) ==
  Saving(c) /\ jobs[c].op = "set" => Matches(recDoc, jobs[c].todo[1].key)

Names == Sane => Named /\ \A c \in Recorders : Found(c)

\* The save that is under way writes what it found.
Writing(c) ==
  Saving(c) =>
    LET k == jobs[c].todo[1].key IN
    /\ jobs[c].op = "push" => ~HasKey(recDoc, k)
    /\ jobs[c].op = "set" => Matches(recDoc, k)

\* In the two lists of records that outlive the agent.
Lists == Unique(recDoc) /\ Unique(kept)

\* One kick saves, while the agent is online, names that the agent has.
Kicking ==
  \A k \in Kickers : Saving(k) =>
    /\ agent = "online" /\ Covers(info, jobs[k].todo)
    /\ \A l \in Kickers : Saving(l) => l = k

\* Offline the database has what the client was told; online the agent has it.
Offline ==
  /\ agent = "loadrec" /\ Done("open") => jobs["open"].todo \in {recDoc, None}
  /\ agent \in {"none", "loadpay", "loadrec"} => ToSet(recDoc) = ToSet(kept)

Online ==
  agent = "online" /\ info # None =>
    Unique(info) /\ ToSet(info) = ToSet(kept) /\ Covers(info, recDoc)

\* While it closes, what is not in the database is still to be written.
Closing ==
  agent = "closing" =>
    /\ Covers(kept, recDoc)
    /\ Saving("close") =>
         /\ ToSet(jobs["close"].todo) \subseteq ToSet(kept)
         /\ ToSet(kept) \subseteq ToSet(recDoc) \cup ToSet(jobs["close"].todo)
    /\ ~Saving("close") => ToSet(kept) \subseteq ToSet(recDoc)

Faithful ==
  /\ Lists /\ Kicking /\ Offline /\ Online /\ Closing
  /\ \A c \in Recorders : Writing(c)

Records == Sound => Faithful

LEMMA CallersAre ==
  /\ Savers \subseteq Callers /\ Recorders \subseteq Savers /\ Kickers \subseteq Recorders
  /\ "open" \in Callers /\ "open" \notin Savers /\ "pay" \in Savers /\ "pay" \notin Recorders
  /\ "close" \in Recorders /\ "close" \notin Kickers
  /\ Callers = Savers \cup {"open"}
BY KickAssumption DEF Savers, Recorders, Callers
(***************************************************************************)
(* Sequences and the sets of their elements.                               *)
(***************************************************************************)
LEMMA InToSet ==
  ASSUME NEW T, NEW s \in Seq(T), NEW i \in 1..Len(s)
  PROVE  s[i] \in ToSet(s)
BY LenProperties DEF ToSet

LEMMA OfToSet ==
  ASSUME NEW T, NEW s \in Seq(T), NEW x \in ToSet(s)
  PROVE  x \in T /\ \E i \in 1..Len(s) : s[i] = x
BY LenProperties, ElementOfSeq DEF ToSet

LEMMA EmptyToSet == ToSet(<<>>) = {}
BY DEF ToSet

LEMMA ToSetEmpty ==
  ASSUME NEW T, NEW s \in Seq(T), ToSet(s) = {}
  PROVE  s = <<>>
<1> SUFFICES ASSUME s # <<>> PROVE FALSE
  OBVIOUS
<1>1. Len(s) \in Nat \ {0}
  BY EmptySeq
<1>2. 1 \in 1..Len(s)
  BY <1>1
<1> QED
  BY <1>2, InToSet

LEMMA HeadFirst ==
  ASSUME NEW T, NEW s \in Seq(T), s # <<>>
  PROVE  /\ Len(s) \in Nat \ {0} /\ 1 \in 1..Len(s)
         /\ Head(s) = s[1] /\ Head(s) \in T /\ Head(s) \in ToSet(s)
<1>1. Len(s) \in Nat \ {0}
  BY EmptySeq
<1>2. 1 \in 1..Len(s)
  BY <1>1
<1>3. Head(s) = s[1] /\ Head(s) \in T
  BY HeadTailProperties
<1> QED
  BY <1>1, <1>2, <1>3, InToSet

LEMMA AppendAt ==
  ASSUME NEW T, NEW s \in Seq(T), NEW x \in T
  PROVE  /\ Append(s, x) \in Seq(T) /\ Append(s, x) # <<>>
         /\ Len(Append(s, x)) = Len(s) + 1 /\ Len(s) \in Nat
         /\ 1..Len(Append(s, x)) = (1..Len(s)) \cup {Len(s) + 1}
         /\ \A i \in 1..Len(s) : Append(s, x)[i] = s[i]
         /\ Append(s, x)[Len(s) + 1] = x
<1>1. Append(s, x) \in Seq(T) /\ Len(Append(s, x)) = Len(s) + 1
  BY AppendProperties
<1>2. /\ \A i \in 1..Len(s) : Append(s, x)[i] = s[i]
      /\ Append(s, x)[Len(s) + 1] = x
  BY AppendProperties
<1>3. Append(s, x) # <<>>
  BY AppendProperties
<1>4. Len(s) \in Nat
  BY LenProperties
<1>5. 1..Len(Append(s, x)) = (1..Len(s)) \cup {Len(s) + 1}
  BY <1>1, <1>4
<1> QED
  BY <1>1, <1>2, <1>3, <1>4, <1>5

LEMMA AppendToSet ==
  ASSUME NEW T, NEW s \in Seq(T), NEW x \in T
  PROVE  ToSet(Append(s, x)) = ToSet(s) \cup {x}
<1> DEFINE a == Append(s, x)
<1>0. /\ a \in Seq(T) /\ 1..Len(a) = (1..Len(s)) \cup {Len(s) + 1}
      /\ (\A i \in 1..Len(s) : a[i] = s[i]) /\ a[Len(s) + 1] = x
  BY AppendAt
<1> HIDE DEF a
<1>1. ASSUME NEW y \in ToSet(a) PROVE y \in ToSet(s) \cup {x}
  <2>1. PICK i \in 1..Len(a) : a[i] = y
    BY <1>0, <1>1, OfToSet
  <2> QED
    BY <1>0, <2>1, InToSet
<1>2. ASSUME NEW y \in ToSet(s) PROVE y \in ToSet(a)
  <2>1. PICK i \in 1..Len(s) : s[i] = y
    BY <1>2, OfToSet
  <2> QED
    BY <1>0, <2>1, InToSet
<1>3. x \in ToSet(a)
  BY <1>0, InToSet
<1>4. ToSet(a) = ToSet(s) \cup {x}
  BY <1>1, <1>2, <1>3
<1> QED
  BY <1>4 DEF a

LEMMA TailAt ==
  ASSUME NEW T, NEW s \in Seq(T), s # <<>>
  PROVE  /\ Tail(s) \in Seq(T) /\ Len(s) \in Nat \ {0}
         /\ Len(Tail(s)) = Len(s) - 1
         /\ \A i \in 1..Len(Tail(s)) : i + 1 \in 1..Len(s) /\ Tail(s)[i] = s[i + 1]
<1>1. Tail(s) \in Seq(T) /\ Len(Tail(s)) = Len(s) - 1
  BY HeadTailProperties
<1>2. \A i \in 1..Len(Tail(s)) : Tail(s)[i] = s[i + 1]
  BY HeadTailProperties
<1>3. Len(s) \in Nat \ {0}
  BY EmptySeq
<1>4. \A i \in 1..Len(Tail(s)) : i + 1 \in 1..Len(s)
  BY <1>1, <1>3
<1> QED
  BY <1>1, <1>2, <1>3, <1>4

LEMMA TailToSet ==
  ASSUME NEW T, NEW s \in Seq(T), s # <<>>
  PROVE  ToSet(s) = ToSet(Tail(s)) \cup {Head(s)}
<1> DEFINE t == Tail(s)
<1>0. /\ t \in Seq(T) /\ Len(s) \in Nat \ {0} /\ Len(t) = Len(s) - 1
      /\ \A i \in 1..Len(t) : i + 1 \in 1..Len(s) /\ t[i] = s[i + 1]
  BY TailAt
<1>h. Head(s) = s[1] /\ Head(s) \in ToSet(s)
  BY HeadFirst
<1> HIDE DEF t
<1>1. ASSUME NEW y \in ToSet(s) PROVE y \in ToSet(t) \cup {Head(s)}
  <2>1. PICK i \in 1..Len(s) : s[i] = y
    BY <1>1, OfToSet
  <2>2. CASE i = 1
    BY <2>1, <2>2, <1>h
  <2>3. CASE i # 1
    <3>1. i - 1 \in 1..Len(t) /\ (i - 1) + 1 = i
      BY <1>0, <2>3
    <3>2. t[i - 1] = y
      BY <1>0, <2>1, <3>1
    <3> QED
      BY <1>0, <3>1, <3>2, InToSet
  <2> QED
    BY <2>2, <2>3
<1>2. ASSUME NEW y \in ToSet(t) PROVE y \in ToSet(s)
  <2>1. PICK i \in 1..Len(t) : t[i] = y
    BY <1>0, <1>2, OfToSet
  <2>2. i + 1 \in 1..Len(s) /\ s[i + 1] = y
    BY <1>0, <2>1
  <2> QED
    BY <2>2, InToSet
<1>3. ToSet(s) = ToSet(t) \cup {Head(s)}
  BY <1>1, <1>2, <1>h
<1> QED
  BY <1>3 DEF t

LEMMA InjectiveAt ==
  ASSUME NEW T, NEW s \in Seq(T)
  PROVE  IsInjective(s) <=> \A i, j \in 1..Len(s) : s[i] = s[j] => i = j
BY LenProperties DEF IsInjective

LEMMA AppendKeepsInjective ==
  ASSUME NEW T, NEW s \in Seq(T), NEW x \in T, IsInjective(s), x \notin ToSet(s)
  PROVE  IsInjective(Append(s, x))
<1>0. /\ Append(s, x) \in Seq(T) /\ Len(s) \in Nat
      /\ 1..Len(Append(s, x)) = (1..Len(s)) \cup {Len(s) + 1}
      /\ \A i \in 1..Len(s) : Append(s, x)[i] = s[i]
      /\ Append(s, x)[Len(s) + 1] = x
  BY AppendAt
<1>1. \A i \in 1..Len(s) : s[i] # x
  BY InToSet
<1>2. \A i, j \in 1..Len(s) : s[i] = s[j] => i = j
  BY InjectiveAt
<1> SUFFICES ASSUME NEW i \in 1..Len(Append(s, x)), NEW j \in 1..Len(Append(s, x)),
                    Append(s, x)[i] = Append(s, x)[j]
             PROVE  i = j
  BY <1>0, InjectiveAt
<1> QED
  BY <1>0, <1>1, <1>2

LEMMA TailKeepsInjective ==
  ASSUME NEW T, NEW s \in Seq(T), s # <<>>, IsInjective(s)
  PROVE  IsInjective(Tail(s)) /\ ToSet(Tail(s)) = ToSet(s) \ {Head(s)}
<1> DEFINE t == Tail(s)
<1>0. /\ t \in Seq(T) /\ Len(s) \in Nat \ {0} /\ Len(t) = Len(s) - 1
      /\ \A i \in 1..Len(t) : i + 1 \in 1..Len(s) /\ t[i] = s[i + 1]
  BY TailAt
<1>h. Head(s) = s[1] /\ 1 \in 1..Len(s)
  BY HeadFirst
<1>u. ToSet(s) = ToSet(t) \cup {Head(s)}
  BY TailToSet
<1> HIDE DEF t
<1>2. \A i, j \in 1..Len(s) : s[i] = s[j] => i = j
  BY InjectiveAt
<1>3. ASSUME NEW i \in 1..Len(t), NEW j \in 1..Len(t), t[i] = t[j] PROVE i = j
  <2>1. i + 1 = j + 1
    BY <1>0, <1>2, <1>3
  <2> QED
    BY <2>1
<1>4. IsInjective(t)
  BY <1>0, <1>3, InjectiveAt
<1>5. Head(s) \notin ToSet(t)
  <2> SUFFICES ASSUME Head(s) \in ToSet(t) PROVE FALSE
    OBVIOUS
  <2>1. PICK i \in 1..Len(t) : t[i] = Head(s)
    BY <1>0, OfToSet
  <2>2. i + 1 = 1
    BY <1>0, <1>2, <1>h, <2>1
  <2> QED
    BY <2>2
<1>6. IsInjective(t) /\ ToSet(t) = ToSet(s) \ {Head(s)}
  BY <1>4, <1>5, <1>u
<1> QED
  BY <1>6 DEF t

LEMMA ExceptToSet ==
  ASSUME NEW T, NEW s \in Seq(T), NEW n \in 1..Len(s), NEW x \in T
  PROVE  /\ [s EXCEPT ![n] = x] \in Seq(T)
         /\ Len([s EXCEPT ![n] = x]) = Len(s)
         /\ x \in ToSet([s EXCEPT ![n] = x])
         /\ ToSet([s EXCEPT ![n] = x]) \subseteq ToSet(s) \cup {x}
         /\ \A y \in ToSet(s) : y # s[n] => y \in ToSet([s EXCEPT ![n] = x])
         /\ \A i \in 1..Len(s) : [s EXCEPT ![n] = x][i] = IF i = n THEN x ELSE s[i]
<1> DEFINE a == [s EXCEPT ![n] = x]
<1>0. a \in Seq(T) /\ Len(a) = Len(s)
  BY ExceptSeq
<1>1. \A i \in 1..Len(s) : a[i] = IF i = n THEN x ELSE s[i]
  BY ExceptSeq
<1> HIDE DEF a
<1>2. x \in ToSet(a)
  BY <1>0, <1>1, InToSet
<1>3. ASSUME NEW y \in ToSet(a) PROVE y \in ToSet(s) \cup {x}
  <2>1. PICK i \in 1..Len(a) : a[i] = y
    BY <1>0, <1>3, OfToSet
  <2> QED
    BY <1>0, <1>1, <2>1, InToSet
<1>4. ASSUME NEW y \in ToSet(s), y # s[n] PROVE y \in ToSet(a)
  <2>1. PICK i \in 1..Len(s) : s[i] = y
    BY <1>4, OfToSet
  <2> QED
    BY <1>0, <1>1, <1>4, <2>1, InToSet
<1>5. /\ a \in Seq(T) /\ Len(a) = Len(s) /\ x \in ToSet(a)
      /\ ToSet(a) \subseteq ToSet(s) \cup {x}
      /\ \A y \in ToSet(s) : y # s[n] => y \in ToSet(a)
      /\ \A i \in 1..Len(s) : a[i] = IF i = n THEN x ELSE s[i]
  BY <1>0, <1>1, <1>2, <1>3, <1>4
<1> QED
  BY <1>5 DEF a

\* A set of natural numbers that is not empty has a minimum.
LEMMA MinIn ==
  ASSUME NEW S, S \subseteq Nat, S # {}
  PROVE  Min(S) \in S
<1> DEFINE R == {ss \in Nat \X Nat : ss[1] < ss[2]}
<1>1. IsWellFoundedOn(R, Nat)
  BY NatLessThanWellFounded, Zenon DEF OpToRel
<1>2. \A x, y \in Nat : y < x => <<y, x>> \in R
  OBVIOUS
<1> HIDE DEF R
<1>3. PICK x \in S : \A y \in S : ~(<<y, x>> \in R)
  BY <1>1, WFMin
<1>4. ASSUME NEW y \in S PROVE x =< y
  <2>1. x \in Nat /\ y \in Nat
    OBVIOUS
  <2>2. ~(y < x)
    BY <1>2, <1>3, <2>1
  <2> QED
    BY <2>1, <2>2
<1> QED
  BY <1>4, Zenon DEF Min
-----------------------------------------------------------------------------
(***************************************************************************)
(* Coroutines of the database service.                                     *)
(***************************************************************************)
LEMMA SaveIn ==
  ASSUME NEW T, NEW j \in Save(T)
  PROVE  /\ j.todo \in Seq(T) /\ j.op \in {"find", "push", "set", "done"}
         /\ j.op # "done" => j.todo # <<>>
         /\ j = [op |-> j.op, todo |-> j.todo]
BY DEF Save

LEMMA SaveJob ==
  ASSUME NEW T, NEW op \in {"find", "push", "set"}, NEW todo \in Seq(T), todo # <<>>
  PROVE  [op |-> op, todo |-> todo] \in Save(T)
BY DEF Save

LEMMA DoneJob ==
  ASSUME NEW T, NEW todo \in Seq(T)
  PROVE  /\ [op |-> "done", todo |-> todo] \in Save(T)
         /\ \A op : [op |-> "done", todo |-> todo] \in Load(op, T)
BY DEF Save, Load

LEMMA LoadIn ==
  ASSUME NEW T, NEW op, NEW j \in Load(op, T)
  PROVE  /\ j.op \in {op, "done"} /\ (j.op = "done" => j.todo = None \/ j.todo \in Seq(T))
         /\ (j.op # "done" => j.todo = <<>>)
         /\ j = [op |-> j.op, todo |-> j.todo]
<1>1. CASE j \in [op : {op}, todo : {<<>>}]
  <2>1. j.op = op /\ j.todo = <<>>
    BY <1>1
  <2>2. j = [op |-> j.op, todo |-> j.todo]
    BY <1>1
  <2>3. <<>> \in Seq(T)
    BY EmptySeq
  <2> QED
    BY <2>1, <2>2, <2>3
<1>2. CASE j \in [op : {"done"}, todo : Seq(T) \cup {None}]
  BY <1>2
<1> QED
  BY <1>1, <1>2 DEF Load

LEMMA LoadJob ==
  ASSUME NEW T, NEW op
  PROVE  /\ [op |-> op, todo |-> <<>>] \in Load(op, T)
         /\ [op |-> "done", todo |-> None] \in Load(op, T)
BY DEF Load

LEMMA JobSets ==
  /\ \A c \in Savers : Save(Item(c)) \subseteq Job
  /\ Load("GetPayInfo", Course) \subseteq Job
  /\ Load("getResultInfo", Element) \subseteq Job
<1>1. /\ Save(Course) \subseteq Job /\ Save(Element) \subseteq Job
  BY DEF Save, Job, Course
<1>2. \A T : <<>> \in Seq(T)
  BY EmptySeq
<1>3. /\ Load("GetPayInfo", Course) \subseteq Job
      /\ Load("getResultInfo", Element) \subseteq Job
  BY <1>2 DEF Load, Job, Course
<1> QED
  BY <1>1, <1>3 DEF Item

LEMMA JobNotNone ==
  ASSUME NEW j \in Job PROVE j # None
BY JobAssumption

\* The coroutine whose operation is executed.
LEMMA Executing ==
  ASSUME Shape, NEW c \in Callers, NEW op, Executes(c, op)
  PROVE  /\ mq # <<>> /\ c = Head(mq) /\ Saving(c) /\ jobs[c] # None
         /\ jobs[c].op = op /\ op # "done"
         /\ op = "GetPayInfo" => c = "open" /\ agent = "loadpay"
         /\ op = "getResultInfo" => c = "open" /\ agent = "loadrec"
         /\ op \in {"find", "push", "set"} =>
              /\ c \in Savers /\ jobs[c] \in Save(Item(c))
              /\ jobs[c].todo \in Seq(Item(c)) /\ jobs[c].todo # <<>>
              /\ jobs[c].todo[1] \in Item(c)
              /\ c = "close" => agent = "closing"
              /\ c = "pay" => /\ paying /\ cs # <<>>
                              /\ jobs[c].todo = <<[key |-> Head(cs).key]>>
<1>1. mq # <<>> /\ c = Head(mq) /\ jobs[c].op = op
  BY DEF Executes
<1>2. c \in ToSet(mq)
  BY <1>1, HeadFirst DEF Shape, Mail
<1>3. Saving(c)
  BY <1>2 DEF Shape, Mail
<1>4. jobs[c] # None /\ op # "done"
  BY <1>1, <1>3 DEF Saving, Done, Idle
<1>5. CASE c = "open"
  <2>1. agent \in Opening
    BY <1>4, <1>5 DEF Shape, Work, Idle
  <2>2. CASE agent = "loadpay"
    <3>1. jobs[c] \in Load("GetPayInfo", Course)
      BY <1>5, <2>2 DEF Shape, Work
    <3>2. op = "GetPayInfo"
      BY <1>1, <1>4, <3>1, LoadIn
    <3> QED
      BY <1>1, <1>3, <1>4, <1>5, <2>2, <3>2
  <2>3. CASE agent = "loadrec"
    <3>1. jobs[c] \in Load("getResultInfo", Element)
      BY <1>5, <2>3 DEF Shape, Work
    <3>2. op = "getResultInfo"
      BY <1>1, <1>4, <3>1, LoadIn
    <3> QED
      BY <1>1, <1>3, <1>4, <1>5, <2>3, <3>2
  <2> QED
    BY <2>1, <2>2, <2>3 DEF Opening
<1>6. CASE c # "open"
  <2>1. c \in Savers
    BY <1>6, CallersAre
  <2>2. jobs[c] \in Save(Item(c))
    BY <1>4, <2>1 DEF Shape, Work, Idle
  <2>3. /\ jobs[c].todo \in Seq(Item(c)) /\ jobs[c].todo # <<>>
        /\ op \in {"find", "push", "set"}
    BY <1>1, <1>4, <2>2, SaveIn
  <2>4. jobs[c].todo[1] \in Item(c)
    BY <2>3, HeadFirst, ElementOfSeq
  <2>5. c = "close" => agent = "closing"
    BY <1>4 DEF Shape, Work, Idle
  <2>6. c = "pay" => /\ paying /\ cs # <<>>
                     /\ jobs[c].todo = <<[key |-> Head(cs).key]>>
    BY <1>4, <2>3 DEF Shape, Work, Idle
  <2> QED
    BY <1>1, <1>3, <1>4, <2>1, <2>2, <2>3, <2>4, <2>5, <2>6
<1> QED
  BY <1>5, <1>6

(***************************************************************************)
(* The operations on their way.                                            *)
(***************************************************************************)
LEMMA MailSame ==
  ASSUME Mail, UNCHANGED <<jobs, mq>> PROVE Mail'
BY DEF Mail, Saving, Done, Idle

LEMMA MailStart ==
  ASSUME Mail, jobs \in [Callers -> Job \cup {None}],
         NEW c \in Callers, NEW op, op # "done", NEW todo,
         [op |-> op, todo |-> todo] \in Job,
         ~Saving(c), Start(c, op, todo)
  PROVE  Mail'
<1>1. c \notin ToSet(mq) /\ mq \in Seq(Callers) /\ IsInjective(mq)
  BY DEF Mail
<1>2. /\ mq' \in Seq(Callers) /\ IsInjective(mq') /\ ToSet(mq') = ToSet(mq) \cup {c}
  BY <1>1, AppendAt, AppendToSet, AppendKeepsInjective DEF Start
<1>3. [op |-> op, todo |-> todo] # None
  BY JobNotNone
<1>4. ASSUME NEW d \in Callers PROVE Saving(d)' <=> d \in ToSet(mq')
  <2>1. CASE d = c
    BY <1>2, <1>3, <2>1 DEF Saving, Done, Idle, Start
  <2>2. CASE d # c
    <3>1. jobs'[d] = jobs[d]
      BY <2>2 DEF Start
    <3> QED
      BY <1>2, <2>2, <3>1 DEF Saving, Done, Idle, Mail
  <2> QED
    BY <2>1, <2>2
<1> QED
  BY <1>2, <1>4 DEF Mail

LEMMA MailGoOn ==
  ASSUME Mail, jobs \in [Callers -> Job \cup {None}],
         NEW c \in Callers, NEW op, op # "done", NEW todo,
         [op |-> op, todo |-> todo] \in Job,
         mq # <<>>, c = Head(mq), GoOn(c, op, todo)
  PROVE  Mail'
<1>1. mq \in Seq(Callers) /\ IsInjective(mq)
  BY DEF Mail
<1>2. /\ Tail(mq) \in Seq(Callers) /\ IsInjective(Tail(mq))
      /\ ToSet(Tail(mq)) = ToSet(mq) \ {c} /\ c \in ToSet(mq)
  BY <1>1, TailAt, TailKeepsInjective, HeadFirst
<1>3. /\ mq' \in Seq(Callers) /\ IsInjective(mq') /\ ToSet(mq') = ToSet(mq)
  <2> DEFINE t == Tail(mq)
  <2>0. t \in Seq(Callers) /\ IsInjective(t) /\ c \notin ToSet(t)
    BY <1>2
  <2> HIDE DEF t
  <2>1. /\ Append(t, c) \in Seq(Callers) /\ IsInjective(Append(t, c))
        /\ ToSet(Append(t, c)) = ToSet(t) \cup {c}
    BY <2>0, AppendAt, AppendToSet, AppendKeepsInjective
  <2> QED
    BY <1>2, <2>1 DEF GoOn, t
<1>4. [op |-> op, todo |-> todo] # None
  BY JobNotNone
<1>5. ASSUME NEW d \in Callers PROVE Saving(d)' <=> d \in ToSet(mq')
  <2>1. CASE d = c
    BY <1>2, <1>3, <1>4, <2>1 DEF Saving, Done, Idle, GoOn
  <2>2. CASE d # c
    <3>1. jobs'[d] = jobs[d]
      BY <2>2 DEF GoOn
    <3> QED
      BY <1>3, <2>2, <3>1 DEF Saving, Done, Idle, Mail
  <2> QED
    BY <2>1, <2>2
<1> QED
  BY <1>3, <1>5 DEF Mail

LEMMA MailEnd ==
  ASSUME Mail, jobs \in [Callers -> Job \cup {None}],
         NEW c \in Callers, NEW todo,
         mq # <<>>, c = Head(mq), End(c, todo)
  PROVE  Mail'
<1>1. mq \in Seq(Callers) /\ IsInjective(mq)
  BY DEF Mail
<1>2. /\ mq' \in Seq(Callers) /\ IsInjective(mq') /\ ToSet(mq') = ToSet(mq) \ {c}
  BY <1>1, TailAt, TailKeepsInjective DEF End
<1>3. ASSUME NEW d \in Callers PROVE Saving(d)' <=> d \in ToSet(mq')
  <2>1. CASE d = c
    BY <1>2, <2>1 DEF Saving, Done, Idle, End
  <2>2. CASE d # c
    <3>1. jobs'[d] = jobs[d]
      BY <2>2 DEF End
    <3> QED
      BY <1>2, <2>2, <3>1 DEF Saving, Done, Idle, Mail
  <2> QED
    BY <2>1, <2>2
<1> QED
  BY <1>2, <1>3 DEF Mail

\* The caller takes the answer of a coroutine that has none under way.
LEMMA MailTaken ==
  ASSUME Mail, jobs \in [Callers -> Job \cup {None}],
         NEW c \in Callers, ~Saving(c), mq' = mq,
         jobs' = [jobs EXCEPT ![c] = None]
  PROVE  Mail'
<1>1. ASSUME NEW d \in Callers PROVE Saving(d)' <=> d \in ToSet(mq')
  <2>1. CASE d = c
    BY <2>1 DEF Saving, Done, Idle, Mail
  <2>2. CASE d # c
    <3>1. jobs'[d] = jobs[d]
      BY <2>2
    <3> QED
      BY <3>1 DEF Saving, Done, Idle, Mail
  <2> QED
    BY <2>1, <2>2
<1> QED
  BY <1>1 DEF Mail
-----------------------------------------------------------------------------
(***************************************************************************)
(* The shape of the state is kept: steps of the database.                  *)
(***************************************************************************)

\* A coroutine of a save moves from one job to another.
LEMMA WorkMoves ==
  ASSUME Shape, NEW c \in Savers, NEW j \in Save(Item(c)), jobs[c] # None,
         c = "pay" => j.todo \in {<<>>, jobs["pay"].todo},
         jobs' = [jobs EXCEPT ![c] = j], UNCHANGED <<agent, cs, paying>>
  PROVE  Work'
<1>1. j \in Job /\ j # None
  BY JobSets, JobNotNone
<1>2. /\ c \in Callers /\ jobs \in [Callers -> Job \cup {None}]
      /\ "open" \in Callers /\ Savers \subseteq Callers
      /\ c # "open" /\ "pay" \in Savers /\ "close" \in Savers
  BY CallersAre DEF Shape, Work
<1>3. jobs' \in [Callers -> Job \cup {None}] /\ jobs'["open"] = jobs["open"]
  BY <1>1, <1>2
<1>4. jobs'[c] = j /\ \A d \in Callers : d # c => jobs'[d] = jobs[d]
  BY <1>2
<1>5. \A d \in Savers : Idle(d)' \/ jobs'[d] \in Save(Item(d))
  BY <1>2, <1>4 DEF Shape, Work, Idle
<1>6. \A d \in Savers : Idle(d)' <=> Idle(d)
  BY <1>1, <1>2, <1>4 DEF Idle
<1>7. Idle("close")' \/ agent' = "closing"
  BY <1>2, <1>6 DEF Shape, Work
<1>8. Idle("pay")' <=> ~paying'
  BY <1>2, <1>6 DEF Shape, Work
<1>9. paying' => /\ cs' # <<>> /\ Head(cs').type = "pay"
                 /\ jobs'["pay"].todo \in {<<>>, <<[key |-> Head(cs').key]>>}
  <2>1. CASE c = "pay"
    BY <1>4, <2>1 DEF Shape, Work
  <2>2. CASE c # "pay"
    BY <1>2, <1>4, <2>2 DEF Shape, Work
  <2> QED
    BY <2>1, <2>2
<1>10. /\ agent' = "loadpay" => jobs'["open"] \in Load("GetPayInfo", Course)
       /\ agent' = "loadrec" => jobs'["open"] \in Load("getResultInfo", Element)
       /\ agent' \notin Opening => Idle("open")'
  BY <1>3 DEF Shape, Work, Idle
<1> QED
  BY <1>3, <1>5, <1>7, <1>8, <1>9, <1>10 DEF Work

\* What follows a write.
LEMMA AfterWriteMoves ==
  ASSUME Shape, NEW c \in Callers, NEW op \in {"push", "set"}, Executes(c, op),
         AfterWrite(c), UNCHANGED <<agent, cs, paying>>
  PROVE  Work' /\ Mail'
<1>1. /\ mq # <<>> /\ c = Head(mq) /\ jobs[c] # None
      /\ c \in Savers /\ jobs[c] \in Save(Item(c))
      /\ jobs[c].todo \in Seq(Item(c)) /\ jobs[c].todo # <<>>
      /\ c = "pay" => jobs[c].todo = <<[key |-> Head(cs).key]>>
  BY Executing
<1>j. Mail /\ jobs \in [Callers -> Job \cup {None}]
  BY DEF Shape, Work
<1>2. CASE Len(jobs[c].todo) > 1
  <2>1. GoOn(c, "find", Tail(jobs[c].todo))
    BY <1>2 DEF AfterWrite
  <2>2. c # "pay"
    <3> SUFFICES ASSUME c = "pay" PROVE FALSE
      OBVIOUS
    <3>1. \A x : Len(<<x>>) = 1
      OBVIOUS
    <3>2. Len(jobs[c].todo) = 1
      BY <1>1, <3>1, Zenon
    <3> QED
      BY <1>2, <3>2
  <2>3. Tail(jobs[c].todo) \in Seq(Item(c)) /\ Len(Tail(jobs[c].todo)) = Len(jobs[c].todo) - 1
    BY <1>1, TailAt
  <2>4. Tail(jobs[c].todo) # <<>>
    <3>1. Len(jobs[c].todo) \in Nat
      BY <1>1, LenProperties
    <3> QED
      BY <1>2, <2>3, <3>1, EmptySeq
  <2>5. [op |-> "find", todo |-> Tail(jobs[c].todo)] \in Save(Item(c))
    BY <2>3, <2>4, SaveJob
  <2>6. Work'
    BY <1>1, <2>1, <2>2, <2>5, WorkMoves DEF GoOn
  <2>7. [op |-> "find", todo |-> Tail(jobs[c].todo)] \in Job
    BY <1>1, <2>5, JobSets
  <2>8. Mail'
    BY <1>1, <1>j, <2>1, <2>7, MailGoOn
  <2> QED
    BY <2>6, <2>8
<1>3. CASE ~(Len(jobs[c].todo) > 1)
  <2>1. End(c, jobs[c].todo)
    BY <1>3 DEF AfterWrite
  <2>2. [op |-> "done", todo |-> jobs[c].todo] \in Save(Item(c))
    BY <1>1, DoneJob
  <2>3. Work'
    BY <1>1, <2>1, <2>2, WorkMoves DEF End
  <2>4. Mail'
    BY <1>1, <1>j, <2>1, MailEnd
  <2> QED
    BY <2>3, <2>4
<1> QED
  BY <1>2, <1>3

LEMMA SetDocTyped ==
  ASSUME Plain, NEW c \in Savers, NEW doc \in Seq(Item(c)), SetDoc(c, doc)
  PROVE  recDoc' \in Seq(Element) /\ payDoc' \in Seq(Course)
BY DEF Plain, SetDoc, Item

LEMMA DocTyped ==
  ASSUME Plain, NEW c \in Savers
  PROVE  Doc(c) \in Seq(Item(c))
BY DEF Plain, Doc, Item

LEMMA ShapeFind ==
  ASSUME Shape, NEW c \in Callers, Find(c) PROVE Shape'
<1>e. Executes(c, "find")
  BY DEF Find
<1> DEFINE op == NextOp(Doc(c), jobs[c].todo[1].key)
<1>1. /\ mq # <<>> /\ c = Head(mq) /\ jobs[c] # None
      /\ c \in Savers /\ jobs[c] \in Save(Item(c))
      /\ jobs[c].todo \in Seq(Item(c)) /\ jobs[c].todo # <<>>
  BY <1>e, Executing
<1>2. GoOn(c, op, jobs[c].todo) /\ op \in {"push", "set"}
  BY DEF Find, NextOp
<1> HIDE DEF op
<1>3. [op |-> op, todo |-> jobs[c].todo] \in Save(Item(c))
  BY <1>1, <1>2, SaveJob
<1>4. Work'
  BY <1>1, <1>2, <1>3, WorkMoves DEF GoOn, Find, avars, cvars
<1>5. [op |-> op, todo |-> jobs[c].todo] \in Job
  BY <1>1, <1>3, JobSets
<1>6. Mail'
  BY <1>1, <1>2, <1>5, MailGoOn DEF Shape, Work
<1>7. Plain'
  BY DEF Shape, Plain, Find, avars, cvars, gvars
<1> QED
  BY <1>4, <1>6, <1>7 DEF Shape

LEMMA ShapePush ==
  ASSUME Shape, NEW c \in Callers, Push(c) PROVE Shape'
<1>e. Executes(c, "push")
  BY DEF Push
<1>1. c \in Savers /\ jobs[c].todo[1] \in Item(c)
  BY <1>e, Executing
<1>2. Work' /\ Mail'
  BY <1>e, AfterWriteMoves DEF Push, avars, cvars
<1>3. Append(Doc(c), jobs[c].todo[1]) \in Seq(Item(c))
  BY <1>1, DocTyped, AppendAt DEF Shape
<1>4. recDoc' \in Seq(Element) /\ payDoc' \in Seq(Course)
  BY <1>1, <1>3, SetDocTyped DEF Shape, Push
<1>5. Plain'
  BY <1>4 DEF Shape, Plain, Push, avars, cvars, gvars
<1> QED
  BY <1>2, <1>5 DEF Shape

\* An element that $ can stand for is one of the array.
LEMMA PositionsIn ==
  ASSUME NEW T, NEW doc \in Seq(T), NEW k, Matches(doc, k), NEW i \in Positions(doc, k)
  PROVE  i \in 1..Len(doc)
<1>1. PICK f \in 1..2 : i = Min({n \in DOMAIN doc : doc[n].key[f] = k[f]})
  BY DEF Positions
<1> DEFINE S == {n \in DOMAIN doc : doc[n].key[f] = k[f]}
<1>2. DOMAIN doc = 1..Len(doc) /\ Len(doc) \in Nat
  BY LenProperties
<1>3. S # {} /\ S \subseteq Nat
  BY <1>2 DEF Matches
<1>4. Min(S) \in S
  BY <1>3, MinIn
<1> QED
  BY <1>1, <1>2, <1>4

LEMMA ShapeSet ==
  ASSUME Shape, NEW c \in Callers, Set(c) PROVE Shape'
<1>e. Executes(c, "set")
  BY DEF Set
<1> DEFINE e == jobs[c].todo[1]
<1>1. c \in Savers /\ e \in Item(c)
  BY <1>e, Executing
<1>2. Work' /\ Mail'
  BY <1>e, AfterWriteMoves DEF Set, avars, cvars
<1>d. Doc(c) \in Seq(Item(c))
  BY <1>1, DocTyped DEF Shape
<1>3. CASE Matches(Doc(c), e.key)
  <2>1. PICK i \in Positions(Doc(c), e.key) :
          /\ SetDoc(c, [Doc(c) EXCEPT ![i] = e])
          /\ mixed' = IF Doc(c)[i].key = e.key THEN mixed
                      ELSE mixed \cup {IF c = "pay" THEN "PayInfo" ELSE "ResultInfo"}
    BY <1>3 DEF Set
  <2>2. i \in 1..Len(Doc(c))
    BY <1>3, <1>d, PositionsIn
  <2>3. [Doc(c) EXCEPT ![i] = e] \in Seq(Item(c))
    BY <1>1, <1>d, <2>2, ExceptSeq
  <2>4. recDoc' \in Seq(Element) /\ payDoc' \in Seq(Course)
    BY <1>1, <2>1, <2>3, SetDocTyped DEF Shape
  <2>5. mixed' \subseteq {"ResultInfo", "PayInfo"}
    BY <2>1 DEF Shape, Plain
  <2> QED
    BY <1>2, <2>4, <2>5 DEF Shape, Plain, Set, avars, cvars
<1>4. CASE ~Matches(Doc(c), e.key)
  BY <1>2, <1>4 DEF Shape, Plain, Set, avars, cvars
<1> QED
  BY <1>3, <1>4

\* The answer to a load: only the coroutine of open moves.
LEMMA WorkLoads ==
  ASSUME Shape, NEW j \in Job, jobs' = [jobs EXCEPT !["open"] = j],
         agent' = "loadpay" => j \in Load("GetPayInfo", Course),
         agent' = "loadrec" => j \in Load("getResultInfo", Element),
         agent' \in Opening, agent # "closing", UNCHANGED <<cs, paying>>
  PROVE  Work'
<1>1. /\ jobs \in [Callers -> Job \cup {None}]
      /\ "open" \in Callers /\ Savers \subseteq Callers /\ "open" \notin Savers
      /\ "pay" \in Savers /\ "close" \in Savers
  BY CallersAre DEF Shape, Work
<1>2. /\ jobs' \in [Callers -> Job \cup {None}] /\ jobs'["open"] = j
      /\ \A d \in Savers : jobs'[d] = jobs[d]
  BY <1>1
<1>3. \A d \in Savers : Idle(d)' <=> Idle(d)
  BY <1>2 DEF Idle
<1>4. Idle("close")
  BY DEF Shape, Work
<1> QED
  BY <1>1, <1>2, <1>3, <1>4 DEF Shape, Work

LEMMA ShapeDbError ==
  ASSUME Shape, NEW c \in Callers, DbError(c) PROVE Shape'
<1>p. Plain'
  BY DEF Shape, Plain, DbError, avars, cvars
<1>u. UNCHANGED <<agent, cs, paying>>
  BY DEF DbError, avars, cvars
<1>1. CASE c = "open"
  <2>1. End(c, None)
    BY <1>1 DEF DbError
  <2>2. PICK op \in {"GetPayInfo", "getResultInfo", "find", "push", "set"} : Executes(c, op)
    BY DEF DbError
  <2>3. /\ mq # <<>> /\ c = Head(mq)
        /\ op \in {"GetPayInfo", "getResultInfo"} /\ agent \in Opening
    BY <1>1, <2>2, Executing, CallersAre DEF Opening
  <2> DEFINE j == [op |-> "done", todo |-> None]
  <2>4. j \in Load("GetPayInfo", Course) /\ j \in Load("getResultInfo", Element)
    BY LoadJob
  <2>5. jobs' = [jobs EXCEPT !["open"] = j]
    BY <1>1, <2>1 DEF End
  <2> HIDE DEF j
  <2>6. j \in Job /\ agent # "closing"
    BY <2>3, <2>4, JobSets DEF Opening
  <2>7. Work'
    BY <1>u, <2>3, <2>4, <2>5, <2>6, WorkLoads
  <2>8. Mail'
    BY <2>1, <2>3, MailEnd DEF Shape, Work
  <2> QED
    BY <1>p, <2>7, <2>8 DEF Shape
<1>2. CASE c # "open"
  <2>1. End(c, <<>>)
    BY <1>2 DEF DbError
  <2>2. PICK op \in {"GetPayInfo", "getResultInfo", "find", "push", "set"} : Executes(c, op)
    BY DEF DbError
  <2>3. op \in {"find", "push", "set"}
    BY <1>2, <2>2, Executing
  <2>4. /\ mq # <<>> /\ c = Head(mq) /\ jobs[c] # None
        /\ c \in Savers /\ jobs[c] \in Save(Item(c))
    BY <2>2, <2>3, Executing
  <2>5. [op |-> "done", todo |-> <<>>] \in Save(Item(c))
    BY DoneJob, EmptySeq
  <2>6. Work'
    BY <1>u, <2>1, <2>4, <2>5, WorkMoves DEF End
  <2>7. Mail'
    BY <2>1, <2>4, MailEnd DEF Shape, Work
  <2> QED
    BY <1>p, <2>6, <2>7 DEF Shape
<1> QED
  BY <1>1, <1>2

LEMMA ShapeGetPayInfo ==
  ASSUME Shape, NEW c \in Callers, GetPayInfo(c) PROVE Shape'
<1>e. Executes(c, "GetPayInfo") /\ End(c, payDoc)
  BY DEF GetPayInfo
<1>1. mq # <<>> /\ c = Head(mq) /\ c = "open" /\ agent = "loadpay"
  BY <1>e, Executing
<1>2. [op |-> "done", todo |-> payDoc] \in Load("GetPayInfo", Course)
  BY DoneJob DEF Shape, Plain
<1>3. [op |-> "done", todo |-> payDoc] \in Job
  BY <1>2, JobSets
<1>4. agent' = agent /\ cs' = cs /\ paying' = paying
  BY DEF GetPayInfo, avars, cvars
<1>5. Work'
  BY <1>1, <1>2, <1>3, <1>4, <1>e, WorkLoads DEF End, Opening
<1>6. Mail'
  BY <1>e, <1>1, MailEnd DEF Shape, Work
<1>7. Plain'
  BY DEF Shape, Plain, GetPayInfo, avars, cvars, gvars
<1> QED
  BY <1>5, <1>6, <1>7 DEF Shape

LEMMA ShapegetResultInfo ==
  ASSUME Shape, NEW c \in Callers, getResultInfo(c) PROVE Shape'
<1>e. Executes(c, "getResultInfo") /\ End(c, recDoc)
  BY DEF getResultInfo
<1>1. mq # <<>> /\ c = Head(mq) /\ c = "open" /\ agent = "loadrec"
  BY <1>e, Executing
<1>2. [op |-> "done", todo |-> recDoc] \in Load("getResultInfo", Element)
  BY DoneJob DEF Shape, Plain
<1>3. [op |-> "done", todo |-> recDoc] \in Job
  BY <1>2, JobSets
<1>4. agent' = agent /\ cs' = cs /\ paying' = paying
  BY DEF getResultInfo, avars, cvars
<1>5. Work'
  BY <1>1, <1>2, <1>3, <1>4, <1>e, WorkLoads DEF End, Opening
<1>6. Mail'
  BY <1>e, <1>1, MailEnd DEF Shape, Work
<1>7. Plain'
  BY DEF Shape, Plain, getResultInfo, avars, cvars, gvars
<1> QED
  BY <1>5, <1>6, <1>7 DEF Shape
-----------------------------------------------------------------------------
(***************************************************************************)
(* The shape of the state is kept: steps of the agent.                     *)
(***************************************************************************)
LEMMA RequestFields ==
  ASSUME NEW r \in Request
  PROVE  /\ r.key \in Keys
         /\ r.type = "learn" => r.order \in Orders /\ r.score \in Scores
BY DEF Request

LEMMA HeadAppend ==
  ASSUME NEW T, NEW s \in Seq(T), NEW x \in T, s # <<>>
  PROVE  Append(s, x) # <<>> /\ Head(Append(s, x)) = Head(s)
<1>1. Append(s, x) \in Seq(T) /\ Append(s, x) # <<>> /\ 1 \in 1..Len(s)
  BY AppendAt, HeadFirst
<1>2. Append(s, x)[1] = s[1]
  BY <1>1, AppendAt
<1> QED
  BY <1>1, <1>2, HeadFirst

\* Stored changes the fields order and score of the records of one name, or
\* adds a record of that name.
LEMMA StoredAt ==
  ASSUME NEW l \in Seq(Element), NEW r \in Request, r.type = "learn"
  PROVE  /\ Stored(l, r) \in Seq(Element)
         /\ HasKey(l, r.key) => /\ Len(Stored(l, r)) = Len(l)
                                /\ \A i \in 1..Len(l) : Stored(l, r)[i].key = l[i].key
         /\ ~HasKey(l, r.key) =>
              \E e \in Element : e.key = r.key /\ Stored(l, r) = Append(l, e)
<1>1. r.key \in Keys /\ r.order \in Orders /\ r.score \in Scores
  BY RequestFields
<1>2. l \in [1..Len(l) -> Element] /\ DOMAIN l = 1..Len(l) /\ Len(l) \in Nat
  BY LenProperties
<1>3. CASE HasKey(l, r.key)
  <2> DEFINE g(e) == [e EXCEPT !.order = r.order, !.score[r.order] = r.score]
             s == [i \in 1..Len(l) |-> IF l[i].key = r.key THEN g(l[i]) ELSE l[i]]
  <2>1. Stored(l, r) = s
    BY <1>2, <1>3 DEF Stored
  <2>2. ASSUME NEW e \in Element PROVE g(e) \in Element /\ g(e).key = e.key
    BY <1>1 DEF Element
  <2>3. \A i \in 1..Len(l) : l[i] \in Element
    BY <1>2
  <2> HIDE DEF g
  <2>4. s \in [1..Len(l) -> Element] /\ \A i \in 1..Len(l) : s[i].key = l[i].key
    BY <2>2, <2>3
  <2>5. DOMAIN s = 1..Len(l)
    OBVIOUS
  <2> HIDE DEF s
  <2>6. s \in Seq(Element)
    BY <1>2, <2>4, SeqDef
  <2>7. Len(s) = Len(l)
    <3>1. 1..Len(s) = 1..Len(l) /\ Len(s) \in Nat
      BY <2>5, <2>6, LenProperties
    <3> QED
      BY <1>2, <3>1
  <2> QED
    BY <1>3, <2>1, <2>4, <2>6, <2>7
<1>4. CASE ~HasKey(l, r.key)
  <2> DEFINE e == [key |-> r.key, order |-> r.order, score |-> [NoScores EXCEPT ![1] = r.score]]
  <2>1. [NoScores EXCEPT ![1] = r.score] \in [Orders -> Scores \cup {None}]
    BY <1>1, OrderAssumption DEF NoScores
  <2>2. e \in Element /\ e.key = r.key
    BY <1>1, <2>1 DEF Element
  <2>3. Stored(l, r) = Append(l, e)
    BY <1>4 DEF Stored
  <2>4. Append(l, e) \in Seq(Element)
    BY <2>2, AppendAt
  <2> QED
    BY <1>4, <2>2, <2>3, <2>4
<1> QED
  BY <1>3, <1>4

LEMMA ShapeOpen ==
  ASSUME Shape, Open PROVE Shape'
<1> DEFINE j == [op |-> "GetPayInfo", todo |-> <<>>]
<1>1. j \in Load("GetPayInfo", Course) /\ j \in Job
  BY LoadJob, JobSets
<1>2. Start("open", "GetPayInfo", <<>>) /\ jobs' = [jobs EXCEPT !["open"] = j]
  BY DEF Open, Start
<1>3. agent = "none" /\ agent' = "loadpay" /\ cs' = cs /\ paying' = paying
  BY DEF Open, cvars
<1>4. Work'
  <2> HIDE DEF j
  <2> QED
    BY <1>1, <1>2, <1>3, WorkLoads DEF Opening
<1>5. Idle("open") /\ ~Saving("open") /\ "open" \in Callers
  BY <1>3 DEF Shape, Work, Saving, Callers, Opening
<1>6. Mail'
  BY <1>1, <1>2, <1>5, MailStart DEF Shape, Work
<1>7. info' = None \/ info' \in Seq(Element)
  BY PooledAssumption DEF Shape, Plain, Open
<1>8. Plain'
  BY <1>3, <1>7 DEF Shape, Plain, Open, cvars, gvars
<1> QED
  BY <1>4, <1>6, <1>8 DEF Shape

LEMMA OpenDone ==
  ASSUME Shape, Done("open")
  PROVE  /\ ~Saving("open") /\ "open" \in Callers
         /\ agent = "loadpay" => jobs["open"].todo = None \/ jobs["open"].todo \in Seq(Course)
         /\ agent = "loadrec" => jobs["open"].todo = None \/ jobs["open"].todo \in Seq(Element)
BY LoadIn DEF Shape, Work, Done, Saving, Callers

LEMMA ShapePayLoaded ==
  ASSUME Shape, PayLoaded PROVE Shape'
<1> DEFINE j == [op |-> "getResultInfo", todo |-> <<>>]
<1>1. j \in Load("getResultInfo", Element) /\ j \in Job
  BY LoadJob, JobSets
<1>2. Start("open", "getResultInfo", <<>>) /\ jobs' = [jobs EXCEPT !["open"] = j]
  BY DEF PayLoaded, Start
<1>3. agent = "loadpay" /\ agent' = "loadrec" /\ cs' = cs /\ paying' = paying
  BY DEF PayLoaded, cvars
<1>4. Work'
  <2> HIDE DEF j
  <2> QED
    BY <1>1, <1>2, <1>3, WorkLoads DEF Opening
<1>5. /\ ~Saving("open") /\ "open" \in Callers
      /\ jobs["open"].todo = None \/ jobs["open"].todo \in Seq(Course)
  BY <1>3, OpenDone DEF PayLoaded
<1>6. Mail'
  BY <1>1, <1>2, <1>5, MailStart DEF Shape, Work
<1>7. Plain'
  BY <1>3, <1>5 DEF Shape, Plain, PayLoaded, cvars, gvars
<1> QED
  BY <1>4, <1>6, <1>7 DEF Shape

\* An answer is taken.
LEMMA WorkTaken ==
  ASSUME Shape, NEW c \in Callers, jobs' = [jobs EXCEPT ![c] = None],
         c = "open" => agent' \notin Opening,
         c # "open" => (agent' \in Opening <=> agent \in Opening),
         agent' \in Opening => agent' = agent,
         c = "pay" => ~paying',
         c # "pay" => UNCHANGED <<cs, paying>>,
         c # "close" => (agent' = "closing" <=> agent = "closing")
  PROVE  Work'
<1>1. /\ jobs \in [Callers -> Job \cup {None}]
      /\ "open" \in Callers /\ Savers \subseteq Callers /\ "open" \notin Savers
      /\ "pay" \in Savers /\ "close" \in Savers
  BY CallersAre DEF Shape, Work
<1>2. /\ jobs' \in [Callers -> Job \cup {None}] /\ jobs'[c] = None
      /\ \A d \in Callers : d # c => jobs'[d] = jobs[d]
  BY <1>1
<1>3. /\ agent' = "loadpay" => jobs'["open"] \in Load("GetPayInfo", Course)
      /\ agent' = "loadrec" => jobs'["open"] \in Load("getResultInfo", Element)
      /\ agent' \notin Opening => Idle("open")'
  BY <1>1, <1>2 DEF Shape, Work, Idle, Opening
<1>4. \A d \in Savers : Idle(d)' \/ jobs'[d] \in Save(Item(d))
  BY <1>1, <1>2 DEF Shape, Work, Idle
<1>5. Idle("close")' \/ agent' = "closing"
  BY <1>1, <1>2 DEF Shape, Work, Idle
<1>6. /\ Idle("pay")' <=> ~paying'
      /\ paying' => /\ cs' # <<>> /\ Head(cs').type = "pay"
                    /\ jobs'["pay"].todo \in {<<>>, <<[key |-> Head(cs').key]>>}
  <2>1. CASE c = "pay"
    BY <1>1, <1>2, <2>1 DEF Idle
  <2>2. CASE c # "pay"
    BY <1>1, <1>2, <2>2 DEF Shape, Work, Idle
  <2> QED
    BY <2>1, <2>2
<1> QED
  BY <1>2, <1>3, <1>4, <1>5, <1>6 DEF Work

LEMMA ShapeRecordsLoaded ==
  ASSUME Shape, RecordsLoaded PROVE Shape'
<1>1. /\ agent = "loadrec" /\ agent' = "online" /\ cs' = cs /\ paying' = paying
      /\ jobs' = [jobs EXCEPT !["open"] = None] /\ mq' = mq
      /\ info' = jobs["open"].todo
  BY DEF RecordsLoaded, cvars
<1>2. /\ ~Saving("open") /\ "open" \in Callers
      /\ jobs["open"].todo = None \/ jobs["open"].todo \in Seq(Element)
  BY <1>1, OpenDone DEF RecordsLoaded
<1>3. Work'
  BY <1>1, <1>2, WorkTaken DEF Opening
<1>4. Mail'
  BY <1>1, <1>2, MailTaken DEF Shape, Work
<1>5. Plain'
  BY <1>1, <1>2 DEF Shape, Plain, RecordsLoaded, gvars
<1> QED
  BY <1>3, <1>4, <1>5 DEF Shape

LEMMA ShapeClient ==
  ASSUME Shape, NEW r \in Request, Client(r) PROVE Shape'
<1>1. cs \in Seq(Request)
  BY DEF Shape, Plain
<1>2. cs' \in Seq(Request) /\ (cs # <<>> => cs' # <<>> /\ Head(cs') = Head(cs))
  BY <1>1, AppendAt, HeadAppend DEF Client
<1>3. Plain'
  BY <1>2 DEF Shape, Plain, Client, avars, dvars, gvars
<1>4. Work'
  BY <1>2 DEF Shape, Work, Client, Idle, avars, dvars
<1>5. Mail'
  BY MailSame DEF Shape, Client, dvars
<1> QED
  BY <1>3, <1>4, <1>5 DEF Shape

LEMMA ShapeLearn ==
  ASSUME Shape, Learn PROVE Shape'
<1>1. cs # <<>> /\ ~paying /\ Head(cs).type = "learn" /\ cs \in Seq(Request)
  BY DEF Learn, Runs, Shape, Plain
<1>2. Head(cs) \in Request /\ Tail(cs) \in Seq(Request)
  BY <1>1, HeadTailProperties
<1>3. info' = None \/ info' \in Seq(Element)
  BY <1>1, <1>2, StoredAt DEF Shape, Plain, Learn
<1>4. kept' \in Seq(Element)
  BY <1>1, <1>2, StoredAt DEF Shape, Plain, Learn
<1>5. Plain'
  BY <1>2, <1>3, <1>4 DEF Shape, Plain, Learn, dvars
<1>6. Work'
  BY <1>1 DEF Shape, Work, Learn, Idle, dvars
<1>7. Mail'
  BY MailSame DEF Shape, Learn, dvars
<1> QED
  BY <1>5, <1>6, <1>7 DEF Shape

LEMMA ShapeUnregistered ==
  ASSUME Shape, Unregistered PROVE Shape'
<1>1. cs # <<>> /\ ~paying /\ cs \in Seq(Request)
  BY DEF Unregistered, Shape, Plain
<1>2. Tail(cs) \in Seq(Request)
  BY <1>1, HeadTailProperties
<1>3. Plain'
  BY <1>2 DEF Shape, Plain, Unregistered, avars, dvars, gvars
<1>4. Work'
  BY <1>1 DEF Shape, Work, Unregistered, Idle, avars, dvars
<1>5. Mail'
  BY MailSame DEF Shape, Unregistered, dvars
<1> QED
  BY <1>3, <1>4, <1>5 DEF Shape

\* A save starts.
LEMMA WorkStarts ==
  ASSUME Shape, NEW c \in Savers, NEW todo \in Seq(Item(c)), todo # <<>>, Idle(c),
         Start(c, "find", todo), cs' = cs,
         agent' \in Opening => agent' = agent,
         agent' \notin Opening => agent \notin Opening,
         agent = "closing" => agent' = "closing",
         c = "close" => agent' = "closing",
         c # "pay" => paying' = paying,
         c = "pay" => /\ paying' /\ cs # <<>> /\ Head(cs).type = "pay"
                      /\ todo = <<[key |-> Head(cs).key]>>
  PROVE  Work' /\ Mail'
<1> DEFINE j == [op |-> "find", todo |-> todo]
<1>0. j \in Save(Item(c)) /\ j.todo = todo
  BY SaveJob
<1>j. jobs' = [jobs EXCEPT ![c] = j]
  BY DEF Start
<1>1. j \in Job
  BY <1>0, JobSets
<1>2. /\ c \in Callers /\ jobs \in [Callers -> Job \cup {None}]
      /\ "open" \in Callers /\ Savers \subseteq Callers /\ "open" \notin Savers
      /\ "pay" \in Savers /\ "close" \in Savers
  BY CallersAre DEF Shape, Work
<1>m. Mail'
  <2>1. Mail /\ ~Saving(c)
    BY DEF Shape, Saving
  <2> QED
    BY <1>1, <1>2, <2>1, MailStart
<1> HIDE DEF j
<1>3. j # None
  BY <1>1, JobNotNone
<1>4. /\ jobs' \in [Callers -> Job \cup {None}] /\ jobs'[c] = j
      /\ \A d \in Callers : d # c => jobs'[d] = jobs[d]
  BY <1>1, <1>2, <1>j
<1>5. /\ agent' = "loadpay" => jobs'["open"] \in Load("GetPayInfo", Course)
      /\ agent' = "loadrec" => jobs'["open"] \in Load("getResultInfo", Element)
      /\ agent' \notin Opening => Idle("open")'
  BY <1>2, <1>4 DEF Shape, Work, Idle, Opening
<1>6. \A d \in Savers : Idle(d)' \/ jobs'[d] \in Save(Item(d))
  BY <1>0, <1>2, <1>4 DEF Shape, Work, Idle
<1>7. Idle("close")' \/ agent' = "closing"
  BY <1>2, <1>4 DEF Shape, Work, Idle
<1>8. /\ Idle("pay")' <=> ~paying'
      /\ paying' => /\ cs' # <<>> /\ Head(cs').type = "pay"
                    /\ jobs'["pay"].todo \in {<<>>, <<[key |-> Head(cs').key]>>}
  <2>1. CASE c = "pay"
    BY <1>0, <1>2, <1>3, <1>4, <2>1 DEF Idle
  <2>2. CASE c # "pay"
    BY <1>2, <1>4, <2>2 DEF Shape, Work, Idle
  <2> QED
    BY <2>1, <2>2
<1> QED
  BY <1>m, <1>4, <1>5, <1>6, <1>7, <1>8 DEF Work

LEMMA ShapePay ==
  ASSUME Shape, Pay PROVE Shape'
<1>1. cs # <<>> /\ ~paying /\ Head(cs).type = "pay" /\ cs \in Seq(Request)
  BY DEF Pay, Runs, Shape, Plain
<1>2. Head(cs) \in Request /\ Tail(cs) \in Seq(Request)
  BY <1>1, HeadTailProperties
<1>3. CASE payInfo = None \/ HasKey(payInfo, Head(cs).key)
  <2>1. cs' = Tail(cs) /\ UNCHANGED <<paying, jobs, mq, agent>>
    BY <1>3 DEF Pay, avars
  <2>2. Plain'
    BY <1>2, <2>1 DEF Shape, Plain, Pay, avars, gvars
  <2>3. Work'
    BY <1>1, <2>1 DEF Shape, Work, Idle
  <2>4. Mail'
    BY <2>1, MailSame DEF Shape
  <2> QED
    BY <2>2, <2>3, <2>4 DEF Shape
<1>4. CASE ~(payInfo = None \/ HasKey(payInfo, Head(cs).key))
  <2> DEFINE todo == <<[key |-> Head(cs).key]>>
  <2>1. Start("pay", "find", todo) /\ paying' = TRUE /\ cs' = cs /\ agent' = agent
    BY <1>4 DEF Pay, avars
  <2>2. todo \in Seq(Item("pay")) /\ todo # <<>> /\ "pay" \in Savers
    BY <1>2, RequestFields, CallersAre DEF Item, Course
  <2>3. Idle("pay")
    BY <1>1 DEF Shape, Work
  <2>4. Work' /\ Mail'
    BY <1>1, <2>1, <2>2, <2>3, WorkStarts
  <2>5. Plain'
    BY <2>1 DEF Shape, Plain, Pay, avars, gvars
  <2> QED
    BY <2>4, <2>5 DEF Shape
<1> QED
  BY <1>3, <1>4

LEMMA PayAnswer ==
  ASSUME Shape, paying, Done("pay")
  PROVE  /\ jobs["pay"].todo \in Seq(Course) /\ ~Saving("pay") /\ "pay" \in Callers
         /\ cs # <<>> /\ Head(cs) \in Request /\ Head(cs).key \in Keys
         /\ Tail(cs) \in Seq(Request)
         /\ jobs["pay"].todo \in {<<>>, <<[key |-> Head(cs).key]>>}
<1>1. cs # <<>> /\ cs \in Seq(Request) /\ jobs["pay"].todo \in {<<>>, <<[key |-> Head(cs).key]>>}
  BY DEF Shape, Work, Plain
<1>2. Head(cs) \in Request /\ Tail(cs) \in Seq(Request)
  BY <1>1, HeadTailProperties
<1>3. jobs["pay"] \in Save(Course)
  BY CallersAre DEF Shape, Work, Item
<1>4. jobs["pay"].todo \in Seq(Course)
  BY <1>3, SaveIn
<1> QED
  BY <1>1, <1>2, <1>4, RequestFields DEF Saving, Callers

LEMMA ShapePayDone ==
  ASSUME Shape, PayDone PROVE Shape'
<1>1. /\ jobs["pay"].todo \in Seq(Course) /\ ~Saving("pay") /\ "pay" \in Callers
      /\ Tail(cs) \in Seq(Request)
  BY PayAnswer DEF PayDone
<1>2. /\ paying' = FALSE /\ cs' = Tail(cs) /\ jobs' = [jobs EXCEPT !["pay"] = None]
      /\ agent' = agent /\ mq' = mq
  BY DEF PayDone
<1>3. (payInfo' = None \/ payInfo' \in Seq(Course)) /\ paid' \in Seq(Course)
  BY <1>1, ConcatProperties DEF PayDone, CanSet, Shape, Plain
<1>4. Plain'
  BY <1>1, <1>2, <1>3 DEF Shape, Plain, PayDone
<1>5. Work'
  BY <1>1, <1>2, WorkTaken
<1>6. Mail'
  BY <1>1, <1>2, MailTaken DEF Shape, Work
<1> QED
  BY <1>4, <1>5, <1>6 DEF Shape

LEMMA WorkSame ==
  ASSUME Shape, UNCHANGED <<jobs, cs, paying>>,
         agent' \in Opening => agent' = agent,
         agent' \notin Opening => agent \notin Opening,
         agent = "closing" => agent' = "closing"
  PROVE  Work'
BY DEF Shape, Work, Idle, Opening

\* What a save of the records writes.
LEMMA SavesList ==
  ASSUME Shape, Saves
  PROVE  info # None /\ info # <<>> /\ info \in Seq(Element)
BY DEF Shape, Plain, Saves

LEMMA ShapeKick ==
  ASSUME Shape, NEW c \in Kickers, Kick(c) PROVE Shape'
<1>1. /\ agent' = agent /\ cs' = cs /\ paying' = paying /\ info' = info
      /\ Idle(c) /\ SaveResultInfo(c)
  BY DEF Kick, avars, cvars
<1>2. Work' /\ Mail'
  <2>1. CASE Saves
    <3>1. /\ c \in Savers /\ c \notin {"pay", "close"}
          /\ info \in Seq(Item(c)) /\ info # <<>>
      BY <2>1, SavesList, CallersAre DEF Item
    <3>2. Start(c, "find", info)
      BY <1>1, <2>1 DEF SaveResultInfo
    <3> QED
      BY <1>1, <3>1, <3>2, WorkStarts
  <2>2. CASE ~Saves
    <3>1. UNCHANGED <<jobs, mq>>
      BY <1>1, <2>2 DEF SaveResultInfo
    <3> QED
      BY <1>1, <3>1, MailSame, WorkSame DEF Shape
  <2> QED
    BY <2>1, <2>2
<1>3. Plain'
  BY <1>1 DEF Shape, Plain, Kick, avars, cvars
<1> QED
  BY <1>2, <1>3 DEF Shape

LEMMA ShapeKickDone ==
  ASSUME Shape, NEW c \in Kickers, KickDone(c) PROVE Shape'
<1>1. /\ agent' = agent /\ cs' = cs /\ paying' = paying /\ mq' = mq
      /\ jobs' = [jobs EXCEPT ![c] = None] /\ ~Saving(c)
  BY DEF KickDone, avars, cvars, Saving
<1>2. c \in Callers /\ c \notin {"open", "pay", "close"}
  BY CallersAre
<1>3. Work'
  BY <1>1, <1>2, WorkTaken
<1>4. Mail'
  BY <1>1, <1>2, MailTaken DEF Shape, Work
<1>5. Plain'
  BY <1>1 DEF Shape, Plain, KickDone, avars, gvars
<1> QED
  BY <1>3, <1>4, <1>5 DEF Shape

LEMMA ShapeClose ==
  ASSUME Shape, Close PROVE Shape'
<1>1. /\ agent = "online" /\ agent' \in {"closing", "stuck"} /\ cs' = cs /\ paying' = paying
      /\ info' = info /\ SaveResultInfo("close")
  BY DEF Close, cvars
<1>2. Work' /\ Mail'
  <2>1. CASE Saves
    <3>1. info \in Seq(Item("close")) /\ info # <<>> /\ "close" \in Savers /\ Idle("close")
      BY <1>1, <2>1, SavesList, CallersAre DEF Shape, Work, Item
    <3>2. Start("close", "find", info) /\ agent' = "closing"
      BY <1>1, <2>1, SavesList DEF SaveResultInfo, Close
    <3> QED
      BY <1>1, <3>1, <3>2, WorkStarts DEF Opening
  <2>2. CASE ~Saves
    <3>1. UNCHANGED <<jobs, mq>>
      BY <1>1, <2>2 DEF SaveResultInfo
    <3> QED
      BY <1>1, <3>1, MailSame, WorkSame DEF Shape, Opening
  <2> QED
    BY <2>1, <2>2
<1>3. Plain'
  BY <1>1 DEF Shape, Plain, Close, cvars
<1> QED
  BY <1>2, <1>3 DEF Shape

LEMMA ShapeCloseDone ==
  ASSUME Shape, CloseDone PROVE Shape'
<1>1. /\ agent = "closing" /\ agent' = "none" /\ cs' = cs /\ paying' = paying /\ mq' = mq
      /\ jobs' = [jobs EXCEPT !["close"] = None] /\ "close" \in Callers /\ ~Saving("close")
  BY DEF CloseDone, cvars, Callers, Saving
<1>2. Work'
  BY <1>1, WorkTaken DEF Opening
<1>3. Mail'
  BY <1>1, MailTaken DEF Shape, Work
<1>4. Plain'
  BY <1>1 DEF Shape, Plain, CloseDone, gvars
<1> QED
  BY <1>2, <1>3, <1>4 DEF Shape

LEMMA ShapeStutter ==
  ASSUME Shape, UNCHANGED vars PROVE Shape'
<1>1. Plain'
  BY DEF Shape, Plain, vars, avars, cvars, dvars, gvars
<1>2. Work'
  BY WorkSame DEF vars, avars, cvars, dvars
<1>3. Mail'
  BY MailSame DEF Shape, vars, dvars
<1> QED
  BY <1>1, <1>2, <1>3 DEF Shape

LEMMA ShapeNext ==
  ASSUME Shape, [Next]_vars PROVE Shape'
<1>1. CASE Database
  BY <1>1, ShapeGetPayInfo, ShapegetResultInfo, ShapeFind, ShapePush, ShapeSet,
     ShapeDbError DEF Database
<1>2. CASE \E r \in Request : Client(r)
  BY <1>2, ShapeClient
<1>3. CASE Open \/ PayLoaded \/ RecordsLoaded \/ Learn \/ Pay \/ PayDone \/ Unregistered
  BY <1>3, ShapeOpen, ShapePayLoaded, ShapeRecordsLoaded, ShapeLearn, ShapePay,
     ShapePayDone, ShapeUnregistered
<1>4. CASE (\E c \in Kickers : Kick(c) \/ KickDone(c)) \/ Close \/ CloseDone
  BY <1>4, ShapeKick, ShapeKickDone, ShapeClose, ShapeCloseDone
<1>5. CASE UNCHANGED vars
  BY <1>5, ShapeStutter
<1> QED
  BY <1>1, <1>2, <1>3, <1>4, <1>5 DEF Next

LEMMA ShapeInit ==
  ASSUME Init PROVE Shape
<1>1. \A T : <<>> \in Seq(T)
  BY EmptySeq
<1>2. Plain
  BY <1>1, PooledAssumption DEF Init, Plain
<1>3. Work
  BY CallersAre DEF Init, Work, Idle, Opening
<1>4. Mail
  <2>1. IsInjective(<<>>)
    BY DEF IsInjective
  <2>2. \A c \in Callers : ~Saving(c)
    BY DEF Init, Saving, Idle
  <2> QED
    BY <1>1, <2>1, <2>2, EmptyToSet DEF Init, Mail
<1> QED
  BY <1>2, <1>3, <1>4 DEF Shape

LEMMA ShapeTypeOK ==
  ASSUME Shape PROVE TypeOK
<1>1. \A c \in Callers : Idle(c) \/ jobs[c] \in Job
  BY DEF Shape, Work, Idle
<1> QED
  BY <1>1 DEF Shape, Plain, Mail, TypeOK, Course
-----------------------------------------------------------------------------
(***************************************************************************)
(* Names of the elements of an array.                                      *)
(***************************************************************************)
LEMMA HasKeyIff ==
  ASSUME NEW T, NEW s \in Seq(T), NEW k
  PROVE  HasKey(s, k) <=> \E e \in ToSet(s) : e.key = k
<1>1. DOMAIN s = 1..Len(s)
  BY LenProperties
<1>2. ASSUME HasKey(s, k) PROVE \E e \in ToSet(s) : e.key = k
  <2>1. PICK i \in 1..Len(s) : s[i].key = k
    BY <1>1, <1>2 DEF HasKey
  <2> QED
    BY <2>1, InToSet
<1>3. ASSUME NEW e \in ToSet(s), e.key = k PROVE HasKey(s, k)
  <2>1. PICK i \in 1..Len(s) : s[i] = e
    BY OfToSet
  <2> QED
    BY <1>1, <1>3, <2>1 DEF HasKey
<1> QED
  BY <1>2, <1>3

LEMMA HasKeyAppend ==
  ASSUME NEW T, NEW s \in Seq(T), NEW x \in T, NEW k
  PROVE  HasKey(Append(s, x), k) <=> HasKey(s, k) \/ x.key = k
<1>1. Append(s, x) \in Seq(T) /\ ToSet(Append(s, x)) = ToSet(s) \cup {x}
  BY AppendAt, AppendToSet
<1>2. HasKey(Append(s, x), k) <=> \E e \in ToSet(s) \cup {x} : e.key = k
  BY <1>1, HasKeyIff
<1> QED
  BY <1>2, HasKeyIff

\* Replacing an element by another of the same name.
LEMMA HasKeyExcept ==
  ASSUME NEW T, NEW s \in Seq(T), NEW n \in 1..Len(s), NEW x \in T, s[n].key = x.key, NEW k
  PROVE  HasKey([s EXCEPT ![n] = x], k) <=> HasKey(s, k)
<1> DEFINE l == [s EXCEPT ![n] = x]
<1>1. l \in Seq(T) /\ Len(l) = Len(s)
  BY ExceptToSet
<1>2. \A i \in 1..Len(s) : l[i] = IF i = n THEN x ELSE s[i]
  BY ExceptToSet
<1>3. DOMAIN l = 1..Len(s) /\ DOMAIN s = 1..Len(s)
  BY <1>1, LenProperties
<1> HIDE DEF l
<1>4. HasKey(l, k) <=> HasKey(s, k)
  BY <1>2, <1>3 DEF HasKey
<1> QED
  BY <1>4 DEF l

LEMMA HasKeyMatches ==
  ASSUME NEW doc, NEW k, HasKey(doc, k)
  PROVE  Matches(doc, k)
BY DEF HasKey, Matches

LEMMA ConcatOne ==
  ASSUME NEW T, NEW s \in Seq(T), NEW x \in T
  PROVE  s \o <<>> = s /\ s \o <<x>> = Append(s, x)
BY ConcatEmptySeq, AppendIsConcat

-----------------------------------------------------------------------------
(***************************************************************************)
(* Payments.                                                               *)
(***************************************************************************)
Money == Payments /\ Known

\* A step that writes no payment, and whose request is the same.
LEMMA MoneySame ==
  ASSUME Money, UNCHANGED <<paid, payDoc, payInfo>>, mixed \subseteq mixed',
         paying' => paying /\ jobs'["pay"] = jobs["pay"] /\ Head(cs') = Head(cs),
         agent' = "loadpay" /\ Done("open")' => agent = "loadpay" /\ jobs'["open"] = jobs["open"]
  PROVE  Money'
<1>1. Payments'
  BY DEF Money, Payments, Done, Idle
<1>2. Known'
  BY DEF Money, Known, Done, Idle
<1> QED
  BY <1>1, <1>2 DEF Money

LEMMA OtherJobs ==
  ASSUME Shape, NEW c \in Callers, NEW j, jobs' = [jobs EXCEPT ![c] = j]
  PROVE  /\ jobs'[c] = j /\ "pay" \in Callers /\ "open" \in Callers
         /\ \A d \in Callers : d # c => jobs'[d] = jobs[d]
BY DEF Shape, Work, Callers

\* A write of another caller: the payments are the same.
LEMMA AfterWriteOthers ==
  ASSUME Shape, NEW c \in Callers, AfterWrite(c)
  PROVE  \A d \in Callers : d # c => jobs'[d] = jobs[d]
BY OtherJobs DEF AfterWrite, GoOn, End

LEMMA MoneyDatabase ==
  ASSUME Shape, Money, NEW c \in Callers, c # "pay",
         \/ Find(c) \/ Push(c) \/ Set(c) \/ getResultInfo(c)
         \/ DbError(c) /\ ~(c = "open" /\ agent = "loadpay")
  PROVE  Money'
<1>1. \A d \in Callers : d # c => jobs'[d] = jobs[d]
  BY OtherJobs, AfterWriteOthers DEF Find, Push, Set, DbError, getResultInfo, GoOn, End
<1>2. c = "open" => agent # "loadpay"
  <2>1. CASE ~(c = "open" /\ agent = "loadpay")
    BY <2>1
  <2>2. CASE Find(c) \/ Push(c) \/ Set(c) \/ getResultInfo(c)
    <3>1. PICK op \in {"find", "push", "set", "getResultInfo"} : Executes(c, op)
      BY <2>2 DEF Find, Push, Set, getResultInfo
    <3> QED
      BY <3>1, Executing, CallersAre
  <2> QED
    BY <2>1, <2>2
<1>3. UNCHANGED <<paid, payDoc, payInfo, cs, paying, agent>>
  BY DEF Find, Push, Set, DbError, getResultInfo, SetDoc, avars, cvars, gvars
<1>4. mixed \subseteq mixed'
  BY DEF Find, Push, Set, DbError, getResultInfo, gvars
<1>5. "pay" \in Callers /\ "open" \in Callers
  BY DEF Callers
<1> QED
  BY <1>1, <1>2, <1>3, <1>4, <1>5, MoneySame

\* GetPayInfo reads every payment that the client was told of.
LEMMA MoneyGetPayInfo ==
  ASSUME Shape, Money, NEW c \in Callers, GetPayInfo(c) PROVE Money'
<1>1. c = "open"
  BY Executing DEF GetPayInfo
<1>2. jobs' = [jobs EXCEPT !["open"] = [op |-> "done", todo |-> payDoc]]
  BY <1>1 DEF GetPayInfo, End
<1>a. /\ jobs'["open"] = [op |-> "done", todo |-> payDoc]
      /\ jobs'["pay"] = jobs["pay"]
  <2> DEFINE j == [op |-> "done", todo |-> payDoc]
  <2>1. jobs' = [jobs EXCEPT !["open"] = j]
    BY <1>2
  <2> HIDE DEF j
  <2>2. jobs'["open"] = j /\ jobs'["pay"] = jobs["pay"]
    BY <2>1, OtherJobs, CallersAre
  <2> QED
    BY <2>2 DEF j
<1>3. jobs'["open"].todo = payDoc /\ jobs'["pay"] = jobs["pay"]
  BY <1>a
<1>4. UNCHANGED <<paid, payDoc, payInfo, cs, paying, agent, mixed>>
  BY DEF GetPayInfo, avars, cvars, gvars
<1>5. Payments'
  BY <1>3, <1>4 DEF Money, Payments, Done, Idle
<1>6. Known'
  BY <1>3, <1>4 DEF Money, Payments, Known
<1> QED
  BY <1>5, <1>6 DEF Money

\* A load of the courses that fails leaves nothing to read.
LEMMA MoneyLoadError ==
  ASSUME Shape, Money, DbError("open"), agent = "loadpay" PROVE Money'
<1>1. jobs' = [jobs EXCEPT !["open"] = [op |-> "done", todo |-> None]]
  BY DEF DbError, End
<1>2. jobs'["open"] = [op |-> "done", todo |-> None] /\ jobs'["pay"] = jobs["pay"]
  BY <1>1, OtherJobs DEF Callers
<1>3. jobs'["open"].todo = None
  BY <1>2
<1>4. UNCHANGED <<paid, payDoc, payInfo, cs, paying, agent, mixed>>
  BY DEF DbError, avars, cvars
<1>5. Payments'
  BY <1>2, <1>4 DEF Money, Payments, Done, Idle
<1>6. Known'
  BY <1>3, <1>4 DEF Money, Known
<1> QED
  BY <1>5, <1>6 DEF Money

\* login of role_handler replaces the list that CheckPayInfo reads.
LEMMA MoneyPayLoaded ==
  ASSUME Shape, Money, PayLoaded PROVE Money'
<1>1. /\ agent = "loadpay" /\ Done("open") /\ agent' = "loadrec"
      /\ payInfo' = jobs["open"].todo
      /\ UNCHANGED <<paid, payDoc, cs, paying, mixed>>
  BY DEF PayLoaded, cvars, gvars
<1>2. jobs'["pay"] = jobs["pay"]
  BY OtherJobs DEF Callers, PayLoaded, Start
<1>3. Payments'
  BY <1>1, <1>2 DEF Money, Payments, Done, Idle
<1>4. Known'
  BY <1>1 DEF Money, Known
<1> QED
  BY <1>3, <1>4 DEF Money

\* CheckPayInfo lets a course pass only when the client has not paid for it.
LEMMA MoneyPay ==
  ASSUME Shape, Money, Pay PROVE Money'
<1>1. UNCHANGED <<paid, payDoc, payInfo, agent, mixed>>
  BY DEF Pay, avars, gvars
<1>2. CASE payInfo = None \/ HasKey(payInfo, Head(cs).key)
  <2>1. ~paying' /\ jobs' = jobs
    BY <1>2 DEF Pay, Runs
  <2> QED
    BY <1>1, <2>1, MoneySame DEF Done, Idle
<1>3. CASE ~(payInfo = None \/ HasKey(payInfo, Head(cs).key))
  <2>1. /\ cs' = cs /\ paying' = TRUE
        /\ jobs' = [jobs EXCEPT !["pay"] = [op |-> "find", todo |-> <<[key |-> Head(cs).key]>>]]
    BY <1>3 DEF Pay, Start
  <2>a. /\ jobs'["pay"] = [op |-> "find", todo |-> <<[key |-> Head(cs).key]>>]
        /\ jobs'["open"] = jobs["open"]
    <3> DEFINE j == [op |-> "find", todo |-> <<[key |-> Head(cs).key]>>]
    <3>1. jobs' = [jobs EXCEPT !["pay"] = j]
      BY <2>1
    <3> HIDE DEF j
    <3>2. jobs'["pay"] = j /\ jobs'["open"] = jobs["open"]
      BY <3>1, OtherJobs DEF Callers
    <3> QED
      BY <3>2 DEF j
  <2>2. jobs'["pay"].op = "find" /\ jobs'["open"] = jobs["open"]
    BY <2>a
  <2>3. Payments'
    BY <1>1, <2>1, <2>2 DEF Money, Payments, Done
  <2>4. Known'
    BY <1>1, <1>3, <2>1, <2>2 DEF Money, Known, Done, Idle
  <2> QED
    BY <2>3, <2>4 DEF Money
<1> QED
  BY <1>2, <1>3

LEMMA MoneyPayDone ==
  ASSUME Shape, Money, PayDone PROVE Money'
<1> DEFINE k == Head(cs).key
           x == [key |-> k]
<1>1. /\ paying' = FALSE /\ UNCHANGED <<payDoc, agent, mixed>>
      /\ paying /\ Done("pay")
      /\ payInfo' = IF CanSet THEN payInfo \o jobs["pay"].todo ELSE payInfo
      /\ paid' = IF CanSet /\ agent = "online" THEN paid \o jobs["pay"].todo ELSE paid
  BY DEF PayDone
<1>2. k \in Keys /\ jobs["pay"].todo \in {<<>>, <<x>>}
  BY <1>1, PayAnswer
<1>3. x \in Course /\ x.key = k
  BY <1>2 DEF Course
<1>4. paid \in Seq(Course) /\ (CanSet => payInfo # None /\ payInfo \in Seq(Course))
  BY DEF Shape, Plain, CanSet
<1>5. jobs'["open"] = jobs["open"]
  BY OtherJobs DEF PayDone, Callers
<1> HIDE DEF x, k
<1>6. CASE paid' = paid /\ payInfo' = payInfo
  BY <1>1, <1>5, <1>6, MoneySame DEF Done, Idle
<1>7. CASE /\ CanSet /\ payInfo' = Append(payInfo, x) /\ paid' = paid
  <2>1. Payments'
    BY <1>1, <1>7 DEF Money, Payments
  <2>2. \A e : HasKey(payInfo, e.key) => HasKey(payInfo', e.key)
    BY <1>3, <1>4, <1>7, HasKeyAppend
  <2>3. Known'
    BY <1>1, <1>4, <1>5, <1>7, <2>2 DEF Money, Known, Done, Idle
  <2> QED
    BY <2>1, <2>3 DEF Money
<1>8. CASE /\ CanSet /\ payInfo' = Append(payInfo, x) /\ paid' = Append(paid, x)
           /\ agent = "online" /\ jobs["pay"].todo # <<>>
  <2>1. ToSet(paid') = ToSet(paid) \cup {x}
    BY <1>3, <1>4, <1>8, AppendToSet
  <2>2. "PayInfo" \notin mixed => HasKey(payDoc, x.key)
    BY <1>1, <1>3, <1>8 DEF Money, Payments, k
  <2>3. Payments'
    BY <1>1, <2>1, <2>2 DEF Money, Payments
  <2>4. /\ \A e : HasKey(payInfo, e.key) => HasKey(payInfo', e.key)
        /\ HasKey(payInfo', x.key)
    BY <1>3, <1>4, <1>8, HasKeyAppend
  <2>5. "PayInfo" \notin mixed => x \notin ToSet(paid)
    BY <1>1, <1>3 DEF Money, Known, k
  <2>6. "PayInfo" \notin mixed => IsInjective(paid')
    BY <1>3, <1>4, <1>8, <2>5, AppendKeepsInjective DEF Money, Known
  <2>7. Known'
    BY <1>1, <1>4, <1>8, <2>1, <2>4, <2>6 DEF Money, Known
  <2> QED
    BY <2>3, <2>7 DEF Money
<1>9. (CanSet => payInfo \o <<>> = payInfo) /\ paid \o <<>> = paid
  BY <1>3, <1>4, ConcatOne
<1>10. /\ CanSet => payInfo \o <<x>> = Append(payInfo, x)
       /\ paid \o <<x>> = Append(paid, x)
  BY <1>3, <1>4, ConcatOne
<1> QED
  BY <1>1, <1>2, <1>6, <1>7, <1>8, <1>9, <1>10

\* SavePayInfo is under way: only payDoc and its coroutine change.
LEMMA MoneySaving ==
  ASSUME Shape, Money, paying, paying' = paying, UNCHANGED <<paid, payInfo, cs, agent>>,
         mixed \subseteq mixed', jobs'["open"] = jobs["open"],
         "PayInfo" \notin mixed' => \A k : HasKey(payDoc, k) => HasKey(payDoc', k),
         "PayInfo" \notin mixed' /\ Done("pay")' /\ jobs'["pay"].todo # <<>>
            => HasKey(payDoc', Head(cs).key),
         "PayInfo" \notin mixed' /\ jobs'["pay"].op = "set" => Matches(payDoc', Head(cs).key)
  PROVE  Money'
<1>1. Payments'
  BY DEF Money, Payments
<1>2. Known'
  BY DEF Money, Known, Done, Idle
<1> QED
  BY <1>1, <1>2 DEF Money

LEMMA MoneyFind ==
  ASSUME Shape, Money, Find("pay") PROVE Money'
<1>1. /\ paying /\ jobs["pay"].todo = <<[key |-> Head(cs).key]>>
  BY Executing DEF Find, Callers
<1>2. jobs["pay"].todo[1].key = Head(cs).key
  BY <1>1
<1> DEFINE op == NextOp(payDoc, Head(cs).key)
<1>3. jobs' = [jobs EXCEPT !["pay"] = [op |-> op, todo |-> jobs["pay"].todo]]
  BY <1>2 DEF Find, GoOn, Doc
<1>a. /\ jobs'["pay"] = [op |-> op, todo |-> jobs["pay"].todo]
      /\ jobs'["open"] = jobs["open"]
  <2> DEFINE j == [op |-> op, todo |-> jobs["pay"].todo]
  <2>1. jobs' = [jobs EXCEPT !["pay"] = j]
    BY <1>3
  <2> HIDE DEF j
  <2>2. jobs'["pay"] = j /\ jobs'["open"] = jobs["open"]
    BY <2>1, OtherJobs DEF Callers
  <2> QED
    BY <2>2 DEF j
<1>4. jobs'["pay"].op = op /\ jobs'["open"] = jobs["open"]
  BY <1>a
<1>5. op \in {"set", "push"} /\ (op = "set" => Matches(payDoc, Head(cs).key))
  BY DEF NextOp
<1>6. UNCHANGED <<paid, payInfo, cs, agent, paying, mixed, payDoc>>
  BY DEF Find, avars, cvars, gvars
<1> HIDE DEF op
<1>7. ~Done("pay")'
  BY <1>4, <1>5 DEF Done
<1> QED
  BY <1>1, <1>4, <1>5, <1>6, <1>7, MoneySaving

LEMMA MoneyDbError ==
  ASSUME Shape, Money, DbError("pay") PROVE Money'
<1>1. paying
  <2>1. PICK op \in {"GetPayInfo", "getResultInfo", "find", "push", "set"} :
               Executes("pay", op)
    BY DEF DbError
  <2> QED
    BY <2>1, Executing DEF Callers
<1>2. jobs'["pay"] = [op |-> "done", todo |-> <<>>] /\ jobs'["open"] = jobs["open"]
  BY OtherJobs DEF DbError, End, Callers
<1>3. UNCHANGED <<paid, payInfo, cs, agent, paying, mixed, payDoc>>
  BY DEF DbError, avars, cvars
<1>4. jobs'["pay"].todo = <<>> /\ jobs'["pay"].op = "done"
  BY <1>2
<1> QED
  BY <1>1, <1>2, <1>3, <1>4, MoneySaving

\* A payment has one element: its write ends the coroutine.
LEMMA PayWritten ==
  ASSUME Shape, NEW op \in {"push", "set"}, Executes("pay", op), AfterWrite("pay")
  PROVE  /\ paying /\ jobs["pay"].todo[1] \in Course
         /\ jobs["pay"].todo[1].key = Head(cs).key
         /\ jobs'["pay"].op = "done" /\ jobs'["open"] = jobs["open"]
<1>1. /\ paying /\ jobs["pay"].todo = <<[key |-> Head(cs).key]>>
      /\ jobs["pay"].todo[1] \in Course
  BY Executing DEF Callers, Item
<1>2. \A x : Len(<<x>>) = 1
  OBVIOUS
<1>3. Len(jobs["pay"].todo) = 1
  BY <1>1, <1>2, Zenon
<1>4. End("pay", jobs["pay"].todo)
  BY <1>3 DEF AfterWrite
<1>5. jobs["pay"].todo[1].key = Head(cs).key
  BY <1>1
<1> DEFINE j == [op |-> "done", todo |-> jobs["pay"].todo]
<1>6. jobs' = [jobs EXCEPT !["pay"] = j] /\ j.op = "done"
  BY <1>4 DEF End
<1> HIDE DEF j
<1>7. jobs'["pay"] = j /\ jobs'["open"] = jobs["open"]
  BY <1>6, OtherJobs DEF Callers
<1> QED
  BY <1>1, <1>5, <1>6, <1>7

LEMMA MoneyPush ==
  ASSUME Shape, Money, Push("pay") PROVE Money'
<1> DEFINE e == jobs["pay"].todo[1]
<1>1. /\ paying /\ e \in Course /\ e.key = Head(cs).key
      /\ jobs'["pay"].op = "done" /\ jobs'["open"] = jobs["open"]
  BY PayWritten DEF Push
<1>2. payDoc' = Append(payDoc, e)
  BY DEF Push, SetDoc, Doc
<1>3. UNCHANGED <<paid, payInfo, cs, agent, paying, mixed>>
  BY DEF Push, avars, cvars, gvars
<1>4. payDoc \in Seq(Course)
  BY DEF Shape, Plain
<1> HIDE DEF e
<1>5. /\ \A k : HasKey(payDoc, k) => HasKey(payDoc', k)
      /\ HasKey(payDoc', Head(cs).key)
  BY <1>1, <1>2, <1>4, HasKeyAppend
<1> QED
  BY <1>1, <1>3, <1>5, MoneySaving

LEMMA MoneySet ==
  ASSUME Shape, Money, Set("pay") PROVE Money'
<1> DEFINE e == jobs["pay"].todo[1]
<1>1. /\ paying /\ e \in Course /\ e.key = Head(cs).key
      /\ jobs'["pay"].op = "done" /\ jobs'["open"] = jobs["open"]
  BY PayWritten DEF Set
<1>2. /\ UNCHANGED <<paid, payInfo, cs, agent, paying>> /\ mixed \subseteq mixed'
      /\ jobs["pay"].op = "set"
  BY DEF Set, avars, cvars, Executes
<1>3. payDoc \in Seq(Course)
  BY DEF Shape, Plain
<1>4. CASE Matches(payDoc, e.key)
  <2>1. PICK i \in Positions(payDoc, e.key) :
          /\ payDoc' = [payDoc EXCEPT ![i] = e]
          /\ mixed' = IF payDoc[i].key = e.key THEN mixed ELSE mixed \cup {"PayInfo"}
    BY <1>4 DEF Set, SetDoc, Doc
  <2>2. i \in 1..Len(payDoc)
    BY <1>3, <1>4, PositionsIn
  <2> HIDE DEF e
  <2>3. e \in ToSet(payDoc') /\ payDoc' \in Seq(Course)
    BY <1>1, <1>3, <2>1, <2>2, ExceptToSet
  <2>4. HasKey(payDoc', Head(cs).key)
    BY <1>1, <2>3, HasKeyIff
  <2>5. "PayInfo" \notin mixed' => payDoc[i].key = e.key
    BY <2>1
  <2>6. "PayInfo" \notin mixed' => \A k : HasKey(payDoc, k) => HasKey(payDoc', k)
    BY <1>1, <1>3, <2>1, <2>2, <2>5, HasKeyExcept
  <2> QED
    BY <1>1, <1>2, <2>4, <2>6, MoneySaving
<1>5. CASE ~Matches(payDoc, e.key)
  <2>1. "PayInfo" \in mixed
    BY <1>1, <1>2, <1>5 DEF Money, Payments
  <2>2. payDoc' = payDoc
    BY <1>5 DEF Set, Doc
  <2> QED
    BY <1>1, <1>2, <2>1, <2>2, MoneySaving
<1> QED
  BY <1>4, <1>5

LEMMA MoneyAgent ==
  ASSUME Shape, Money,
         \/ Open \/ RecordsLoaded \/ Learn \/ Unregistered
         \/ (\E c \in Kickers : Kick(c) \/ KickDone(c))
         \/ Close \/ CloseDone \/ UNCHANGED vars
  PROVE  Money'
<1>1. UNCHANGED <<paid, payDoc, payInfo, mixed, paying>>
  BY DEF Open, RecordsLoaded, Learn, Unregistered, Kick, KickDone, Close, CloseDone,
         vars, avars, cvars, dvars, gvars
<1>k. ASSUME NEW c \in Kickers, Kick(c) \/ KickDone(c)
      PROVE  jobs'["pay"] = jobs["pay"] /\ jobs'["open"] = jobs["open"]
  <2>1. c \in Callers /\ c \notin {"open", "pay"}
    BY CallersAre
  <2> QED
    BY <1>k, <2>1, OtherJobs DEF Kick, KickDone, SaveResultInfo, Start
<1>2. jobs'["pay"] = jobs["pay"]
  <2>1. CASE \E c \in Kickers : Kick(c) \/ KickDone(c)
    BY <1>k, <2>1
  <2>2. CASE ~\E c \in Kickers : Kick(c) \/ KickDone(c)
    BY <2>2, OtherJobs DEF Open, RecordsLoaded, Learn, Unregistered, Close,
         CloseDone, SaveResultInfo, Start, vars, dvars, Callers
  <2> QED
    BY <2>1, <2>2
<1>3. paying => cs' = cs
  BY DEF Open, RecordsLoaded, Learn, Unregistered, Kick, KickDone, Close, CloseDone,
         Runs, vars, cvars
<1>4. agent' = "loadpay" /\ Done("open")' => agent = "loadpay" /\ jobs'["open"] = jobs["open"]
  <2>1. CASE Open
    <3>1. jobs'["open"] = [op |-> "GetPayInfo", todo |-> <<>>]
      BY <2>1, OtherJobs DEF Open, Start, Callers
    <3> QED
      BY <3>1 DEF Done
  <2>2. CASE RecordsLoaded \/ Close \/ CloseDone
    BY <2>2 DEF RecordsLoaded, Close, CloseDone
  <2>3. CASE Learn \/ Unregistered \/ UNCHANGED vars
    BY <2>3 DEF Learn, Unregistered, vars, avars, dvars
  <2>4. CASE \E c \in Kickers : Kick(c) \/ KickDone(c)
    BY <1>k, <2>4 DEF Kick, KickDone, Done, Idle, avars
  <2> QED
    BY <2>1, <2>2, <2>3, <2>4
<1> QED
  BY <1>1, <1>2, <1>3, <1>4, MoneySame

LEMMA MoneyClient ==
  ASSUME Shape, Money, NEW r \in Request, Client(r) PROVE Money'
<1>1. cs \in Seq(Request) /\ (paying => cs # <<>>)
  BY DEF Shape, Plain, Work
<1>2. paying => Head(cs') = Head(cs)
  BY <1>1, HeadAppend DEF Client
<1>3. UNCHANGED <<paid, payDoc, payInfo, mixed, paying, jobs, agent>>
  BY DEF Client, avars, dvars, gvars
<1> QED
  BY <1>2, <1>3, MoneySame

LEMMA MoneyNext ==
  ASSUME Shape, Money, [Next]_vars PROVE Money'
<1>1. CASE Database
  <2>1. PICK c \in Callers : \/ GetPayInfo(c) \/ getResultInfo(c)
                             \/ Find(c) \/ Push(c) \/ Set(c) \/ DbError(c)
    BY <1>1 DEF Database
  <2>2. CASE GetPayInfo(c)
    BY <2>2, MoneyGetPayInfo
  <2>3. CASE ~GetPayInfo(c) /\ c # "pay"
    BY <2>1, <2>3, MoneyDatabase, MoneyLoadError
  <2>4. CASE ~GetPayInfo(c) /\ c = "pay"
    <3>1. ~getResultInfo("pay")
      BY <2>4, Executing DEF getResultInfo
    <3> QED
      BY <2>1, <2>4, <3>1, MoneyFind, MoneyPush, MoneySet, MoneyDbError
  <2> QED
    BY <2>2, <2>3, <2>4
<1>2. CASE \E r \in Request : Client(r)
  BY <1>2, MoneyClient
<1>3. CASE PayLoaded \/ Pay \/ PayDone
  BY <1>3, MoneyPayLoaded, MoneyPay, MoneyPayDone
<1>4. CASE \/ Open \/ RecordsLoaded \/ Learn \/ Unregistered
           \/ (\E c \in Kickers : Kick(c) \/ KickDone(c))
           \/ Close \/ CloseDone \/ UNCHANGED vars
  BY <1>4, MoneyAgent
<1> QED
  BY <1>1, <1>2, <1>3, <1>4 DEF Next

LEMMA MoneyInit ==
  ASSUME Init PROVE Money
<1>1. ToSet(paid) = {} /\ ~paying /\ agent # "loadpay"
  BY EmptyToSet DEF Init
<1>2. IsInjective(paid)
  BY DEF Init, IsInjective
<1> QED
  BY <1>1, <1>2 DEF Money, Payments, Known
-----------------------------------------------------------------------------
(***************************************************************************)
(* Lists with one element for each name.                                   *)
(***************************************************************************)
LEMMA UniqueAt ==
  ASSUME NEW T, NEW s \in Seq(T)
  PROVE  Unique(s) <=> \A i, j \in 1..Len(s) : s[i].key = s[j].key => i = j
BY LenProperties DEF Unique

LEMMA UniqueElements ==
  ASSUME NEW T, NEW s \in Seq(T), Unique(s),
         NEW x \in ToSet(s), NEW y \in ToSet(s), x.key = y.key
  PROVE  x = y
<1>1. PICK i \in 1..Len(s) : s[i] = x
  BY OfToSet
<1>2. PICK j \in 1..Len(s) : s[j] = y
  BY OfToSet
<1>3. i = j
  BY <1>1, <1>2, UniqueAt
<1> QED
  BY <1>1, <1>2, <1>3

LEMMA UniqueAppend ==
  ASSUME NEW T, NEW s \in Seq(T), Unique(s), NEW x \in T, ~HasKey(s, x.key)
  PROVE  Unique(Append(s, x))
<1>0. /\ Append(s, x) \in Seq(T) /\ Len(s) \in Nat
      /\ 1..Len(Append(s, x)) = (1..Len(s)) \cup {Len(s) + 1}
      /\ \A i \in 1..Len(s) : Append(s, x)[i] = s[i]
      /\ Append(s, x)[Len(s) + 1] = x
  BY AppendAt
<1>1. \A i \in 1..Len(s) : s[i].key # x.key
  BY InToSet, HasKeyIff
<1>2. \A i, j \in 1..Len(s) : s[i].key = s[j].key => i = j
  BY UniqueAt
<1> SUFFICES ASSUME NEW i \in 1..Len(Append(s, x)), NEW j \in 1..Len(Append(s, x)),
                    Append(s, x)[i].key = Append(s, x)[j].key
             PROVE  i = j
  BY <1>0, UniqueAt
<1> QED
  BY <1>0, <1>1, <1>2

\* A list with the same names in the same places.
LEMMA UniqueSameKeys ==
  ASSUME NEW T, NEW s \in Seq(T), NEW l \in Seq(T), Unique(s), Len(l) = Len(s),
         \A i \in 1..Len(s) : l[i].key = s[i].key
  PROVE  Unique(l)
BY UniqueAt

LEMMA UniqueStored ==
  ASSUME NEW l \in Seq(Element), Unique(l), NEW r \in Request, r.type = "learn"
  PROVE  /\ Unique(Stored(l, r))
         /\ \A k : HasKey(l, k) => HasKey(Stored(l, r), k)
<1>1. Stored(l, r) \in Seq(Element)
  BY StoredAt
<1>2. CASE HasKey(l, r.key)
  <2> DEFINE s == Stored(l, r)
  <2>1. s \in Seq(Element) /\ Len(s) = Len(l) /\ \A i \in 1..Len(l) : s[i].key = l[i].key
    BY <1>2, StoredAt
  <2>2. DOMAIN s = 1..Len(l) /\ DOMAIN l = 1..Len(l)
    BY <2>1, LenProperties
  <2> HIDE DEF s
  <2>3. Unique(s)
    BY <2>1, UniqueSameKeys
  <2>4. \A k : HasKey(l, k) => HasKey(s, k)
    BY <2>1, <2>2 DEF HasKey
  <2> QED
    BY <2>3, <2>4 DEF s
<1>3. CASE ~HasKey(l, r.key)
  <2>1. PICK e \in Element : e.key = r.key /\ Stored(l, r) = Append(l, e)
    BY <1>3, StoredAt
  <2> QED
    BY <1>3, <2>1, UniqueAppend, HasKeyAppend
<1> QED
  BY <1>2, <1>3

LEMMA CoversIff ==
  ASSUME NEW big \in Seq(Element), NEW small
  PROVE  Covers(big, small) <=> \A e \in ToSet(small) : \E d \in ToSet(big) : d.key = e.key
BY HasKeyIff DEF Covers

\* GetResultInfo shows the same of two lists that have the same elements.
LEMMA SameShown ==
  ASSUME NEW s \in Seq(Element), NEW l \in Seq(Element), Unique(s), ToSet(s) = ToSet(l)
  PROVE  Shown(s) = Shown(l)
<1>1. ASSUME NEW q \in Seq(Element), NEW e \in ToSet(q)
      PROVE  /\ q[Min({i \in DOMAIN q : q[i].key = e.key})] \in ToSet(q)
             /\ q[Min({i \in DOMAIN q : q[i].key = e.key})].key = e.key
  <2> DEFINE S == {i \in DOMAIN q : q[i].key = e.key}
  <2>1. DOMAIN q = 1..Len(q) /\ Len(q) \in Nat
    BY LenProperties
  <2>2. \E i \in 1..Len(q) : q[i] = e
    BY OfToSet
  <2>3. \A n \in 1..Len(q) : q[n].key = e.key => n \in S
    BY <2>1
  <2>a. S \subseteq Nat
    BY <2>1
  <2>b. S # {}
    BY <2>2, <2>3
  <2>4. Min(S) \in S
    BY <2>a, <2>b, MinIn
  <2> QED
    BY <2>1, <2>4, InToSet
<1> DEFINE at(q, k) == q[Min({i \in DOMAIN q : q[i].key = k})]
<1>2. \A k \in {e.key : e \in ToSet(s)} : at(s, k) = at(l, k)
  <2> SUFFICES ASSUME NEW e \in ToSet(s) PROVE at(s, e.key) = at(l, e.key)
    OBVIOUS
  <2>1. at(s, e.key) \in ToSet(s) /\ at(s, e.key).key = e.key
    BY <1>1
  <2>2. at(l, e.key) \in ToSet(s) /\ at(l, e.key).key = e.key
    BY <1>1
  <2> HIDE DEF at
  <2> QED
    BY <2>1, <2>2, UniqueElements
<1>3. Shown(s) = [k \in {e.key : e \in ToSet(s)} |-> at(s, k)]
  BY DEF Shown
<1>4. Shown(l) = [k \in {e.key : e \in ToSet(s)} |-> at(l, k)]
  BY DEF Shown
<1> HIDE DEF at
<1> QED
  BY <1>2, <1>3, <1>4

-----------------------------------------------------------------------------
(***************************************************************************)
(* Records.                                                                *)
(***************************************************************************)
LEMMA SoundBefore ==
  ASSUME Shape, [Next]_vars
  PROVE  (Sane' => Sane) /\ (Sound' => Sound)
<1>0. failed \in BOOLEAN /\ overlap \in BOOLEAN
  BY DEF Shape, Plain
<1>1. CASE \E c \in Callers : Set(c) \/ DbError(c)
  <2>1. PICK c \in Callers : Set(c) \/ DbError(c)
    BY <1>1
  <2>2. CASE Set(c)
    <3>1. UNCHANGED <<failed, overlap>> /\ mixed \subseteq mixed'
      BY <2>2 DEF Set
    <3> QED
      BY <3>1 DEF Sound, Sane
  <2>3. CASE DbError(c)
    <3>1. UNCHANGED <<mixed, overlap>> /\ failed' = (failed \/ c = "close")
      BY <2>3 DEF DbError
    <3> QED
      BY <1>0, <3>1 DEF Sound, Sane
  <2> QED
    BY <2>1, <2>2, <2>3
<1>2. CASE \E c \in Callers : GetPayInfo(c) \/ getResultInfo(c) \/ Find(c) \/ Push(c)
  BY <1>2 DEF GetPayInfo, getResultInfo, Find, Push, gvars, Sound, Sane
<1>3. CASE (\E c \in Kickers : Kick(c)) \/ Close \/ Learn \/ PayDone
  <2>1. UNCHANGED <<mixed, failed>> /\ (overlap => overlap')
    BY <1>0, <1>3 DEF Kick, Close, Learn, PayDone
  <2> QED
    BY <1>0, <2>1 DEF Sound, Sane
<1>4. CASE \/ Open \/ PayLoaded \/ RecordsLoaded \/ (\E r \in Request : Client(r)) \/ Pay
           \/ Unregistered \/ (\E c \in Kickers : KickDone(c)) \/ CloseDone \/ UNCHANGED vars
  BY <1>4 DEF Open, PayLoaded, RecordsLoaded, Client, Pay, Unregistered, KickDone,
     CloseDone, vars, gvars, Sound, Sane
<1> QED
  BY <1>1, <1>2, <1>3, <1>4 DEF Next, Database

\* The jobs of the callers that stand still.
LEMMA OthersStand ==
  ASSUME NEW c, NEW d \in Callers, d # c, \A x \in Callers : x # c => jobs'[x] = jobs[x]
  PROVE  /\ jobs'[d] = jobs[d] /\ (Idle(d)' <=> Idle(d))
         /\ (Saving(d)' <=> Saving(d)) /\ (Done(d)' <=> Done(d))
BY DEF Saving, Done, Idle

LEMMA QuietKicks ==
  ASSUME Faithful, agent # "online" PROVE \A k \in Kickers : ~Saving(k)
BY DEF Faithful, Kicking

\* What the records' callers write stays what they write.
LEMMA WritingSame ==
  ASSUME Faithful, NEW c \in Recorders, jobs'[c] = jobs[c], recDoc' = recDoc
  PROVE  Writing(c)'
BY DEF Faithful, Writing, Saving, Done, Idle, HasKey, Matches

\* A step that leaves the records and their saves alone.
LEMMA FaithfulSame ==
  ASSUME Faithful, UNCHANGED <<info, recDoc, kept, agent>>,
         \A d \in Recorders : jobs'[d] = jobs[d],
         agent = "loadrec" => jobs'["open"] = jobs["open"]
  PROVE  Faithful'
<1>1. \A d \in Recorders : Writing(d)'
  BY WritingSame
<1>2. \A d \in Recorders : Saving(d)' <=> Saving(d)
  BY DEF Saving, Done, Idle
<1>3. Kicking'
  BY <1>2, CallersAre DEF Faithful, Kicking, Covers, HasKey
<1>4. Closing'
  BY <1>2, CallersAre DEF Faithful, Closing, Covers, HasKey
<1>5. Lists' /\ Offline' /\ Online'
  BY DEF Faithful, Lists, Offline, Online, Done, Idle, Covers, HasKey, Unique
<1> QED
  BY <1>1, <1>3, <1>4, <1>5 DEF Faithful

\* A step of an open, while no kick saves.
LEMMA FaithfulOpens ==
  ASSUME Shape, Faithful, agent \in {"none", "loadpay", "loadrec"},
         agent' \in {"loadpay", "loadrec"}, UNCHANGED <<recDoc, kept>>,
         NEW j, jobs' = [jobs EXCEPT !["open"] = j],
         agent' = "loadrec" /\ j.op = "done" => j.todo \in {recDoc, None}
  PROVE  Faithful'
<1>1. jobs'["open"] = j /\ \A d \in Recorders : jobs'[d] = jobs[d]
  BY OtherJobs, CallersAre
<1>2. \A d \in Recorders : Writing(d)' /\ (Saving(d)' <=> Saving(d))
  BY <1>1, WritingSame DEF Saving, Done, Idle
<1>3. Kicking'
  BY <1>2, QuietKicks, CallersAre DEF Kicking
<1>4. Offline'
  BY <1>1 DEF Faithful, Offline, Done
<1> QED
  BY <1>2, <1>3, <1>4 DEF Faithful, Lists, Online, Closing, Unique

\* The save of a kick ends.
LEMMA FaithfulEnds ==
  ASSUME Faithful, UNCHANGED <<info, recDoc, kept, agent>>, NEW c \in Kickers, ~Saving(c)',
         \A d \in Callers : d # c => jobs'[d] = jobs[d]
  PROVE  Faithful'
<1>1. \A d \in Callers : d # c =>
        jobs'[d] = jobs[d] /\ (Saving(d)' <=> Saving(d)) /\ (Done(d)' <=> Done(d))
  BY OthersStand
<1>2. Writing(c)'
  BY DEF Writing
<1>3. \A d \in Recorders : Writing(d)'
  BY <1>1, <1>2, WritingSame, CallersAre
<1>4. Kicking'
  BY <1>1, CallersAre DEF Faithful, Kicking, Covers, HasKey
<1>5. Closing' /\ Offline'
  BY <1>1, CallersAre DEF Faithful, Closing, Offline, Covers, HasKey
<1> QED
  BY <1>3, <1>4, <1>5 DEF Faithful, Lists, Online, Covers, HasKey, Unique

LEMMA RecordsOpen ==
  ASSUME Shape, Faithful, Open PROVE Faithful'
<1> DEFINE j == [op |-> "GetPayInfo", todo |-> <<>>]
<1>1. /\ agent = "none" /\ agent' = "loadpay" /\ UNCHANGED <<recDoc, kept>>
      /\ jobs' = [jobs EXCEPT !["open"] = j]
  BY DEF Open, Start, gvars
<1> HIDE DEF j
<1> QED
  BY <1>1, FaithfulOpens

LEMMA RecordsPayLoaded ==
  ASSUME Shape, Faithful, PayLoaded PROVE Faithful'
<1> DEFINE j == [op |-> "getResultInfo", todo |-> <<>>]
<1>1. /\ agent = "loadpay" /\ agent' = "loadrec" /\ UNCHANGED <<recDoc, kept>>
      /\ jobs' = [jobs EXCEPT !["open"] = j] /\ j.op # "done"
  BY DEF PayLoaded, Start, gvars
<1> HIDE DEF j
<1> QED
  BY <1>1, FaithfulOpens

LEMMA RecordsgetResultInfo ==
  ASSUME Shape, Faithful, NEW c \in Callers, getResultInfo(c) PROVE Faithful'
<1> DEFINE j == [op |-> "done", todo |-> recDoc]
<1>1. c = "open" /\ agent = "loadrec" /\ End(c, recDoc)
  BY Executing DEF getResultInfo
<1>2. UNCHANGED <<recDoc, kept, agent>> /\ jobs' = [jobs EXCEPT !["open"] = j]
  BY <1>1 DEF getResultInfo, avars, gvars, End
<1>3. j.todo = recDoc
  OBVIOUS
<1> HIDE DEF j
<1> QED
  BY <1>1, <1>2, <1>3, FaithfulOpens

\* A load that fails leaves nothing to read.
LEMMA RecordsLoadError ==
  ASSUME Shape, Faithful, DbError("open") PROVE Faithful'
<1> DEFINE j == [op |-> "done", todo |-> None]
<1>1. UNCHANGED <<recDoc, kept, agent>> /\ jobs' = [jobs EXCEPT !["open"] = j]
  BY DEF DbError, avars, End
<1>2. j.todo = None
  OBVIOUS
<1>3. agent \in {"loadpay", "loadrec"}
  <2>1. PICK op \in {"GetPayInfo", "getResultInfo", "find", "push", "set"} :
               Executes("open", op)
    BY DEF DbError
  <2> QED
    BY <2>1, Executing, CallersAre
<1> HIDE DEF j
<1> QED
  BY <1>1, <1>2, <1>3, FaithfulOpens

LEMMA RecordsRecordsLoaded ==
  ASSUME Shape, Faithful, RecordsLoaded PROVE Faithful'
<1>1. /\ agent = "loadrec" /\ agent' = "online" /\ UNCHANGED <<recDoc, kept>>
      /\ info' \in {recDoc, None}
  BY DEF RecordsLoaded, gvars, Faithful, Offline
<1>2. \A d \in Recorders : jobs'[d] = jobs[d]
  BY OtherJobs, CallersAre DEF RecordsLoaded
<1>3. recDoc \in Seq(Element)
  BY DEF Shape, Plain
<1>4. Covers(recDoc, recDoc)
  BY <1>3, CoversIff
<1>5. \A d \in Recorders : Writing(d)' /\ (Saving(d)' <=> Saving(d))
  BY <1>1, <1>2, WritingSame DEF Saving, Done, Idle
<1>6. Kicking'
  BY <1>1, <1>5, QuietKicks, CallersAre DEF Kicking
<1>7. Online'
  BY <1>1, <1>4 DEF Faithful, Offline, Online, Lists, Unique, Covers, HasKey
<1> QED
  BY <1>1, <1>5, <1>6, <1>7 DEF Faithful, Lists, Offline, Closing, Unique

LEMMA RecordsLearn ==
  ASSUME Shape, Faithful, Learn PROVE Faithful'
<1>1. /\ UNCHANGED <<agent, jobs, recDoc>>
      /\ info' = IF info = None THEN None ELSE Stored(info, Head(cs))
      /\ kept' = IF agent = "online" /\ info # None THEN info' ELSE kept
      /\ cs # <<>> /\ Head(cs).type = "learn"
  BY DEF Learn, dvars, Runs
<1>2. CASE info = None
  BY <1>1, <1>2, FaithfulSame
<1>3. CASE info # None /\ agent # "online"
  <2>1. \A d \in Recorders : Writing(d)' /\ (Saving(d)' <=> Saving(d))
    BY <1>1, WritingSame DEF Saving, Done, Idle
  <2>2. Kicking'
    BY <1>3, <2>1, QuietKicks, CallersAre DEF Kicking
  <2>3. Closing'
    BY <1>1, <1>3, <2>1, CallersAre DEF Faithful, Closing, Covers, HasKey
  <2> QED
    BY <1>1, <1>3, <2>1, <2>2, <2>3 DEF Faithful, Lists, Offline, Online, Done, Idle, Unique
<1>4. CASE info # None /\ agent = "online"
  <2>1. Head(cs) \in Request /\ info \in Seq(Element)
    BY <1>1, <1>4, HeadTailProperties DEF Shape, Plain
  <2>2. Unique(info) /\ Covers(info, recDoc)
    BY <1>4 DEF Faithful, Online
  <2>3. Unique(info') /\ \A k : HasKey(info, k) => HasKey(info', k)
    BY <1>1, <1>4, <2>1, <2>2, UniqueStored
  <2>4. kept' = info'
    BY <1>1, <1>4
  <2>5. Lists'
    BY <1>1, <2>3, <2>4 DEF Faithful, Lists, Unique
  <2>6. \A d \in Recorders : Writing(d)' /\ (Saving(d)' <=> Saving(d))
    BY <1>1, WritingSame DEF Saving, Done, Idle
  <2>7. Kicking'
    BY <1>1, <2>3, <2>6, CallersAre DEF Faithful, Kicking, Covers
  <2>8. Online'
    BY <1>1, <2>2, <2>3, <2>4 DEF Online, Covers
  <2> QED
    BY <1>1, <1>4, <2>5, <2>6, <2>7, <2>8 DEF Faithful, Offline, Closing
<1> QED
  BY <1>2, <1>3, <1>4

\* A save of the list starts.
LEMMA RecordsStart ==
  ASSUME Shape, Saves, NEW c \in Recorders, Start(c, "find", info)
  PROVE  /\ jobs'[c].op = "find" /\ jobs'[c].todo = info /\ Saving(c)'
         /\ \A d \in Callers : d # c => jobs'[d] = jobs[d]
<1> DEFINE j == [op |-> "find", todo |-> info]
<1>1. jobs' = [jobs EXCEPT ![c] = j] /\ j.op = "find" /\ j.todo = info
  BY DEF Start
<1>2. c \in Savers /\ c \in Callers /\ info \in Seq(Item(c)) /\ info # <<>>
  BY SavesList, CallersAre DEF Item
<1>3. j # None
  BY <1>2, SaveJob, JobSets, JobNotNone
<1> HIDE DEF j
<1>4. jobs'[c] = j /\ \A d \in Callers : d # c => jobs'[d] = jobs[d]
  BY <1>1, <1>2, OtherJobs
<1> QED
  BY <1>1, <1>3, <1>4 DEF Saving, Done, Idle

LEMMA RecordsKick ==
  ASSUME Shape, Faithful, NEW c \in Kickers, Kick(c), Sound' PROVE Faithful'
<1>1. UNCHANGED <<agent, info, recDoc, kept>> /\ SaveResultInfo(c)
  BY DEF Kick, avars
<1>2. CASE ~Saves
  <2>1. UNCHANGED jobs
    BY <1>1, <1>2 DEF SaveResultInfo
  <2> QED
    BY <1>1, <2>1, FaithfulSame
<1>3. CASE Saves
  <2>1. agent = "online" /\ \A k \in Kickers : ~Saving(k)
    BY <1>3 DEF Kick, Sound
  <2>2. Start(c, "find", info)
    BY <1>1, <1>3 DEF SaveResultInfo
  <2>3. /\ jobs'[c].op = "find" /\ jobs'[c].todo = info
        /\ \A d \in Callers : d # c => jobs'[d] = jobs[d]
    BY <1>3, <2>2, RecordsStart, CallersAre
  <2>4. \A d \in Recorders : d # c => Writing(d)' /\ (Saving(d)' <=> Saving(d))
    BY <1>1, <2>3, WritingSame, CallersAre DEF Saving, Done, Idle
  <2>5. Writing(c)'
    BY <2>3 DEF Writing
  <2>6. info \in Seq(Element)
    BY <1>3, SavesList
  <2>7. Covers(info, info)
    BY <2>6, CoversIff
  <2>8. Kicking'
    BY <1>1, <2>1, <2>3, <2>4, <2>7, CallersAre DEF Kicking, Covers, HasKey
  <2> QED
    BY <1>1, <2>1, <2>4, <2>5, <2>8
       DEF Faithful, Lists, Offline, Online, Closing, Covers, HasKey, Unique
<1> QED
  BY <1>2, <1>3

LEMMA RecordsKickDone ==
  ASSUME Shape, Faithful, NEW c \in Kickers, KickDone(c) PROVE Faithful'
<1>1. UNCHANGED <<info, recDoc, kept, agent>>
  BY DEF KickDone, avars, gvars
<1>2. jobs'[c] = None /\ \A d \in Callers : d # c => jobs'[d] = jobs[d]
  BY OtherJobs, CallersAre DEF KickDone
<1>3. ~Saving(c)'
  BY <1>2 DEF Saving, Idle
<1> QED
  BY <1>1, <1>2, <1>3, FaithfulEnds

LEMMA RecordsClose ==
  ASSUME Shape, Faithful, Close, Sound' PROVE Faithful'
<1>1. /\ agent = "online" /\ UNCHANGED <<info, recDoc, kept>>
      /\ SaveResultInfo("close") /\ \A k \in Kickers : ~Saving(k)
      /\ agent' = IF info = None THEN "stuck" ELSE "closing"
  BY DEF Close, Sound
<1>2. kept \in Seq(Element) /\ Idle("close")
  BY <1>1 DEF Shape, Plain, Work
<1>3. CASE ~Saves
  <2>1. UNCHANGED jobs
    BY <1>1, <1>3 DEF SaveResultInfo
  <2>2. \A d \in Recorders : ~Saving(d)'
    BY <1>1, <1>2, <2>1 DEF Saving, Done, Idle, Recorders
  <2>3. agent' = "closing" => Covers(kept, recDoc) /\ ToSet(kept) = {}
    <3>1. SUFFICES ASSUME info # None PROVE Covers(kept, recDoc) /\ ToSet(kept) = {}
      BY <1>1
    <3>2. ToSet(info) = ToSet(kept) /\ Covers(info, recDoc) /\ info = <<>>
      BY <1>1, <1>3, <3>1 DEF Faithful, Online, Saves
    <3>3. Covers(kept, recDoc)
      BY <1>2, <3>2, CoversIff, EmptyToSet DEF Covers, HasKey
    <3> QED
      BY <3>2, <3>3, EmptyToSet
  <2>4. Closing'
    BY <1>1, <2>2, <2>3, CallersAre DEF Closing, Covers, HasKey
  <2> QED
    BY <1>1, <2>2, <2>4, CallersAre
       DEF Faithful, Lists, Writing, Kicking, Offline, Online, Unique
<1>4. CASE Saves
  <2>1. Start("close", "find", info)
    BY <1>1, <1>4 DEF SaveResultInfo
  <2>2. /\ jobs'["close"].op = "find" /\ jobs'["close"].todo = info /\ Saving("close")'
        /\ \A d \in Callers : d # "close" => jobs'[d] = jobs[d]
    BY <1>4, <2>1, RecordsStart, CallersAre
  <2>3. \A k \in Kickers : ~Saving(k)'
    BY <1>1, <2>2, CallersAre DEF Saving, Done, Idle
  <2>4. /\ ToSet(info) = ToSet(kept) /\ Covers(info, recDoc) /\ info \in Seq(Element)
        /\ agent' = "closing"
    BY <1>1, <1>4, SavesList DEF Faithful, Online
  <2>5. Covers(kept, recDoc)
    BY <1>2, <2>4, CoversIff
  <2>6. Closing'
    BY <1>1, <2>2, <2>4, <2>5 DEF Closing, Covers, HasKey
  <2>7. \A d \in Recorders : Writing(d)'
    BY <2>2, <2>3 DEF Writing, Recorders
  <2> QED
    BY <1>1, <2>3, <2>4, <2>6, <2>7 DEF Faithful, Lists, Kicking, Offline, Online, Unique
<1> QED
  BY <1>3, <1>4

\* The close has written everything: the array has the client's records.
LEMMA RecordsCloseDone ==
  ASSUME Shape, Faithful, CloseDone PROVE Faithful'
<1>1. /\ agent = "closing" /\ agent' = "none" /\ UNCHANGED <<recDoc, kept>>
      /\ ~Saving("close")
  BY DEF CloseDone, gvars, Saving
<1>2. jobs'["close"] = None /\ \A d \in Callers : d # "close" => jobs'[d] = jobs[d]
  BY OtherJobs, CallersAre DEF CloseDone
<1>3. \A d \in Recorders : ~Saving(d)'
  BY <1>1, <1>2, QuietKicks, CallersAre DEF Saving, Done, Idle, Recorders
<1>4. kept \in Seq(Element) /\ recDoc \in Seq(Element)
  BY DEF Shape, Plain
<1>5. Covers(kept, recDoc) /\ ToSet(kept) \subseteq ToSet(recDoc)
  BY <1>1 DEF Faithful, Closing
<1>6. ASSUME NEW e \in ToSet(recDoc) PROVE e \in ToSet(kept)
  <2>1. PICK d \in ToSet(kept) : d.key = e.key
    BY <1>4, <1>5, CoversIff
  <2>2. d = e
    BY <1>4, <1>5, <2>1, UniqueElements DEF Faithful, Lists
  <2> QED
    BY <2>2
<1>7. ToSet(recDoc) = ToSet(kept)
  BY <1>5, <1>6
<1> QED
  BY <1>1, <1>3, <1>7, CallersAre
     DEF Faithful, Lists, Writing, Kicking, Offline, Online, Closing, Unique

\* Steps of the database on the records: findOne, and the end of a save.
LEMMA RecordsFind ==
  ASSUME Shape, Faithful, NEW c \in Recorders, Find(c) PROVE Faithful'
<1>1. /\ Saving(c) /\ c \in Savers /\ c \in Callers /\ c \notin {"pay", "open"}
      /\ jobs[c].todo \in Seq(Item(c)) /\ jobs[c].todo # <<>>
  BY Executing, CallersAre DEF Find
<1> DEFINE op == NextOp(recDoc, jobs[c].todo[1].key)
           j == [op |-> op, todo |-> jobs[c].todo]
<1>2. jobs' = [jobs EXCEPT ![c] = j] /\ j.op = op /\ j.todo = jobs[c].todo
  BY <1>1 DEF Find, GoOn, Doc
<1>3. UNCHANGED <<info, recDoc, kept, agent>>
  BY DEF Find, avars, gvars
<1>4. /\ op \in {"push", "set"}
      /\ op = "push" => ~HasKey(recDoc, jobs[c].todo[1].key)
      /\ op = "set" => Matches(recDoc, jobs[c].todo[1].key)
  BY HasKeyMatches DEF NextOp
<1> HIDE DEF op
<1>5. j # None
  BY <1>1, <1>4, SaveJob, JobSets, JobNotNone
<1> HIDE DEF j
<1>6. /\ jobs'[c] = j /\ \A d \in Callers : d # c => jobs'[d] = jobs[d]
  BY <1>1, <1>2, OtherJobs
<1>7. jobs'[c].op = op /\ jobs'[c].todo = jobs[c].todo /\ Saving(c)'
  BY <1>2, <1>4, <1>5, <1>6 DEF Saving, Done, Idle
<1>8. Writing(c)'
  BY <1>3, <1>4, <1>7 DEF Writing
<1>9. \A d \in Callers : d # c =>
        jobs'[d] = jobs[d] /\ (Saving(d)' <=> Saving(d)) /\ (Done(d)' <=> Done(d))
  BY <1>6, OthersStand
<1>10. \A d \in Recorders : Writing(d)'
  BY <1>3, <1>8, <1>9, WritingSame, CallersAre
<1>a. \A d \in Recorders : (Saving(d)' <=> Saving(d)) /\ jobs'[d].todo = jobs[d].todo
  BY <1>1, <1>7, <1>9, CallersAre
<1>11. Kicking'
  BY <1>3, <1>a, CallersAre DEF Faithful, Kicking, Covers, HasKey
<1>12. Closing'
  BY <1>3, <1>a, CallersAre DEF Faithful, Closing, Covers, HasKey
<1>13. Offline'
  BY <1>1, <1>3, <1>9, CallersAre DEF Faithful, Offline
<1> QED
  BY <1>3, <1>10, <1>11, <1>12, <1>13 DEF Faithful, Lists, Online, Covers, HasKey, Unique

LEMMA RecordsDbError ==
  ASSUME Shape, Faithful, NEW c \in Recorders, DbError(c), Sound' PROVE Faithful'
<1>1. c \in Kickers /\ c \in Callers /\ c # "open"
  BY CallersAre DEF DbError, Sound, Sane, Recorders
<1>2. jobs'[c] = [op |-> "done", todo |-> <<>>] /\ \A d \in Callers : d # c => jobs'[d] = jobs[d]
  BY <1>1, OtherJobs DEF DbError, End
<1>3. ~Saving(c)'
  BY <1>2 DEF Saving, Done
<1>4. UNCHANGED <<info, recDoc, kept, agent>>
  BY DEF DbError, avars
<1> QED
  BY <1>1, <1>2, <1>3, <1>4, FaithfulEnds

\* After the write of the first record that is left: the rest of the loop, or
\* the end.
LEMMA AfterRecord ==
  ASSUME Shape, NEW c \in Recorders, NEW op \in {"push", "set"}, Executes(c, op),
         AfterWrite(c)
  PROVE  /\ jobs[c].todo[1] \in Element /\ Saving(c) /\ jobs[c].op = op
         /\ jobs[c].todo[1] \in ToSet(jobs[c].todo)
         /\ c = "close" => agent = "closing"
         /\ \A d \in Callers : d # c => jobs'[d] = jobs[d]
         /\ \/ /\ Saving(c)' /\ jobs'[c].op = "find"
               /\ ToSet(jobs[c].todo) = ToSet(jobs'[c].todo) \cup {jobs[c].todo[1]}
            \/ /\ ~Saving(c)'
               /\ ToSet(jobs[c].todo) = {jobs[c].todo[1]}
<1>1. /\ Saving(c) /\ c \in Savers /\ c \in Callers /\ jobs[c].op = op
      /\ jobs[c].todo \in Seq(Element) /\ jobs[c].todo # <<>> /\ jobs[c].todo[1] \in Element
      /\ c = "close" => agent = "closing"
  BY Executing, CallersAre DEF Item
<1>2. \A d \in Callers : d # c => jobs'[d] = jobs[d]
  BY <1>1, AfterWriteOthers
<1> DEFINE todo == jobs[c].todo
<1>3. /\ todo[1] = Head(todo) /\ todo[1] \in ToSet(todo) /\ Len(todo) \in Nat \ {0}
  BY <1>1, HeadFirst
<1>4. CASE Len(todo) > 1
  <2> DEFINE j == [op |-> "find", todo |-> Tail(todo)]
  <2>1. jobs' = [jobs EXCEPT ![c] = j] /\ j.op = "find" /\ j.todo = Tail(todo)
    BY <1>4 DEF AfterWrite, GoOn
  <2>2. ToSet(todo) = ToSet(Tail(todo)) \cup {todo[1]}
    BY <1>1, <1>3, TailToSet
  <2>3. Tail(todo) \in Seq(Item(c)) /\ Tail(todo) # <<>>
    <3>1. Tail(todo) \in Seq(Element) /\ Len(Tail(todo)) = Len(todo) - 1
      BY <1>1, TailAt
    <3>a. Len(<<>>) = 0
      OBVIOUS
    <3>b. ASSUME NEW n \in Nat, n > 1 PROVE n - 1 # 0
      BY <3>b
    <3>c. Len(todo) - 1 # 0
      BY <1>3, <1>4, <3>b, Zenon
    <3>2. Tail(todo) # <<>>
      BY <3>1, <3>a, <3>c, Zenon
    <3>3. Item(c) = Element
      BY CallersAre DEF Item
    <3> QED
      BY <3>1, <3>2, <3>3
  <2>4. j # None
    BY <1>1, <2>3, SaveJob, JobSets, JobNotNone
  <2> HIDE DEF j
  <2>5. jobs'[c] = j
    BY <1>1, <2>1, OtherJobs
  <2>6. Saving(c)' /\ jobs'[c].op = "find" /\ jobs'[c].todo = Tail(todo)
    BY <2>1, <2>4, <2>5 DEF Saving, Done, Idle
  <2> QED
    BY <1>1, <1>2, <1>3, <2>2, <2>6
<1>5. CASE ~(Len(todo) > 1)
  <2> DEFINE j == [op |-> "done", todo |-> todo]
  <2>1. jobs' = [jobs EXCEPT ![c] = j] /\ j.op = "done"
    BY <1>5 DEF AfterWrite, End
  <2> HIDE DEF j
  <2>2. jobs'[c] = j
    BY <1>1, <2>1, OtherJobs
  <2>3. ~Saving(c)'
    BY <2>1, <2>2 DEF Saving, Done, Idle
  <2>4. Len(todo) = 1
    <3>1. \A n \in Nat \ {0} : ~(n > 1) => n = 1
      OBVIOUS
    <3>2. Len(todo) \in Nat \ {0}
      BY <1>3
    <3> HIDE DEF todo
    <3> QED
      BY <1>5, <3>1, <3>2
  <2>5. ASSUME NEW x \in ToSet(todo) PROVE x = todo[1]
    <3>1. PICK i \in 1..Len(todo) : todo[i] = x
      BY <1>1, OfToSet
    <3> QED
      BY <2>4, <3>1
  <2>6. ToSet(todo) = {todo[1]}
    BY <1>3, <2>5
  <2> QED
    BY <1>1, <1>2, <1>3, <2>3, <2>6
<1> QED
  BY <1>4, <1>5

\* A record is written: the array has it in place of the one of its name.
LEMMA RecordsWritten ==
  ASSUME Shape, Faithful, NEW c \in Recorders, NEW op \in {"push", "set"},
         Executes(c, op), AfterWrite(c), UNCHANGED <<info, kept, agent>>,
         NEW e, e = jobs[c].todo[1],
         Unique(recDoc'), e \in ToSet(recDoc'),
         ToSet(recDoc') \subseteq ToSet(recDoc) \cup {e},
         \A y \in ToSet(recDoc) : y.key # e.key => y \in ToSet(recDoc')
  PROVE  Faithful'
<1>1. /\ e \in Element /\ Saving(c) /\ e \in ToSet(jobs[c].todo)
      /\ c = "close" => agent = "closing"
      /\ \A d \in Callers : d # c => jobs'[d] = jobs[d]
      /\ \/ /\ Saving(c)' /\ jobs'[c].op = "find"
            /\ ToSet(jobs[c].todo) = ToSet(jobs'[c].todo) \cup {e}
         \/ /\ ~Saving(c)'
            /\ ToSet(jobs[c].todo) = {e}
  BY AfterRecord
<1>2. \A d \in Callers : d # c =>
        jobs'[d] = jobs[d] /\ (Saving(d)' <=> Saving(d)) /\ (Done(d)' <=> Done(d))
  BY <1>1, OthersStand
<1>t. kept \in Seq(Element)
  BY DEF Shape, Plain
<1>3. Lists'
  BY DEF Faithful, Lists, Unique
<1>w. Writing(c)'
  BY <1>1 DEF Writing
<1>4. CASE c \in Kickers
  <2>1. /\ agent = "online" /\ Covers(info, jobs[c].todo) /\ Idle("close")
        /\ \A d \in Kickers : Saving(d) => d = c
    BY <1>1, <1>4, CallersAre DEF Faithful, Kicking, Shape, Work
  <2>2. \A d \in Recorders : d # c => ~Saving(d)'
    BY <1>2, <1>4, <2>1, CallersAre DEF Saving, Recorders
  <2>3. \A d \in Recorders : Writing(d)'
    BY <1>w, <2>2 DEF Writing
  <2>4. Kicking'
    BY <1>1, <1>4, <2>1, <2>2, CallersAre DEF Kicking, Covers, HasKey
  <2>5. Covers(info, recDoc) => Covers(info, recDoc')
    BY <1>1, <2>1 DEF Covers
  <2>6. Online'
    BY <2>1, <2>5 DEF Faithful, Online, Covers, HasKey, Unique
  <2> QED
    BY <1>3, <2>1, <2>3, <2>4, <2>6 DEF Faithful, Offline, Closing
<1>5. CASE c = "close"
  <2>1. /\ agent = "closing" /\ Covers(kept, recDoc)
        /\ ToSet(jobs["close"].todo) \subseteq ToSet(kept)
        /\ ToSet(kept) \subseteq ToSet(recDoc) \cup ToSet(jobs["close"].todo)
    BY <1>1, <1>5 DEF Faithful, Closing
  <2>2. \A k \in Kickers : ~Saving(k)'
    BY <1>2, <1>5, <2>1, QuietKicks, CallersAre
  <2>3. \A d \in Recorders : Writing(d)'
    BY <1>w, <1>5, <2>2 DEF Writing, Recorders
  <2>4. Covers(kept, recDoc')
    <3>1. e \in ToSet(kept)
      BY <1>1, <1>5, <2>1
    <3>2. HasKey(kept, e.key)
      BY <1>t, <3>1, HasKeyIff
    <3> QED
      BY <2>1, <3>2 DEF Covers
  <2>5. ASSUME NEW y \in ToSet(kept), y # e, y \notin ToSet(jobs["close"].todo)
        PROVE  y \in ToSet(recDoc')
    <3>1. y \in ToSet(recDoc)
      BY <2>1, <2>5
    <3>2. e \in ToSet(kept)
      BY <1>1, <1>5, <2>1
    <3>3. y.key # e.key
      BY <1>t, <2>5, <3>2, UniqueElements DEF Faithful, Lists
    <3> QED
      BY <3>1, <3>3
  <2>6. Closing'
    <3>1. CASE Saving(c)'
      BY <1>1, <1>5, <2>1, <2>4, <2>5, <3>1 DEF Closing
    <3>2. CASE ~Saving(c)'
      BY <1>1, <1>5, <2>1, <2>4, <2>5, <3>2 DEF Closing
    <3> QED
      BY <3>1, <3>2
  <2> QED
    BY <1>3, <2>1, <2>2, <2>3, <2>6 DEF Faithful, Kicking, Offline, Online
<1> QED
  BY <1>4, <1>5 DEF Recorders

LEMMA RecordsPush ==
  ASSUME Shape, Faithful, NEW c \in Recorders, Push(c) PROVE Faithful'
<1> DEFINE e == jobs[c].todo[1]
<1>1. Executes(c, "push") /\ AfterWrite(c) /\ UNCHANGED <<info, kept, agent>>
  BY DEF Push, avars, gvars
<1>2. e \in Element /\ Saving(c) /\ jobs[c].op = "push"
  BY <1>1, AfterRecord
<1>3. ~HasKey(recDoc, e.key)
  BY <1>2 DEF Faithful, Writing
<1>4. recDoc' = Append(recDoc, e)
  BY CallersAre DEF Push, SetDoc, Doc
<1>5. recDoc \in Seq(Element) /\ Unique(recDoc)
  BY DEF Shape, Plain, Faithful, Lists
<1>6. Unique(recDoc') /\ ToSet(recDoc') = ToSet(recDoc) \cup {e}
  <2> HIDE DEF e
  <2> QED
    BY <1>2, <1>3, <1>4, <1>5, UniqueAppend, AppendToSet
<1> QED
  BY <1>1, <1>6, RecordsWritten

LEMMA RecordsSet ==
  ASSUME Shape, Faithful, NEW c \in Recorders, Set(c), Sound' PROVE Faithful'
<1> DEFINE e == jobs[c].todo[1]
<1>1. Executes(c, "set") /\ AfterWrite(c) /\ UNCHANGED <<info, kept, agent>>
  BY DEF Set, avars
<1>2. e \in Element /\ Saving(c) /\ jobs[c].op = "set"
  BY <1>1, AfterRecord
<1>3. Matches(recDoc, e.key)
  BY <1>2 DEF Faithful, Writing
<1>4. PICK i \in Positions(recDoc, e.key) :
        /\ recDoc' = [recDoc EXCEPT ![i] = e]
        /\ mixed' = IF recDoc[i].key = e.key THEN mixed ELSE mixed \cup {"ResultInfo"}
  BY <1>3, CallersAre DEF Set, SetDoc, Doc
<1>5. recDoc \in Seq(Element) /\ Unique(recDoc)
  BY DEF Shape, Plain, Faithful, Lists
<1>6. i \in 1..Len(recDoc)
  BY <1>3, <1>5, PositionsIn
<1>7. recDoc[i].key = e.key
  BY <1>4 DEF Sound, Sane
<1>8. /\ Unique(recDoc') /\ e \in ToSet(recDoc')
      /\ ToSet(recDoc') \subseteq ToSet(recDoc) \cup {e}
      /\ \A y \in ToSet(recDoc) : y.key # e.key => y \in ToSet(recDoc')
  <2> HIDE DEF e
  <2>1. /\ recDoc' \in Seq(Element) /\ Len(recDoc') = Len(recDoc)
        /\ e \in ToSet(recDoc')
        /\ ToSet(recDoc') \subseteq ToSet(recDoc) \cup {e}
        /\ \A y \in ToSet(recDoc) : y # recDoc[i] => y \in ToSet(recDoc')
    <3> DEFINE l == [recDoc EXCEPT ![i] = e]
    <3>1. l \in Seq(Element) /\ Len(l) = Len(recDoc) /\ e \in ToSet(l)
      BY <1>2, <1>5, <1>6, ExceptToSet
    <3>2. ToSet(l) \subseteq ToSet(recDoc) \cup {e}
      BY <1>2, <1>5, <1>6, ExceptToSet
    <3>3. \A y \in ToSet(recDoc) : y # recDoc[i] => y \in ToSet(l)
      BY <1>2, <1>5, <1>6, ExceptToSet
    <3>4. recDoc' = l
      BY <1>4
    <3> QED
      BY <3>1, <3>2, <3>3, <3>4, Zenon
  <2>2. \A n \in 1..Len(recDoc) : recDoc'[n] = IF n = i THEN e ELSE recDoc[n]
    BY <1>2, <1>4, <1>5, <1>6, ExceptToSet
  <2>3. \A n \in 1..Len(recDoc) : recDoc'[n].key = recDoc[n].key
    BY <1>7, <2>2
  <2>4. Unique(recDoc')
    BY <1>5, <2>1, <2>3, UniqueSameKeys
  <2> QED
    BY <1>7, <2>1, <2>4
<1> QED
  BY <1>1, <1>8, RecordsWritten

\* Steps about payments and requests leave the coroutines of the records alone.
LEMMA PayMoves ==
  ASSUME Shape,
         \/ Pay \/ PayDone \/ Unregistered \/ UNCHANGED vars
         \/ \E r \in Request : Client(r)
         \/ Find("pay") \/ Push("pay") \/ Set("pay") \/ DbError("pay")
  PROVE  \A d \in Callers : d # "pay" => jobs'[d] = jobs[d]
<1>0. "pay" \in Callers
  BY CallersAre
<1>1. CASE Find("pay") \/ Push("pay") \/ Set("pay") \/ DbError("pay")
  BY <1>0, <1>1, OtherJobs, AfterWriteOthers DEF Find, Push, Set, DbError, GoOn, End
<1>2. CASE PayDone
  BY <1>0, <1>2, OtherJobs DEF PayDone
<1>3. CASE Pay
  <2> DEFINE j == [op |-> "find", todo |-> <<[key |-> Head(cs).key]>>]
  <2>1. jobs' = jobs \/ jobs' = [jobs EXCEPT !["pay"] = j]
    BY <1>3 DEF Pay, Start
  <2> HIDE DEF j
  <2> QED
    BY <1>0, <2>1, OtherJobs
<1>4. CASE Unregistered \/ UNCHANGED vars \/ \E r \in Request : Client(r)
  BY <1>4 DEF Unregistered, Client, vars, dvars
<1> QED
  BY <1>1, <1>2, <1>3, <1>4

\* They leave the records alone.
LEMMA RecordsOthers ==
  ASSUME Shape, Faithful,
         \/ Pay \/ PayDone \/ Unregistered \/ UNCHANGED vars
         \/ \E r \in Request : Client(r)
         \/ Find("pay") \/ Push("pay") \/ Set("pay") \/ DbError("pay")
  PROVE  Faithful'
<1>1. UNCHANGED <<info, recDoc, kept, agent>>
  BY DEF Pay, PayDone, Unregistered, Client, Find, Push, Set, DbError, SetDoc,
         vars, avars, dvars, gvars
<1>2. \A d \in Callers : d # "pay" => jobs'[d] = jobs[d]
  BY PayMoves
<1> QED
  BY <1>1, <1>2, FaithfulSame, CallersAre

LEMMA RecordsGetPayInfo ==
  ASSUME Shape, Faithful, NEW c \in Callers, GetPayInfo(c) PROVE Faithful'
<1>1. c = "open" /\ agent = "loadpay"
  BY Executing DEF GetPayInfo
<1>2. UNCHANGED <<info, recDoc, kept, agent>>
  BY DEF GetPayInfo, avars, gvars
<1>3. \A d \in Recorders : jobs'[d] = jobs[d]
  BY <1>1, OtherJobs, CallersAre DEF GetPayInfo, End
<1> QED
  BY <1>1, <1>2, <1>3, FaithfulSame

LEMMA RecordsNext ==
  ASSUME Shape, Records, [Next]_vars PROVE Records'
<1> SUFFICES ASSUME Sound' PROVE Faithful'
  BY DEF Records
<1>0. Faithful
  BY SoundBefore DEF Records
<1>1. CASE Database
  <2>1. PICK c \in Callers : \/ GetPayInfo(c) \/ getResultInfo(c)
                             \/ Find(c) \/ Push(c) \/ Set(c) \/ DbError(c)
    BY <1>1 DEF Database
  <2>2. CASE GetPayInfo(c)
    BY <1>0, <2>2, RecordsGetPayInfo
  <2>3. CASE getResultInfo(c)
    BY <1>0, <2>3, RecordsgetResultInfo
  <2>4. CASE Find(c) \/ Push(c) \/ Set(c) \/ DbError(c)
    <3>1. CASE c = "open"
      <4>1. ~(Find(c) \/ Push(c) \/ Set(c))
        BY <3>1, Executing, CallersAre DEF Find, Push, Set
      <4> QED
        BY <1>0, <2>4, <3>1, <4>1, RecordsLoadError
    <3>2. CASE c = "pay"
      BY <1>0, <2>4, <3>2, RecordsOthers
    <3>3. CASE c \in Recorders
      BY <1>0, <2>4, <3>3, RecordsFind, RecordsPush, RecordsSet, RecordsDbError
    <3> QED
      BY <3>1, <3>2, <3>3 DEF Callers, Recorders
  <2> QED
    BY <2>1, <2>2, <2>3, <2>4
<1>2. CASE Pay \/ PayDone \/ Unregistered \/ UNCHANGED vars \/ \E r \in Request : Client(r)
  BY <1>0, <1>2, RecordsOthers
<1>3. CASE Open \/ PayLoaded \/ RecordsLoaded \/ Learn
  BY <1>0, <1>3, RecordsOpen, RecordsPayLoaded, RecordsRecordsLoaded, RecordsLearn
<1>4. CASE (\E c \in Kickers : Kick(c) \/ KickDone(c)) \/ Close \/ CloseDone
  BY <1>0, <1>4, RecordsKick, RecordsKickDone, RecordsClose, RecordsCloseDone
<1> QED
  BY <1>1, <1>2, <1>3, <1>4 DEF Next

LEMMA RecordsInit ==
  ASSUME Init PROVE Records
<1>1. \A c \in Callers : ~Saving(c)
  BY DEF Init, Saving, Idle
<1>2. Lists
  BY DEF Init, Lists, Unique
<1>3. agent = "none" /\ recDoc = kept
  BY DEF Init
<1> QED
  BY <1>1, <1>2, <1>3, CallersAre DEF Records, Faithful, Writing, Kicking, Offline, Online, Closing

-----------------------------------------------------------------------------
(***************************************************************************)
(* Names of records.                                                       *)
(***************************************************************************)
Told == Named /\ \A c \in Recorders : Found(c)

\* An array that loses no name.
LEMMA NamesGrow ==
  ASSUME NEW a, NEW b, \A k : HasKey(a, k) => HasKey(b, k)
  PROVE  /\ \A x : Covers(a, x) => Covers(b, x)
         /\ \A k : Matches(a, k) => Matches(b, k)
<1>1. \A x : Covers(a, x) => Covers(b, x)
  BY DEF Covers
<1>2. ASSUME NEW k, Matches(a, k), NEW f \in 1..2
      PROVE  \E i \in DOMAIN b : b[i].key[f] = k[f]
  <2>1. PICK i \in DOMAIN a : a[i].key[f] = k[f]
    BY <1>2 DEF Matches
  <2>2. HasKey(a, a[i].key)
    BY DEF HasKey
  <2>3. PICK n \in DOMAIN b : b[n].key = a[i].key
    BY <2>2 DEF HasKey
  <2> QED
    BY <2>1, <2>3
<1> QED
  BY <1>1, <1>2 DEF Matches

LEMMA FoundSame ==
  ASSUME Told, NEW c \in Recorders, jobs'[c] = jobs[c], recDoc' = recDoc
  PROVE  Found(c)'
BY DEF Told, Found, Saving, Done, Idle, Matches

LEMMA TellsSame ==
  ASSUME Told, UNCHANGED <<info, recDoc, kept, agent>>,
         \A d \in Recorders : jobs'[d] = jobs[d],
         agent = "loadrec" => jobs'["open"] = jobs["open"]
  PROVE  Told'
<1>1. \A d \in Recorders : Found(d)'
  BY FoundSame
<1>2. jobs'["close"] = jobs["close"]
  BY CallersAre
<1>3. Named'
  BY <1>2 DEF Told, Named, Saving, Done, Idle, Covers, HasKey
<1> QED
  BY <1>1, <1>3 DEF Told

\* A kick starts or ends a save; what was found stays found.
LEMMA TellsKick ==
  ASSUME Told, NEW c \in Kickers, UNCHANGED <<info, recDoc, kept, agent>>,
         \A d \in Callers : d # c => jobs'[d] = jobs[d], Found(c)'
  PROVE  Told'
<1>1. \A d \in Recorders : d # c => Found(d)'
  BY FoundSame, CallersAre
<1>2. jobs'["close"] = jobs["close"] /\ jobs'["open"] = jobs["open"]
  BY CallersAre
<1>3. Named'
  BY <1>2 DEF Told, Named, Saving, Done, Idle, Covers, HasKey
<1> QED
  BY <1>1, <1>3 DEF Told

LEMMA TellsOpens ==
  ASSUME Shape, Told, agent \in {"none", "loadpay", "loadrec"},
         agent' \in {"loadpay", "loadrec"}, UNCHANGED <<recDoc, kept>>,
         NEW j, jobs' = [jobs EXCEPT !["open"] = j],
         agent' = "loadrec" /\ j.op = "done" => j.todo \in {recDoc, None}
  PROVE  Told'
<1>1. jobs'["open"] = j /\ \A d \in Recorders : jobs'[d] = jobs[d]
  BY OtherJobs, CallersAre
<1>2. \A d \in Recorders : Found(d)'
  BY <1>1, FoundSame
<1>3. Covers(recDoc, kept)
  BY DEF Told, Named
<1>4. Named'
  BY <1>1, <1>3 DEF Named, Done, Covers, HasKey
<1> QED
  BY <1>2, <1>4 DEF Told

\* Open, and the answers of the two loads.
LEMMA TellsLoads ==
  ASSUME Shape, Told,
         \/ Open \/ PayLoaded \/ DbError("open")
         \/ \E c \in Callers : GetPayInfo(c) \/ getResultInfo(c)
  PROVE  Told'
<1>1. CASE Open
  <2> DEFINE j == [op |-> "GetPayInfo", todo |-> <<>>]
  <2>1. /\ agent = "none" /\ agent' = "loadpay" /\ UNCHANGED <<recDoc, kept>>
        /\ jobs' = [jobs EXCEPT !["open"] = j]
    BY <1>1 DEF Open, Start, gvars
  <2> HIDE DEF j
  <2> QED
    BY <2>1, TellsOpens
<1>2. CASE PayLoaded
  <2> DEFINE j == [op |-> "getResultInfo", todo |-> <<>>]
  <2>1. /\ agent = "loadpay" /\ agent' = "loadrec" /\ UNCHANGED <<recDoc, kept>>
        /\ jobs' = [jobs EXCEPT !["open"] = j] /\ j.op # "done"
    BY <1>2 DEF PayLoaded, Start, gvars
  <2> HIDE DEF j
  <2> QED
    BY <2>1, TellsOpens
<1>3. CASE DbError("open")
  <2> DEFINE j == [op |-> "done", todo |-> None]
  <2>1. UNCHANGED <<recDoc, kept, agent>> /\ jobs' = [jobs EXCEPT !["open"] = j]
    BY <1>3 DEF DbError, avars, End
  <2>2. j.todo = None
    OBVIOUS
  <2>3. agent \in {"loadpay", "loadrec"}
    <3>1. PICK op \in {"GetPayInfo", "getResultInfo", "find", "push", "set"} :
                 Executes("open", op)
      BY <1>3 DEF DbError
    <3> QED
      BY <3>1, Executing, CallersAre
  <2> HIDE DEF j
  <2> QED
    BY <2>1, <2>2, <2>3, TellsOpens
<1>4. ASSUME NEW c \in Callers, GetPayInfo(c) PROVE Told'
  <2> DEFINE j == [op |-> "done", todo |-> payDoc]
  <2>1. c = "open" /\ agent = "loadpay"
    BY <1>4, Executing DEF GetPayInfo
  <2>2. UNCHANGED <<recDoc, kept, agent>> /\ jobs' = [jobs EXCEPT !["open"] = j]
    BY <1>4, <2>1 DEF GetPayInfo, End, avars, gvars
  <2> HIDE DEF j
  <2> QED
    BY <2>1, <2>2, TellsOpens
<1>5. ASSUME NEW c \in Callers, getResultInfo(c) PROVE Told'
  <2> DEFINE j == [op |-> "done", todo |-> recDoc]
  <2>1. c = "open" /\ agent = "loadrec"
    BY <1>5, Executing DEF getResultInfo
  <2>2. /\ UNCHANGED <<recDoc, kept, agent>> /\ jobs' = [jobs EXCEPT !["open"] = j]
        /\ j.todo = recDoc
    BY <1>5, <2>1 DEF getResultInfo, End, avars, gvars
  <2> HIDE DEF j
  <2> QED
    BY <2>1, <2>2, TellsOpens
<1> QED
  BY <1>1, <1>2, <1>3, <1>4, <1>5

LEMMA TellsRecordsLoaded ==
  ASSUME Shape, Told, RecordsLoaded PROVE Told'
<1>1. /\ agent = "loadrec" /\ agent' = "online" /\ UNCHANGED <<recDoc, kept>>
      /\ info' = jobs["open"].todo /\ Done("open")
  BY DEF RecordsLoaded, gvars
<1>2. \A d \in Recorders : jobs'[d] = jobs[d]
  BY OtherJobs, CallersAre DEF RecordsLoaded
<1>3. \A d \in Recorders : Found(d)'
  BY <1>1, <1>2, FoundSame
<1> QED
  BY <1>1, <1>3 DEF Told, Named, Covers, HasKey

LEMMA TellsLearn ==
  ASSUME Shape, Told, Learn PROVE Told'
<1>1. /\ UNCHANGED <<agent, jobs, recDoc>>
      /\ info' = IF info = None THEN None ELSE Stored(info, Head(cs))
      /\ kept' = IF agent = "online" /\ info # None THEN info' ELSE kept
      /\ cs # <<>> /\ Head(cs).type = "learn"
  BY DEF Learn, dvars, Runs
<1>2. \A d \in Recorders : Found(d)'
  BY <1>1, FoundSame
<1>3. CASE ~(agent = "online" /\ info # None)
  BY <1>1, <1>2, <1>3 DEF Told, Named, Saving, Done, Idle, Covers, HasKey
<1>4. CASE agent = "online" /\ info # None
  <2>1. Head(cs) \in Request /\ info \in Seq(Element)
    BY <1>1, <1>4, HeadTailProperties DEF Shape, Plain
  <2>2. info' \in Seq(Element) /\ kept' = info'
    BY <1>1, <1>4, <2>1, StoredAt
  <2>3. Covers(info', info')
    BY <2>2, CoversIff
  <2> QED
    BY <1>1, <1>2, <1>4, <2>2, <2>3 DEF Told, Named
<1> QED
  BY <1>3, <1>4

LEMMA TellsKicks ==
  ASSUME Shape, Told, NEW c \in Kickers, Kick(c) \/ KickDone(c) PROVE Told'
<1>1. UNCHANGED <<info, recDoc, kept, agent>>
  BY DEF Kick, KickDone, avars, gvars
<1>2. CASE KickDone(c)
  <2>1. jobs'[c] = None /\ \A d \in Callers : d # c => jobs'[d] = jobs[d]
    BY <1>2, OtherJobs, CallersAre DEF KickDone
  <2>2. Found(c)'
    BY <2>1 DEF Found, Saving, Idle
  <2> QED
    BY <1>1, <2>1, <2>2, TellsKick
<1>3. CASE Kick(c) /\ ~Saves
  <2>1. jobs' = jobs
    BY <1>3 DEF Kick, SaveResultInfo
  <2> QED
    BY <1>1, <2>1, TellsSame
<1>4. CASE Kick(c) /\ Saves
  <2>1. Start(c, "find", info)
    BY <1>4 DEF Kick, SaveResultInfo
  <2>2. jobs'[c].op = "find" /\ \A d \in Callers : d # c => jobs'[d] = jobs[d]
    BY <1>4, <2>1, RecordsStart, CallersAre
  <2>3. Found(c)'
    BY <2>2 DEF Found
  <2> QED
    BY <1>1, <2>2, <2>3, TellsKick
<1> QED
  BY <1>2, <1>3, <1>4

LEMMA TellsClose ==
  ASSUME Shape, Told, Close PROVE Told'
<1>1. /\ agent = "online" /\ UNCHANGED <<info, recDoc, kept>> /\ SaveResultInfo("close")
      /\ agent' = IF info = None THEN "stuck" ELSE "closing"
  BY DEF Close
<1>2. CASE ~Saves
  <2>1. jobs' = jobs
    BY <1>1, <1>2 DEF SaveResultInfo
  <2>2. \A d \in Recorders : Found(d)'
    BY <1>1, <2>1, FoundSame
  <2>3. agent' = "closing" => ToSet(kept) = {}
    <3>1. SUFFICES ASSUME info # None PROVE ToSet(kept) = {}
      BY <1>1
    <3>2. info = <<>> /\ Covers(info, kept)
      BY <1>1, <1>2, <3>1 DEF Told, Named, Saves
    <3> QED
      BY <3>2 DEF Covers, HasKey
  <2> QED
    BY <1>1, <2>2, <2>3 DEF Told, Named
<1>3. CASE Saves
  <2>1. Start("close", "find", info)
    BY <1>1, <1>3 DEF SaveResultInfo
  <2>2. /\ jobs'["close"].op = "find" /\ jobs'["close"].todo = info /\ Saving("close")'
        /\ \A d \in Callers : d # "close" => jobs'[d] = jobs[d]
    BY <1>3, <2>1, RecordsStart, CallersAre
  <2>3. Covers(info, kept) /\ agent' = "closing"
    BY <1>1, <1>3, SavesList DEF Told, Named
  <2>4. Found("close")'
    BY <2>2 DEF Found
  <2>5. \A d \in Recorders : Found(d)'
    BY <1>1, <2>2, <2>4, FoundSame, CallersAre
  <2>6. Named'
    BY <1>1, <2>2, <2>3 DEF Named, Covers
  <2> QED
    BY <2>5, <2>6 DEF Told
<1> QED
  BY <1>2, <1>3

LEMMA TellsCloseDone ==
  ASSUME Shape, Told, CloseDone PROVE Told'
<1>1. /\ agent = "closing" /\ agent' = "none" /\ UNCHANGED <<recDoc, kept>> /\ ~Saving("close")
  BY DEF CloseDone, gvars, Saving
<1>2. jobs'["close"] = None /\ \A d \in Callers : d # "close" => jobs'[d] = jobs[d]
  BY OtherJobs, CallersAre DEF CloseDone
<1>3. Found("close")'
  BY <1>2 DEF Found, Saving, Idle
<1>4. \A d \in Recorders : Found(d)'
  BY <1>1, <1>2, <1>3, FoundSame, CallersAre
<1>5. Covers(recDoc, kept)
  BY <1>1 DEF Told, Named, Covers
<1> QED
  BY <1>1, <1>4, <1>5 DEF Told, Named, Covers, HasKey

LEMMA TellsFind ==
  ASSUME Shape, Told, NEW c \in Recorders, Find(c) PROVE Told'
<1>1. /\ Saving(c) /\ c \in Savers /\ c \in Callers /\ c \notin {"pay", "open"}
      /\ jobs[c].todo \in Seq(Item(c)) /\ jobs[c].todo # <<>>
  BY Executing, CallersAre DEF Find
<1> DEFINE op == NextOp(recDoc, jobs[c].todo[1].key)
           j == [op |-> op, todo |-> jobs[c].todo]
<1>2. jobs' = [jobs EXCEPT ![c] = j] /\ j.op = op /\ j.todo = jobs[c].todo
  BY <1>1 DEF Find, GoOn, Doc
<1>3. UNCHANGED <<info, recDoc, kept, agent>>
  BY DEF Find, avars, gvars
<1>4. op \in {"push", "set"} /\ (op = "set" => Matches(recDoc, jobs[c].todo[1].key))
  BY DEF NextOp
<1> HIDE DEF op
<1>5. j # None
  BY <1>1, <1>4, SaveJob, JobSets, JobNotNone
<1> HIDE DEF j
<1>6. /\ jobs'[c] = j /\ \A d \in Callers : d # c => jobs'[d] = jobs[d]
  BY <1>1, <1>2, OtherJobs
<1>7. jobs'[c].op = op /\ jobs'[c].todo = jobs[c].todo /\ Saving(c)'
  BY <1>2, <1>4, <1>5, <1>6 DEF Saving, Done, Idle
<1>8. Found(c)'
  BY <1>3, <1>4, <1>7 DEF Found
<1>9. \A d \in Recorders : Found(d)'
  BY <1>3, <1>6, <1>8, FoundSame, CallersAre
<1>10. /\ (Saving("close")' <=> Saving("close")) /\ jobs'["close"].todo = jobs["close"].todo
       /\ jobs'["open"] = jobs["open"]
  BY <1>1, <1>6, <1>7, OthersStand, CallersAre
<1>11. Named'
  BY <1>3, <1>10 DEF Told, Named, Done, Idle, Covers, HasKey
<1> QED
  BY <1>9, <1>11 DEF Told

LEMMA TellsDbError ==
  ASSUME Shape, Told, NEW c \in Recorders, DbError(c), Sane' PROVE Told'
<1>1. c \in Kickers /\ c \in Callers /\ c # "open"
  BY CallersAre DEF DbError, Sane, Recorders
<1>2. jobs'[c] = [op |-> "done", todo |-> <<>>] /\ \A d \in Callers : d # c => jobs'[d] = jobs[d]
  BY <1>1, OtherJobs DEF DbError, End
<1>3. Found(c)'
  BY <1>2 DEF Found, Saving, Done
<1>4. UNCHANGED <<info, recDoc, kept, agent>>
  BY DEF DbError, avars
<1> QED
  BY <1>1, <1>2, <1>3, <1>4, TellsKick

\* A record is written, by whichever save: no name is lost.
LEMMA TellsWritten ==
  ASSUME Shape, Shape', Told, NEW c \in Recorders, NEW op \in {"push", "set"},
         Executes(c, op), AfterWrite(c), UNCHANGED <<info, kept, agent>>,
         \A k : HasKey(recDoc, k) => HasKey(recDoc', k),
         HasKey(recDoc', jobs[c].todo[1].key)
  PROVE  Told'
<1> DEFINE e == jobs[c].todo[1]
<1>1. /\ \A d \in Callers : d # c => jobs'[d] = jobs[d]
      /\ \/ /\ Saving(c)' /\ jobs'[c].op = "find"
            /\ ToSet(jobs[c].todo) = ToSet(jobs'[c].todo) \cup {e}
         \/ /\ ~Saving(c)'
            /\ ToSet(jobs[c].todo) = {e}
  BY AfterRecord
<1>2. \A d \in Callers : d # c =>
        jobs'[d] = jobs[d] /\ (Saving(d)' <=> Saving(d)) /\ (Done(d)' <=> Done(d))
  BY <1>1, OthersStand
<1>3. /\ \A x : Covers(recDoc, x) => Covers(recDoc', x)
      /\ \A k : Matches(recDoc, k) => Matches(recDoc', k)
  BY NamesGrow
<1>4. Found(c)'
  BY <1>1 DEF Found
<1>5. \A d \in Recorders : Found(d)'
  BY <1>2, <1>3, <1>4, CallersAre DEF Told, Found
<1>6. \A x \in ToSet(kept) : HasKey(recDoc, x.key) \/ (Saving("close") /\ HasKey(jobs["close"].todo, x.key))
        => HasKey(recDoc', x.key) \/ (Saving("close")' /\ HasKey(jobs'["close"].todo, x.key))
  <2>1. CASE c # "close"
    BY <1>2, <2>1, CallersAre
  <2>2. CASE c = "close"
    <3> SUFFICES ASSUME NEW x \in ToSet(kept), HasKey(jobs["close"].todo, x.key), x.key # e.key
                 PROVE  Saving("close")' /\ HasKey(jobs'["close"].todo, x.key)
      OBVIOUS
    <3>1. jobs["close"].todo \in Seq(Element)
      BY <2>2, Executing, CallersAre DEF Item
    <3>2. PICK y \in ToSet(jobs["close"].todo) : y.key = x.key
      BY <3>1, HasKeyIff
    <3>3. Saving("close")' /\ y \in ToSet(jobs'["close"].todo)
      BY <1>1, <2>2, <3>2
    <3>4. jobs'["close"] \in Save(Element)
      BY <3>3, CallersAre DEF Shape, Work, Saving, Item
    <3>5. jobs'["close"].todo \in Seq(Element)
      BY <3>4, SaveIn
    <3> QED
      BY <3>2, <3>3, <3>5, HasKeyIff
  <2> QED
    BY <2>1, <2>2
<1>7. Named'
  BY <1>2, <1>3, <1>6, CallersAre DEF Told, Named, Covers, HasKey
<1> QED
  BY <1>5, <1>7 DEF Told

LEMMA TellsPush ==
  ASSUME Shape, Shape', Told, NEW c \in Recorders, Push(c) PROVE Told'
<1> DEFINE e == jobs[c].todo[1]
<1>1. Executes(c, "push") /\ AfterWrite(c) /\ UNCHANGED <<info, kept, agent>>
  BY DEF Push, avars, gvars
<1>2. e \in Element /\ recDoc \in Seq(Element)
  BY <1>1, AfterRecord DEF Shape, Plain
<1>3. recDoc' = Append(recDoc, e)
  BY CallersAre DEF Push, SetDoc, Doc
<1>4. \A k : HasKey(recDoc', k) <=> HasKey(recDoc, k) \/ e.key = k
  <2> HIDE DEF e
  <2> QED
    BY <1>2, <1>3, HasKeyAppend
<1> QED
  BY <1>1, <1>4, TellsWritten

LEMMA TellsSet ==
  ASSUME Shape, Shape', Told, NEW c \in Recorders, Set(c), Sane' PROVE Told'
<1> DEFINE e == jobs[c].todo[1]
<1>1. Executes(c, "set") /\ AfterWrite(c) /\ UNCHANGED <<info, kept, agent>>
  BY DEF Set, avars
<1>2. e \in Element /\ Saving(c) /\ jobs[c].op = "set" /\ recDoc \in Seq(Element)
  BY <1>1, AfterRecord DEF Shape, Plain
<1>3. Matches(recDoc, e.key)
  BY <1>2 DEF Told, Found
<1>4. PICK i \in Positions(recDoc, e.key) :
        /\ recDoc' = [recDoc EXCEPT ![i] = e]
        /\ mixed' = IF recDoc[i].key = e.key THEN mixed ELSE mixed \cup {"ResultInfo"}
  BY <1>3, CallersAre DEF Set, SetDoc, Doc
<1>5. i \in 1..Len(recDoc)
  BY <1>2, <1>3, PositionsIn
<1>6. recDoc[i].key = e.key
  BY <1>4 DEF Sane
<1>7. \A k : HasKey(recDoc', k) <=> HasKey(recDoc, k)
  <2> HIDE DEF e
  <2> QED
    BY <1>2, <1>4, <1>5, <1>6, HasKeyExcept
<1>8. HasKey(recDoc, e.key)
  BY <1>2, <1>5, <1>6, LenProperties DEF HasKey
<1> QED
  BY <1>1, <1>7, <1>8, TellsWritten

LEMMA TellsOthers ==
  ASSUME Shape, Told,
         \/ Pay \/ PayDone \/ Unregistered \/ UNCHANGED vars
         \/ \E r \in Request : Client(r)
         \/ Find("pay") \/ Push("pay") \/ Set("pay") \/ DbError("pay")
  PROVE  Told'
<1>1. UNCHANGED <<info, recDoc, kept, agent>>
  BY DEF Pay, PayDone, Unregistered, Client, Find, Push, Set, DbError, SetDoc,
         vars, avars, dvars, gvars
<1>2. \A d \in Callers : d # "pay" => jobs'[d] = jobs[d]
  BY PayMoves
<1> QED
  BY <1>1, <1>2, TellsSame, CallersAre

LEMMA NamesNext ==
  ASSUME Shape, Names, [Next]_vars PROVE Names'
<1> SUFFICES ASSUME Sane' PROVE Told'
  BY DEF Names, Told
<1>0. Told /\ Shape'
  BY SoundBefore, ShapeNext DEF Names, Told
<1>1. CASE Database
  <2>1. PICK c \in Callers : \/ GetPayInfo(c) \/ getResultInfo(c)
                             \/ Find(c) \/ Push(c) \/ Set(c) \/ DbError(c)
    BY <1>1 DEF Database
  <2>2. CASE GetPayInfo(c) \/ getResultInfo(c)
    BY <1>0, <2>2, TellsLoads
  <2>3. CASE Find(c) \/ Push(c) \/ Set(c) \/ DbError(c)
    <3>1. CASE c = "open"
      <4>1. ~(Find(c) \/ Push(c) \/ Set(c))
        BY <3>1, Executing, CallersAre DEF Find, Push, Set
      <4> QED
        BY <1>0, <2>3, <3>1, <4>1, TellsLoads
    <3>2. CASE c = "pay"
      BY <1>0, <2>3, <3>2, TellsOthers
    <3>3. CASE c \in Recorders
      BY <1>0, <2>3, <3>3, TellsFind, TellsPush, TellsSet, TellsDbError
    <3> QED
      BY <3>1, <3>2, <3>3 DEF Callers, Recorders
  <2> QED
    BY <2>1, <2>2, <2>3
<1>2. CASE Pay \/ PayDone \/ Unregistered \/ UNCHANGED vars \/ \E r \in Request : Client(r)
  BY <1>0, <1>2, TellsOthers
<1>3. CASE Open \/ PayLoaded \/ RecordsLoaded \/ Learn
  BY <1>0, <1>3, TellsLoads, TellsRecordsLoaded, TellsLearn
<1>4. CASE (\E c \in Kickers : Kick(c) \/ KickDone(c)) \/ Close \/ CloseDone
  BY <1>0, <1>4, TellsKicks, TellsClose, TellsCloseDone
<1> QED
  BY <1>1, <1>2, <1>3, <1>4 DEF Next

LEMMA NamesInit ==
  ASSUME Init PROVE Names
<1>1. \A c \in Callers : ~Saving(c)
  BY DEF Init, Saving, Idle
<1>2. agent = "none" /\ ToSet(kept) = {}
  BY EmptyToSet DEF Init
<1> QED
  BY <1>1, <1>2, CallersAre DEF Names, Named, Found, Covers

-----------------------------------------------------------------------------
(***************************************************************************)
(* The theorems.                                                           *)
(***************************************************************************)
Kept == Shape /\ Money /\ Names /\ Records

\* The inductive invariant of the agent's data: every coroutine of the database
\* service has the shape its caller gave it, a course the client was told it has
\* paid is in the database and in the list that CheckPayInfo reads, and what the
\* client was told is stored is in the database, in the agent or on its way.
THEOREM DataKept == Spec => []Kept
<1>1. Init => Kept
  BY ShapeInit, MoneyInit, NamesInit, RecordsInit DEF Kept
<1>2. Kept /\ [Next]_vars => Kept'
  BY ShapeNext, MoneyNext, NamesNext, RecordsNext DEF Kept
<1> QED
  BY <1>1, <1>2, PTL DEF Spec

\* The variables have their types, and the callers whose operation is on its
\* way to MongoDB are, once each, those whose coroutine is not at its end.
THEOREM DataTypeOK == Spec => []TypeOK
<1>1. Kept => TypeOK
  BY ShapeTypeOK DEF Kept
<1> QED
  BY <1>1, DataKept, PTL

\* A course the client was told it has paid is in the array PayInfo, whatever
\* database error, kick or close happens, unless $ took a wrong element.
THEOREM DataPaymentsKept == Spec => []PaymentsKept
<1>1. Kept => PaymentsKept
  BY DEF Kept, Money, Payments, PaymentsKept
<1> QED
  BY <1>1, DataKept, PTL

\* CheckPayInfo refuses a course the client was told it has paid, also when the
\* list it reads was replaced by a later login while SavePayInfo was under way.
THEOREM DataPaidOnce == Spec => []PaidOnce
<1>1. Kept => PaidOnce
  BY DEF Kept, Money, Known, PaidOnce
<1> QED
  BY <1>1, DataKept, PTL

\* After a close every exercise the client was told is stored is in the
\* database, however many kicks came and whatever list they saved, unless a
\* database error hit the close or $ took a wrong element; and what GetResultInfo
\* will show is what the client was told, no more and no less, if no save
\* overlapped another one, an open or the close.
THEOREM DataRecordsKept == Spec => []RecordsKept
<1>1. Kept => RecordsKept
  <2> SUFFICES ASSUME Kept, agent = "none", Sane
               PROVE  /\ \A e \in ToSet(kept) : HasKey(recDoc, e.key)
                      /\ ~overlap => Shown(recDoc) = Shown(kept)
    BY DEF RecordsKept, Sane
  <2>1. \A e \in ToSet(kept) : HasKey(recDoc, e.key)
    BY DEF Kept, Names, Named, Covers
  <2>2. ASSUME ~overlap PROVE Unique(recDoc) /\ ToSet(recDoc) = ToSet(kept)
    BY <2>2 DEF Kept, Records, Sound, Faithful, Lists, Offline
  <2>3. recDoc \in Seq(Element) /\ kept \in Seq(Element)
    BY DEF Kept, Shape, Plain
  <2> QED
    BY <2>1, <2>2, <2>3, SameShown
<1> QED
  BY <1>1, DataKept, PTL
=============================================================================
