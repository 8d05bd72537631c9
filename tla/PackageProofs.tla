--------------------------- MODULE PackageProofs ----------------------------
(***************************************************************************)
(* The package service hands out every package in order and unaltered, for *)
(* every header radix, first size of the queues, set of packages and cut   *)
(* of the stream into reads.                                               *)
(***************************************************************************)
EXTENDS Package, RingProofs, SequenceTheorems

(***************************************************************************)
(* The header of a package.                                                *)
(***************************************************************************)
\* Division with remainder.
LEMMA DivMod ==
  ASSUME NEW n \in Nat, NEW r \in Nat, r > 0
  PROVE  /\ n \div r \in Nat /\ n % r \in 0..(r - 1)
         /\ (n \div r) * r + (n % r) = n
  OBVIOUS

\* A number below r * r has a quotient below r.
LEMMA DivSmall ==
  ASSUME NEW n \in Nat, NEW r \in Nat, r > 0, NEW q \in Nat, NEW m \in Nat, q * r + m = n, n < r * r
  PROVE  q < r
<1>1. SUFFICES ASSUME q >= r PROVE FALSE
  OBVIOUS
<1>2. q * r >= r * r
  BY <1>1
<1> QED BY <1>2

\* The two bytes of a header hold every length send_out accepts.
LEMMA HeaderBytes ==
  ASSUME NEW n \in Nat, n < Radix * Radix
  PROVE  /\ n \div Radix \in Byte /\ n % Radix \in Byte
         /\ (n \div Radix) * Radix + (n % Radix) = n
<1>1. Radix \in Nat /\ Radix > 0
  BY RadixAssumption
<1>2. /\ n \div Radix \in Nat /\ n % Radix \in 0..(Radix - 1)
      /\ (n \div Radix) * Radix + (n % Radix) = n
  BY <1>1, DivMod
<1>3. n \div Radix < Radix
  BY <1>1, <1>2, DivSmall
<1> QED BY <1>1, <1>2, <1>3 DEF Byte

\* A package on the wire (send_out).
LEMMA EncodeFacts ==
  ASSUME NEW p \in Payload, Len(p) < Radix * Radix
  PROVE  /\ Encode(p) \in Seq(Byte) /\ Len(Encode(p)) = 2 + Len(p)
         /\ Encode(p)[1] = Len(p) \div Radix
         /\ Encode(p)[2] = Len(p) % Radix
         /\ \A i \in 1..Len(p) : Encode(p)[2 + i] = p[i]
<1> DEFINE h == <<Len(p) \div Radix, Len(p) % Radix>>
<1>1. p \in Seq(Byte) /\ Len(p) \in Nat
  BY PayloadAssumption
<1>2. Len(p) \div Radix \in Byte /\ Len(p) % Radix \in Byte
  BY <1>1, HeaderBytes
<1>3. h \in Seq(Byte) /\ Len(h) = 2 /\ h[1] = Len(p) \div Radix /\ h[2] = Len(p) % Radix
  BY <1>2
<1>4. Encode(p) = h \o p
  BY DEF Encode
<1> HIDE DEF h
<1>5. h \o p \in Seq(Byte) /\ Len(h \o p) = Len(h) + Len(p)
  BY <1>1, <1>3, ConcatProperties
<1>6. \A i \in 1..(Len(h) + Len(p)) : (h \o p)[i] = IF i <= Len(h) THEN h[i] ELSE p[i - Len(h)]
  BY <1>1, <1>3, ConcatProperties
<1>7. (h \o p)[1] = h[1] /\ (h \o p)[2] = h[2]
  <2>1. 1 \in 1..(Len(h) + Len(p)) /\ 1 <= Len(h)
    BY <1>1, <1>3
  <2>2. 2 \in 1..(Len(h) + Len(p)) /\ 2 <= Len(h)
    BY <1>1, <1>3
  <2> QED
    BY <2>1, <2>2, <1>6
<1>8. ASSUME NEW i \in 1..Len(p)
      PROVE  (h \o p)[2 + i] = p[i]
  <2>1. 2 + i \in 1..(Len(h) + Len(p)) /\ ~(2 + i <= Len(h)) /\ (2 + i) - Len(h) = i
    BY <1>1, <1>3
  <2> QED
    BY <2>1, <1>6
<1> QED
  BY <1>3, <1>4, <1>5, <1>7, <1>8

(***************************************************************************)
(* The invariant.                                                          *)
(***************************************************************************)
\* Requests that got an answer, with a package or with an error.
Resolved == Len(answers) + Len(errors)

\* Packages that new_message has completed.
Read == Len(answers) + queue_size(response)

\* The length of the stream before the j-th package.
Offset(j) == IF j <= Len(sent) THEN starts[j] ELSE Len(stream)

\* How a package is closed down.
Life ==
  /\ closed \/ pc \in {"last_response", "service_exit"} => conn = "closed"
  /\ pc = "service_exit" => closed
  /\ pc \in {"new_message", "response", "last_response"} => ~closed
  /\ closed /\ pc # "service_exit" => queue_size(request) = 0
  /\ ~closed => errors = <<>>
  /\ phase # "running" => closed
  /\ phase = "released" => pc = "idle"

\* The queue of requests holds, in order, those that are not resolved.
Requests ==
  /\ asked = Resolved + queue_size(request)
  /\ \A i \in 1..queue_size(request) : At(request, i) = Resolved + i

\* No slot between head and tail of the other queue is unwritten.
Queued == \A i \in 1..queue_size(response) : At(response, i) \in Response

\* The j-th package in the stream.
Written(j) ==
  /\ Len(sent[j]) < Radix * Radix
  /\ Offset(j + 1) = starts[j] + 2 + Len(sent[j])
  /\ starts[j] + 2 + Len(sent[j]) <= Len(stream)
  /\ stream[starts[j] + 1] = Len(sent[j]) \div Radix
  /\ stream[starts[j] + 2] = Len(sent[j]) % Radix
  /\ \A i \in 1..Len(sent[j]) : stream[starts[j] + 2 + i] = sent[j][i]

Encoded ==
  /\ Len(starts) = Len(sent)
  /\ Offset(1) = 0
  /\ \A j \in 1..Len(sent) : Written(j)

\* The queued packages are those that follow the answered ones.
Completed ==
  /\ Read <= Len(sent)
  /\ \A i \in 1..queue_size(response) : At(response, i).msg = sent[Len(answers) + i]

\* Where the parser is: before a package, inside its header, or inside it.
AtHeader   == pos = Offset(Read + 1)
InHeader   == /\ Read < Len(sent)
              /\ pos = starts[Read + 1] + 1
              /\ header0 = stream[starts[Read + 1] + 1]
InPackage  == /\ Read < Len(sent)
              /\ header_sz = 0
              /\ Len(uncomplete.msg) = Len(sent[Read + 1])
              /\ pos = starts[Read + 1] + 2 + (Len(uncomplete.msg) - uncomplete_sz)
              /\ \A j \in 1..(Len(uncomplete.msg) - uncomplete_sz) :
                   uncomplete.msg[j] = sent[Read + 1][j]

Position ==
  /\ uncomplete_sz < 0 /\ header_sz = 0 => AtHeader
  /\ uncomplete_sz < 0 /\ header_sz # 0 => InHeader
  /\ uncomplete_sz >= 0 => InPackage

Parsed == phase # "released" => Completed /\ Position

Idle == pc \in {"idle", "service_exit"} => queue_empty(request) \/ queue_empty(response)

Inv == TypeOK /\ Life /\ Requests /\ Queued /\ Encoded /\ Parsed /\ Idle

\* What an action that leaves their variables alone preserves.
LEMMA RequestsSame ==
  ASSUME Requests, UNCHANGED <<asked, answers, errors, request>>
  PROVE  Requests'
  BY DEF Requests, Resolved

LEMMA QueuedSame ==
  ASSUME Queued, UNCHANGED response
  PROVE  Queued'
  BY DEF Queued

LEMMA EncodedSame ==
  ASSUME Encoded, UNCHANGED svars
  PROVE  Encoded'
  BY DEF Encoded, Written, Offset, svars

LEMMA CompletedSame ==
  ASSUME Completed, UNCHANGED <<sent, answers, response>>
  PROVE  Completed'
  BY DEF Completed, Read

LEMMA PositionSame ==
  ASSUME Position, UNCHANGED <<svars, pvars>>, Read' = Read
  PROVE  Position'
  BY DEF Position, AtHeader, InHeader, InPackage, Offset, svars, pvars

LEMMA ParsedSame ==
  ASSUME Parsed, UNCHANGED <<svars, pvars, answers, response, phase>>
  PROVE  Parsed'
  BY CompletedSame, PositionSame DEF Parsed, Read, svars

\* Numbers of the queues and sequences.
LEMMA Numbers ==
  ASSUME TypeOK
  PROVE  /\ Len(answers) \in Nat /\ Len(errors) \in Nat
         /\ Len(sent) \in Nat /\ Len(stream) \in Nat /\ Len(starts) \in Nat
         /\ queue_size(request) \in Nat /\ queue_size(response) \in Nat
         /\ Resolved \in Nat /\ Read \in Nat
         /\ queue_empty(request) <=> queue_size(request) = 0
         /\ queue_empty(response) <=> queue_size(response) = 0
<1>1. Ring(request, Nat) /\ Ring(response, Response)
  BY DEF TypeOK
<1>2. /\ queue_size(request) \in Nat /\ queue_size(response) \in Nat
      /\ queue_empty(request) <=> queue_size(request) = 0
      /\ queue_empty(response) <=> queue_size(response) = 0
  BY <1>1, RingSize
<1>3. /\ Len(answers) \in Nat /\ Len(errors) \in Nat
      /\ Len(sent) \in Nat /\ Len(stream) \in Nat /\ Len(starts) \in Nat
  BY DEF TypeOK
<1> QED
  BY <1>2, <1>3 DEF Resolved, Read

\* A package that was sent is a sequence of bytes.
LEMMA SentFacts ==
  ASSUME TypeOK, NEW j \in 1..Len(sent)
  PROVE  sent[j] \in Seq(Byte) /\ Len(sent[j]) \in Nat
<1>1. sent[j] \in Payload
  BY DEF TypeOK
<1> QED
  BY <1>1, PayloadAssumption

\* The parts of TypeOK.
TypeWire ==
  /\ stream \in Seq(Byte) /\ sent \in Seq(Payload) /\ starts \in Seq(Nat)
  /\ arrived \in 0..Len(stream) /\ pos \in 0..arrived
TypeLife ==
  /\ conn \in {"new", "start", "open", "shut", "closed"}
  /\ init \in BOOLEAN /\ closed \in BOOLEAN
  /\ phase \in {"running", "retired", "released"}
  /\ manager \in Seq({"SUCC", "FAIL", "CLOSED"})
TypeBeat == timer \in BOOLEAN /\ recv \in Nat /\ heartbeat \in {-1, 0}
TypeHeader ==
  /\ header_sz \in 0..1 /\ header0 \in Byte
  /\ heap \subseteq Nat /\ mallocs \in Nat
TypeBuffer == uncomplete \in Response /\ uncomplete_sz \in -1..Len(uncomplete.msg)
TypePc == pc \in {"idle", "new_message", "response", "last_response", "service_exit"}
TypeQueues == Ring(request, Nat) /\ Ring(response, Response)
TypeOutcomes ==
  /\ asked \in Nat /\ errors \in Seq(Nat)
  /\ answers \in Seq([req : Nat, msg : Seq(Byte \cup {Garbage})])

LEMMA TypeParts ==
  TypeOK <=> /\ TypeWire /\ TypeLife /\ TypeBeat /\ TypeHeader
             /\ TypeBuffer /\ TypePc /\ TypeQueues /\ TypeOutcomes
  BY DEF TypeOK, TypeWire, TypeLife, TypeBeat, TypeHeader, TypeBuffer, TypePc,
         TypeQueues, TypeOutcomes

LEMMA TypePartsNext ==
  ASSUME TypeWire', TypeLife', TypeBeat', TypeHeader', TypeBuffer', TypePc',
         TypeQueues', TypeOutcomes'
  PROVE  TypeOK'
  BY DEF TypeOK, TypeWire, TypeLife, TypeBeat, TypeHeader, TypeBuffer, TypePc,
         TypeQueues, TypeOutcomes

LEMMA TypeWireSame ==
  ASSUME TypeWire, UNCHANGED <<svars, arrived, pos>>
  PROVE  TypeWire'
  BY DEF TypeWire, svars

LEMMA TypeLifeSame ==
  ASSUME TypeLife, UNCHANGED <<lvars, conn>>
  PROVE  TypeLife'
  BY DEF TypeLife, lvars

LEMMA TypeBeatSame ==
  ASSUME TypeBeat, UNCHANGED tvars
  PROVE  TypeBeat'
  BY DEF TypeBeat, tvars

LEMMA TypeHeaderSame ==
  ASSUME TypeHeader, UNCHANGED <<header_sz, header0, heap, mallocs>>
  PROVE  TypeHeader'
  BY DEF TypeHeader

LEMMA TypeBufferSame ==
  ASSUME TypeBuffer, UNCHANGED <<uncomplete_sz, uncomplete>>
  PROVE  TypeBuffer'
  BY DEF TypeBuffer

LEMMA TypeQueuesSame ==
  ASSUME TypeQueues, UNCHANGED qvars
  PROVE  TypeQueues'
  BY DEF TypeQueues, qvars

LEMMA TypeOutcomesSame ==
  ASSUME TypeOutcomes, UNCHANGED ovars
  PROVE  TypeOutcomes'
  BY DEF TypeOutcomes, ovars

(***************************************************************************)
(* Initial states.                                                         *)
(***************************************************************************)
LEMMA InitInv ==
  ASSUME Init
  PROVE  Inv
<1>1. Ring(queue_init, Nat) /\ Ring(queue_init, Response) /\ queue_size(queue_init) = 0
  BY RingInit
<1>2. [buf |-> 0, msg |-> <<>>] \in Response
  BY DEF Response
<1>3. 0 \in Byte
  BY RadixAssumption DEF Byte
<1>4. TypeOK
  <2>0. TypeWire
    BY DEF Init, TypeWire
  <2>1. TypeLife
    <3>1. manager \in Seq({"SUCC", "FAIL", "CLOSED"})
      BY DEF Init
    <3> QED
      BY <3>1 DEF Init, TypeLife
  <2>2. TypeBeat
    BY DEF Init, TypeBeat
  <2>3. TypeHeader /\ TypePc
    BY <1>3 DEF Init, TypeHeader, TypePc
  <2>4. TypeBuffer
    BY <1>2 DEF Init, TypeBuffer
  <2>5. TypeQueues
    BY <1>1 DEF Init, TypeQueues
  <2>6. TypeOutcomes
    BY DEF Init, TypeOutcomes
  <2> QED
    BY <2>0, <2>1, <2>2, <2>3, <2>4, <2>5, <2>6, TypeParts
<1>5. Life /\ Requests /\ Queued /\ Encoded
  BY <1>1 DEF Init, Life, Requests, Queued, Encoded, Resolved, Offset
<1>6. Parsed
  BY <1>1 DEF Init, Parsed, Completed, Position, AtHeader, Read, Offset
<1>7. Idle
  BY DEF Init, Idle, queue_empty, queue_init
<1> QED
  BY <1>4, <1>5, <1>6, <1>7 DEF Inv

(***************************************************************************)
(* Steps that touch neither the parser nor the queues.                     *)
(***************************************************************************)
LEMMA QuietStep ==
  ASSUME Inv, UNCHANGED <<svars, qvars, pvars, ovars, arrived, heap, pc, closed, phase>>,
         TypeLife', TypeBeat', conn = "closed" => conn' = "closed"
  PROVE  Inv'
<1> USE DEF Inv
<1>1. TypeOK'
  <2>1. TypeWire' /\ TypeHeader' /\ TypeBuffer'
    BY TypeParts, TypeWireSame, TypeHeaderSame, TypeBufferSame DEF pvars
  <2>2. TypeQueues' /\ TypeOutcomes' /\ TypePc'
    BY TypeParts, TypeQueuesSame, TypeOutcomesSame DEF TypePc
  <2> QED
    BY <2>1, <2>2, TypePartsNext
<1>2. Life'
  BY DEF Life, qvars, ovars
<1>3. Requests' /\ Queued' /\ Encoded' /\ Parsed'
  BY RequestsSame, QueuedSame, EncodedSame, ParsedSame DEF qvars, ovars
<1>4. Idle'
  BY DEF Idle, qvars
<1> QED
  BY <1>1, <1>2, <1>3, <1>4

\* heartbeat, when the service starts and at every timeout.
LEMMA BeatStep ==
  ASSUME Inv, NEW c \in {"new", "start", "open", "shut", "closed"}, Beat(c),
         UNCHANGED <<svars, qvars, pvars, lvars, ovars, arrived, pc, heap>>,
         conn = "closed" => c = "closed"
  PROVE  Inv'
<1>1. TypeLife /\ TypeBeat
  BY TypeParts DEF Inv
<1>2. conn' \in {"new", "start", "open", "shut", "closed"} /\ (conn = "closed" => conn' = "closed")
  BY DEF Beat, Shut
<1>3. TypeLife'
  BY <1>1, <1>2 DEF TypeLife, lvars
<1>4. TypeBeat'
  <2>1. CASE recv = heartbeat
    BY <2>1, <1>1 DEF TypeBeat, Beat
  <2>2. CASE recv # heartbeat
    <3>1. timer' = TRUE /\ heartbeat' = 0 /\ recv' = 0
      BY <2>2 DEF Beat
    <3> QED
      BY <3>1 DEF TypeBeat
  <2> QED
    BY <2>1, <2>2
<1> QED
  BY <1>2, <1>3, <1>4, QuietStep DEF lvars

LEMMA InitStep ==
  ASSUME Inv, package_init
  PROVE  Inv'
<1>1. Beat("start") /\ conn # "closed"
  BY DEF package_init
<1> QED
  BY <1>1, BeatStep DEF package_init

LEMMA TimerStep ==
  ASSUME Inv, Timer
  PROVE  Inv'
<1>1. conn \in {"new", "start", "open", "shut", "closed"}
  BY DEF Inv, TypeOK
<1> QED
  BY <1>1, BeatStep DEF Timer

LEMMA KickStep ==
  ASSUME Inv, Kick
  PROVE  Inv'
<1>1. TypeLife /\ TypeBeat
  BY TypeParts DEF Inv
<1>2. TypeLife' /\ (conn = "closed" => conn' = "closed")
  BY <1>1 DEF TypeLife, Kick, Shut, lvars
<1>3. TypeBeat'
  BY <1>1, TypeBeatSame DEF Kick
<1> QED
  BY <1>2, <1>3, QuietStep DEF Kick, lvars

\* The manager's texts stay texts.
LEMMA ReportTyped ==
  ASSUME TypeLife, NEW t \in {"SUCC", "FAIL", "CLOSED"}, Report(t),
         conn' \in {"new", "start", "open", "shut", "closed"}
  PROVE  TypeLife'
<1>1. manager' \in Seq({"SUCC", "FAIL", "CLOSED"})
  BY DEF Report, TypeLife
<1> QED
  BY <1>1 DEF Report, TypeLife

LEMMA ConnectStep ==
  ASSUME Inv, Connect
  PROVE  Inv'
<1>1. TypeLife /\ TypeBeat
  BY TypeParts DEF Inv
<1>2. TypeLife' /\ (conn = "closed" => conn' = "closed")
  BY <1>1, ReportTyped DEF Connect
<1>3. TypeBeat'
  BY <1>1, TypeBeatSame DEF Connect
<1> QED
  BY <1>2, <1>3, QuietStep DEF Connect, Report

(***************************************************************************)
(* Steps that begin and end handlers.                                      *)
(***************************************************************************)
LEMMA ControlStep ==
  ASSUME Inv, UNCHANGED <<svars, qvars, pvars, ovars, heap>>,
         arrived' \in arrived..Len(stream),
         TypeLife', TypeBeat', TypePc', Life', Idle',
         phase # "released", phase' # "released"
  PROVE  Inv'
<1> USE DEF Inv
<1>1. TypeOK'
  <2>1. TypeWire'
    <3>1. /\ stream' = stream /\ sent' = sent /\ starts' = starts /\ pos' = pos
      BY DEF svars, pvars
    <3> QED
      BY <3>1, TypeParts DEF TypeWire
  <2>2. TypeHeader' /\ TypeBuffer'
    BY TypeParts, TypeHeaderSame, TypeBufferSame DEF pvars
  <2>3. TypeQueues' /\ TypeOutcomes'
    BY TypeParts, TypeQueuesSame, TypeOutcomesSame
  <2> QED
    BY <2>1, <2>2, <2>3, TypePartsNext
<1>2. Requests' /\ Queued' /\ Encoded'
  BY RequestsSame, QueuedSame, EncodedSame DEF qvars, ovars
<1>3. Parsed'
  <2>1. Read' = Read
    BY DEF Read, qvars, ovars
  <2> QED
    BY <2>1, CompletedSame, PositionSame DEF Parsed, qvars, ovars, svars
<1> QED
  BY <1>1, <1>2, <1>3

LEMMA CloseStep ==
  ASSUME Inv, Close
  PROVE  Inv'
<1>1. TypeLife /\ TypeBeat /\ TypeWire /\ Life
  BY TypeParts DEF Inv
<1>2. ~closed /\ phase # "released" /\ phase' = phase /\ closed' = closed
  BY <1>1 DEF Close, Life, Ready, Report
<1>3. TypeLife' /\ TypeBeat' /\ TypePc'
  BY <1>1, ReportTyped, TypeBeatSame DEF Close, TypePc
<1>4. Life' /\ Idle'
  BY <1>1, <1>2 DEF Close, Life, Idle, ovars
<1>5. arrived' \in arrived..Len(stream)
  BY <1>1 DEF Close, TypeWire
<1> QED
  BY <1>2, <1>3, <1>4, <1>5, ControlStep DEF Close

LEMMA DataStep ==
  ASSUME Inv, NEW n \in 1..Len(stream), Data(n)
  PROVE  Inv'
<1>1. TypeLife /\ TypeBeat /\ TypeWire /\ Life
  BY TypeParts DEF Inv
<1>2. ~closed /\ phase # "released" /\ phase' = phase /\ closed' = closed
  BY <1>1 DEF Data, Life, Ready, lvars
<1>3. TypeLife' /\ TypePc'
  BY <1>1, TypeLifeSame DEF Data, TypePc
<1>4. TypeBeat'
  <2>1. recv' \in Nat
    BY <1>1 DEF Data, TypeBeat
  <2> QED
    BY <2>1, <1>1 DEF Data, TypeBeat
<1>5. Life' /\ Idle'
  BY <1>1, <1>2 DEF Data, Life, Idle, ovars, lvars
<1>6. arrived' \in arrived..Len(stream)
  BY <1>1 DEF Data, TypeWire
<1> QED
  BY <1>2, <1>3, <1>4, <1>5, <1>6, ControlStep DEF Data

LEMMA ReadEndStep ==
  ASSUME Inv, ReadEnd
  PROVE  Inv'
<1>1. TypeLife /\ TypeBeat /\ TypeWire /\ Life
  BY TypeParts DEF Inv
<1>2. ~closed /\ phase # "released" /\ phase' = phase /\ closed' = closed
  BY <1>1 DEF ReadEnd, Life, lvars
<1>3. TypeLife' /\ TypeBeat' /\ TypePc'
  BY <1>1, TypeLifeSame, TypeBeatSame DEF ReadEnd, TypePc
<1>4. Life' /\ Idle'
  BY <1>1, <1>2 DEF ReadEnd, Life, Idle, ovars
<1>5. arrived' \in arrived..Len(stream)
  BY <1>1 DEF ReadEnd, TypeWire
<1> QED
  BY <1>2, <1>3, <1>4, <1>5, ControlStep DEF ReadEnd

LEMMA ResponseEndStep ==
  ASSUME Inv, ResponseEnd
  PROVE  Inv'
<1>1. TypeLife /\ TypeBeat /\ TypeWire /\ Life
  BY TypeParts DEF Inv
<1>2. ~closed /\ phase # "released" /\ phase' = phase
  BY <1>1 DEF ResponseEnd, Life
<1>3. TypeLife' /\ TypePc'
  BY <1>1 DEF ResponseEnd, TypeLife, TypePc
<1>4. TypeBeat'
  BY <1>1, TypeBeatSame DEF ResponseEnd
<1>5. Life' /\ Idle'
  <2>1. CASE pc = "response"
    BY <2>1, <1>1, <1>2 DEF ResponseEnd, Life, Idle, qvars, ovars
  <2>2. CASE pc = "last_response"
    BY <2>2, <1>1, <1>2 DEF ResponseEnd, Life, Idle, qvars, ovars
  <2> QED
    BY <2>1, <2>2 DEF ResponseEnd
<1>6. arrived' \in arrived..Len(stream)
  BY <1>1 DEF ResponseEnd, TypeWire
<1> QED
  BY <1>2, <1>3, <1>4, <1>5, <1>6, ControlStep DEF ResponseEnd

LEMMA ExitEndStep ==
  ASSUME Inv, ExitEnd
  PROVE  Inv'
<1>1. TypeLife /\ TypeBeat /\ TypeWire /\ Life
  BY TypeParts DEF Inv
<1>2. closed /\ phase # "released" /\ phase' = "retired" /\ closed' = closed
  BY <1>1 DEF ExitEnd, Life
<1>3. manager' \in Seq({"SUCC", "FAIL", "CLOSED"})
  BY <1>1 DEF ExitEnd, TypeLife
<1>4. TypeLife' /\ TypePc'
  BY <1>1, <1>3 DEF ExitEnd, TypeLife, TypePc
<1>5. TypeBeat'
  BY <1>1, TypeBeatSame DEF ExitEnd
<1>6. queue_size(request) = 0 /\ request' = request /\ queue_empty(request)
  BY Numbers DEF ExitEnd, qvars, Inv
<1>7. Life' /\ Idle'
  BY <1>1, <1>2, <1>6 DEF ExitEnd, Life, Idle, ovars
<1>8. arrived' \in arrived..Len(stream)
  BY <1>1 DEF ExitEnd, TypeWire
<1> QED
  BY <1>2, <1>4, <1>5, <1>7, <1>8, ControlStep DEF ExitEnd

\* package_release drops the packages nobody asked for.
LEMMA ReleaseStep ==
  ASSUME Inv, Release
  PROVE  Inv'
<1> USE DEF Inv
<1>1. /\ TypeWire /\ TypeLife /\ TypeBeat /\ TypeHeader /\ TypeBuffer
      /\ TypePc /\ TypeQueues /\ TypeOutcomes
  BY TypeParts
<1>2. Ring(response', Response) /\ queue_size(response') = 0
  BY <1>1, RingClear DEF Release, TypeQueues
<1>3. TypeOK'
  <2>1. TypeWire' /\ TypeBuffer'
    BY <1>1, TypeWireSame, TypeBufferSame DEF Release, pvars
  <2>2. TypeLife' /\ TypePc'
    BY <1>1 DEF Release, TypeLife, TypePc
  <2>3. TypeBeat'
    BY <1>1 DEF Release, TypeBeat
  <2>4. TypeHeader'
    BY <1>1 DEF Release, TypeHeader, pvars
  <2>5. TypeQueues'
    BY <1>1, <1>2 DEF TypeQueues, Release
  <2>6. TypeOutcomes'
    BY <1>1, TypeOutcomesSame DEF Release
  <2> QED
    BY <2>1, <2>2, <2>3, <2>4, <2>5, <2>6, TypePartsNext
<1>4. Life'
  BY DEF Life, Release, ovars
<1>5. Requests' /\ Encoded'
  BY RequestsSame, EncodedSame DEF Release, ovars
<1>6. Queued'
  BY <1>2 DEF Queued
<1>7. Parsed'
  BY DEF Parsed, Release
<1>8. Idle'
  <2>1. queue_empty(response')
    BY <1>2, RingSize
  <2> QED
    BY <2>1 DEF Idle
<1> QED
  BY <1>3, <1>4, <1>5, <1>6, <1>7, <1>8

(***************************************************************************)
(* Requests and their outcomes.                                            *)
(***************************************************************************)
\* The oldest request is resolved.
LEMMA TakeRequest ==
  ASSUME Inv, ~queue_empty(request), request' = queue_pop(request),
         asked' = asked, Resolved' = Resolved + 1
  PROVE  /\ queue_front(request) = Resolved + 1
         /\ Resolved < asked
         /\ Ring(request', Nat) /\ Requests'
         /\ queue_size(request') = queue_size(request) - 1
<1>1. /\ Ring(request, Nat) /\ asked \in Nat /\ Requests
      /\ queue_size(request) \in Nat /\ Resolved \in Nat /\ queue_size(request) # 0
  BY Numbers DEF Inv, TypeOK
<1>2. /\ Ring(request', Nat)
      /\ queue_size(request') = queue_size(request) - 1
      /\ queue_front(request) = At(request, 1)
      /\ \A i \in 1..(queue_size(request) - 1) : At(request', i) = At(request, i + 1)
  BY <1>1, RingPop
<1>3. queue_front(request) = Resolved + 1
  BY <1>1, <1>2 DEF Requests
<1>4. Requests'
  <2>1. asked' = Resolved' + queue_size(request')
    BY <1>1, <1>2 DEF Requests
  <2>2. ASSUME NEW i \in 1..queue_size(request')
        PROVE  At(request', i) = Resolved' + i
    <3>1. i \in 1..(queue_size(request) - 1) /\ i + 1 \in 1..queue_size(request)
      BY <1>1, <1>2
    <3>2. At(request, i + 1) = Resolved + (i + 1)
      BY <3>1, <1>1 DEF Requests
    <3> QED
      BY <3>1, <3>2, <1>1, <1>2
  <2> QED
    BY <2>1, <2>2 DEF Requests
<1>5. Resolved < asked
  BY <1>1 DEF Requests
<1> QED
  BY <1>2, <1>3, <1>4, <1>5

\* The oldest package is handed over.
LEMMA TakePackage ==
  ASSUME Inv, phase # "released", ~queue_empty(response),
         response' = queue_pop(response), NEW x, answers' = Append(answers, x),
         sent' = sent
  PROVE  /\ queue_front(response) \in Response
         /\ queue_front(response).msg = sent[Len(answers) + 1]
         /\ Len(answers) < Len(sent)
         /\ Ring(response', Response) /\ Queued' /\ Completed'
         /\ Read' = Read
         /\ Len(answers') = Len(answers) + 1
<1>1. /\ Ring(response, Response) /\ Queued /\ Completed
      /\ queue_size(response) \in Nat /\ queue_size(response) # 0
      /\ Len(answers) \in Nat /\ Len(sent) \in Nat
  BY Numbers DEF Inv, TypeOK, Parsed
<1>2. /\ Ring(response', Response)
      /\ queue_size(response') = queue_size(response) - 1
      /\ queue_front(response) = At(response, 1)
      /\ \A i \in 1..(queue_size(response) - 1) : At(response', i) = At(response, i + 1)
  BY <1>1, RingPop
<1>3. Len(answers') = Len(answers) + 1
  BY DEF Inv, TypeOK
<1>4. Read' = Read
  BY <1>1, <1>2, <1>3 DEF Read
<1>5. 1 \in 1..queue_size(response)
  BY <1>1
<1>6. /\ queue_front(response) \in Response
      /\ queue_front(response).msg = sent[Len(answers) + 1]
  BY <1>1, <1>2, <1>5 DEF Queued, Completed
<1>7. Len(answers) < Len(sent)
  BY <1>1 DEF Completed, Read
<1>8. Queued'
  <2> SUFFICES ASSUME NEW i \in 1..queue_size(response')
               PROVE  At(response', i) \in Response
    BY DEF Queued
  <2>1. i \in 1..(queue_size(response) - 1) /\ i + 1 \in 1..queue_size(response)
    BY <1>1, <1>2
  <2> QED
    BY <2>1, <1>1, <1>2 DEF Queued
<1>9. Completed'
  <2>1. Read' <= Len(sent')
    BY <1>1, <1>4 DEF Completed
  <2>2. ASSUME NEW i \in 1..queue_size(response')
        PROVE  At(response', i).msg = sent'[Len(answers') + i]
    <3>1. i \in 1..(queue_size(response) - 1) /\ i + 1 \in 1..queue_size(response)
      BY <1>1, <1>2
    <3>2. At(response, i + 1).msg = sent[Len(answers) + (i + 1)]
      BY <3>1, <1>1 DEF Completed
    <3>3. Len(answers) + (i + 1) = Len(answers') + i
      BY <3>1, <1>1, <1>3
    <3> QED
      BY <3>1, <3>2, <3>3, <1>2
  <2> QED
    BY <2>1, <2>2 DEF Completed
<1> QED
  BY <1>2, <1>3, <1>4, <1>6, <1>7, <1>8, <1>9

\* The type of an answer.
LEMMA AnswerTyped ==
  ASSUME TypeOutcomes, TypeHeader, NEW r \in Nat, NEW resp \in Response, Answer(r, resp),
         asked' \in Nat, errors' = errors, UNCHANGED pvars
  PROVE  TypeOutcomes' /\ TypeHeader'
<1>1. [req |-> r, msg |-> resp.msg] \in [req : Nat, msg : Seq(Byte \cup {Garbage})]
  BY DEF Response
<1>2. answers' \in Seq([req : Nat, msg : Seq(Byte \cup {Garbage})])
  BY <1>1 DEF TypeOutcomes, Answer
<1>3. TypeOutcomes'
  BY <1>2 DEF TypeOutcomes
<1>4. TypeHeader'
  BY DEF TypeHeader, Answer, pvars
<1> QED
  BY <1>3, <1>4

LEMMA RespondStep ==
  ASSUME Inv, Respond
  PROVE  Inv' /\ Channel!CAnswer
<1> USE DEF Inv
<1>1. /\ TypeWire /\ TypeLife /\ TypeBeat /\ TypeHeader /\ TypeBuffer
      /\ TypePc /\ TypeQueues /\ TypeOutcomes
  BY TypeParts
<1>2. ~closed /\ errors = <<>> /\ phase # "released"
  BY DEF Respond, Life
<1>3. answers' = Append(answers, [req |-> queue_front(request), msg |-> queue_front(response).msg])
  BY DEF Respond, Answer
<1>4. /\ queue_front(response) \in Response
      /\ queue_front(response).msg = sent[Len(answers) + 1]
      /\ Len(answers) < Len(sent)
      /\ Ring(response', Response) /\ Queued' /\ Completed'
      /\ Read' = Read /\ Len(answers') = Len(answers) + 1
  BY <1>2, <1>3, TakePackage DEF Respond, svars
<1>5. Resolved' = Resolved + 1
  BY <1>1, <1>4, Numbers DEF Resolved, Respond
<1>6. /\ queue_front(request) = Resolved + 1 /\ Resolved < asked
      /\ Ring(request', Nat) /\ Requests'
  BY <1>5, TakeRequest DEF Respond
<1>7. Resolved = Len(answers)
  BY <1>2, Numbers DEF Resolved
<1>8. TypeOK'
  <2>1. TypeWire' /\ TypeBuffer'
    BY <1>1, TypeWireSame, TypeBufferSame DEF Respond, pvars
  <2>2. TypeLife' /\ TypeBeat' /\ TypePc'
    BY <1>1, TypeLifeSame, TypeBeatSame DEF Respond, TypePc
  <2>3. queue_front(request) \in Nat /\ asked' \in Nat
    BY <1>1, <1>6, Numbers DEF Respond, TypeOutcomes
  <2>4. TypeHeader' /\ TypeOutcomes'
    BY <1>1, <1>4, <2>3, AnswerTyped DEF Respond
  <2>5. TypeQueues'
    BY <1>4, <1>6 DEF TypeQueues
  <2> QED
    BY <2>1, <2>2, <2>4, <2>5, TypePartsNext
<1>9. Life'
  BY <1>2 DEF Life, Respond, lvars
<1>10. Encoded' /\ Parsed' /\ Idle'
  <2>1. Encoded'
    BY EncodedSame DEF Respond
  <2>2. Position'
    BY <1>2, <1>4, PositionSame DEF Respond, Parsed
  <2>3. Idle'
    BY DEF Respond, Idle
  <2> QED
    BY <1>4, <2>1, <2>2, <2>3 DEF Parsed
<1>11. Channel!CAnswer
  <2>1. asked' = asked /\ sent' = sent /\ errors' = errors
    BY DEF Respond, svars
  <2>2. answers' = Append(answers, [req |-> Len(answers) + 1, msg |-> sent[Len(answers) + 1]])
    BY <1>3, <1>4, <1>6, <1>7
  <2> QED
    BY <1>2, <1>4, <1>6, <1>7, <2>1, <2>2 DEF Channel!CAnswer, Channel!NextAnswer
<1> QED
  BY <1>4, <1>6, <1>8, <1>9, <1>10, <1>11

LEMMA RequestReadyStep ==
  ASSUME Inv, RequestReady
  PROVE  Inv' /\ Channel!CAnswer
<1> USE DEF Inv
<1>1. /\ TypeWire /\ TypeLife /\ TypeBeat /\ TypeHeader /\ TypeBuffer
      /\ TypePc /\ TypeQueues /\ TypeOutcomes
  BY TypeParts
<1>2. ~closed /\ errors = <<>> /\ phase # "released" /\ request' = request /\ errors' = errors
  BY DEF RequestReady, Life, Ready
<1>3. answers' = Append(answers, [req |-> asked', msg |-> queue_front(response).msg])
  BY DEF RequestReady, Answer
<1>4. /\ queue_front(response) \in Response
      /\ queue_front(response).msg = sent[Len(answers) + 1]
      /\ Len(answers) < Len(sent)
      /\ Ring(response', Response) /\ Queued' /\ Completed'
      /\ Read' = Read /\ Len(answers') = Len(answers) + 1
  BY <1>2, <1>3, TakePackage DEF RequestReady, svars
<1>5. queue_size(request) = 0
  BY Numbers DEF RequestReady, Ready, Idle
<1>6. asked = Len(answers) /\ asked' = Len(answers) + 1 /\ asked' \in Nat /\ Len(answers) \in Nat
  BY <1>2, <1>5, Numbers DEF Requests, Resolved, RequestReady
<1>7. Requests'
  <2>1. Resolved' = Len(answers) + 1
    BY <1>2, <1>4, <1>6 DEF Resolved
  <2> QED
    BY <1>2, <1>5, <1>6, <2>1 DEF Requests
<1>8. TypeOK'
  <2>1. TypeWire' /\ TypeBuffer'
    BY <1>1, TypeWireSame, TypeBufferSame DEF RequestReady, pvars
  <2>2. TypeLife' /\ TypeBeat' /\ TypePc'
    BY <1>1, TypeLifeSame, TypeBeatSame DEF RequestReady, TypePc
  <2>3. TypeHeader' /\ TypeOutcomes'
    BY <1>1, <1>2, <1>4, <1>6, AnswerTyped DEF RequestReady
  <2>4. TypeQueues'
    BY <1>1, <1>2, <1>4 DEF TypeQueues
  <2> QED
    BY <2>1, <2>2, <2>3, <2>4, TypePartsNext
<1>9. Life'
  BY <1>2 DEF Life, RequestReady, lvars
<1>10. Encoded' /\ Parsed' /\ Idle'
  <2>1. Encoded'
    BY EncodedSame DEF RequestReady
  <2>2. Position'
    BY <1>2, <1>4, PositionSame DEF RequestReady, Parsed
  <2>3. Idle'
    BY <1>1, <1>2, <1>5, Numbers DEF Idle
  <2> QED
    BY <1>4, <2>1, <2>2, <2>3 DEF Parsed
<1>11. Channel!CAnswer
  <2>1. sent' = sent
    BY DEF RequestReady, svars
  <2>2. answers' = Append(answers, [req |-> Len(answers) + 1, msg |-> sent[Len(answers) + 1]])
    BY <1>3, <1>4, <1>6
  <2> QED
    BY <1>2, <1>4, <1>6, <2>1, <2>2 DEF Channel!CAnswer, Channel!NextAnswer
<1> QED
  BY <1>4, <1>7, <1>8, <1>9, <1>10, <1>11

LEMMA RequestWaitsStep ==
  ASSUME Inv, RequestWaits
  PROVE  Inv' /\ Channel!CAsk
<1> USE DEF Inv
<1>1. /\ TypeWire /\ TypeLife /\ TypeBeat /\ TypeHeader /\ TypeBuffer
      /\ TypePc /\ TypeQueues /\ TypeOutcomes
  BY TypeParts
<1>2. /\ ~closed /\ errors = <<>> /\ phase # "released"
      /\ response' = response /\ errors' = errors /\ answers' = answers /\ Resolved' = Resolved
  BY DEF RequestWaits, Life, Ready, Resolved
<1>3. asked' = asked + 1 /\ asked' \in Nat /\ Resolved \in Nat /\ queue_size(request) \in Nat
  BY <1>1, Numbers DEF RequestWaits, TypeOutcomes
<1>4. /\ Ring(request', Nat)
      /\ queue_size(request') = queue_size(request) + 1
      /\ At(request', queue_size(request) + 1) = asked'
      /\ \A i \in 1..queue_size(request) : At(request', i) = At(request, i)
  BY <1>1, <1>3, RingPush DEF RequestWaits, TypeQueues
<1>5. Requests'
  <2>1. asked' = Resolved' + queue_size(request')
    BY <1>2, <1>3, <1>4 DEF Requests
  <2>2. ASSUME NEW i \in 1..queue_size(request')
        PROVE  At(request', i) = Resolved' + i
    <3>1. CASE i \in 1..queue_size(request)
      BY <3>1, <1>2, <1>4 DEF Requests
    <3>2. CASE i = queue_size(request) + 1
      BY <3>2, <1>2, <1>3, <1>4, <2>1
    <3> QED
      BY <3>1, <3>2, <1>3, <1>4
  <2> QED
    BY <2>1, <2>2 DEF Requests
<1>6. TypeOK'
  <2>1. TypeWire' /\ TypeBuffer' /\ TypeHeader'
    BY <1>1, TypeWireSame, TypeBufferSame, TypeHeaderSame DEF RequestWaits, pvars
  <2>2. TypeLife' /\ TypeBeat' /\ TypePc'
    BY <1>1, TypeLifeSame, TypeBeatSame DEF RequestWaits, TypePc
  <2>3. TypeOutcomes'
    BY <1>1, <1>2, <1>3 DEF TypeOutcomes
  <2>4. TypeQueues'
    BY <1>1, <1>2, <1>4 DEF TypeQueues
  <2> QED
    BY <2>1, <2>2, <2>3, <2>4, TypePartsNext
<1>7. Life'
  BY <1>2 DEF Life, RequestWaits, lvars
<1>8. Queued' /\ Encoded' /\ Parsed'
  BY <1>2, QueuedSame, EncodedSame, ParsedSame DEF RequestWaits, lvars
<1>9. Idle'
  BY <1>2 DEF Idle, RequestWaits
<1>10. Channel!CAsk
  BY <1>2, <1>3 DEF Channel!CAsk, RequestWaits, svars
<1> QED
  BY <1>5, <1>6, <1>7, <1>8, <1>9, <1>10

\* One more error.
LEMMA ErrorStep ==
  ASSUME Inv, NEW r, errors' = Append(errors, r), r = Resolved + 1, closed, closed' = closed,
         asked' \in Nat, Ring(request', Nat), Requests',
         pc # "service_exit" => queue_size(request') = 0,
         UNCHANGED <<svars, pvars, lvars, tvars, conn, arrived, pc, heap, answers, response>>,
         Resolved < asked', asked' \in {asked, asked + 1},
         queue_empty(request) => queue_empty(request')
  PROVE  Inv' /\ Channel!CFail
<1> USE DEF Inv
<1>1. /\ TypeWire /\ TypeLife /\ TypeBeat /\ TypeHeader /\ TypeBuffer
      /\ TypePc /\ TypeQueues /\ TypeOutcomes
  BY TypeParts
<1>2. TypeOK'
  <2>1. TypeWire' /\ TypeBuffer' /\ TypeHeader'
    BY <1>1, TypeWireSame, TypeBufferSame, TypeHeaderSame DEF pvars
  <2>2. TypeLife' /\ TypeBeat' /\ TypePc'
    BY <1>1, TypeLifeSame, TypeBeatSame DEF TypePc
  <2>3. errors' \in Seq(Nat)
    BY <1>1, Numbers DEF TypeOutcomes
  <2>4. TypeOutcomes'
    BY <1>1, <2>3 DEF TypeOutcomes
  <2>5. TypeQueues'
    BY <1>1 DEF TypeQueues
  <2> QED
    BY <2>1, <2>2, <2>4, <2>5, TypePartsNext
<1>3. Life'
  BY DEF Life, lvars
<1>4. Queued' /\ Encoded' /\ Parsed'
  BY QueuedSame, EncodedSame, ParsedSame DEF lvars
<1>5. Idle'
  BY DEF Idle
<1>6. Channel!CFail
  BY DEF Channel!CFail, Resolved, svars
<1> QED
  BY <1>2, <1>3, <1>4, <1>5, <1>6

LEMMA ExitErrorStep ==
  ASSUME Inv, ExitError
  PROVE  Inv' /\ Channel!CFail
<1> USE DEF Inv
<1>1. closed /\ closed' = closed /\ asked' = asked /\ asked \in Nat
  BY DEF ExitError, Life, lvars, TypeOK
<1>2. Resolved' = Resolved + 1
  <2>1. Len(errors') = Len(errors) + 1
    BY DEF ExitError, TypeOK
  <2> QED
    BY <2>1, Numbers DEF Resolved, ExitError
<1>3. /\ queue_front(request) = Resolved + 1 /\ Resolved < asked
      /\ Ring(request', Nat) /\ Requests'
  BY <1>1, <1>2, TakeRequest DEF ExitError
<1>4. errors' = Append(errors, queue_front(request)) /\ pc = "service_exit" /\ ~queue_empty(request)
  BY DEF ExitError
<1> QED
  BY <1>1, <1>3, <1>4, ErrorStep DEF ExitError

LEMMA RequestRefusedStep ==
  ASSUME Inv, RequestRefused
  PROVE  Inv' /\ Channel!CFail
<1> USE DEF Inv
<1>1. /\ closed /\ pc = "idle" /\ closed' = closed /\ request' = request /\ response' = response
      /\ answers' = answers
  BY DEF RequestRefused, Ready, Life, lvars, qvars
<1>2. /\ asked' = asked + 1 /\ asked' \in Nat /\ asked \in Nat
      /\ errors' = Append(errors, asked')
  BY DEF RequestRefused, TypeOK
<1>3. queue_size(request) = 0 /\ Ring(request, Nat) /\ asked = Resolved
  BY <1>1, Numbers DEF Life, Requests, TypeOK
<1>4. Resolved' = Resolved + 1
  <2>1. Len(errors') = Len(errors) + 1
    BY <1>2 DEF TypeOK
  <2> QED
    BY <1>1, <2>1, Numbers DEF Resolved
<1>5. Requests'
  BY <1>1, <1>2, <1>3, <1>4 DEF Requests
<1> QED
  BY <1>1, <1>2, <1>3, <1>5, ErrorStep DEF RequestRefused

(***************************************************************************)
(* The other end writes a package.                                         *)
(***************************************************************************)
\* Where the j-th package is.
LEMMA Place ==
  ASSUME Inv, NEW j \in 1..Len(sent)
  PROVE  /\ starts[j] \in Nat /\ Len(sent[j]) \in Nat /\ Len(stream) \in Nat
         /\ Written(j)
         /\ starts[j] + 2 + Len(sent[j]) <= Len(stream)
         /\ starts[j] + 1 \in 1..Len(stream) /\ starts[j] + 2 \in 1..Len(stream)
<1>1. starts \in Seq(Nat) /\ j \in 1..Len(starts) /\ Written(j)
  BY DEF Inv, TypeOK, Encoded
<1>2. starts[j] \in Nat
  BY <1>1, ElementOfSeq
<1>3. Len(sent[j]) \in Nat /\ Len(stream) \in Nat
  BY SentFacts, Numbers DEF Inv
<1>4. starts[j] + 2 + Len(sent[j]) <= Len(stream)
  BY <1>1 DEF Written
<1> QED
  BY <1>1, <1>2, <1>3, <1>4

\* The elements of a concatenation.
LEMMA Joined ==
  ASSUME NEW S, NEW s \in Seq(S), NEW t \in Seq(S), NEW r, r = s \o t
  PROVE  /\ r \in Seq(S) /\ Len(r) = Len(s) + Len(t)
         /\ \A i \in 1..(Len(s) + Len(t)) :
              r[i] = IF i <= Len(s) THEN s[i] ELSE t[i - Len(s)]
  BY ConcatProperties

\* The stream and its packages after one more.
LEMMA SendFacts ==
  ASSUME Inv, NEW p \in Payload, send_out(p)
  PROVE  /\ Len(sent') = Len(sent) + 1 /\ Len(starts') = Len(starts) + 1
         /\ \A j \in 1..Len(sent) : sent'[j] = sent[j] /\ starts'[j] = starts[j]
         /\ sent'[Len(sent) + 1] = p /\ starts'[Len(sent) + 1] = Len(stream)
         /\ Len(stream') = Len(stream) + 2 + Len(p)
         /\ \A i \in 1..Len(stream) : stream'[i] = stream[i]
         /\ stream'[Len(stream) + 1] = Len(p) \div Radix
         /\ stream'[Len(stream) + 2] = Len(p) % Radix
         /\ \A i \in 1..Len(p) : stream'[Len(stream) + 2 + i] = p[i]
         /\ stream' \in Seq(Byte) /\ sent' \in Seq(Payload) /\ starts' \in Seq(Nat)
<1>1. /\ stream \in Seq(Byte) /\ sent \in Seq(Payload) /\ starts \in Seq(Nat)
      /\ Len(stream) \in Nat /\ Len(sent) \in Nat /\ Len(starts) = Len(sent)
  BY Numbers DEF Inv, TypeOK, Encoded
<1>2. /\ Len(p) < Radix * Radix /\ sent' = Append(sent, p)
      /\ starts' = Append(starts, Len(stream)) /\ stream' = stream \o Encode(p)
  BY DEF send_out
<1>3. Len(p) \in Nat
  BY PayloadAssumption
<1>4. /\ Encode(p) \in Seq(Byte) /\ Len(Encode(p)) = 2 + Len(p)
      /\ Encode(p)[1] = Len(p) \div Radix /\ Encode(p)[2] = Len(p) % Radix
      /\ \A i \in 1..Len(p) : Encode(p)[2 + i] = p[i]
  BY <1>2, EncodeFacts
<1>5. /\ Len(sent') = Len(sent) + 1 /\ sent'[Len(sent) + 1] = p
      /\ sent' \in Seq(Payload)
      /\ \A j \in 1..Len(sent) : sent'[j] = sent[j]
  BY <1>1, <1>2
<1>6. /\ Len(starts') = Len(starts) + 1 /\ starts'[Len(sent) + 1] = Len(stream)
      /\ starts' \in Seq(Nat)
      /\ \A j \in 1..Len(sent) : starts'[j] = starts[j]
  BY <1>1, <1>2
<1>7. /\ stream' \in Seq(Byte)
      /\ Len(stream') = Len(stream) + Len(Encode(p))
      /\ \A i \in 1..(Len(stream) + Len(Encode(p))) :
           stream'[i] = IF i <= Len(stream) THEN stream[i] ELSE Encode(p)[i - Len(stream)]
  <2>1. stream \in Seq(Byte) /\ Encode(p) \in Seq(Byte) /\ stream' = stream \o Encode(p)
    BY <1>1, <1>2, <1>4
  <2> QED
    BY <2>1, Joined
<1>8. ASSUME NEW i \in 1..(2 + Len(p))
      PROVE  stream'[Len(stream) + i] = Encode(p)[i]
  <2>1. /\ Len(stream) + i \in 1..(Len(stream) + Len(Encode(p)))
        /\ ~(Len(stream) + i <= Len(stream)) /\ (Len(stream) + i) - Len(stream) = i
    BY <1>1, <1>3, <1>4
  <2> QED
    BY <2>1, <1>7
<1>9. \A i \in 1..Len(stream) : stream'[i] = stream[i]
  BY <1>1, <1>3, <1>4, <1>7
<1>10. ASSUME NEW i \in 1..Len(p)
       PROVE  stream'[Len(stream) + 2 + i] = p[i]
  <2>1. 2 + i \in 1..(2 + Len(p)) /\ Len(stream) + 2 + i = Len(stream) + (2 + i)
    BY <1>1, <1>3
  <2> QED
    BY <2>1, <1>4, <1>8
<1>11. 1 \in 1..(2 + Len(p)) /\ 2 \in 1..(2 + Len(p))
  BY <1>3
<1>12. Len(stream') = Len(stream) + 2 + Len(p)
  BY <1>1, <1>3, <1>4, <1>7
<1>13. /\ stream'[Len(stream) + 1] = Len(p) \div Radix
       /\ stream'[Len(stream) + 2] = Len(p) % Radix
  BY <1>4, <1>8, <1>11
<1> QED
  BY <1>5, <1>6, <1>7, <1>9, <1>10, <1>12, <1>13

LEMMA SendEncoded ==
  ASSUME Inv, NEW p \in Payload, send_out(p)
  PROVE  /\ Encoded'
         /\ \A j \in 1..(Len(sent) + 1) : Offset(j)' = Offset(j)
<1>1. /\ Len(stream) \in Nat /\ Len(sent) \in Nat /\ Len(starts) = Len(sent)
      /\ Len(p) \in Nat /\ Encoded
  BY Numbers, PayloadAssumption DEF Inv, Encoded
<1>2. /\ Len(sent') = Len(sent) + 1 /\ Len(starts') = Len(starts) + 1
      /\ \A j \in 1..Len(sent) : sent'[j] = sent[j] /\ starts'[j] = starts[j]
      /\ sent'[Len(sent) + 1] = p /\ starts'[Len(sent) + 1] = Len(stream)
      /\ Len(stream') = Len(stream) + 2 + Len(p)
      /\ \A i \in 1..Len(stream) : stream'[i] = stream[i]
      /\ stream'[Len(stream) + 1] = Len(p) \div Radix
      /\ stream'[Len(stream) + 2] = Len(p) % Radix
      /\ \A i \in 1..Len(p) : stream'[Len(stream) + 2 + i] = p[i]
  BY SendFacts
<1>3. ASSUME NEW j \in 1..(Len(sent) + 1)
      PROVE  Offset(j)' = Offset(j)
  <2>1. CASE j \in 1..Len(sent)
    BY <2>1, <1>1, <1>2 DEF Offset
  <2>2. CASE j = Len(sent) + 1
    BY <2>2, <1>1, <1>2 DEF Offset
  <2> QED
    BY <2>1, <2>2, <1>1
<1>4. Len(starts') = Len(sent') /\ Offset(1)' = 0
  BY <1>1, <1>2, <1>3 DEF Encoded
<1>5. ASSUME NEW j \in 1..Len(sent)
      PROVE  Written(j)'
  <2>1. /\ Written(j) /\ starts[j] \in Nat /\ Len(sent[j]) \in Nat
        /\ starts[j] + 2 + Len(sent[j]) <= Len(stream) /\ Len(stream) \in Nat
        /\ starts[j] + 1 \in 1..Len(stream) /\ starts[j] + 2 \in 1..Len(stream)
    BY Place
  <2>2. sent'[j] = sent[j] /\ starts'[j] = starts[j]
    BY <1>2
  <2>3. Offset(j + 1)' = Offset(j + 1)
    BY <1>1, <1>3
  <2>4. starts[j] + 2 + Len(sent[j]) <= Len(stream')
    BY <1>1, <1>2, <2>1 DEF Written
  <2>5. ASSUME NEW i \in 1..Len(sent[j])
        PROVE  stream'[starts[j] + 2 + i] = sent[j][i]
    <3>1. starts[j] + 2 + i \in 1..Len(stream)
      BY <2>1
    <3> QED
      BY <3>1, <1>2, <2>1 DEF Written
  <2> QED
    BY <1>2, <2>1, <2>2, <2>3, <2>4, <2>5 DEF Written
<1>6. ASSUME NEW j, j = Len(sent) + 1
      PROVE  Written(j)'
  <2>1. sent'[j] = p /\ starts'[j] = Len(stream) /\ Len(p) < Radix * Radix
    BY <1>2, <1>6 DEF send_out
  <2>2. Offset(j + 1)' = Len(stream')
    BY <1>1, <1>2, <1>6 DEF Offset
  <2> QED
    BY <1>1, <1>2, <2>1, <2>2 DEF Written
<1>7. \A j \in 1..Len(sent') : Written(j)'
  <2> TAKE j \in 1..Len(sent')
  <2>1. j \in 1..Len(sent) \/ j = Len(sent) + 1
    BY <1>1, <1>2
  <2> QED
    BY <2>1, <1>5, <1>6
<1> QED
  BY <1>3, <1>4, <1>7 DEF Encoded

LEMMA SendParsed ==
  ASSUME Inv, NEW p \in Payload, send_out(p), phase # "released"
  PROVE  Completed' /\ Position'
<1>1. /\ Len(stream) \in Nat /\ Len(sent) \in Nat /\ Len(answers) \in Nat /\ Read \in Nat
      /\ queue_size(response) \in Nat
      /\ Completed /\ Position
  BY Numbers DEF Inv, Parsed
<1>2. /\ Len(sent') = Len(sent) + 1
      /\ \A j \in 1..Len(sent) : sent'[j] = sent[j] /\ starts'[j] = starts[j]
      /\ \A i \in 1..Len(stream) : stream'[i] = stream[i]
  BY SendFacts
<1>3. /\ answers' = answers /\ response' = response /\ Read' = Read
      /\ pos' = pos /\ header_sz' = header_sz /\ header0' = header0
      /\ uncomplete_sz' = uncomplete_sz /\ uncomplete' = uncomplete
  BY DEF send_out, qvars, ovars, pvars, Read
<1>4. Completed'
  <2>1. Read' <= Len(sent')
    BY <1>1, <1>2, <1>3 DEF Completed
  <2>2. ASSUME NEW i \in 1..queue_size(response')
        PROVE  At(response', i).msg = sent'[Len(answers') + i]
    <3>1. Len(answers) + i \in 1..Len(sent) /\ i \in 1..queue_size(response)
      BY <1>1, <1>3 DEF Completed, Read
    <3> QED
      BY <3>1, <1>1, <1>2, <1>3 DEF Completed
  <2> QED
    BY <2>1, <2>2 DEF Completed
<1>5. CASE uncomplete_sz < 0 /\ header_sz = 0
  <2>1. Read + 1 \in 1..(Len(sent) + 1)
    BY <1>1 DEF Completed
  <2>2. Offset(Read + 1)' = Offset(Read + 1)
    BY <2>1, <1>3, SendEncoded DEF Offset
  <2>3. AtHeader'
    BY <1>1, <1>3, <1>5, <2>2 DEF AtHeader, Position
  <2>4. uncomplete_sz' < 0 /\ header_sz' = 0 /\ ~(uncomplete_sz < 0 /\ header_sz # 0) /\ ~(uncomplete_sz >= 0)
    BY <1>3, <1>5 DEF Inv, TypeOK
  <2> QED
    BY <1>3, <1>4, <2>3, <2>4 DEF Position
<1>6. CASE uncomplete_sz < 0 /\ header_sz # 0
  <2>1. InHeader
    BY <1>1, <1>6 DEF Position
  <2>2. Read + 1 \in 1..Len(sent)
    BY <1>1, <2>1 DEF InHeader
  <2>3. starts[Read + 1] + 1 \in 1..Len(stream)
    BY <2>2, Place
  <2>4. InHeader'
    BY <1>1, <1>2, <1>3, <2>1, <2>2, <2>3 DEF InHeader
  <2>5. ~(uncomplete_sz >= 0)
    BY <1>6 DEF Inv, TypeOK
  <2> QED
    BY <1>3, <1>4, <1>6, <2>4, <2>5 DEF Position
<1>7. CASE uncomplete_sz >= 0
  <2>1. InPackage
    BY <1>1, <1>7 DEF Position
  <2>2. Read + 1 \in 1..Len(sent)
    BY <1>1, <2>1 DEF InPackage
  <2>3. sent'[Read + 1] = sent[Read + 1] /\ starts'[Read + 1] = starts[Read + 1]
    BY <1>2, <2>2
  <2>4. Read' < Len(sent')
    BY <1>1, <1>2, <1>3, <2>1 DEF InPackage
  <2>5. InPackage'
    BY <1>3, <2>1, <2>3, <2>4 DEF InPackage
  <2>6. ~(uncomplete_sz < 0)
    BY <1>7 DEF Inv, TypeOK
  <2> QED
    BY <1>3, <1>4, <2>5, <2>6 DEF Position
<1> QED
  BY <1>5, <1>6, <1>7 DEF Inv, TypeOK

LEMMA SendStep ==
  ASSUME Inv, NEW p \in Payload, send_out(p)
  PROVE  Inv' /\ Channel!CSend
<1> USE DEF Inv
<1>1. /\ TypeWire /\ TypeLife /\ TypeBeat /\ TypeHeader /\ TypeBuffer
      /\ TypePc /\ TypeQueues /\ TypeOutcomes
  BY TypeParts
<1>2. TypeOK'
  <2>1. TypeWire'
    <3>1. /\ stream' \in Seq(Byte) /\ sent' \in Seq(Payload) /\ starts' \in Seq(Nat)
          /\ Len(stream') = Len(stream) + 2 + Len(p)
      BY SendFacts
    <3>2. Len(p) \in Nat /\ Len(stream) \in Nat
      BY PayloadAssumption, Numbers
    <3>3. arrived' = arrived /\ pos' = pos
      BY DEF send_out, pvars
    <3>4. arrived' \in 0..Len(stream') /\ pos' \in 0..arrived'
      BY <1>1, <3>1, <3>2, <3>3 DEF TypeWire
    <3> QED
      BY <3>1, <3>4 DEF TypeWire
  <2>2. TypeBuffer' /\ TypeHeader'
    BY <1>1, TypeBufferSame, TypeHeaderSame DEF send_out, pvars
  <2>3. TypeLife' /\ TypeBeat' /\ TypePc'
    BY <1>1, TypeLifeSame, TypeBeatSame DEF send_out, TypePc
  <2>4. TypeQueues' /\ TypeOutcomes'
    BY <1>1, TypeQueuesSame, TypeOutcomesSame DEF send_out
  <2> QED
    BY <2>1, <2>2, <2>3, <2>4, TypePartsNext
<1>3. Life' /\ Idle'
  BY DEF Life, Idle, send_out, lvars, qvars, ovars
<1>4. Requests' /\ Queued'
  BY RequestsSame, QueuedSame DEF send_out, qvars, ovars
<1>5. Encoded'
  BY SendEncoded
<1>6. Parsed'
  BY SendParsed DEF Parsed, send_out, lvars
<1>7. Channel!CSend
  BY DEF Channel!CSend, send_out, ovars
<1> QED
  BY <1>2, <1>3, <1>4, <1>5, <1>6, <1>7

(***************************************************************************)
(* The parser.                                                             *)
(***************************************************************************)
\* While new_message runs, its position in the stream is known.
LEMMA Parsing ==
  ASSUME Inv, pc = "new_message"
  PROVE  /\ ~closed /\ phase = "running" /\ Completed /\ Position
         /\ pos \in Nat /\ arrived \in Nat /\ pos <= arrived /\ arrived <= Len(stream)
         /\ sz = arrived - pos /\ sz \in Nat
         /\ Read \in Nat /\ Len(sent) \in Nat /\ Len(stream) \in Nat
<1>1. ~closed /\ phase = "running" /\ Completed /\ Position
  BY DEF Inv, Life, Parsed
<1>2. Read \in Nat /\ Len(sent) \in Nat /\ Len(stream) \in Nat
  BY Numbers DEF Inv
<1>3. arrived \in 0..Len(stream) /\ pos \in 0..arrived
  BY DEF Inv, TypeOK
<1> QED
  BY <1>1, <1>2, <1>3 DEF sz

\* Bytes are left before the header of a package: the package was sent.
LEMMA HeaderPlace ==
  ASSUME Inv, pc = "new_message", uncomplete_sz < 0, header_sz = 0, sz > 0
  PROVE  /\ Read + 1 \in 1..Len(sent) /\ pos = starts[Read + 1]
         /\ msg(0) = stream[starts[Read + 1] + 1]
<1>1. /\ pos \in Nat /\ arrived \in Nat /\ arrived <= Len(stream) /\ sz = arrived - pos
      /\ Read \in Nat /\ Len(sent) \in Nat /\ Len(stream) \in Nat
      /\ pos = Offset(Read + 1)
  BY Parsing DEF Position, AtHeader
<1>2. Read + 1 <= Len(sent)
  BY <1>1 DEF Offset
<1>3. pos = starts[Read + 1]
  BY <1>1, <1>2 DEF Offset
<1>4. msg(0) = stream[pos + 1]
  BY <1>1 DEF msg
<1> QED
  BY <1>1, <1>2, <1>3, <1>4

\* A byte of the read that is not yet parsed.
LEMMA MsgByte ==
  ASSUME Inv, pc = "new_message", NEW i \in Nat, i < sz
  PROVE  msg(i) \in Byte
<1>1. /\ pos \in Nat /\ arrived \in Nat /\ arrived <= Len(stream) /\ sz = arrived - pos
      /\ Len(stream) \in Nat
  BY Parsing
<1>2. pos + 1 + i \in 1..Len(stream)
  BY <1>1
<1>3. stream \in Seq(Byte)
  BY DEF Inv, TypeOK
<1>4. stream[pos + 1 + i] \in Byte
  BY <1>2, <1>3, ElementOfSeq
<1> QED
  BY <1>4 DEF msg

\* What every step of the parser leaves alone.
LEMMA ParserStep ==
  ASSUME Inv, pc = "new_message", pc' \in {"new_message", "response"},
         UNCHANGED <<svars, lvars, tvars, ovars, request, conn, arrived>>,
         pos' \in 0..arrived, TypeHeader', TypeBuffer', Ring(response', Response),
         Queued', Completed', Position'
  PROVE  Inv'
<1> USE DEF Inv
<1>1. /\ TypeWire /\ TypeLife /\ TypeBeat /\ TypeQueues /\ TypeOutcomes
  BY TypeParts
<1>2. TypeOK'
  <2>1. TypeWire'
    BY <1>1 DEF TypeWire, svars
  <2>2. TypeLife' /\ TypeBeat' /\ TypePc'
    BY <1>1, TypeLifeSame, TypeBeatSame DEF TypePc
  <2>3. TypeQueues' /\ TypeOutcomes'
    BY <1>1, TypeOutcomesSame DEF TypeQueues
  <2> QED
    BY <2>1, <2>2, <2>3, TypePartsNext
<1>3. ~closed /\ phase = "running"
  BY Parsing
<1>4. Life' /\ Idle'
  BY <1>3 DEF Life, Idle, lvars, ovars
<1>5. Requests' /\ Encoded'
  BY RequestsSame, EncodedSame DEF ovars
<1>6. Parsed'
  BY DEF Parsed
<1> QED
  BY <1>2, <1>4, <1>5, <1>6

LEMMA HalfHeaderStep ==
  ASSUME Inv, HalfHeader
  PROVE  Inv'
<1>1. /\ pc = "new_message" /\ uncomplete_sz < 0 /\ header_sz = 0 /\ sz = 1
      /\ header0' = msg(0) /\ header_sz' = 1 /\ pos' = pos + 1 /\ pc' = "response"
      /\ uncomplete_sz' = uncomplete_sz /\ uncomplete' = uncomplete
      /\ response' = response /\ answers' = answers /\ sent' = sent
      /\ starts' = starts /\ stream' = stream /\ Read' = Read
      /\ heap' = heap /\ mallocs' = mallocs
  BY DEF HalfHeader, svars, qvars, ovars, Read
<1>2. /\ Completed /\ pos \in Nat /\ arrived \in Nat /\ sz = arrived - pos
      /\ Read \in Nat /\ Len(sent) \in Nat
  BY <1>1, Parsing
<1>3. /\ Read + 1 \in 1..Len(sent) /\ pos = starts[Read + 1]
      /\ msg(0) = stream[starts[Read + 1] + 1]
  BY <1>1, HeaderPlace
<1>4. msg(0) \in Byte
  BY <1>1, MsgByte
<1>5. InHeader'
  BY <1>1, <1>2, <1>3 DEF InHeader
<1>6. ~(uncomplete_sz >= 0) /\ TypeBuffer /\ TypeHeader /\ Queued /\ Ring(response, Response)
  BY <1>1, TypeParts DEF Inv, TypeBuffer, TypeQueues
<1>7. Position'
  BY <1>1, <1>5, <1>6 DEF Position
<1>8. Completed' /\ Queued'
  BY <1>1, <1>2, <1>6, CompletedSame, QueuedSame
<1>9. TypeHeader' /\ TypeBuffer'
  BY <1>1, <1>4, <1>6, TypeBufferSame DEF TypeHeader
<1>10. pos' \in 0..arrived
  BY <1>1, <1>2
<1> QED
  BY <1>1, <1>6, <1>7, <1>8, <1>9, <1>10, ParserStep DEF HalfHeader, qvars

\* A new buffer of n bytes.
LEMMA BeginFacts ==
  ASSUME TypeHeader, NEW n \in Nat, NEW hi, NEW lo, hi * Radix + lo = n, Begin(hi, lo)
  PROVE  /\ TypeBuffer' /\ heap' \subseteq Nat /\ mallocs' \in Nat
         /\ Len(uncomplete'.msg) = n /\ uncomplete_sz' = n
<1>1. mallocs + 1 \in Nat
  BY DEF TypeHeader
<1> DEFINE b == [j \in 1..n |-> Garbage]
<1>2. b \in Seq(Byte \cup {Garbage}) /\ Len(b) = n
  OBVIOUS
<1>3. uncomplete' = [buf |-> mallocs + 1, msg |-> b] /\ uncomplete_sz' = n
  BY DEF Begin
<1> HIDE DEF b
<1>4. uncomplete'.msg = b /\ uncomplete' \in Response
  BY <1>1, <1>2, <1>3 DEF Response
<1>5. heap' \subseteq Nat /\ mallocs' \in Nat
  BY <1>1 DEF Begin, TypeHeader
<1>6. uncomplete_sz' \in -1..Len(uncomplete'.msg)
  BY <1>2, <1>3, <1>4
<1> QED
  BY <1>2, <1>3, <1>4, <1>5, <1>6 DEF TypeBuffer

LEMMA HeaderStep ==
  ASSUME Inv, Header
  PROVE  Inv' /\ uncomplete_sz' \in Nat
<1>1. /\ pc = "new_message" /\ uncomplete_sz < 0 /\ pc' = pc /\ header_sz' = 0
      /\ response' = response /\ answers' = answers /\ sent' = sent
      /\ starts' = starts /\ stream' = stream /\ Read' = Read
  BY DEF Header, svars, qvars, ovars, Read
<1>2. /\ Completed /\ Position /\ pos \in Nat /\ arrived \in Nat /\ sz = arrived - pos
      /\ Read \in Nat /\ Len(sent) \in Nat
  BY <1>1, Parsing
<1>3. TypeHeader /\ TypeBuffer /\ Queued /\ Ring(response, Response)
  BY TypeParts DEF Inv, TypeQueues
<1> DEFINE s == starts[Read + 1]
           n == Len(sent[Read + 1])
<1>4. /\ Read + 1 \in 1..Len(sent) /\ header0' \in Byte
      /\ Begin(stream[s + 1], stream[s + 2])
      /\ pos' = s + 2 /\ pos' \in 0..arrived
  <2>1. CASE sz > 1 /\ header_sz = 0 /\ header0' = msg(0) /\ Begin(msg(0), msg(1)) /\ pos' = pos + 2
    <3>1. /\ Read + 1 \in 1..Len(sent) /\ pos = s /\ msg(0) = stream[s + 1]
      BY <1>1, <1>2, <2>1, HeaderPlace
    <3>2. msg(1) = stream[s + 2]
      <4>1. pos + 1 + 1 = s + 2
        BY <1>2, <3>1
      <4> QED
        BY <4>1 DEF msg
    <3>3. msg(0) \in Byte
      BY <1>1, <1>2, <2>1, MsgByte
    <3> QED
      BY <1>2, <2>1, <3>1, <3>2, <3>3
  <2>2. CASE sz > 0 /\ header_sz # 0 /\ Begin(header0, msg(0)) /\ pos' = pos + 1 /\ header0' = header0
    <3>1. InHeader
      BY <1>1, <1>2, <2>2 DEF Position
    <3>2. Read + 1 \in 1..Len(sent) /\ pos = s + 1 /\ header0 = stream[s + 1]
      BY <1>2, <3>1 DEF InHeader
    <3>3. s \in Nat
      BY <3>2, Place
    <3>4. msg(0) = stream[s + 2]
      <4>1. pos + 1 + 0 = s + 2
        BY <3>2, <3>3
      <4> QED
        BY <4>1 DEF msg
    <3>5. header0' \in Byte
      BY <1>3, <2>2 DEF TypeHeader
    <3>6. pos' = s + 2 /\ pos' \in 0..arrived
      BY <1>2, <2>2, <3>2, <3>3
    <3>7. Begin(stream[s + 1], stream[s + 2])
      BY <2>2, <3>2, <3>4
    <3> QED
      BY <3>2, <3>5, <3>6, <3>7
  <2> QED
    BY <2>1, <2>2 DEF Header
<1>5. s \in Nat /\ n \in Nat /\ Written(Read + 1)
  BY <1>4, Place
<1>6. n < Radix * Radix /\ stream[s + 1] = n \div Radix /\ stream[s + 2] = n % Radix
  BY <1>5 DEF Written
<1> HIDE DEF s, n
<1>7. stream[s + 1] * Radix + stream[s + 2] = n
  BY <1>5, <1>6, HeaderBytes
<1>8. /\ TypeBuffer' /\ heap' \subseteq Nat /\ mallocs' \in Nat
      /\ Len(uncomplete'.msg) = n /\ uncomplete_sz' = n
  BY <1>3, <1>4, <1>5, <1>7, BeginFacts
<1>9. TypeHeader'
  BY <1>1, <1>4, <1>8 DEF TypeHeader
<1>10. Completed' /\ Queued'
  BY <1>1, <1>2, <1>3, CompletedSame, QueuedSame
<1>11. Len(uncomplete'.msg) - uncomplete_sz' = 0 /\ pos' = s + 2 + 0
  BY <1>4, <1>5, <1>8
<1>12. InPackage'
  BY <1>1, <1>2, <1>4, <1>8, <1>11 DEF InPackage, s, n
<1>13. ~(uncomplete_sz' < 0)
  BY <1>5, <1>8
<1>14. Position'
  BY <1>12, <1>13 DEF Position
<1>15. Inv'
  BY <1>1, <1>3, <1>4, <1>8, <1>9, <1>10, <1>14, ParserStep DEF Header, qvars
<1>16. uncomplete_sz' \in Nat
  BY <1>5, <1>8
<1> QED
  BY <1>15, <1>16

\* The position in the stream of byte j of a package, h bytes of which are read.
LEMMA SameByte ==
  ASSUME NEW a \in Nat, NEW h \in Nat, NEW j \in Nat, NEW p, p = a + 2 + h
  PROVE  p + 1 + (j - h - 1) = a + 2 + j
  OBVIOUS

\* memcpy copies the next n bytes of the package.
LEMMA FilledFacts ==
  ASSUME Inv, pc = "new_message", uncomplete_sz >= 0,
         NEW n \in Nat, n <= uncomplete_sz, n <= sz
  PROVE  /\ Filled(n) \in Response
         /\ Len(Filled(n).msg) = Len(uncomplete.msg)
         /\ \A j \in 1..((Len(uncomplete.msg) - uncomplete_sz) + n) :
              Filled(n).msg[j] = sent[Read + 1][j]
<1> DEFINE have == Len(uncomplete.msg) - uncomplete_sz
           len  == Len(uncomplete.msg)
           m    == [j \in 1..len |-> IF have < j /\ j <= have + n THEN msg(j - have - 1)
                                                                   ELSE uncomplete.msg[j]]
<1>1. /\ uncomplete \in Response /\ uncomplete_sz \in -1..Len(uncomplete.msg)
  BY DEF Inv, TypeOK
<1>2. /\ uncomplete.buf \in Nat /\ uncomplete.msg \in Seq(Byte \cup {Garbage})
      /\ len \in Nat /\ have \in Nat /\ have + n <= len
      /\ \A j \in 1..len : uncomplete.msg[j] \in Byte \cup {Garbage}
  BY <1>1 DEF Response
<1>3. Filled(n) = [buf |-> uncomplete.buf, msg |-> m]
  BY DEF Filled
<1>4. /\ InPackage /\ Read \in Nat /\ Len(sent) \in Nat /\ sz \in Nat /\ sz = arrived - pos
      /\ pos \in Nat
  BY Parsing DEF Position
<1>5. Read + 1 \in 1..Len(sent)
  BY <1>4 DEF InPackage
<1>6. /\ starts[Read + 1] \in Nat /\ Written(Read + 1) /\ len = Len(sent[Read + 1])
      /\ pos = starts[Read + 1] + 2 + have
  BY <1>4, <1>5, Place DEF InPackage
<1>7. ASSUME NEW j \in 1..len, have < j, j <= have + n
      PROVE  /\ msg(j - have - 1) \in Byte
             /\ msg(j - have - 1) = sent[Read + 1][j]
  <2>1. j - have - 1 \in Nat /\ j - have - 1 < sz
    BY <1>2, <1>4, <1>7
  <2>2. msg(j - have - 1) \in Byte
    BY <2>1, MsgByte
  <2>3. pos + 1 + (j - have - 1) = starts[Read + 1] + 2 + j
    <3>1. /\ have \in Nat /\ starts[Read + 1] \in Nat /\ j \in Nat
          /\ pos = starts[Read + 1] + 2 + have
      BY <1>2, <1>6
    <3> HIDE DEF have
    <3> QED
      BY <3>1, SameByte
  <2>4. stream[starts[Read + 1] + 2 + j] = sent[Read + 1][j]
    BY <1>6 DEF Written
  <2> QED
    BY <2>2, <2>3, <2>4 DEF msg
<1>8. \A j \in 1..len : m[j] = IF have < j /\ j <= have + n THEN msg(j - have - 1)
                                                             ELSE uncomplete.msg[j]
  OBVIOUS
<1>9. \A j \in 1..len : m[j] \in Byte \cup {Garbage}
  BY <1>2, <1>7, <1>8
<1>10. m \in [1..len -> Byte \cup {Garbage}]
  BY <1>9
<1>11. m \in Seq(Byte \cup {Garbage}) /\ Len(m) = len
  BY <1>2, <1>10
<1>12. ASSUME NEW j \in 1..(have + n)
       PROVE  m[j] = sent[Read + 1][j]
  <2>1. j \in 1..len
    BY <1>2
  <2>2. CASE have < j
    <3>1. j <= have + n
      BY <1>2
    <3> QED
      BY <2>1, <2>2, <3>1, <1>7, <1>8
  <2>3. CASE ~(have < j)
    <3>1. j \in 1..have
      BY <1>2, <2>3
    <3>2. uncomplete.msg[j] = sent[Read + 1][j]
      BY <3>1, <1>4 DEF InPackage
    <3> QED
      BY <2>1, <2>3, <3>2, <1>8
  <2> QED
    BY <2>2, <2>3
<1> HIDE DEF m
<1>13. Filled(n).msg = m /\ Filled(n) \in Response
  BY <1>2, <1>3, <1>11 DEF Response
<1> QED
  BY <1>11, <1>12, <1>13

\* The parser and the package move on by the same number of bytes.
LEMMA MoveOn ==
  ASSUME NEW a \in Nat, NEW h \in Int, NEW n \in Nat, NEW g, g = h + n,
         NEW p, p = a + 2 + h, NEW q, q = p + n
  PROVE  q = a + 2 + g
  OBVIOUS

LEMMA IncompleteStep ==
  ASSUME Inv, Incomplete
  PROVE  Inv'
<1>1. /\ pc = "new_message" /\ uncomplete_sz >= 0 /\ sz < uncomplete_sz
      /\ uncomplete' = Filled(sz) /\ uncomplete_sz' = uncomplete_sz - sz /\ pos' = arrived
      /\ pc' = "response" /\ header_sz' = header_sz /\ header0' = header0
      /\ response' = response /\ answers' = answers /\ sent' = sent
      /\ starts' = starts /\ stream' = stream /\ Read' = Read
      /\ heap' = heap /\ mallocs' = mallocs
  BY DEF Incomplete, svars, qvars, ovars, Read
<1>2. /\ Completed /\ InPackage /\ pos \in Nat /\ arrived \in Nat /\ sz = arrived - pos
      /\ sz \in Nat /\ Read \in Nat /\ Len(sent) \in Nat
  BY <1>1, Parsing DEF Position
<1>3. /\ TypeHeader /\ Queued /\ Ring(response, Response)
      /\ uncomplete \in Response /\ uncomplete_sz \in -1..Len(uncomplete.msg)
  BY TypeParts DEF Inv, TypeQueues, TypeBuffer
<1>4. Len(uncomplete.msg) \in Nat
  BY <1>3 DEF Response
<1>5. sz <= uncomplete_sz /\ sz <= sz
  BY <1>1, <1>2, <1>3
<1>6. /\ uncomplete' \in Response
      /\ Len(uncomplete'.msg) = Len(uncomplete.msg)
      /\ \A j \in 1..((Len(uncomplete.msg) - uncomplete_sz) + sz) :
              uncomplete'.msg[j] = sent[Read + 1][j]
  BY <1>1, <1>2, <1>5, FilledFacts
<1>7. /\ Len(uncomplete'.msg) - uncomplete_sz' = (Len(uncomplete.msg) - uncomplete_sz) + sz
      /\ uncomplete_sz' \in -1..Len(uncomplete'.msg) /\ uncomplete_sz' >= 0
      /\ ~(uncomplete_sz' < 0)
  <2>1. /\ uncomplete_sz \in Nat /\ sz \in Nat /\ sz < uncomplete_sz
        /\ uncomplete_sz <= Len(uncomplete.msg) /\ uncomplete_sz' = uncomplete_sz - sz
    BY <1>1, <1>2, <1>3, <1>4
  <2>2. Len(uncomplete'.msg) = Len(uncomplete.msg)
    BY <1>6
  <2> QED
    BY <1>4, <2>1, <2>2
<1>8. TypeBuffer' /\ TypeHeader'
  BY <1>1, <1>3, <1>6, <1>7, TypeHeaderSame DEF TypeBuffer
<1>9. starts[Read + 1] \in Nat
  <2>1. Read + 1 \in 1..Len(sent)
    BY <1>2 DEF InPackage
  <2> QED
    BY <2>1, Place
<1>10. pos' = starts[Read + 1] + 2 + (Len(uncomplete'.msg) - uncomplete_sz')
  <2> DEFINE a == starts[Read + 1]
             h == Len(uncomplete.msg) - uncomplete_sz
             g == Len(uncomplete'.msg) - uncomplete_sz'
  <2>1. pos = a + 2 + h
    BY <1>2 DEF InPackage
  <2>2. pos' = pos + sz /\ sz \in Nat
    BY <1>1, <1>2
  <2>3. h \in Int /\ a \in Nat
    BY <1>3, <1>4, <1>9
  <2>4. g = h + sz
    BY <1>7
  <2> HIDE DEF a, h, g
  <2>5. pos' = a + 2 + g
    BY <2>1, <2>2, <2>3, <2>4, MoveOn
  <2> QED
    BY <2>5 DEF a, g
<1>11. InPackage'
  BY <1>1, <1>2, <1>6, <1>7, <1>10 DEF InPackage
<1>12. Position'
  BY <1>7, <1>11 DEF Position
<1>13. Completed' /\ Queued'
  BY <1>1, <1>2, <1>3, CompletedSame, QueuedSame
<1>14. pos' \in 0..arrived
  BY <1>1, <1>2
<1> QED
  BY <1>1, <1>3, <1>8, <1>12, <1>13, <1>14, ParserStep DEF Incomplete, qvars

LEMMA CompleteStep ==
  ASSUME Inv, Complete
  PROVE  Inv'
<1>1. /\ pc = "new_message" /\ uncomplete_sz >= 0 /\ sz >= uncomplete_sz
      /\ response' = queue_push(response, Filled(uncomplete_sz))
      /\ uncomplete' = Filled(uncomplete_sz) /\ uncomplete_sz' = -1
      /\ pos' = pos + uncomplete_sz
      /\ pc' = pc /\ header_sz' = header_sz /\ header0' = header0
      /\ answers' = answers /\ sent' = sent /\ starts' = starts /\ stream' = stream
      /\ heap' = heap /\ mallocs' = mallocs
  BY DEF Complete, svars, ovars
<1>2. /\ Completed /\ InPackage /\ pos \in Nat /\ arrived \in Nat /\ sz = arrived - pos
      /\ sz \in Nat /\ Read \in Nat /\ Len(sent) \in Nat
  BY <1>1, Parsing DEF Position
<1>3. /\ TypeHeader /\ Queued /\ Ring(response, Response)
      /\ uncomplete \in Response /\ uncomplete_sz \in -1..Len(uncomplete.msg)
      /\ queue_size(response) \in Nat /\ Len(answers) \in Nat
  BY TypeParts, Numbers DEF Inv, TypeQueues, TypeBuffer
<1>4. Len(uncomplete.msg) \in Nat /\ uncomplete_sz \in Nat
  BY <1>1, <1>3 DEF Response
<1>5. uncomplete_sz <= uncomplete_sz /\ uncomplete_sz <= sz
  BY <1>1, <1>2, <1>4
<1>6. /\ uncomplete' \in Response
      /\ Len(uncomplete'.msg) = Len(uncomplete.msg)
      /\ \A j \in 1..((Len(uncomplete.msg) - uncomplete_sz) + uncomplete_sz) :
              uncomplete'.msg[j] = sent[Read + 1][j]
  BY <1>1, <1>4, <1>5, FilledFacts
<1>7. Read + 1 \in 1..Len(sent)
  BY <1>2 DEF InPackage
<1>8. uncomplete'.msg = sent[Read + 1]
  <2>1. Len(uncomplete.msg) = Len(sent[Read + 1])
    BY <1>2 DEF InPackage
  <2>2. sent[Read + 1] \in Seq(Byte)
    BY <1>7, SentFacts DEF Inv
  <2>3. sent[Read + 1] \in Seq(Byte \cup {Garbage})
    BY <2>2, SeqMonotonic
  <2>4. uncomplete'.msg \in Seq(Byte \cup {Garbage})
    BY <1>6 DEF Response
  <2>5. (Len(uncomplete.msg) - uncomplete_sz) + uncomplete_sz = Len(uncomplete.msg)
    BY <1>4
  <2>6. \A j \in 1..Len(uncomplete'.msg) : uncomplete'.msg[j] = sent[Read + 1][j]
    BY <1>6, <2>5
  <2>7. Len(uncomplete'.msg) = Len(sent[Read + 1])
    BY <1>6, <2>1
  <2> QED
    BY <2>3, <2>4, <2>6, <2>7, SeqEqual
<1>9. /\ Ring(response', Response)
      /\ queue_size(response') = queue_size(response) + 1
      /\ At(response', queue_size(response) + 1) = uncomplete'
      /\ \A i \in 1..queue_size(response) : At(response', i) = At(response, i)
  BY <1>1, <1>3, <1>6, RingPush
<1>10. Read' = Read + 1
  BY <1>1, <1>3, <1>9 DEF Read
<1>11. Queued'
  <2> SUFFICES ASSUME NEW i \in 1..queue_size(response')
               PROVE  At(response', i) \in Response
    BY DEF Queued
  <2>1. i \in 1..queue_size(response) \/ i = queue_size(response) + 1
    BY <1>3, <1>9
  <2> QED
    BY <2>1, <1>3, <1>6, <1>9 DEF Queued
<1>12. Completed'
  <2>1. Read' <= Len(sent')
    BY <1>1, <1>7, <1>10
  <2>2. ASSUME NEW i \in 1..queue_size(response')
        PROVE  At(response', i).msg = sent'[Len(answers') + i]
    <3>1. CASE i \in 1..queue_size(response)
      BY <3>1, <1>1, <1>2, <1>9 DEF Completed
    <3>2. CASE i = queue_size(response) + 1
      <4>1. Len(answers') + i = Read + 1
        BY <3>2, <1>1, <1>3 DEF Read
      <4> QED
        BY <3>2, <4>1, <1>1, <1>8, <1>9
    <3> QED
      BY <3>1, <3>2, <1>3, <1>9
  <2> QED
    BY <2>1, <2>2 DEF Completed
<1>13. Position'
  <2>1. /\ starts[Read + 1] \in Nat /\ Written(Read + 1)
        /\ Len(sent[Read + 1]) \in Nat
    BY <1>7, Place
  <2>2. /\ pos = starts[Read + 1] + 2 + (Len(uncomplete.msg) - uncomplete_sz)
        /\ Len(uncomplete.msg) = Len(sent[Read + 1]) /\ header_sz = 0
    BY <1>2 DEF InPackage
  <2>3. pos' = starts[Read + 1] + 2 + Len(sent[Read + 1])
    BY <1>1, <1>4, <2>1, <2>2
  <2>4. pos' = Offset((Read + 1) + 1)
    BY <2>1, <2>3 DEF Written
  <2>5. AtHeader'
    BY <1>1, <1>10, <2>4 DEF AtHeader, Offset
  <2>6. ~(uncomplete_sz' >= 0)
    BY <1>1
  <2> QED
    BY <1>1, <2>2, <2>5, <2>6 DEF Position
<1>14. TypeHeader' /\ TypeBuffer'
  <2>1. uncomplete_sz' \in -1..Len(uncomplete'.msg)
    BY <1>1, <1>4, <1>6
  <2> QED
    BY <2>1, <1>1, <1>3, <1>6, TypeHeaderSame DEF TypeBuffer
<1>15. pos' \in 0..arrived
  BY <1>1, <1>2, <1>4
<1> QED
  BY <1>1, <1>9, <1>11, <1>12, <1>13, <1>14, <1>15, ParserStep DEF Complete

(***************************************************************************)
(* The theorems.                                                           *)
(***************************************************************************)
\* Every step keeps the invariant and is a step of the channel or a stutter.
LEMMA NextInv ==
  ASSUME Inv, [Next]_vars
  PROVE  Inv' /\ [Channel!CNext]_(Channel!cvars)
<1> USE DEF Channel!CNext, Channel!cvars
<1>1. ASSUME NEW p \in Payload, send_out(p)
      PROVE  Inv' /\ Channel!CNext
  BY <1>1, SendStep
<1>2. CASE package_init
  BY <1>2, InitStep DEF package_init, svars, ovars
<1>3. CASE Timer
  BY <1>3, TimerStep DEF Timer, svars, ovars
<1>4. CASE Connect
  BY <1>4, ConnectStep DEF Connect, svars, ovars
<1>5. CASE Close
  BY <1>5, CloseStep DEF Close, svars, ovars
<1>6. CASE Kick
  BY <1>6, KickStep DEF Kick, svars, ovars
<1>7. CASE Release
  BY <1>7, ReleaseStep DEF Release, svars, ovars
<1>8. ASSUME NEW n \in 1..Len(stream), Data(n)
      PROVE  Inv' /\ UNCHANGED Channel!cvars
  BY <1>8, DataStep DEF Data, svars, ovars
<1>9. CASE RequestReady
  BY <1>9, RequestReadyStep
<1>10. CASE RequestWaits
  BY <1>10, RequestWaitsStep
<1>11. CASE RequestRefused
  BY <1>11, RequestRefusedStep
<1>12. CASE Complete
  BY <1>12, CompleteStep DEF Complete, svars, ovars
<1>13. CASE Incomplete
  BY <1>13, IncompleteStep DEF Incomplete, svars, ovars
<1>14. CASE ReadEnd
  BY <1>14, ReadEndStep DEF ReadEnd, svars, ovars
<1>15. CASE HalfHeader
  BY <1>15, HalfHeaderStep DEF HalfHeader, svars, ovars
<1>16. CASE Header
  BY <1>16, HeaderStep DEF Header, svars, ovars
<1>17. CASE Respond
  BY <1>17, RespondStep
<1>18. CASE ResponseEnd
  BY <1>18, ResponseEndStep DEF ResponseEnd, svars, ovars
<1>19. CASE ExitError
  BY <1>19, ExitErrorStep
<1>20. CASE ExitEnd
  BY <1>20, ExitEndStep DEF ExitEnd, svars, ovars
<1>21. CASE UNCHANGED vars
  <2>1. UNCHANGED <<svars, qvars, pvars, ovars, arrived, heap, pc, lvars, tvars, conn>>
    BY <1>21 DEF vars
  <2>2. TypeLife' /\ TypeBeat'
    BY <2>1, TypeParts, TypeLifeSame, TypeBeatSame DEF Inv
  <2>3. Inv'
    BY <2>1, <2>2, QuietStep DEF lvars
  <2> QED
    BY <2>1, <2>3 DEF svars, ovars
<1> QED
  BY <1>1, <1>2, <1>3, <1>4, <1>5, <1>6, <1>7, <1>8, <1>9, <1>10, <1>11, <1>12,
     <1>13, <1>14, <1>15, <1>16, <1>17, <1>18, <1>19, <1>20, <1>21 DEF Next, Handler

LEMMA InvHolds == Spec => []Inv
<1>1. Inv /\ [Next]_vars => Inv'
  BY NextInv
<1> QED
  BY <1>1, InitInv, PTL DEF Spec

\* Every state of the package service is well typed: no position runs past
\* the bytes it indexes, and no index of a ring past its slots, for any first
\* size of the queues and any cut of the stream.
THEOREM PackageTypeCorrect == Spec => []TypeOK
<1>1. Inv => TypeOK
  BY DEF Inv
<1> QED
  BY <1>1, InvHolds, PTL

\* The assertion of command never fails.
THEOREM PackageOneQueueEmpty == Spec => []OneQueueEmpty
<1>1. Inv => OneQueueEmpty
  BY DEF Inv, Idle, OneQueueEmpty
<1> QED
  BY <1>1, InvHolds, PTL

\* The package service implements the channel: the n-th request gets the n-th
\* package, unaltered, whatever the radix of the header, the packages, the
\* first size of the queues and the cut of the stream into reads.
THEOREM PackageImplementsChannel == Spec => ImplementsChannel
<1>1. Init => Channel!CInit
  BY DEF Init, Channel!CInit
<1>2. Inv /\ [Next]_vars => [Channel!CNext]_(Channel!cvars)
  BY NextInv
<1> QED
  BY <1>1, <1>2, InvHolds, PTL DEF Spec, ImplementsChannel, Channel!CSpec

(***************************************************************************)
(* Buffers.                                                                *)
(***************************************************************************)
\* The buffers of the packages in a queue, and that no two share one.
Bufs(q) == {At(q, i).buf : i \in 1..queue_size(q)}
Distinct(q) ==
  \A i, j \in 1..queue_size(q) : i # j => At(q, i).buf # At(q, j).buf

\* queue_pop takes the buffer of the front away.
LEMMA PopBufs ==
  ASSUME NEW T, NEW q, Ring(q, T), ~queue_empty(q), Distinct(q)
  PROVE  /\ Distinct(queue_pop(q))
         /\ Bufs(queue_pop(q)) = Bufs(q) \ {queue_front(q).buf}
<1>1. PICK r : r = queue_pop(q)
  OBVIOUS
<1>2. /\ queue_size(r) = queue_size(q) - 1
      /\ queue_front(q) = At(q, 1)
      /\ \A i \in 1..(queue_size(q) - 1) : At(r, i) = At(q, i + 1)
  BY <1>1, RingPop
<1>3. queue_size(q) \in Nat /\ queue_size(q) # 0
  BY RingSize
<1>4. ASSUME NEW i \in 1..queue_size(r)
      PROVE  i + 1 \in 1..queue_size(q) /\ i + 1 # 1 /\ At(r, i).buf = At(q, i + 1).buf
  BY <1>2, <1>3
<1>5. Distinct(r)
  <2> SUFFICES ASSUME NEW i \in 1..queue_size(r), NEW j \in 1..queue_size(r), i # j
               PROVE  At(r, i).buf # At(r, j).buf
    BY DEF Distinct
  <2>1. i + 1 # j + 1
    BY <1>2, <1>3
  <2> QED
    BY <2>1, <1>4 DEF Distinct
<1>6. 1 \in 1..queue_size(q)
  BY <1>3
<1>7. ASSUME NEW b \in Bufs(r)
      PROVE  b \in Bufs(q) \ {queue_front(q).buf}
  <2>1. PICK i \in 1..queue_size(r) : b = At(r, i).buf
    BY DEF Bufs
  <2> QED
    BY <2>1, <1>2, <1>4, <1>6 DEF Bufs, Distinct
<1>8. ASSUME NEW b \in Bufs(q), b # queue_front(q).buf
      PROVE  b \in Bufs(r)
  <2>1. PICK i \in 1..queue_size(q) : b = At(q, i).buf
    BY DEF Bufs
  <2>2. i # 1
    BY <2>1, <1>2, <1>8
  <2>3. i - 1 \in 1..(queue_size(q) - 1) /\ i - 1 \in 1..queue_size(r) /\ (i - 1) + 1 = i
    BY <2>2, <1>2, <1>3
  <2>4. At(r, i - 1).buf = b
    BY <2>1, <2>3, <1>2
  <2> QED
    BY <2>3, <2>4 DEF Bufs
<1>9. Bufs(r) = Bufs(q) \ {queue_front(q).buf}
  BY <1>7, <1>8
<1> QED
  BY <1>1, <1>5, <1>9

\* queue_push adds the buffer of the value.
LEMMA PushBufs ==
  ASSUME NEW T, NEW q, Ring(q, T), NEW v \in T, Distinct(q), v.buf \notin Bufs(q)
  PROVE  /\ Distinct(queue_push(q, v))
         /\ Bufs(queue_push(q, v)) = Bufs(q) \cup {v.buf}
<1>1. PICK r : r = queue_push(q, v)
  OBVIOUS
<1>2. /\ queue_size(r) = queue_size(q) + 1
      /\ At(r, queue_size(q) + 1) = v
      /\ \A i \in 1..queue_size(q) : At(r, i) = At(q, i)
  BY <1>1, RingPush
<1>3. queue_size(q) \in Nat
  BY RingSize
<1>4. \A i \in 1..queue_size(r) : i \in 1..queue_size(q) \/ i = queue_size(q) + 1
  BY <1>2, <1>3
<1>5. \A i \in 1..queue_size(q) : i \in 1..queue_size(r) /\ At(r, i).buf \in Bufs(q)
  BY <1>2, <1>3 DEF Bufs
<1>6. queue_size(q) + 1 \in 1..queue_size(r) /\ At(r, queue_size(q) + 1).buf = v.buf
  BY <1>2, <1>3
<1>7. Distinct(r)
  <2> SUFFICES ASSUME NEW i \in 1..queue_size(r), NEW j \in 1..queue_size(r), i # j
               PROVE  At(r, i).buf # At(r, j).buf
    BY DEF Distinct
  <2>1. CASE i \in 1..queue_size(q) /\ j \in 1..queue_size(q)
    BY <2>1, <1>2 DEF Distinct
  <2>2. CASE i \in 1..queue_size(q) /\ j = queue_size(q) + 1
    BY <2>2, <1>5, <1>6
  <2>3. CASE i = queue_size(q) + 1 /\ j \in 1..queue_size(q)
    BY <2>3, <1>5, <1>6
  <2> QED
    BY <2>1, <2>2, <2>3, <1>4
<1>8. ASSUME NEW b \in Bufs(r)
      PROVE  b \in Bufs(q) \cup {v.buf}
  <2>1. PICK i \in 1..queue_size(r) : b = At(r, i).buf
    BY DEF Bufs
  <2> QED
    BY <2>1, <1>4, <1>5, <1>6
<1>9. Bufs(q) \subseteq Bufs(r)
  <2> SUFFICES ASSUME NEW b \in Bufs(q)
               PROVE  b \in Bufs(r)
    OBVIOUS
  <2>1. PICK i \in 1..queue_size(q) : b = At(q, i).buf
    BY DEF Bufs
  <2> QED
    BY <2>1, <1>2, <1>5 DEF Bufs
<1>10. v.buf \in Bufs(r)
  BY <1>6 DEF Bufs
<1>11. Bufs(r) = Bufs(q) \cup {v.buf}
  BY <1>8, <1>9, <1>10
<1> QED
  BY <1>1, <1>7, <1>11

\* No two packages share a buffer, and a new buffer is none of them.
Fresh ==
  /\ Distinct(response)
  /\ Bufs(response) \subseteq 1..mallocs
  /\ uncomplete_sz >= 0 => uncomplete.buf \in (1..mallocs) \ Bufs(response)

Owned == Fresh /\ HeapExact

\* The buffers of Unsent.
LEMMA UnsentBufs == Unsent = Bufs(response)
  BY DEF Unsent, Contents, Bufs

\* What keeps buffers where they are.
LEMMA OwnedSame ==
  ASSUME Owned, UNCHANGED <<response, mallocs, uncomplete_sz, uncomplete, heap>>,
         phase' = "released" <=> phase = "released"
  PROVE  Owned'
<1>1. Fresh'
  BY DEF Owned, Fresh, Distinct, Bufs
<1>2. Freed' = Freed
  BY DEF Freed, Unsent, Contents
<1> QED
  BY <1>1, <1>2 DEF Owned, HeapExact

\* A package is handed over.
LEMMA OwnedPop ==
  ASSUME Inv, Owned, ~queue_empty(response), response' = queue_pop(response),
         heap' = heap \ {queue_front(response).buf}, phase # "released",
         UNCHANGED <<mallocs, uncomplete_sz, uncomplete, phase>>
  PROVE  Owned'
<1>1. Ring(response, Response) /\ Distinct(response)
  BY DEF Inv, TypeOK, Owned, Fresh
<1>2. /\ Distinct(response')
      /\ Bufs(response') = Bufs(response) \ {queue_front(response).buf}
  BY <1>1, PopBufs
<1>3. queue_front(response).buf \in Bufs(response)
  <2>1. queue_front(response) = At(response, 1)
    BY <1>1, RingPop
  <2>2. queue_size(response) \in Nat /\ queue_size(response) # 0
    BY <1>1, RingSize
  <2>3. 1 \in 1..queue_size(response)
    BY <2>2
  <2> QED
    BY <2>1, <2>3 DEF Bufs
<1>4. Unsent' = Bufs(response')
  BY DEF Unsent, Contents, Bufs
<1>5. Fresh'
  BY <1>2 DEF Owned, Fresh
<1>6. heap = Freed
  BY DEF Owned, HeapExact
<1>7. HeapExact'
  <2>1. CASE uncomplete_sz >= 0
    <3>1. uncomplete.buf \notin Bufs(response)
      BY <2>1 DEF Owned, Fresh
    <3> QED
      BY <1>2, <1>3, <1>4, <1>6, <2>1, <3>1, UnsentBufs DEF HeapExact, Freed
  <2>2. CASE ~(uncomplete_sz >= 0)
    BY <1>2, <1>3, <1>4, <1>6, <2>2, UnsentBufs DEF HeapExact, Freed
  <2> QED
    BY <2>1, <2>2
<1> QED
  BY <1>5, <1>7 DEF Owned

\* A package is complete: its buffer goes from uncomplete to the queue.
LEMMA OwnedComplete ==
  ASSUME Inv, Owned, Complete
  PROVE  Owned'
<1>1. /\ pc = "new_message" /\ uncomplete_sz >= 0 /\ sz >= uncomplete_sz
      /\ response' = queue_push(response, Filled(uncomplete_sz))
      /\ uncomplete' = Filled(uncomplete_sz) /\ uncomplete_sz' = -1
      /\ heap' = heap /\ mallocs' = mallocs /\ phase' = phase
  BY DEF Complete, lvars
<1>2. phase = "running" /\ Ring(response, Response) /\ sz \in Nat /\ uncomplete_sz \in Nat
  <2>1. uncomplete \in Response /\ uncomplete_sz \in -1..Len(uncomplete.msg)
    BY DEF Inv, TypeOK
  <2>2. Len(uncomplete.msg) \in Nat
    BY <2>1 DEF Response
  <2>3. uncomplete_sz \in Nat
    BY <1>1, <2>1, <2>2
  <2> QED
    BY <1>1, <2>3, Parsing DEF Inv, TypeOK
<1>3. uncomplete_sz <= uncomplete_sz /\ uncomplete_sz <= sz
  BY <1>1, <1>2
<1>4. Filled(uncomplete_sz) \in Response
  BY <1>1, <1>2, <1>3, FilledFacts
<1>5. Filled(uncomplete_sz).buf = uncomplete.buf
  BY DEF Filled
<1>6. /\ Distinct(response) /\ uncomplete.buf \notin Bufs(response)
      /\ uncomplete.buf \in 1..mallocs /\ Bufs(response) \subseteq 1..mallocs
  BY <1>1 DEF Owned, Fresh
<1>7. Distinct(response') /\ Bufs(response') = Bufs(response) \cup {uncomplete.buf}
  BY <1>1, <1>2, <1>4, <1>5, <1>6, PushBufs
<1>8. ~(uncomplete_sz' >= 0)
  BY <1>1
<1>9. Fresh'
  BY <1>1, <1>6, <1>7, <1>8 DEF Fresh
<1>10. heap = Bufs(response) \cup {uncomplete.buf}
  BY <1>1, <1>2, UnsentBufs DEF Owned, HeapExact, Freed
<1>11. Unsent' = Bufs(response')
  BY DEF Unsent, Contents, Bufs
<1>12. HeapExact'
  BY <1>1, <1>2, <1>7, <1>8, <1>10, <1>11 DEF HeapExact, Freed
<1> QED
  BY <1>9, <1>12 DEF Owned

\* More of a package is there: the buffer stays.
LEMMA OwnedIncomplete ==
  ASSUME Inv, Owned, Incomplete
  PROVE  Owned'
<1>1. /\ pc = "new_message" /\ uncomplete_sz >= 0 /\ sz < uncomplete_sz
      /\ uncomplete' = Filled(sz) /\ uncomplete_sz' = uncomplete_sz - sz
      /\ UNCHANGED <<response, mallocs, heap, phase>>
  BY DEF Incomplete, lvars, qvars
<1>2. sz \in Nat /\ phase = "running"
  BY <1>1, Parsing
<1>3. uncomplete_sz \in Int
  BY DEF Inv, TypeOK
<1>4. uncomplete_sz' >= 0
  BY <1>1, <1>2, <1>3
<1>5. uncomplete'.buf = uncomplete.buf
  BY <1>1 DEF Filled
<1>6. Bufs(response') = Bufs(response) /\ (Distinct(response') <=> Distinct(response))
  BY <1>1
<1>7. Unsent' = Bufs(response')
  BY DEF Unsent, Contents, Bufs
<1>8. Fresh'
  BY <1>1, <1>5, <1>6 DEF Owned, Fresh
<1>9. HeapExact'
  BY <1>1, <1>2, <1>4, <1>5, <1>6, <1>7, UnsentBufs DEF Owned, HeapExact, Freed
<1> QED
  BY <1>8, <1>9 DEF Owned

\* A package begins: its buffer is new.
LEMMA OwnedHeader ==
  ASSUME Inv, Owned, Header
  PROVE  Owned'
<1>1. /\ pc = "new_message" /\ uncomplete_sz < 0
      /\ mallocs' = mallocs + 1 /\ heap' = heap \cup {mallocs + 1}
      /\ uncomplete'.buf = mallocs + 1
      /\ UNCHANGED <<response, phase>>
  BY DEF Header, Begin, lvars, qvars
<1>2. phase = "running" /\ mallocs \in Nat
  BY <1>1, Parsing DEF Inv, TypeOK
<1>3. Distinct(response) /\ Bufs(response) \subseteq 1..mallocs
  BY DEF Owned, Fresh
<1>4. Bufs(response') = Bufs(response) /\ (Distinct(response') <=> Distinct(response))
  BY <1>1
<1>5. mallocs + 1 \in 1..(mallocs + 1) /\ mallocs + 1 \notin 1..mallocs
      /\ 1..mallocs \subseteq 1..(mallocs + 1)
  BY <1>2
<1>6. Fresh'
  BY <1>1, <1>3, <1>4, <1>5 DEF Fresh
<1>7. uncomplete_sz' >= 0
  <2>1. uncomplete_sz' \in Nat
    BY HeaderStep
  <2> QED
    BY <2>1
<1>8. Unsent' = Bufs(response')
  BY DEF Unsent, Contents, Bufs
<1>9. ~(uncomplete_sz >= 0)
  <2>1. uncomplete_sz \in Int
    BY DEF Inv, TypeOK
  <2> QED
    BY <1>1, <2>1
<1>10. heap = Bufs(response)
  BY <1>2, <1>9, UnsentBufs DEF Owned, HeapExact, Freed
<1>11. HeapExact'
  BY <1>1, <1>2, <1>4, <1>7, <1>8, <1>10 DEF HeapExact, Freed
<1> QED
  BY <1>6, <1>11 DEF Owned

\* package_release frees all of them.
LEMMA OwnedRelease ==
  ASSUME Inv, Owned, Release
  PROVE  Owned'
<1>1. /\ phase = "retired" /\ phase' = "released" /\ heap' = heap \ Freed
      /\ response' = [response EXCEPT !.head = response.tail]
      /\ UNCHANGED <<uncomplete, uncomplete_sz, mallocs>>
  BY DEF Release, pvars
<1>2. heap = Freed
  BY <1>1 DEF Owned, HeapExact
<1>3. heap' = {}
  BY <1>1, <1>2
<1>4. Ring(response, Response)
  BY DEF Inv, TypeOK
<1>5. queue_size(response') = 0
  BY <1>1, <1>4, RingClear
<1>6. 1..queue_size(response') = {}
  BY <1>5
<1>7. Bufs(response') = {} /\ Distinct(response')
  BY <1>6 DEF Bufs, Distinct
<1>8. Fresh'
  BY <1>1, <1>7 DEF Owned, Fresh
<1> QED
  BY <1>1, <1>3, <1>8 DEF Owned, HeapExact

LEMMA InitOwned ==
  ASSUME Init
  PROVE  Owned
<1>1. /\ response = queue_init /\ uncomplete_sz = -1 /\ heap = {} /\ phase = "running"
  BY DEF Init
<1>2. queue_size(response) = 0
  BY <1>1, RingInit
<1>3. 1..queue_size(response) = {}
  BY <1>2
<1>4. Bufs(response) = {} /\ Distinct(response)
  BY <1>3 DEF Bufs, Distinct
<1>5. ~(uncomplete_sz >= 0)
  BY <1>1
<1>6. Fresh
  BY <1>4, <1>5 DEF Fresh
<1>7. HeapExact
  BY <1>1, <1>4, <1>5, UnsentBufs DEF HeapExact, Freed
<1> QED
  BY <1>6, <1>7 DEF Owned

LEMMA NextOwned ==
  ASSUME Inv, Owned, [Next]_vars
  PROVE  Owned'
<1>1. ASSUME NEW p \in Payload, send_out(p)
      PROVE  Owned'
  BY <1>1, OwnedSame DEF send_out, qvars, pvars, lvars
<1>2. CASE package_init \/ Timer \/ Kick
  BY <1>2, OwnedSame DEF package_init, Timer, Kick, qvars, pvars, lvars
<1>3. CASE Connect \/ Close
  BY <1>3, OwnedSame DEF Connect, Close, Report, qvars, pvars
<1>4. CASE Release
  BY <1>4, OwnedRelease
<1>5. ASSUME NEW n \in 1..Len(stream), Data(n)
      PROVE  Owned'
  BY <1>5, OwnedSame DEF Data, qvars, pvars, lvars
<1>6. CASE RequestReady
  BY <1>6, OwnedPop DEF RequestReady, Ready, Answer, pvars, lvars
<1>7. CASE RequestWaits \/ RequestRefused
  BY <1>7, OwnedSame DEF RequestWaits, RequestRefused, qvars, pvars, lvars
<1>8. CASE Complete
  BY <1>8, OwnedComplete
<1>9. CASE Incomplete
  BY <1>9, OwnedIncomplete
<1>10. CASE ReadEnd
  BY <1>10, OwnedSame DEF ReadEnd, qvars, pvars, lvars
<1>11. CASE HalfHeader
  BY <1>11, OwnedSame DEF HalfHeader, qvars, lvars
<1>12. CASE Header
  BY <1>12, OwnedHeader
<1>13. CASE Respond
  <2>1. phase # "released"
    BY <1>13 DEF Respond, Inv, Life
  <2> QED
    BY <1>13, <2>1, OwnedPop DEF Respond, Answer, pvars, lvars
<1>14. CASE ResponseEnd
  BY <1>14, OwnedSame DEF ResponseEnd, qvars, pvars
<1>15. CASE ExitError
  BY <1>15, OwnedSame DEF ExitError, pvars, lvars
<1>16. CASE ExitEnd
  <2>1. phase # "released"
    BY <1>16 DEF ExitEnd, Inv, Life
  <2> QED
    BY <1>16, <2>1, OwnedSame DEF ExitEnd, qvars, pvars
<1>17. CASE UNCHANGED vars
  BY <1>17, OwnedSame DEF vars, qvars, pvars, lvars
<1> QED
  BY <1>1, <1>2, <1>3, <1>4, <1>5, <1>6, <1>7, <1>8, <1>9, <1>10, <1>11, <1>12,
     <1>13, <1>14, <1>15, <1>16, <1>17 DEF Next, Handler

\* No buffer of a package leaks or is freed twice: the service owns those that
\* are queued or being filled, and after package_release none.
THEOREM PackageHeapExact == Spec => []HeapExact
<1>1. Inv /\ Owned /\ [Next]_vars => Owned'
  BY NextOwned
<1>2. Init => Owned
  BY InitOwned
<1>3. Owned => HeapExact
  BY DEF Owned
<1> QED
  BY <1>1, <1>2, <1>3, InvHolds, PTL DEF Spec
=============================================================================
