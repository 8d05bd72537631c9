----------------------------- MODULE Websocket ------------------------------
(***************************************************************************)
(* lua-websocketnetpack.c: what filter, pop and clear make of the reads of *)
(* several websockets.  Frames are cut into reads at any place, several of *)
(* them may be in one read, and the reads of the sockets interleave.  A    *)
(* frame that is not complete waits in a hash table; when a read has more  *)
(* than one package they go through a ring, which the caller empties       *)
(* before the next read (dispatch_queue of gateserver.lua).                *)
(*                                                                         *)
(* One call of filter runs in steps (pc), one per header byte or frame.    *)
(* A byte is named by its frame and its place in it, with the mask bytes   *)
(* it is now XORed with: a second XOR with the same one undoes the first.  *)
(***************************************************************************)
EXTENDS RingQueue, SequencesExt, FiniteSets

CONSTANTS Fds,          \* sockets
          hash_fd,      \* the bucket of each
          Frames,       \* frames that are sent: see Frame
          Small, Medium,  \* first lengths that need 2 and 8 bytes more: 126, 65536
          Ext16, Ext64,   \* those bytes: 2 and 8
          MaskLen,      \* WEBSOCKET_MASK_LEN: 4
          MaxPack,      \* MAX_PACKSIZE
          None,         \* NULL
          Look,         \* the header that byte <<f, j>> looks like: see Seen
          MaxSent       \* bound: frames sent

\* What a header says: data; "skip", of which filter drops two bytes (a fragment,
\* or a reserved bit); close.  Each with a mask or not, and a length.
Header == [op : {"data", "skip", "close"}, mask : BOOLEAN, len : Nat]

\* The frames a client sends: no longer than the buffer netpack makes.
Frame == {frame \in Header : frame.len <= MaxPack}

ASSUME HashAssumption  == hash_fd \in [Fds -> Nat]
ASSUME FrameAssumption == Frames \subseteq Frame
ASSUME NoneAssumption  == None \notin Nat \X Nat
ASSUME LookAssumption  == \A x \in DOMAIN Look : Look[x] \in Header
ASSUME SizeAssumption  == /\ {Small, Medium, Ext16, Ext64, MaxPack, MaxSent} \subseteq Nat
                          /\ MaskLen \in Nat \ {0} /\ Small > 0

VARIABLES
  sent,      \* frames sent, each with its socket and where its stream ends after it
  stream,    \* bytes written to each socket
  datas,     \* numbers of the data frames sent on each
  arrived,   \* bytes of each that filter was given
  pos,       \* and those it has dealt with
  sock,      \* "open" or "closed"
  astray,    \* those of which it dropped the beginning of a frame and not the rest
  \* struct queue, and the call of filter that runs
  hash,      \* chains of struct uncomplete, by bucket
  queue,     \* packages for pop
  pc,        \* "idle", "header", "fill", "frame" or "more"
  cur, uc,   \* its socket, and the struct uncomplete it has taken from its chain
  \* effects
  out,       \* packages the caller got for each socket
  reported,  \* sockets of which filter said that the client closes
  structs, bufs,  \* struct uncompletes and buffers of packages netpack has to free
  lost,      \* struct uncompletes nobody points to
  phase      \* "running", "cleared"

cvars == <<sent, stream, datas>>
fvars == <<arrived, sock, phase>>
hvars == <<structs, bufs, lost>>
vars  == <<cvars, fvars, hvars, pos, astray, hash, queue, pc, cur, uc, out, reported>>

Init ==
  /\ sent = <<>> /\ stream = [f \in Fds |-> <<>>] /\ datas = [f \in Fds |-> <<>>]
  /\ arrived = [f \in Fds |-> 0] /\ pos = [f \in Fds |-> 0]
  /\ sock = [f \in Fds |-> "open"] /\ astray = {}
  /\ hash = [h \in Range(hash_fd) |-> <<>>]
  /\ queue = queue_init
  /\ pc = "idle" /\ cur = None /\ uc = None
  /\ out = [f \in Fds |-> <<>>] /\ reported = {}
  /\ structs = 0 /\ bufs = 0 /\ lost = 0
  /\ phase = "running"

(***************************************************************************)
(* Frames.                                                                 *)
(***************************************************************************)
\* Bytes of the extended length.
Extended(len) == IF len < Small THEN 0 ELSE IF len < Medium THEN Ext16 ELSE Ext64

HeadLength(frame) == 2 + Extended(frame.len) + (IF frame.mask THEN MaskLen ELSE 0)

\* Byte j of frame f, XORed with the mask bytes of keys.
Byte(f, j, keys) == [f |-> f, j |-> j, keys |-> keys]

\* Frame number f as it is sent.
Encode(f, frame) ==
  LET head == HeadLength(frame)
  IN  [j \in 1..(head + frame.len) |->
         Byte(f, j, IF frame.mask /\ j > head
                    THEN {<<<<f, 2>>, (j - head - 1) % MaskLen>>} ELSE {})]

\* Its contents, as the caller should get them.
Plain(f) == [i \in 1..sent[f].frame.len |-> Byte(f, HeadLength(sent[f].frame) + i, {})]

\* A client sends a frame; nothing follows the close frame.
lsend(fd, frame) ==
  /\ Len(sent) < MaxSent
  /\ \A f \in DOMAIN sent : sent[f].fd = fd => sent[f].frame.op # "close"
  /\ stream' = [stream EXCEPT ![fd] = @ \o Encode(Len(sent) + 1, frame)]
  /\ sent' = Append(sent, [fd |-> fd, frame |-> frame, end |-> Len(stream'[fd])])
  /\ datas' = IF frame.op = "data" THEN [datas EXCEPT ![fd] = Append(@, Len(sent) + 1)]
              ELSE datas
  /\ UNCHANGED <<fvars, hvars, pos, astray, hash, queue, pc, cur, uc, out, reported>>

\* What a byte that is read as byte j of a frame says of its header: the truth
\* when it is one, else what it happens to look like (a byte of which Look says
\* nothing is 0).
Seen(byte, j) ==
  IF byte.j = j THEN sent[byte.f].frame
  ELSE IF <<byte.f, byte.j>> \in DOMAIN Look THEN Look[<<byte.f, byte.j>>]
  ELSE [op |-> "skip", mask |-> FALSE, len |-> 0]

\* The header that the bytes b, as far as they are there, make.
HeadOf(b) == [Seen(b[2], 2) EXCEPT !.op = Seen(b[1], 1).op]

\* -1: more bytes are needed; -2: two bytes to drop; -3: the client closes.
read_size(b) ==
  IF Len(b) < 2 THEN -1
  ELSE IF HeadOf(b).op = "skip"  THEN -2
  ELSE IF HeadOf(b).op = "close" THEN -3
  ELSE IF Len(b) < HeadLength(HeadOf(b)) THEN -1
  ELSE IF HeadOf(b).len > MaxPack THEN MaxPack ELSE HeadOf(b).len

\* The mask a header gives: it is named by the header's second byte.
MaskOf(b) == IF HeadOf(b).mask THEN <<b[2].f, b[2].j>> ELSE None

\* A XOR with mask byte k of a mask.
Xor(byte, k) ==
  [byte EXCEPT !.keys = IF k \in @ THEN @ \ {k} ELSE @ \cup {k}]

decode_wsmask_data_bug(b, mask, hasunmask) ==
  [i \in DOMAIN b |-> IF mask = None THEN b[i] ELSE Xor(b[i], <<mask, (i - 1) % MaskLen>>)]

\* The bytes b of a package of which hasunmask bytes are decoded already.
decode_wsmask_data(b, mask, hasunmask) ==
  [i \in DOMAIN b |->
     IF mask = None THEN b[i] ELSE Xor(b[i], <<mask, (i - 1 + hasunmask) % MaskLen>>)]

(***************************************************************************)
(* The ring and the hash table.                                            *)
(***************************************************************************)
\* expand_queue: a ring that this package fills is copied, head first, into
\* one with InitCap (QUEUESIZE) slots more.
expand_queue(q, v) ==
  [cap |-> q.cap + InitCap, head |-> 0, tail |-> q.cap,
   buffer |-> [i \in 0..(q.cap + InitCap - 1) |->
                 IF i < q.cap - 1 THEN q.buffer[Slot(q, i)]
                 ELSE IF i = q.cap - 1 THEN v ELSE Garbage]]

push_data(q, fd, msg) ==
  LET v == [id |-> fd, msg |-> msg]
  IN  IF After(q, q.tail) = q.head THEN expand_queue(q, v)
      ELSE [q EXCEPT !.tail = After(q, q.tail), !.buffer[q.tail] = v]

Chain(fd) == hash[hash_fd[fd]]

\* Where find_uncomplete finds the socket in its chain; 0: nowhere.
Place(fd) == SelectInSeq(Chain(fd), LAMBDA u : u.id = fd)

\* A struct uncomplete goes to the front of its chain.
Linked(u) == [hash EXCEPT ![hash_fd[u.id]] = <<u>> \o @]

\* find_uncomplete takes the struct out of the chain.
Unlinked(fd) == [hash EXCEPT ![hash_fd[fd]] = RemoveAt(@, Place(fd))]

\* A struct uncomplete whose header is not complete has read = -1.
Uncomplete(fd, header) ==
  [id |-> fd, header |-> header, read |-> -1, size |-> 0, mask |-> None, buffer |-> <<>>]

\* One whose header is: a buffer of size bytes, with the first ones in it.
Started(fd, size, mask, first) ==
  [id |-> fd, header |-> <<>>, read |-> Len(first), size |-> size, mask |-> mask,
   buffer |-> decode_wsmask_data(first, mask, 0)]

\* The next bytes of the package (hasunmask_size is what was read before).
Continued(u, b) ==
  [u EXCEPT !.read = @ + Len(b),
            !.buffer = @ \o decode_wsmask_data(b, u.mask, u.read)]

(***************************************************************************)
(* filter_data_: what was read of one socket.                              *)
(***************************************************************************)
sz == arrived[cur] - pos[cur]

\* The next n bytes of the read, and what remains of it.
Bytes(n) == SubSeq(stream[cur], pos[cur] + 1, pos[cur] + n)
buffer == Bytes(sz)

Advance(n) == pos' = [pos EXCEPT ![cur] = @ + n]

\* n bytes that no package gets are dropped: the next frame should begin there.
Drop(n) ==
  /\ Advance(n)
  /\ astray' = IF \E f \in DOMAIN sent : sent[f].fd = cur /\ sent[f].end = pos[cur] + n
               THEN astray ELSE astray \cup {cur}

Deliver(msg) == out' = [out EXCEPT ![cur] = Append(@, msg)]
Return == pc' = "idle" /\ cur' = None /\ uc' = None

\* A read of n bytes.
Data(fd, n) ==
  /\ pc = "idle" /\ phase = "running" /\ queue_empty(queue) /\ sock[fd] = "open"
  /\ arrived[fd] + n <= Len(stream[fd])
  /\ arrived' = [arrived EXCEPT ![fd] = @ + n]
  /\ cur' = fd
  /\ \/ /\ Place(fd) = 0
        /\ pc' = "frame" /\ uc' = None /\ UNCHANGED hash
     \/ /\ Place(fd) # 0
        /\ uc' = Chain(fd)[Place(fd)]
        /\ hash' = Unlinked(fd)
        /\ pc' = IF uc'.read < 0 THEN "header" ELSE "fill"
  /\ UNCHANGED <<cvars, hvars, pos, astray, sock, phase, queue, out, reported>>

\* The header with one byte more; two bytes to drop are dropped.
Longer == Append(uc.header, Bytes(1)[1])
NextHeader == IF read_size(Longer) = -2 THEN SubSeq(Longer, 3, Len(Longer)) ELSE Longer
NextByte == IF read_size(Longer) = -2 THEN Drop(1) ELSE Advance(1) /\ UNCHANGED astray

HeaderGoesOn ==
  /\ pc = "header" /\ read_size(NextHeader) < 0 /\ sz > 1
  /\ uc' = [uc EXCEPT !.header = NextHeader]
  /\ NextByte
  /\ UNCHANGED <<cvars, fvars, hvars, hash, queue, pc, cur, out, reported>>

HeaderWaits ==
  /\ pc = "header" /\ read_size(NextHeader) = -1 /\ sz = 1
  /\ hash' = Linked([uc EXCEPT !.header = NextHeader])
  /\ NextByte /\ Return
  /\ UNCHANGED <<cvars, fvars, hvars, queue, out, reported>>

\* close_uncomplete looks for the struct in the chain it was taken from.
HeaderCloses ==
  /\ pc = "header" /\ read_size(NextHeader) = -3 /\ sz = 1
  /\ reported' = reported \cup {cur}
  /\ lost' = lost + 1
  /\ Drop(1) /\ Return
  /\ UNCHANGED <<cvars, fvars, structs, bufs, hash, queue, out>>

HeaderDone ==
  /\ pc = "header" /\ read_size(NextHeader) >= 0
  /\ uc' = Started(cur, read_size(NextHeader), MaskOf(NextHeader), <<>>)
  /\ bufs' = bufs + 1
  /\ pc' = "fill"
  /\ Advance(1)
  /\ UNCHANGED <<cvars, fvars, astray, structs, lost, hash, queue, cur, out, reported>>

need == uc.size - uc.read

FillPart_bug ==
  /\ pc = "fill" /\ sz <= need
  /\ hash' = Linked(Continued(uc, buffer))
  /\ Advance(sz) /\ Return
  /\ UNCHANGED <<cvars, fvars, astray, hvars, queue, out, reported>>

FillPart ==
  /\ pc = "fill" /\ sz < need
  /\ hash' = Linked(Continued(uc, buffer))
  /\ Advance(sz) /\ Return
  /\ UNCHANGED <<cvars, fvars, astray, hvars, queue, out, reported>>

\* The read ends with the package, whose buffer the caller gets.
FillLast ==
  /\ pc = "fill" /\ sz = need
  /\ Deliver(Continued(uc, buffer).buffer)
  /\ structs' = structs - 1 /\ bufs' = bufs - 1
  /\ Advance(need) /\ Return
  /\ UNCHANGED <<cvars, fvars, astray, lost, hash, queue, reported>>

FillMore ==
  /\ pc = "fill" /\ sz > need
  /\ queue' = push_data(queue, cur, Continued(uc, Bytes(need)).buffer)
  /\ structs' = structs - 1
  /\ uc' = None /\ pc' = "more"
  /\ Advance(need)
  /\ UNCHANGED <<cvars, fvars, astray, bufs, lost, hash, cur, out, reported>>

(***************************************************************************)
(* The frames of a read: filter_data_ for the first, when nothing waits,   *)
(* and push_more for the others.                                           *)
(***************************************************************************)
AtFrame == pc \in {"frame", "more"}

\* Bytes of the frame's contents in this read.
inside == sz - HeadLength(HeadOf(buffer))

\* Two bytes are dropped, however long the frame is; push_more does it with
\* close frames too.
FrameSkipped ==
  /\ AtFrame
  /\ read_size(buffer) = -2 \/ (pc = "more" /\ read_size(buffer) = -3)
  /\ Drop(2)
  /\ UNCHANGED <<cvars, fvars, hvars, hash, queue, pc, cur, uc, out, reported>>

FrameCloses ==
  /\ pc = "frame" /\ read_size(buffer) = -3
  /\ reported' = reported \cup {cur}
  /\ Drop(sz) /\ Return
  /\ UNCHANGED <<cvars, fvars, hvars, hash, queue, out>>

FrameHeaderWaits ==
  /\ AtFrame /\ read_size(buffer) = -1
  /\ hash' = Linked(Uncomplete(cur, buffer))
  /\ structs' = structs + 1
  /\ Advance(sz) /\ Return
  /\ UNCHANGED <<cvars, fvars, astray, bufs, lost, queue, out, reported>>

FrameWaits ==
  /\ AtFrame /\ read_size(buffer) >= 0 /\ inside < read_size(buffer)
  /\ hash' = Linked(Started(cur, read_size(buffer), MaskOf(buffer),
                            SubSeq(buffer, sz - inside + 1, sz)))
  /\ structs' = structs + 1 /\ bufs' = bufs + 1
  /\ Advance(sz) /\ Return
  /\ UNCHANGED <<cvars, fvars, astray, lost, queue, out, reported>>

\* The contents of a frame that is complete in this read.
Package ==
  LET head == HeadLength(HeadOf(buffer))
  IN  decode_wsmask_data(SubSeq(buffer, head + 1, head + read_size(buffer)),
                         MaskOf(buffer), 0)

\* The read is one package: the caller gets it.
FrameAlone ==
  /\ pc = "frame" /\ read_size(buffer) >= 0 /\ inside = read_size(buffer)
  /\ Deliver(Package)
  /\ Advance(sz) /\ Return
  /\ UNCHANGED <<cvars, fvars, astray, hvars, hash, queue, reported>>

FramePushed ==
  /\ AtFrame /\ read_size(buffer) >= 0
  /\ inside > read_size(buffer) \/ (pc = "more" /\ inside = read_size(buffer))
  /\ queue' = push_data(queue, cur, Package)
  /\ bufs' = bufs + 1
  /\ Advance(sz - inside + read_size(buffer))
  /\ IF inside > read_size(buffer) THEN pc' = "more" /\ UNCHANGED <<cur, uc>> ELSE Return
  /\ UNCHANGED <<cvars, fvars, astray, structs, lost, hash, out, reported>>

(***************************************************************************)
(* pop, the end of a socket, clear.                                        *)
(***************************************************************************)
lpop ==
  /\ pc = "idle" /\ phase = "running" /\ ~queue_empty(queue)
  /\ out' = [out EXCEPT ![queue_front(queue).id] = Append(@, queue_front(queue).msg)]
  /\ queue' = queue_pop(queue)
  /\ bufs' = bufs - 1
  /\ UNCHANGED <<cvars, fvars, structs, lost, pos, astray, hash, pc, cur, uc, reported>>

\* How many of the struct uncompletes have a buffer.
Buffers(us) == Cardinality({u \in us : u.read >= 0})

close_uncomplete_bug(fd) ==
  IF Place(fd) = 0 THEN UNCHANGED <<hash, structs, bufs>>
  ELSE /\ hash' = Unlinked(fd)
       /\ structs' = structs - 1
       /\ bufs' = bufs

close_uncomplete(fd) ==
  IF Place(fd) = 0 THEN UNCHANGED <<hash, structs, bufs>>
  ELSE /\ hash' = Unlinked(fd)
       /\ structs' = structs - 1
       /\ bufs' = bufs - Buffers({Chain(fd)[Place(fd)]})

\* CLOSE or ERROR of the socket.
Close(fd) ==
  /\ pc = "idle" /\ phase = "running" /\ queue_empty(queue) /\ sock[fd] = "open"
  /\ sock' = [sock EXCEPT ![fd] = "closed"]
  /\ close_uncomplete(fd)
  /\ UNCHANGED <<cvars, astray, lost, arrived, phase, pos, queue, pc, cur, uc, out, reported>>

\* The struct uncompletes in the table: they differ in their sockets.
Waiting == UNION {ToSet(hash[h]) : h \in DOMAIN hash}

\* lclear, when the service that has the queue ends.
lclear ==
  /\ pc = "idle" /\ phase = "running"
  /\ phase' = "cleared"
  /\ hash' = [h \in DOMAIN hash |-> <<>>]
  /\ queue' = [queue EXCEPT !.head = 0, !.tail = 0]
  /\ structs' = structs - Cardinality(Waiting)
  /\ bufs' = bufs - Buffers(Waiting) - queue_size(queue)
  /\ UNCHANGED <<cvars, astray, lost, arrived, sock, pos, pc, cur, uc, out, reported>>

Filter ==
  \/ HeaderGoesOn \/ HeaderWaits \/ HeaderCloses \/ HeaderDone
  \/ FillPart \/ FillLast \/ FillMore
  \/ FrameSkipped \/ FrameCloses \/ FrameHeaderWaits \/ FrameWaits
  \/ FrameAlone \/ FramePushed

Next ==
  \/ \E fd \in Fds : \/ \E frame \in Frames : lsend(fd, frame)
                     \/ \E n \in 1..Len(stream[fd]) : Data(fd, n)
                     \/ Close(fd)
  \/ Filter \/ lpop \/ lclear

Spec == Init /\ [][Next]_vars

-----------------------------------------------------------------------------
ByteType ==
  [f : DOMAIN sent, j : Nat, keys : SUBSET (((DOMAIN sent) \X Nat) \X (0..(MaskLen - 1)))]
Bytestring == Seq(ByteType)
Struct == [id : Fds, header : Bytestring, read : Nat \cup {-1}, size : Nat,
           mask : ((DOMAIN sent) \X Nat) \cup {None}, buffer : Bytestring]

\* The types of the variables; what waits is not complete, and a socket
\* has one struct uncomplete at most, in the chain where it is looked for.
TypeOK ==
  /\ sent \in Seq([fd : Fds, frame : Frames, end : Nat])
  /\ \A f \in Fds : /\ stream[f] \in Bytestring
                    /\ arrived[f] \in 0..Len(stream[f]) /\ pos[f] \in 0..arrived[f]
  /\ sock \in [Fds -> {"open", "closed"}]
  /\ Ring(queue, [id : Fds, msg : Bytestring])
  /\ \A h \in DOMAIN hash : \A i \in DOMAIN hash[h] :
       LET u == hash[h][i]
       IN  /\ u \in Struct /\ u.read \in -1..(u.size - 1)
           /\ hash_fd[u.id] = h
           /\ \A k \in DOMAIN hash[h] \ {i} : hash[h][k].id # u.id
  /\ pc \in {"idle", "header", "fill", "frame", "more"}
  /\ cur \in Fds \cup {None} /\ uc \in Struct \cup {None}
  /\ reported \subseteq Fds /\ astray \subseteq Fds
  /\ phase \in {"running", "cleared"}

\* The packages netpack made for a socket: the caller has the first ones, the
\* others are in the ring.
Count(fd) ==
  Len(out[fd]) + IF queue_size(queue) > 0 /\ At(queue, 1).id = fd
                 THEN queue_size(queue) ELSE 0
Made(fd, i) ==
  IF i <= Len(out[fd]) THEN out[fd][i] ELSE At(queue, i - Len(out[fd])).msg

\* They are the data frames that end in the first n bytes of the socket, all
\* of them, decoded and in the order in which they were sent.
Delivered(fd, n) ==
  /\ Count(fd) <= Len(datas[fd])
  /\ \A i \in 1..Count(fd) : Made(fd, i) = Plain(datas[fd][i])
  /\ \A i \in 1..Len(datas[fd]) : i <= Count(fd) <=> sent[datas[fd][i]].end <= n

\* The packages of a socket that is astray: those sent before some frame that
\* filter does not read whole are right, whatever follows them.
LedAstray(fd) ==
  \E f \in DOMAIN sent :
    /\ sent[f].fd = fd /\ sent[f].frame.op # "data"
    /\ HeadLength(sent[f].frame) + sent[f].frame.len > 2
    /\ \A i \in 1..Len(datas[fd]) :
         datas[fd][i] < f => i <= Count(fd) /\ Made(fd, i) = Plain(datas[fd][i])

\* Between two calls, every package of which all bytes have come is with the
\* caller or in the ring, decoded, in the order of its socket, and no other
\* is; the ring has packages of one socket only.  The exception are sockets on
\* which a frame came that is no data and longer than two bytes, of which filter
\* dropped only the beginning: what was sent before that frame is still exact.
FramesExact ==
  pc = "idle" /\ phase = "running" =>
    /\ \A i \in 1..queue_size(queue) : At(queue, i).id = At(queue, 1).id
    /\ \A fd \in Fds : IF fd \in astray THEN LedAstray(fd) ELSE Delivered(fd, arrived[fd])

\* The struct uncomplete that filter has in hand.
Taken == IF pc \in {"header", "fill"} THEN {uc} ELSE {}

\* Every buffer is the caller's, in the ring or with a package being read, and
\* is freed once; a struct uncomplete is lost only in HeaderCloses.
HeapExact ==
  /\ structs = Cardinality(Waiting) + Cardinality(Taken) + lost
  /\ bufs = Buffers(Waiting) + Buffers(Taken) + queue_size(queue)
=============================================================================
