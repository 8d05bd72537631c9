------------------------------ MODULE Package -------------------------------
(***************************************************************************)
(* One package service (service_package.c) and what it sees: the socket,   *)
(* the timer, the services that ask it for packages, and the other end,    *)
(* which writes packages with send_out.  The stream is cut into reads at   *)
(* any place; the socket may close at any time.                            *)
(*                                                                         *)
(* The stream is never copied: msg, the pointer into the read being        *)
(* parsed, is the position pos in it, and sz is arrived - pos.  A handler  *)
(* with a loop runs in steps (pc), and no other handler runs meanwhile.    *)
(***************************************************************************)
EXTENDS RingQueue, Sequences

CONSTANTS Radix,    \* values of one header byte: 256 in the code
          Payload,  \* contents of the packages that are sent
          MaxSend,  \* bound: packages sent by the other end
          MaxReq    \* bound: requests

Byte == 0..(Radix - 1)

ASSUME RadixAssumption   == Radix \in Nat /\ Radix > 1
ASSUME PayloadAssumption == Payload \subseteq Seq(Byte)
ASSUME BoundAssumption   == MaxSend \in Nat /\ MaxReq \in Nat

VARIABLES
  stream, sent, starts,    \* bytes and packages written by the other end, and
                           \* the length of the stream before each package
  conn,       \* "new", "start", "open", "shut" (by us), "closed" (reported)
  arrived,    \* bytes of the stream given to the service
  \* struct package
  init, closed, recv, heartbeat, header_sz, header0, uncomplete_sz, uncomplete,
  request, response,
  \* the running handler, and its effects outside
  pc,         \* the loop that runs, "idle" between handlers
  pos,        \* bytes parsed
  timer,      \* a TIMEOUT is pending
  phase,      \* "running", "retired" (EXIT was called), "released"
  heap,       \* buffers of packages the service owns
  mallocs,    \* number of buffers allocated so far
  manager,    \* texts sent to the manager
  asked, answers, errors   \* requests and their outcomes

svars == <<stream, sent, starts>>
qvars == <<request, response>>
pvars == <<header_sz, header0, uncomplete_sz, uncomplete, pos, mallocs>>
lvars == <<init, closed, phase, manager>>
tvars == <<recv, heartbeat, timer>>
ovars == <<asked, answers, errors>>
vars  == <<svars, qvars, pvars, lvars, tvars, ovars, conn, arrived, pc, heap>>

\* package_create; package_init is the step that follows.
Init ==
  /\ stream = <<>> /\ sent = <<>> /\ starts = <<>>
  /\ conn = "new" /\ arrived = 0 /\ pos = 0
  /\ init = FALSE /\ closed = FALSE
  /\ recv = 0 /\ heartbeat = -1 /\ timer = FALSE
  /\ header_sz = 0 /\ header0 = 0
  /\ uncomplete_sz = -1 /\ uncomplete = [buf |-> 0, msg |-> <<>>]
  /\ request = queue_init /\ response = queue_init
  /\ pc = "idle" /\ phase = "running"
  /\ heap = {} /\ mallocs = 0 /\ manager = <<>>
  /\ asked = 0 /\ answers = <<>> /\ errors = <<>>

\* A handler can start: the service is there and runs no other.
Ready == conn # "new" /\ phase # "released" /\ pc = "idle"

\* A package on the wire: its length in two bytes, then its bytes.
Encode(p) == <<Len(p) \div Radix, Len(p) % Radix>> \o p

\* send_out of the other end; a package too long for the header is dropped.
send_out(p) ==
  /\ conn # "closed" /\ Len(sent) < MaxSend
  /\ Len(p) < Radix * Radix
  /\ sent' = Append(sent, p)
  /\ starts' = Append(starts, Len(stream))
  /\ stream' = stream \o Encode(p)
  /\ UNCHANGED <<qvars, pvars, lvars, tvars, ovars, conn, arrived, pc, heap>>

(***************************************************************************)
(* heartbeat.                                                              *)
(***************************************************************************)
\* The socket layer is asked to close the connection.
Shut(c) == IF c \in {"start", "open"} THEN "shut" ELSE c

Beat_bug(c) ==
  IF recv = heartbeat
  THEN /\ conn' = IF closed THEN c ELSE Shut(c)
       /\ timer' = FALSE /\ UNCHANGED <<recv, heartbeat>>
  ELSE /\ conn' = c
       /\ timer' = TRUE /\ heartbeat' = 0 /\ recv' = recv

\* Shut a connection from which nothing came since the last beat (before the
\* first one heartbeat is -1, which no count is).  c is its present state.
Beat(c) ==
  IF recv = heartbeat
  THEN /\ conn' = IF closed THEN c ELSE Shut(c)
       /\ timer' = FALSE /\ UNCHANGED <<recv, heartbeat>>
  ELSE /\ conn' = c
       /\ timer' = TRUE /\ heartbeat' = 0 /\ recv' = 0

package_init ==
  /\ conn = "new"
  /\ Beat("start")
  /\ UNCHANGED <<svars, qvars, pvars, lvars, ovars, arrived, pc, heap>>

Timer ==
  /\ Ready /\ timer
  /\ Beat(conn)
  /\ UNCHANGED <<svars, qvars, pvars, lvars, ovars, arrived, pc, heap>>

(***************************************************************************)
(* command.                                                                *)
(***************************************************************************)
\* skynet_send of a package hands its buffer over to the receiver.
Answer(req, resp) ==
  /\ answers' = Append(answers, [req |-> req, msg |-> resp.msg])
  /\ heap' = heap \ {resp.buf}

RequestReady ==
  /\ Ready /\ ~closed /\ asked < MaxReq
  /\ asked' = asked + 1
  /\ ~queue_empty(response)
  /\ Answer(asked', queue_front(response))
  /\ response' = queue_pop(response)
  /\ UNCHANGED <<svars, request, pvars, lvars, tvars, conn, arrived, pc, errors>>

RequestWaits ==
  /\ Ready /\ ~closed /\ asked < MaxReq
  /\ asked' = asked + 1
  /\ queue_empty(response)
  /\ request' = queue_push(request, asked')
  /\ UNCHANGED <<svars, response, pvars, lvars, tvars, conn, arrived, pc, heap,
                 answers, errors>>

\* The service is closed; or it is gone, and skynet answers in its place.
RequestRefused ==
  /\ (Ready /\ closed) \/ phase = "released"
  /\ asked < MaxReq
  /\ asked' = asked + 1
  /\ errors' = Append(errors, asked')
  /\ UNCHANGED <<svars, qvars, pvars, lvars, tvars, conn, arrived, pc, heap, answers>>

\* 'K': shutdown the connection.
Kick ==
  /\ Ready
  /\ conn' = Shut(conn)
  /\ UNCHANGED <<svars, qvars, pvars, lvars, tvars, ovars, arrived, pc, heap>>

(***************************************************************************)
(* socket_message.                                                         *)
(***************************************************************************)
\* The manager is told once whether the connection could be started.
Report(text) ==
  /\ init' = TRUE
  /\ manager' = IF init THEN manager ELSE Append(manager, text)
  /\ UNCHANGED <<closed, phase>>

Connect ==
  /\ Ready /\ conn = "start"
  /\ conn' = "open"
  /\ Report("SUCC")
  /\ UNCHANGED <<svars, qvars, pvars, tvars, ovars, arrived, pc, heap>>

\* CLOSE or ERROR, whoever closed the connection.
Close ==
  /\ Ready /\ conn \in {"start", "open", "shut"}
  /\ conn' = "closed"
  /\ Report("FAIL")
  /\ pc' = "last_response"
  /\ UNCHANGED <<svars, qvars, pvars, tvars, ovars, arrived, heap>>

\* A read of n bytes; one that was under way when we shut the socket counts.
Data(n) ==
  /\ Ready /\ init /\ conn \in {"open", "shut"}
  /\ arrived + n <= Len(stream)
  /\ arrived' = arrived + n
  /\ recv' = recv + 1
  /\ pc' = "new_message"
  /\ UNCHANGED <<svars, qvars, pvars, lvars, ovars, conn, heap, heartbeat, timer>>

(***************************************************************************)
(* new_message: the loop over the bytes of one read.                       *)
(***************************************************************************)
sz == arrived - pos

\* msg[i], counted from 0.
msg(i) == stream[pos + 1 + i]

\* memcpy of n bytes of the read to where the package being read goes on.
Filled(n) ==
  LET have == Len(uncomplete.msg) - uncomplete_sz
  IN  [buf |-> uncomplete.buf,
       msg |-> [j \in 1..Len(uncomplete.msg) |->
                  IF have < j /\ j <= have + n THEN msg(j - have - 1)
                                               ELSE uncomplete.msg[j]]]

\* The rest of the package is in this read.
Complete ==
  /\ pc = "new_message" /\ uncomplete_sz >= 0
  /\ sz >= uncomplete_sz
  /\ response' = queue_push(response, Filled(uncomplete_sz))
  /\ uncomplete' = Filled(uncomplete_sz)
  /\ pos' = pos + uncomplete_sz
  /\ uncomplete_sz' = -1
  /\ UNCHANGED <<svars, request, lvars, tvars, ovars, conn, arrived, pc, heap,
                 header_sz, header0, mallocs>>

Incomplete_bug ==
  /\ pc = "new_message" /\ uncomplete_sz >= 0
  /\ sz < uncomplete_sz
  /\ uncomplete' = Filled(sz)
  /\ uncomplete_sz' = uncomplete_sz - sz
  /\ pos' = arrived
  /\ pc' = "idle"
  /\ UNCHANGED <<svars, qvars, lvars, tvars, ovars, conn, arrived, heap,
                 header_sz, header0, mallocs>>

\* It is not; new_message returns and response follows.
Incomplete ==
  /\ pc = "new_message" /\ uncomplete_sz >= 0
  /\ sz < uncomplete_sz
  /\ uncomplete' = Filled(sz)
  /\ uncomplete_sz' = uncomplete_sz - sz
  /\ pos' = arrived
  /\ pc' = "response"
  /\ UNCHANGED <<svars, qvars, lvars, tvars, ovars, conn, arrived, heap,
                 header_sz, header0, mallocs>>

ReadEnd ==
  /\ pc = "new_message" /\ uncomplete_sz < 0
  /\ sz <= 0
  /\ pc' = "response"
  /\ UNCHANGED <<svars, qvars, pvars, lvars, tvars, ovars, conn, arrived, heap>>

\* The read ends between the two bytes of a header.
HalfHeader ==
  /\ pc = "new_message" /\ uncomplete_sz < 0
  /\ sz = 1 /\ header_sz = 0
  /\ header0' = msg(0)
  /\ header_sz' = 1
  /\ pos' = pos + 1
  /\ pc' = "response"
  /\ UNCHANGED <<svars, qvars, lvars, tvars, ovars, conn, arrived, heap,
                 uncomplete_sz, uncomplete, mallocs>>

\* A package whose header is hi, lo begins: a new buffer of that size.
Begin(hi, lo) ==
  /\ mallocs' = mallocs + 1
  /\ heap' = heap \cup {mallocs + 1}
  /\ uncomplete' = [buf |-> mallocs + 1,
                    msg |-> [j \in 1..(hi * Radix + lo) |-> Garbage]]
  /\ uncomplete_sz' = hi * Radix + lo

Header ==
  /\ pc = "new_message" /\ uncomplete_sz < 0
  /\ \/ /\ sz > 1 /\ header_sz = 0
        /\ header0' = msg(0)
        /\ Begin(msg(0), msg(1))
        /\ pos' = pos + 2
     \/ /\ sz > 0 /\ header_sz # 0
        /\ Begin(header0, msg(0))
        /\ pos' = pos + 1
        /\ UNCHANGED header0
  /\ header_sz' = 0
  /\ UNCHANGED <<svars, qvars, lvars, tvars, ovars, conn, arrived, pc>>

(***************************************************************************)
(* response, and service_exit after the last one.                          *)
(***************************************************************************)
Respond ==
  /\ pc \in {"response", "last_response"}
  /\ ~queue_empty(request) /\ ~queue_empty(response)
  /\ Answer(queue_front(request), queue_front(response))
  /\ request' = queue_pop(request)
  /\ response' = queue_pop(response)
  /\ UNCHANGED <<svars, pvars, lvars, tvars, conn, arrived, pc, asked, errors>>

ResponseEnd ==
  /\ pc \in {"response", "last_response"}
  /\ queue_empty(request) \/ queue_empty(response)
  /\ pc' = IF pc = "response" THEN "idle" ELSE "service_exit"
  /\ closed' = (closed \/ pc = "last_response")
  /\ UNCHANGED <<svars, qvars, pvars, tvars, ovars, conn, arrived, heap,
                 init, phase, manager>>

\* An error to everyone who waits.
ExitError ==
  /\ pc = "service_exit" /\ ~queue_empty(request)
  /\ errors' = Append(errors, queue_front(request))
  /\ request' = queue_pop(request)
  /\ UNCHANGED <<svars, response, pvars, lvars, tvars, conn, arrived, pc, heap,
                 asked, answers>>

ExitEnd ==
  /\ pc = "service_exit" /\ queue_empty(request)
  /\ manager' = Append(manager, "CLOSED")
  /\ phase' = "retired"
  /\ pc' = "idle"
  /\ UNCHANGED <<svars, qvars, pvars, tvars, ovars, conn, arrived, heap, init, closed>>

\* The buffers of packages nobody asked for.
Unsent == {resp.buf : resp \in Contents(response)}

Freed_bug == Unsent

\* The buffers package_release frees.
Freed == Unsent \cup IF uncomplete_sz >= 0 THEN {uncomplete.buf} ELSE {}

\* package_release, once the messages of this dispatch are handled.
Release ==
  /\ phase = "retired" /\ pc = "idle"
  /\ phase' = "released"
  /\ timer' = FALSE
  /\ heap' = heap \ Freed
  /\ response' = [response EXCEPT !.head = response.tail]
  /\ UNCHANGED <<svars, request, pvars, ovars, conn, arrived, pc, recv, heartbeat,
                 init, closed, manager>>

Handler ==
  \/ Complete \/ Incomplete \/ ReadEnd \/ HalfHeader \/ Header
  \/ Respond \/ ResponseEnd \/ ExitError \/ ExitEnd

Next ==
  \/ \E p \in Payload : send_out(p)
  \/ package_init \/ Timer \/ Connect \/ Close \/ Kick \/ Release
  \/ \E n \in 1..Len(stream) : Data(n)
  \/ RequestReady \/ RequestWaits \/ RequestRefused
  \/ Handler

Spec == Init /\ [][Next]_vars

\* A handler that has begun ends; the timer fires; the socket layer reports
\* the close it was asked for; a retired service is released.  Nothing is
\* assumed of the other end, of the network or of those who ask.
FairSpec ==
  /\ Spec
  /\ WF_vars(package_init) /\ WF_vars(Handler) /\ WF_vars(Timer)
  /\ WF_vars(Close /\ conn = "shut") /\ WF_vars(Release)

-----------------------------------------------------------------------------
Response == [buf : Nat, msg : Seq(Byte \cup {Garbage})]

\* The types of the variables; positions never run past what they index.
TypeOK ==
  /\ stream \in Seq(Byte) /\ sent \in Seq(Payload) /\ starts \in Seq(Nat)
  /\ arrived \in 0..Len(stream) /\ pos \in 0..arrived
  /\ conn \in {"new", "start", "open", "shut", "closed"}
  /\ init \in BOOLEAN /\ closed \in BOOLEAN /\ timer \in BOOLEAN
  /\ recv \in Nat /\ heartbeat \in {-1, 0}
  /\ header_sz \in 0..1 /\ header0 \in Byte
  /\ uncomplete \in Response
  /\ uncomplete_sz \in -1..Len(uncomplete.msg)
  /\ Ring(request, Nat) /\ Ring(response, Response)
  /\ pc \in {"idle", "new_message", "response", "last_response", "service_exit"}
  /\ phase \in {"running", "retired", "released"}
  /\ heap \subseteq Nat /\ mallocs \in Nat
  /\ manager \in Seq({"SUCC", "FAIL", "CLOSED"})
  /\ asked \in Nat /\ errors \in Seq(Nat)
  /\ answers \in Seq([req : Nat, msg : Seq(Byte \cup {Garbage})])

\* The assertion of command: between handlers, packages and requests never
\* wait at the same time.
OneQueueEmpty == pc = "idle" => queue_empty(request) \/ queue_empty(response)

\* Every buffer the service owns is one it will hand over or free: it is
\* queued or being filled, and none is left after package_release.
HeapExact == heap = IF phase = "released" THEN {} ELSE Freed

\* The service implements PackageChannel: the n-th request gets the n-th
\* package, byte for byte, however the stream is cut into reads.
Channel == INSTANCE PackageChannel
ImplementsChannel == Channel!CSpec

\* Every request is answered, with a package or with an error: a silent
\* connection is shut by heartbeat, and service_exit answers all who wait.
RequestResolved ==
  \A r \in 1..MaxReq : asked >= r ~> Len(answers) + Len(errors) >= r
=============================================================================
