---------------------------- MODULE LoginSession ----------------------------
(***************************************************************************)
(* The login server: login_server.lua (the master, one service) and its    *)
(* slaves, login_slave.lua.  A connection is given to a slave in turn,     *)
(* which reads one request, checks the account and has the master number a *)
(* session; the session is stored by the slave that its number selects,    *)
(* until the game server presents it or it expires.                        *)
(*                                                                         *)
(* A handler that calls another service or waits for a socket yields.  An  *)
(* action is what one coroutine does between two yields.  The requests in  *)
(* flight are the coroutines that wait for them; answers to different      *)
(* coroutines may overtake each other.                                     *)
(***************************************************************************)
EXTENDS Integers, FiniteSets

CONSTANTS Conns,       \* sockets accepted by login_server
          Accounts,    \* ids of the accounts with a password
          Travelers,   \* ids uuid.gen makes, each once
          Gates,       \* logins of the game server, one cmd_server_verify each
          NSlave,      \* conf.slave
          MaxSession,  \* bound: sessions the master numbers
          Tokens,      \* what a client may present as a token
          Token,       \* the token of every session, "1"
          None         \* Lua's nil

Ids == Accounts \cup Travelers
Sessions == 1..MaxSession
Slaves == 1..NSlave

ASSUME SlaveAssumption == NSlave \in Nat \ {0}
ASSUME SessionAssumption == MaxSession \in Nat
ASSUME NoneAssumption == /\ None \notin Accounts \cup Travelers \cup (1..MaxSession)
                         /\ None \notin Tokens /\ Token \in Tokens
ASSUME TravelerAssumption == Accounts \cap Travelers = {}

VARIABLES
  balance,        \* master: the slave of the next connection
  session_id,     \* master: the next session number
  auth,           \* coroutine of cmd_slave_auth for a connection
  connection,     \* slave: connection[fd] is present
  sock,           \* the socket: none, open, shut (closed by the slave) or gone
  atimer,         \* the auth_timeout timer: none, set, closing, fired
  saved_session,  \* per slave and session: the stored record
  etimer,         \* per session, its expiry timer: none, set, fired
  told,           \* the session number the client was sent
  ver,            \* coroutine of cmd_server_verify
  owner           \* auxiliary: the account a session was numbered for

masterVars == <<balance, session_id>>
connVars   == <<connection, sock, atimer>>
saveVars   == <<saved_session, etimer, owner>>
vars == <<masterVars, auth, connVars, saveVars, told, ver>>

AuthPcs == {"none", "accepted", "read", "request", "password", "traveler", "create",
            "center", "save", "store", "stored", "close", "done", "dead"}
AuthRec == [pc : AuthPcs, id : Ids \cup {None}, session : Sessions \cup {None}]
NoAuth  == [pc |-> "none", id |-> None, session |-> None]

SavedRec == [id : Ids, token : {Token, None}]
NoSaved  == [id |-> None, token |-> None]

VerRec == [pc : {"none", "call", "done"}, session : Sessions \cup {None},
           token : Tokens \cup {None}, id : Ids \cup {None}]
NoVer   == [pc |-> "none", session |-> None, token |-> None, id |-> None]
Refused == [pc |-> "done", session |-> None, token |-> None, id |-> None]

TypeOK ==
  /\ balance \in Slaves
  /\ session_id \in 1..(MaxSession + 1)
  /\ auth \in [Conns -> AuthRec]
  /\ connection \in [Conns -> BOOLEAN]
  /\ sock \in [Conns -> {"none", "open", "shut", "gone"}]
  /\ atimer \in [Conns -> {"none", "set", "closing", "fired"}]
  /\ saved_session \in [Slaves -> [Sessions -> SavedRec \cup {NoSaved}]]
  /\ etimer \in [Sessions -> {"none", "set", "fired"}]
  /\ told \in [Conns -> Sessions \cup {None}]
  /\ ver \in [Gates -> VerRec]
  /\ owner \in [Sessions -> Ids \cup {None}]

Init ==
  /\ balance = 1
  /\ session_id = 1
  /\ auth = [c \in Conns |-> NoAuth]
  /\ connection = [c \in Conns |-> FALSE]
  /\ sock = [c \in Conns |-> "none"]
  /\ atimer = [c \in Conns |-> "none"]
  /\ saved_session = [s \in Slaves |-> [n \in Sessions |-> NoSaved]]
  /\ etimer = [n \in Sessions |-> "none"]
  /\ told = [c \in Conns |-> None]
  /\ ver = [g \in Gates |-> NoVer]
  /\ owner = [n \in Sessions |-> None]

Goto(c, pc) == auth' = [auth EXCEPT ![c].pc = pc]

\* The account is known: ask the master for a session.
AskSession(c, i) == auth' = [auth EXCEPT ![c] = [pc |-> "save", id |-> i, session |-> None]]

-----------------------------------------------------------------------------
(* A connection.                                                           *)

NextSlave_bug(b) == IF b > NSlave THEN 1 ELSE b + 1

NextSlave(b) == IF b + 1 > NSlave THEN 1 ELSE b + 1

\* The accept callback of the master: take slave[balance], then log (yields).
\* Which slave it is does not matter: connection is keyed by the socket.
Accept(c) ==
  /\ auth[c].pc = "none"
  /\ Goto(c, "accepted")
  /\ balance' = NextSlave(balance)
  /\ sock' = [sock EXCEPT ![c] = "open"]
  /\ UNCHANGED <<session_id, connection, atimer, saveVars, told, ver>>

\* cmd_slave_auth up to the first read.
SlaveAuth(c) ==
  /\ auth[c].pc = "accepted"
  /\ Goto(c, "read")
  /\ connection' = [connection EXCEPT ![c] = TRUE]
  /\ atimer' = [atimer EXCEPT ![c] = "set"]
  /\ UNCHANGED <<masterVars, sock, saveVars, told, ver>>

\* The client goes away at any time.
ClientClose(c) ==
  /\ sock[c] = "open"
  /\ sock' = [sock EXCEPT ![c] = "gone"]
  /\ UNCHANGED <<masterVars, auth, connection, atimer, saveVars, told, ver>>

\* read_msg: a request, or one that does not decode.  The error ends
\* cmd_slave_auth and leaves connection[fd] to the timer.
ReadMsg(c) ==
  /\ auth[c].pc = "read" /\ sock[c] = "open"
  /\ Goto(c, "request") \/ Goto(c, "dead")
  /\ UNCHANGED <<masterVars, connVars, saveVars, told, ver>>

\* read_msg when the socket closes: the same error.
ReadError(c) ==
  /\ auth[c].pc = "read" /\ sock[c] # "open"
  /\ Goto(c, "dead")
  /\ UNCHANGED <<masterVars, connVars, saveVars, told, ver>>

\* The branches of cmd_slave_auth on the request.  An unknown name ends the
\* handler; bad arguments are answered with session -1.
Dispatch(c) ==
  /\ auth[c].pc = "request"
  /\ \E pc \in {"password", "close", "traveler", "center", "dead"} : Goto(c, pc)
  /\ UNCHANGED <<masterVars, connVars, saveVars, told, ver>>

\* AuthPassword answered: the id of the account, or nil and session -1.
AuthPassword(c) ==
  /\ auth[c].pc = "password"
  /\ \/ \E i \in Accounts : AskSession(c, i)
     \/ Goto(c, "close")
  /\ UNCHANGED <<masterVars, connVars, saveVars, told, ver>>

\* GetUserId(TravelerAccount) answered; the account is created if missing.
TravelerKnown(c) ==
  /\ auth[c].pc = "traveler"
  /\ \/ Goto(c, "create")
     \/ \E i \in Travelers : (\A d \in Conns : auth[d].id # i) /\ AskSession(c, i)
  /\ UNCHANGED <<masterVars, connVars, saveVars, told, ver>>

TravelerCreated(c) ==
  /\ auth[c].pc = "create"
  /\ \E i \in Travelers : (\A d \in Conns : auth[d].id # i) /\ AskSession(c, i)
  /\ UNCHANGED <<masterVars, connVars, saveVars, told, ver>>

\* login_user_center: the user center refuses and the socket is closed, or it
\* agrees and the database, which has no cmd_user_center_loadInfo, answers
\* nil: indexing it ends the forked coroutine.
UserCenter(c) ==
  /\ auth[c].pc = "center"
  /\ Goto(c, "close") \/ Goto(c, "dead")
  /\ UNCHANGED <<masterVars, connVars, saveVars, told, ver>>

-----------------------------------------------------------------------------
(* A session.                                                              *)

SaveSlave(n) == (n % NSlave) + 1

VerifySlave_bug(n) == ((n - 1) % NSlave) + 1

VerifySlave(n) == (n % NSlave) + 1

NextSession_bug(n) == n

NextSession(n) == n + 1

\* cmd_server_save_session up to its call of the slave.
ServerSaveSession(c) ==
  /\ auth[c].pc = "save" /\ session_id <= MaxSession
  /\ auth' = [auth EXCEPT ![c] = [pc |-> "store", id |-> auth[c].id, session |-> session_id]]
  /\ session_id' = NextSession(session_id)
  /\ UNCHANGED <<balance, connVars, saveVars, told, ver>>

\* cmd_slave_save_session: store it and set its expiry timer.
SlaveSaveSession(c) ==
  /\ auth[c].pc = "store"
  /\ LET n == auth[c].session IN
     /\ saved_session' = [saved_session EXCEPT ![SaveSlave(n)][n] =
                            [id |-> auth[c].id, token |-> Token]]
     /\ etimer' = [etimer EXCEPT ![n] = "set"]
     /\ owner' = [owner EXCEPT ![n] = auth[c].id]
  /\ Goto(c, "stored")
  /\ UNCHANGED <<masterVars, connVars, told, ver>>

Sent_bug(c) == told

\* send_msg reaches the client if the socket is still there.
Sent(c) == IF sock[c] = "open" THEN [told EXCEPT ![c] = auth[c].session] ELSE told

\* The session is sent; close_fd follows.
SendSession(c) ==
  /\ auth[c].pc = "stored"
  /\ told' = Sent(c)
  /\ Goto(c, "close")
  /\ UNCHANGED <<masterVars, connVars, saveVars, ver>>

\* socket.close, which yields, and the rest of close_fd.
Shut(c) == sock' = [sock EXCEPT ![c] = IF @ = "open" THEN "shut" ELSE @]

CloseFd(c) ==
  /\ auth[c].pc = "close"
  /\ \/ connection[c] /\ sock[c] = "open" /\ Shut(c) /\ UNCHANGED <<connection, auth>>
     \/ /\ ~connection[c] \/ sock[c] # "open"
        /\ connection' = [connection EXCEPT ![c] = FALSE]
        /\ Goto(c, "done")
        /\ UNCHANGED sock
  /\ UNCHANGED <<masterVars, atimer, saveVars, told, ver>>

TimerCloses_bug(c) == FALSE

\* connection[fd] == addr: the login has not finished.
TimerCloses(c) == connection[c]

AuthTimeout(c) ==
  /\ \/ /\ atimer[c] = "set"
        /\ \/ TimerCloses(c) /\ atimer' = [atimer EXCEPT ![c] = "closing"] /\ Shut(c)
           \/ ~TimerCloses(c) /\ atimer' = [atimer EXCEPT ![c] = "fired"] /\ UNCHANGED sock
        /\ UNCHANGED connection
     \/ /\ atimer[c] = "closing"
        /\ atimer' = [atimer EXCEPT ![c] = "fired"]
        /\ connection' = [connection EXCEPT ![c] = FALSE]
        /\ UNCHANGED sock
  /\ UNCHANGED <<masterVars, auth, saveVars, told, ver>>

Forget_bug(n) == saved_session

\* The expiry timer forgets the session, used or not.
Forget(n) == [saved_session EXCEPT ![SaveSlave(n)][n] = NoSaved]

SessionExpire(n) ==
  /\ etimer[n] = "set"
  /\ etimer' = [etimer EXCEPT ![n] = "fired"]
  /\ saved_session' = Forget(n)
  /\ UNCHANGED <<masterVars, auth, connVars, told, ver, owner>>

\* auth_handler of gamed calls cmd_server_verify with what a client sent;
\* do_login lets no request without a token through.
ServerVerify(g, n, t) ==
  /\ ver[g].pc = "none"
  /\ ver' = [ver EXCEPT ![g] = [pc |-> "call", session |-> n, token |-> t, id |-> None]]
  /\ UNCHANGED <<masterVars, auth, connVars, saveVars, told>>

Consume_bug(t) == t

\* t.token = nil
Consume(t) == [id |-> t.id, token |-> None]

\* cmd_slave_verify: an unknown session and a wrong token are errors, which
\* the dispatcher answers with nil.
SlaveVerify(g) ==
  /\ ver[g].pc = "call"
  /\ LET n == ver[g].session
         s == VerifySlave(n)
         t == saved_session[s][n] IN
     \/ /\ t # NoSaved /\ t.token = ver[g].token
        /\ saved_session' = [saved_session EXCEPT ![s][n] = Consume(t)]
        /\ ver' = [ver EXCEPT ![g] = [pc |-> "done", session |-> n, token |-> Token, id |-> t.id]]
     \/ /\ t = NoSaved \/ t.token # ver[g].token
        /\ ver' = [ver EXCEPT ![g] = Refused]
        /\ UNCHANGED saved_session
  /\ UNCHANGED <<masterVars, auth, connVars, etimer, owner, told>>

-----------------------------------------------------------------------------
Login(c) ==
  \/ SlaveAuth(c) \/ ReadError(c) \/ Dispatch(c) \/ AuthPassword(c) \/ TravelerKnown(c)
  \/ TravelerCreated(c) \/ UserCenter(c) \/ ServerSaveSession(c) \/ SlaveSaveSession(c)
  \/ SendSession(c) \/ CloseFd(c)

Next ==
  \/ \E c \in Conns : Accept(c) \/ ReadMsg(c) \/ ClientClose(c) \/ Login(c) \/ AuthTimeout(c)
  \/ \E n \in Sessions : SessionExpire(n)
  \/ \E g \in Gates : \/ SlaveVerify(g)
                      \/ \E n \in Sessions, t \in Tokens : ServerVerify(g, n, t)

Spec == Init /\ [][Next]_vars

-----------------------------------------------------------------------------
(* Properties.                                                             *)

\* The session number a client was sent is good: until it expires or is used,
\* the slave that cmd_server_verify will ask holds it, with the account that
\* this very connection logged in to, although another slave may have handled
\* the connection and the number was passed through the master.
UsableSession ==
  \A c \in Conns : told[c] # None =>
    LET n == told[c] IN
    \/ etimer[n] = "fired"
    \/ saved_session[VerifySlave(n)][n] = [id |-> auth[c].id, token |-> Token]
    \/ \E g \in Gates : ver[g].session = n /\ ver[g].id = auth[c].id

\* cmd_server_verify lets a login in for the account that some connection
\* authenticated, on the session numbered for it, and never two logins on one
\* session, however verifications, expiry and other logins interleave.
AdmitsOwnerOnce ==
  \A g \in Gates : ver[g].id # None =>
    /\ \E c \in Conns : auth[c].session = ver[g].session /\ auth[c].id = ver[g].id
    /\ \A h \in Gates : ver[h].id # None /\ ver[h].session = ver[g].session => h = g

\* The abstract specification: sessions are tickets.
TicketOf(n) == IF etimer[n] = "none" THEN "none"
               ELSE IF etimer[n] = "fired" THEN "expired"
               ELSE IF saved_session[SaveSlave(n)][n].token = Token THEN "valid" ELSE "used"

T == INSTANCE Tickets WITH
       ticket <- [n \in Sessions |-> TicketOf(n)],
       admitted <- [g \in Gates |->
                      IF ver[g].id = None THEN [id |-> None, session |-> None]
                      ELSE [id |-> ver[g].id, session |-> ver[g].session]]

\* The login server implements Tickets: a session is issued once, redeemed at
\* most once and before it expires, by the account it was issued for.
ImplementsTickets == T!Spec

-----------------------------------------------------------------------------
(* Liveness.  The services, the database and the timers make progress; the *)
(* clients need not.                                                       *)

Fairness ==
  /\ \A c \in Conns : WF_vars(Login(c)) /\ WF_vars(AuthTimeout(c))
  /\ \A n \in Sessions : WF_vars(SessionExpire(n))
  /\ \A g \in Gates : WF_vars(SlaveVerify(g))

FairSpec == Spec /\ Fairness

\* Every connection entry of a slave is removed again, by close_fd or, for a
\* handler that an error ended, by the auth_timeout timer.
ConnectionReleased == \A c \in Conns : connection[c] ~> ~connection[c]

\* Every session is forgotten in the end: the table does not grow for ever.
SessionForgotten ==
  \A n \in Sessions : session_id > n ~> saved_session[SaveSlave(n)][n] = NoSaved
                                        /\ etimer[n] = "fired"

\* A client whose account was accepted while its socket was open receives a
\* session, unless it goes away or the auth_timeout timer finds the login
\* unfinished and cuts it off.  A slave may have to call the master that calls
\* the same slave back.
SessionDelivered ==
  \A c \in Conns : auth[c].pc = "save" /\ sock[c] = "open" ~>
                     told[c] # None \/ sock[c] = "gone" \/ atimer[c] = "closing"
=============================================================================
