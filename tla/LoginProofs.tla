---------------------------- MODULE LoginProofs ----------------------------
(***************************************************************************)
(* Proofs about LoginSession, for any number of connections, slaves,       *)
(* sessions and logins: its types, that a session admits its owner once,   *)
(* that a client was sent a session it can use, and that the login server  *)
(* implements Tickets.                                                     *)
(***************************************************************************)
EXTENDS LoginSession, TLAPS

\* A connection gets its session after its id, and the master has not given
\* that number away yet; numbers are not shared.
Numbered ==
  /\ \A c \in Conns :
       /\ auth[c].session # None =>
            /\ auth[c].session < session_id /\ auth[c].id \in Ids
            /\ auth[c].pc \in {"store", "stored", "close", "done"}
       /\ auth[c].pc = "save" => auth[c].id \in Ids
       /\ auth[c].pc = "store" => auth[c].session # None /\ etimer[auth[c].session] = "none"
       /\ auth[c].pc = "stored" => auth[c].session # None
  /\ \A c, d \in Conns : auth[c].session # None /\ auth[c].session = auth[d].session => c = d

\* A session is stored, for its owner, exactly while its timer is set.
Stored ==
  \A n \in Sessions :
    /\ n >= session_id => etimer[n] = "none"
    /\ etimer[n] = "none" => owner[n] = None
    /\ etimer[n] # "none" => owner[n] \in Ids
    /\ etimer[n] = "set" => /\ saved_session[SaveSlave(n)][n] \in SavedRec
                            /\ saved_session[SaveSlave(n)][n].id = owner[n]
    /\ etimer[n] # "set" => saved_session[SaveSlave(n)][n] = NoSaved

\* The owner of a session is the account of the connection it was made for.
Owned ==
  \A n \in Sessions : owner[n] # None =>
    \E c \in Conns : auth[c].session = n /\ auth[c].id = owner[n]

\* A login that was let in has consumed the session, alone.
Consumed ==
  /\ \A g \in Gates :
       /\ ver[g].pc # "done" => ver[g].id = None
       /\ ver[g].pc = "call" => ver[g].session \in Sessions /\ ver[g].token \in Tokens
       /\ ver[g].id # None =>
            /\ ver[g].session \in Sessions /\ ver[g].id = owner[ver[g].session]
            /\ saved_session[SaveSlave(ver[g].session)][ver[g].session].token = None
            /\ etimer[ver[g].session] # "none"
  /\ \A g, h \in Gates :
       ver[g].id # None /\ ver[h].id # None /\ ver[g].session = ver[h].session => g = h

Inv == TypeOK /\ Numbered /\ Stored /\ Owned /\ Consumed

-----------------------------------------------------------------------------
\* Both routes of login_server name a slave, the same one.
LEMMA RouteFact ==
  \A n \in Sessions : SaveSlave(n) \in Slaves /\ VerifySlave(n) = SaveSlave(n)
<1> TAKE n \in Sessions
<1>1. n % NSlave \in 0..(NSlave - 1)
  BY SlaveAssumption, SessionAssumption DEF Sessions
<1> QED
  BY <1>1, SlaveAssumption DEF SaveSlave, VerifySlave, Slaves

\* nil is no account, no session, and no token.
LEMMA NoneFact == None \notin Ids /\ None \notin Sessions /\ None \notin Tokens /\ Token \in Tokens
  BY NoneAssumption DEF Ids, Sessions

LEMMA InitInv == Init => Inv
<1> SUFFICES ASSUME Init PROVE Inv
  OBVIOUS
<1> USE NoneFact, RouteFact, SlaveAssumption, SessionAssumption
<1>1. TypeOK
  BY DEF Init, TypeOK, NoAuth, AuthRec, AuthPcs, NoVer, VerRec, Slaves
<1>2. Numbered /\ Owned /\ Consumed
  BY DEF Init, Numbered, Owned, Consumed, NoAuth, NoVer
<1>3. Stored
  BY DEF Init, Stored, NoSaved
<1> QED
  BY <1>1, <1>2, <1>3 DEF Inv

-----------------------------------------------------------------------------
\* A step of a connection that neither numbers nor stores a session.
Benign ==
  /\ UNCHANGED <<session_id, saveVars, ver>>
  /\ \A c \in Conns :
       /\ auth'[c].session = auth[c].session
       /\ auth[c].session # None =>
            /\ auth'[c].id = auth[c].id
            /\ auth'[c].pc \in {"store", "stored", "close", "done"}
       /\ auth'[c].pc = "save" => auth'[c].id \in Ids
       /\ auth'[c].pc = "store" <=> auth[c].pc = "store"
       /\ auth'[c].pc = "stored" => auth[c].pc = "stored"

LEMMA BenignStep == Inv /\ TypeOK' /\ Benign => Inv'
<1> SUFFICES ASSUME Inv, TypeOK', Benign PROVE Inv'
  OBVIOUS
<1>1. Numbered'
  BY DEF Inv, Numbered, Benign, saveVars
<1>2. Stored'
  BY DEF Inv, Stored, Benign, saveVars
<1>3. Owned'
  BY NoneFact DEF Inv, Owned, Benign, saveVars
<1>4. Consumed'
  BY DEF Inv, Consumed, Benign, saveVars
<1> QED
  BY <1>1, <1>2, <1>3, <1>4 DEF Inv

\* What the two helpers do to the record of a connection.
LEMMA GotoFact ==
  ASSUME TypeOK, NEW c \in Conns, NEW pc \in AuthPcs, Goto(c, pc)
  PROVE  /\ auth' \in [Conns -> AuthRec]
         /\ auth'[c].pc = pc /\ auth'[c].id = auth[c].id /\ auth'[c].session = auth[c].session
         /\ \A d \in Conns \ {c} : auth'[d] = auth[d]
<1>1. auth[c] \in AuthRec
  BY DEF TypeOK
<1>2. /\ [auth[c] EXCEPT !.pc = pc] \in AuthRec
      /\ [auth[c] EXCEPT !.pc = pc].pc = pc
      /\ [auth[c] EXCEPT !.pc = pc].id = auth[c].id
      /\ [auth[c] EXCEPT !.pc = pc].session = auth[c].session
  BY <1>1 DEF AuthRec
<1> QED
  BY <1>2, Zenon DEF Goto, TypeOK

LEMMA AskFact ==
  ASSUME TypeOK, NEW c \in Conns, NEW i \in Ids, AskSession(c, i)
  PROVE  /\ auth' \in [Conns -> AuthRec]
         /\ auth'[c].pc = "save" /\ auth'[c].id = i /\ auth'[c].session = None
         /\ \A d \in Conns \ {c} : auth'[d] = auth[d]
  BY DEF AskSession, TypeOK, AuthRec, AuthPcs

\* A step that only moves the coroutine of one connection, or lets it ask for
\* a session, is benign.
LEMMA MoveFact ==
  ASSUME Inv, NEW c \in Conns, UNCHANGED <<session_id, saveVars, ver>>,
         \/ auth' = auth
         \/ \E pc \in AuthPcs \ {"save", "store", "stored"} :
              /\ Goto(c, pc)
              /\ \/ auth[c].pc \in AuthPcs \ {"store", "stored", "close", "done"}
                 \/ auth[c].pc # "store" /\ pc \in {"close", "done"}
         \/ \E i \in Ids : /\ AskSession(c, i)
                           /\ auth[c].pc \in {"password", "traveler", "create"}
  PROVE  auth' \in [Conns -> AuthRec] /\ Benign
<1>1. CASE auth' = auth
  BY <1>1, NoneFact DEF Inv, TypeOK, Numbered, Benign
<1>2. ASSUME NEW pc \in AuthPcs \ {"save", "store", "stored"}, Goto(c, pc),
             \/ auth[c].pc \in AuthPcs \ {"store", "stored", "close", "done"}
             \/ auth[c].pc # "store" /\ pc \in {"close", "done"}
      PROVE  auth' \in [Conns -> AuthRec] /\ Benign
  <2>1. /\ auth' \in [Conns -> AuthRec]
        /\ auth'[c].pc = pc /\ auth'[c].id = auth[c].id /\ auth'[c].session = auth[c].session
        /\ \A d \in Conns \ {c} : auth'[d] = auth[d]
    BY <1>2, GotoFact DEF Inv
  <2> QED
    BY <1>2, <2>1 DEF Inv, Numbered, Benign
<1>3. ASSUME NEW i \in Ids, AskSession(c, i),
             auth[c].pc \in {"password", "traveler", "create"}
      PROVE  auth' \in [Conns -> AuthRec] /\ Benign
  <2>1. /\ auth' \in [Conns -> AuthRec]
        /\ auth'[c].pc = "save" /\ auth'[c].id = i /\ auth'[c].session = None
        /\ \A d \in Conns \ {c} : auth'[d] = auth[d]
    BY <1>3, AskFact DEF Inv
  <2> QED
    BY <1>3, <2>1 DEF Inv, Numbered, Benign
<1> QED
  BY <1>1, <1>2, <1>3

LEMMA AcceptStep == \A c \in Conns : Inv /\ Accept(c) => TypeOK' /\ Benign
<1> SUFFICES ASSUME NEW c \in Conns, Inv, Accept(c) PROVE TypeOK' /\ Benign
  OBVIOUS
<1>1. auth' \in [Conns -> AuthRec] /\ Benign
  BY MoveFact DEF Accept, masterVars, connVars, saveVars, AuthPcs
<1>2. balance' \in Slaves
  BY SlaveAssumption DEF Inv, TypeOK, Accept, NextSlave, Slaves
<1>3. TypeOK'
  BY <1>1, <1>2 DEF Inv, TypeOK, Accept, masterVars, connVars, saveVars
<1> QED
  BY <1>1, <1>3

LEMMA SlaveAuthStep == \A c \in Conns : Inv /\ SlaveAuth(c) => TypeOK' /\ Benign
<1> SUFFICES ASSUME NEW c \in Conns, Inv, SlaveAuth(c) PROVE TypeOK' /\ Benign
  OBVIOUS
<1>1. auth' \in [Conns -> AuthRec] /\ Benign
  BY MoveFact DEF SlaveAuth, masterVars, connVars, saveVars, AuthPcs
<1>2. TypeOK'
  BY <1>1, SlaveAssumption DEF Inv, TypeOK, SlaveAuth, masterVars, connVars, saveVars
<1> QED
  BY <1>1, <1>2

LEMMA ReadMsgStep == \A c \in Conns : Inv /\ ReadMsg(c) => TypeOK' /\ Benign
<1> SUFFICES ASSUME NEW c \in Conns, Inv, ReadMsg(c) PROVE TypeOK' /\ Benign
  OBVIOUS
<1>1. auth' \in [Conns -> AuthRec] /\ Benign
  BY MoveFact DEF ReadMsg, masterVars, connVars, saveVars, AuthPcs
<1>2. TypeOK'
  BY <1>1, SlaveAssumption DEF Inv, TypeOK, ReadMsg, masterVars, connVars, saveVars
<1> QED
  BY <1>1, <1>2

LEMMA ReadErrorStep == \A c \in Conns : Inv /\ ReadError(c) => TypeOK' /\ Benign
<1> SUFFICES ASSUME NEW c \in Conns, Inv, ReadError(c) PROVE TypeOK' /\ Benign
  OBVIOUS
<1>1. auth' \in [Conns -> AuthRec] /\ Benign
  BY MoveFact DEF ReadError, masterVars, connVars, saveVars, AuthPcs
<1>2. TypeOK'
  BY <1>1, SlaveAssumption DEF Inv, TypeOK, ReadError, masterVars, connVars, saveVars
<1> QED
  BY <1>1, <1>2

LEMMA ClientCloseStep == \A c \in Conns : Inv /\ ClientClose(c) => TypeOK' /\ Benign
<1> SUFFICES ASSUME NEW c \in Conns, Inv, ClientClose(c) PROVE TypeOK' /\ Benign
  OBVIOUS
<1>1. auth' \in [Conns -> AuthRec] /\ Benign
  BY MoveFact DEF ClientClose, masterVars, connVars, saveVars, AuthPcs
<1>2. TypeOK'
  BY <1>1, SlaveAssumption DEF Inv, TypeOK, ClientClose, masterVars, connVars, saveVars
<1> QED
  BY <1>1, <1>2

LEMMA DispatchStep == \A c \in Conns : Inv /\ Dispatch(c) => TypeOK' /\ Benign
<1> SUFFICES ASSUME NEW c \in Conns, Inv, Dispatch(c) PROVE TypeOK' /\ Benign
  OBVIOUS
<1>1. auth' \in [Conns -> AuthRec] /\ Benign
  BY MoveFact DEF Dispatch, masterVars, connVars, saveVars, AuthPcs
<1>2. TypeOK'
  BY <1>1, SlaveAssumption DEF Inv, TypeOK, Dispatch, masterVars, connVars, saveVars
<1> QED
  BY <1>1, <1>2

LEMMA AuthPasswordStep == \A c \in Conns : Inv /\ AuthPassword(c) => TypeOK' /\ Benign
<1> SUFFICES ASSUME NEW c \in Conns, Inv, AuthPassword(c) PROVE TypeOK' /\ Benign
  OBVIOUS
<1>1. auth' \in [Conns -> AuthRec] /\ Benign
  BY MoveFact DEF AuthPassword, masterVars, connVars, saveVars, AuthPcs, Ids
<1>2. TypeOK'
  BY <1>1, SlaveAssumption DEF Inv, TypeOK, AuthPassword, masterVars, connVars, saveVars
<1> QED
  BY <1>1, <1>2

LEMMA TravelerKnownStep == \A c \in Conns : Inv /\ TravelerKnown(c) => TypeOK' /\ Benign
<1> SUFFICES ASSUME NEW c \in Conns, Inv, TravelerKnown(c) PROVE TypeOK' /\ Benign
  OBVIOUS
<1>1. auth' \in [Conns -> AuthRec] /\ Benign
  BY MoveFact DEF TravelerKnown, masterVars, connVars, saveVars, AuthPcs, Ids
<1>2. TypeOK'
  BY <1>1, SlaveAssumption DEF Inv, TypeOK, TravelerKnown, masterVars, connVars, saveVars
<1> QED
  BY <1>1, <1>2

LEMMA TravelerCreatedStep == \A c \in Conns : Inv /\ TravelerCreated(c) => TypeOK' /\ Benign
<1> SUFFICES ASSUME NEW c \in Conns, Inv, TravelerCreated(c) PROVE TypeOK' /\ Benign
  OBVIOUS
<1>1. auth' \in [Conns -> AuthRec] /\ Benign
  BY MoveFact DEF TravelerCreated, masterVars, connVars, saveVars, AuthPcs, Ids
<1>2. TypeOK'
  BY <1>1, SlaveAssumption DEF Inv, TypeOK, TravelerCreated, masterVars, connVars, saveVars
<1> QED
  BY <1>1, <1>2

LEMMA UserCenterStep == \A c \in Conns : Inv /\ UserCenter(c) => TypeOK' /\ Benign
<1> SUFFICES ASSUME NEW c \in Conns, Inv, UserCenter(c) PROVE TypeOK' /\ Benign
  OBVIOUS
<1>1. auth' \in [Conns -> AuthRec] /\ Benign
  BY MoveFact DEF UserCenter, masterVars, connVars, saveVars, AuthPcs
<1>2. TypeOK'
  BY <1>1, SlaveAssumption DEF Inv, TypeOK, UserCenter, masterVars, connVars, saveVars
<1> QED
  BY <1>1, <1>2

LEMMA SendSessionStep == \A c \in Conns : Inv /\ SendSession(c) => TypeOK' /\ Benign
<1> SUFFICES ASSUME NEW c \in Conns, Inv, SendSession(c) PROVE TypeOK' /\ Benign
  OBVIOUS
<1>1. auth' \in [Conns -> AuthRec] /\ Benign
  BY MoveFact DEF SendSession, masterVars, connVars, saveVars, AuthPcs
<1>2. TypeOK'
  BY <1>1, SlaveAssumption DEF Inv, TypeOK, SendSession, masterVars, connVars, saveVars, Sent, AuthRec
<1> QED
  BY <1>1, <1>2

LEMMA CloseFdStep == \A c \in Conns : Inv /\ CloseFd(c) => TypeOK' /\ Benign
<1> SUFFICES ASSUME NEW c \in Conns, Inv, CloseFd(c) PROVE TypeOK' /\ Benign
  OBVIOUS
<1>1. auth' \in [Conns -> AuthRec] /\ Benign
  BY MoveFact DEF CloseFd, masterVars, connVars, saveVars, AuthPcs
<1>2. TypeOK'
  BY <1>1, SlaveAssumption DEF Inv, TypeOK, CloseFd, masterVars, connVars, saveVars, Shut
<1> QED
  BY <1>1, <1>2

LEMMA AuthTimeoutStep == \A c \in Conns : Inv /\ AuthTimeout(c) => TypeOK' /\ Benign
<1> SUFFICES ASSUME NEW c \in Conns, Inv, AuthTimeout(c) PROVE TypeOK' /\ Benign
  OBVIOUS
<1>1. auth' \in [Conns -> AuthRec] /\ Benign
  BY MoveFact DEF AuthTimeout, masterVars, connVars, saveVars, AuthPcs
<1>2. TypeOK'
  BY <1>1, SlaveAssumption DEF Inv, TypeOK, AuthTimeout, masterVars, connVars, saveVars, TimerCloses, Shut
<1> QED
  BY <1>1, <1>2

-----------------------------------------------------------------------------
(* The steps that number, store, expire and verify a session.              *)

LEMMA ServerSaveSessionStep == \A c \in Conns : Inv /\ ServerSaveSession(c) => Inv'
<1> SUFFICES ASSUME NEW c \in Conns, Inv, ServerSaveSession(c) PROVE Inv'
  OBVIOUS
<1> USE DEF masterVars, connVars, saveVars
<1>1. session_id \in Sessions /\ session_id' = session_id + 1 /\ session_id' \in 1..(MaxSession + 1)
  BY SessionAssumption DEF Inv, TypeOK, ServerSaveSession, NextSession, Sessions
<1>2. auth[c].id \in Ids /\ auth[c].session = None /\ etimer[session_id] = "none"
  BY <1>1 DEF Inv, TypeOK, ServerSaveSession, Numbered, Stored, Sessions
<1>3. /\ auth' \in [Conns -> AuthRec]
      /\ auth'[c] = [pc |-> "store", id |-> auth[c].id, session |-> session_id]
      /\ \A d \in Conns \ {c} : auth'[d] = auth[d]
  BY <1>1, <1>2 DEF Inv, TypeOK, ServerSaveSession, AuthRec, AuthPcs
<1>4. TypeOK'
  BY <1>1, <1>3 DEF Inv, TypeOK, ServerSaveSession
<1>5. \A d \in Conns : auth[d].session # None => auth[d].session < session_id
  BY DEF Inv, Numbered
<1>6. \A d \in Conns : auth[d].session \in Sessions \cup {None}
  BY DEF Inv, TypeOK, AuthRec
<1>7. Numbered'
  <2>1. \A d \in Conns \ {c} : auth[d].session # None => auth[d].session < session_id'
    BY <1>1, <1>5, <1>6 DEF Sessions
  <2>2. session_id < session_id' /\ session_id # None
    BY <1>1, NoneFact DEF Sessions
  <2>3. \A d \in Conns \ {c} : auth[d].session # session_id
    BY <1>1, <1>5, <2>2 DEF Sessions
  <2> QED
    BY <1>1, <1>2, <1>3, <2>1, <2>2, <2>3 DEF Inv, Numbered, ServerSaveSession
<1>8. Stored'
  BY <1>1, SessionAssumption DEF Inv, Stored, ServerSaveSession, Sessions
<1>9. Owned'
  <2> SUFFICES ASSUME NEW n \in Sessions, owner[n] # None
               PROVE  \E d \in Conns : auth'[d].session = n /\ auth'[d].id = owner[n]
    BY DEF Owned, ServerSaveSession
  <2>1. PICK d \in Conns : auth[d].session = n /\ auth[d].id = owner[n]
    BY DEF Inv, Owned
  <2> QED
    BY <1>2, <1>3, <2>1, NoneFact
<1>10. Consumed'
  BY DEF Inv, Consumed, ServerSaveSession
<1> QED
  BY <1>4, <1>7, <1>8, <1>9, <1>10 DEF Inv

LEMMA SlaveSaveSessionStep == \A c \in Conns : Inv /\ SlaveSaveSession(c) => Inv'
<1> SUFFICES ASSUME NEW c \in Conns, Inv, SlaveSaveSession(c) PROVE Inv'
  OBVIOUS
<1> DEFINE n == auth[c].session
           i == auth[c].id
<1> USE DEF masterVars, connVars, saveVars
<1>1. n \in Sessions /\ i \in Ids /\ etimer[n] = "none" /\ n < session_id /\ SaveSlave(n) \in Slaves
  BY RouteFact, NoneFact DEF Inv, TypeOK, AuthRec, Numbered, SlaveSaveSession
<1>2. /\ auth' \in [Conns -> AuthRec]
      /\ auth'[c].pc = "stored" /\ auth'[c].id = i /\ auth'[c].session = n
      /\ \A d \in Conns \ {c} : auth'[d] = auth[d]
  BY GotoFact DEF Inv, SlaveSaveSession, AuthPcs
<1>3. /\ etimer' = [etimer EXCEPT ![n] = "set"]
      /\ owner' = [owner EXCEPT ![n] = i]
      /\ saved_session' = [saved_session EXCEPT ![SaveSlave(n)][n] = [id |-> i, token |-> Token]]
  BY DEF SlaveSaveSession
<1>4. [id |-> i, token |-> Token] \in SavedRec
  BY <1>1 DEF SavedRec
<1>5. /\ saved_session' \in [Slaves -> [Sessions -> SavedRec \cup {NoSaved}]]
      /\ saved_session'[SaveSlave(n)][n] = [id |-> i, token |-> Token]
      /\ \A m \in Sessions \ {n} : saved_session'[SaveSlave(m)][m] = saved_session[SaveSlave(m)][m]
  BY <1>1, <1>3, <1>4, RouteFact DEF Inv, TypeOK
<1>6. TypeOK'
  BY <1>1, <1>2, <1>3, <1>5 DEF Inv, TypeOK, SlaveSaveSession
<1>7. Numbered'
  <2>1. \A d \in Conns \ {c} : auth[d].session # None => auth[d].session # n
    BY <1>1, NoneFact DEF Inv, Numbered
  <2>2. \A d \in Conns \ {c} : auth[d].pc = "store" =>
          auth[d].session \in Sessions /\ etimer'[auth[d].session] = "none"
    <3>1. \A d \in Conns : auth[d].pc = "store" =>
            auth[d].session \in Sessions /\ etimer[auth[d].session] = "none"
      BY DEF Inv, TypeOK, AuthRec, Numbered
    <3> QED
      BY <1>1, <1>3, <2>1, <3>1, NoneFact DEF Inv, TypeOK
  <2>3. session_id' = session_id
    BY DEF SlaveSaveSession
  <2> QED
    BY <1>1, <1>2, <2>2, <2>3, NoneFact DEF Inv, Numbered
<1>8. Stored'
  <2> SUFFICES ASSUME NEW m \in Sessions
               PROVE  /\ m >= session_id' => etimer'[m] = "none"
                      /\ etimer'[m] = "none" => owner'[m] = None
                      /\ etimer'[m] # "none" => owner'[m] \in Ids
                      /\ etimer'[m] = "set" =>
                            /\ saved_session'[SaveSlave(m)][m] \in SavedRec
                            /\ saved_session'[SaveSlave(m)][m].id = owner'[m]
                      /\ etimer'[m] # "set" => saved_session'[SaveSlave(m)][m] = NoSaved
    BY DEF Stored
  <2>1. CASE m = n
    BY <1>1, <1>3, <1>4, <1>5, <2>1, SessionAssumption
    DEF Inv, TypeOK, SlaveSaveSession, Sessions
  <2>2. CASE m # n
    BY <1>1, <1>3, <1>5, <2>2 DEF Inv, TypeOK, Stored, SlaveSaveSession
  <2> QED
    BY <2>1, <2>2
<1>9. Owned'
  <2> SUFFICES ASSUME NEW m \in Sessions, owner'[m] # None
               PROVE  \E d \in Conns : auth'[d].session = m /\ auth'[d].id = owner'[m]
    BY DEF Owned
  <2>1. CASE m = n
    BY <1>1, <1>2, <1>3, <2>1 DEF Inv, TypeOK
  <2>2. CASE m # n
    <3>1. owner'[m] = owner[m]
      BY <1>1, <1>3, <2>2 DEF Inv, TypeOK
    <3>2. PICK d \in Conns : auth[d].session = m /\ auth[d].id = owner[m]
      BY <3>1 DEF Inv, Owned
    <3> QED
      BY <1>2, <2>2, <3>1, <3>2
  <2> QED
    BY <2>1, <2>2
<1>10. Consumed'
  <2>1. \A g \in Gates : ver[g].id # None => ver[g].session \in Sessions \ {n}
    BY <1>1 DEF Inv, Consumed
  <2>2. \A m \in Sessions \ {n} : owner'[m] = owner[m] /\ etimer'[m] = etimer[m]
    BY <1>1, <1>3 DEF Inv, TypeOK
  <2>3. ver' = ver
    BY DEF SlaveSaveSession
  <2> QED
    BY <1>5, <2>1, <2>2, <2>3 DEF Inv, Consumed
<1> QED
  BY <1>6, <1>7, <1>8, <1>9, <1>10 DEF Inv

LEMMA SessionExpireStep == \A n \in Sessions : Inv /\ SessionExpire(n) => Inv'
<1> SUFFICES ASSUME NEW n \in Sessions, Inv, SessionExpire(n) PROVE Inv'
  OBVIOUS
<1> USE DEF masterVars, connVars, saveVars
<1>1. /\ etimer[n] = "set" /\ etimer' = [etimer EXCEPT ![n] = "fired"]
      /\ saved_session' = [saved_session EXCEPT ![SaveSlave(n)][n] = NoSaved]
      /\ UNCHANGED <<balance, session_id, auth, connection, sock, atimer, told, ver, owner>>
  BY DEF SessionExpire, Forget
<1>2. SaveSlave(n) \in Slaves
  BY RouteFact
<1>3. /\ saved_session' \in [Slaves -> [Sessions -> SavedRec \cup {NoSaved}]]
      /\ saved_session'[SaveSlave(n)][n] = NoSaved
      /\ \A m \in Sessions \ {n} : saved_session'[SaveSlave(m)][m] = saved_session[SaveSlave(m)][m]
  BY <1>1, <1>2, RouteFact DEF Inv, TypeOK
<1>4. /\ etimer' \in [Sessions -> {"none", "set", "fired"}]
      /\ etimer'[n] = "fired" /\ \A m \in Sessions \ {n} : etimer'[m] = etimer[m]
  BY <1>1 DEF Inv, TypeOK
<1>5. TypeOK'
  BY <1>1, <1>3, <1>4 DEF Inv, TypeOK
<1>6. Numbered'
  <2>1. \A c \in Conns : auth[c].pc = "store" => auth[c].session \in Sessions \ {n}
    BY <1>1 DEF Inv, TypeOK, AuthRec, Numbered
  <2> QED
    BY <1>1, <1>4, <2>1 DEF Inv, Numbered
<1>7. Stored'
  BY <1>1, <1>3, <1>4 DEF Inv, Stored
<1>8. Owned'
  BY <1>1 DEF Inv, Owned
<1>9. Consumed'
  BY <1>1, <1>3, <1>4 DEF Inv, Consumed, NoSaved
<1> QED
  BY <1>5, <1>6, <1>7, <1>8, <1>9 DEF Inv

LEMMA ServerVerifyStep ==
  \A g \in Gates, n \in Sessions, t \in Tokens : Inv /\ ServerVerify(g, n, t) => Inv'
<1> SUFFICES ASSUME NEW g \in Gates, NEW n \in Sessions, NEW t \in Tokens,
                    Inv, ServerVerify(g, n, t)
             PROVE  Inv'
  OBVIOUS
<1> USE DEF masterVars, connVars, saveVars
<1>1. /\ ver' \in [Gates -> VerRec]
      /\ ver'[g] = [pc |-> "call", session |-> n, token |-> t, id |-> None]
      /\ \A h \in Gates \ {g} : ver'[h] = ver[h]
  BY DEF Inv, TypeOK, ServerVerify, VerRec
<1>2. TypeOK'
  BY <1>1 DEF Inv, TypeOK, ServerVerify
<1>3. Numbered' /\ Stored' /\ Owned'
  BY DEF Inv, ServerVerify, Numbered, Stored, Owned
<1>4. Consumed'
  BY <1>1 DEF Inv, ServerVerify, Consumed
<1> QED
  BY <1>2, <1>3, <1>4 DEF Inv

\* What a successful cmd_slave_verify finds and leaves behind.
LEMMA RedeemFact ==
  ASSUME Inv, NEW g \in Gates, SlaveVerify(g), ver'[g].id # None
  PROVE  /\ ver[g].id = None /\ ver[g].session \in Sessions
         /\ ver' \in [Gates -> VerRec]
         /\ ver'[g].session = ver[g].session /\ ver'[g].id = owner[ver[g].session]
         /\ ver'[g].pc = "done"
         /\ \A h \in Gates \ {g} : ver'[h] = ver[h]
         /\ etimer[ver[g].session] = "set"
         /\ saved_session[SaveSlave(ver[g].session)][ver[g].session].token = Token
         /\ saved_session' \in [Slaves -> [Sessions -> SavedRec \cup {NoSaved}]]
         /\ saved_session'[SaveSlave(ver[g].session)][ver[g].session] =
              [id |-> owner[ver[g].session], token |-> None]
         /\ \A m \in Sessions \ {ver[g].session} :
              saved_session'[SaveSlave(m)][m] = saved_session[SaveSlave(m)][m]
<1> DEFINE n == ver[g].session
           t == saved_session[SaveSlave(n)][n]
<1>1. n \in Sessions /\ ver[g].id = None /\ ver[g].token \in Tokens /\ VerifySlave(n) = SaveSlave(n)
      /\ SaveSlave(n) \in Slaves
  BY RouteFact DEF Inv, Consumed, SlaveVerify
<1>2. /\ t # NoSaved /\ t.token = ver[g].token
      /\ saved_session' = [saved_session EXCEPT ![SaveSlave(n)][n] = [id |-> t.id, token |-> None]]
      /\ ver' = [ver EXCEPT ![g] = [pc |-> "done", session |-> n, token |-> Token, id |-> t.id]]
  BY <1>1 DEF SlaveVerify, Consume, Refused, Inv, TypeOK
<1>3. etimer[n] = "set" /\ t \in SavedRec /\ t.id = owner[n]
  BY <1>1, <1>2 DEF Inv, Stored
<1>4. t.token = Token /\ t.id \in Ids
  BY <1>1, <1>2, <1>3, NoneFact DEF SavedRec
<1>5. /\ ver' \in [Gates -> VerRec] /\ ver'[g].session = n /\ ver'[g].id = t.id /\ ver'[g].pc = "done"
      /\ \A h \in Gates \ {g} : ver'[h] = ver[h]
  BY <1>1, <1>2, <1>4, NoneFact DEF Inv, TypeOK, VerRec
<1>6. [id |-> t.id, token |-> None] \in SavedRec
  BY <1>4 DEF SavedRec
<1>7. /\ saved_session' \in [Slaves -> [Sessions -> SavedRec \cup {NoSaved}]]
      /\ saved_session'[SaveSlave(n)][n] = [id |-> t.id, token |-> None]
      /\ \A m \in Sessions \ {n} : saved_session'[SaveSlave(m)][m] = saved_session[SaveSlave(m)][m]
  BY <1>1, <1>2, <1>6, RouteFact DEF Inv, TypeOK
<1> QED
  BY <1>1, <1>3, <1>4, <1>5, <1>7

\* A refused cmd_slave_verify changes nothing but its own answer.
LEMMA RefuseFact ==
  ASSUME Inv, NEW g \in Gates, SlaveVerify(g), ver'[g].id = None
  PROVE  /\ saved_session' = saved_session
         /\ ver' \in [Gates -> VerRec] /\ ver'[g].pc = "done"
         /\ \A h \in Gates \ {g} : ver'[h] = ver[h]
<1> DEFINE n == ver[g].session
           t == saved_session[SaveSlave(n)][n]
<1>1. n \in Sessions /\ VerifySlave(n) = SaveSlave(n) /\ ver[g].token \in Tokens
  BY RouteFact DEF Inv, Consumed, SlaveVerify
<1>2. t # NoSaved => t.id \in Ids
  BY <1>1, NoneFact DEF Inv, Stored, SavedRec, TypeOK
<1>3. ver' = [ver EXCEPT ![g] = Refused] /\ saved_session' = saved_session
  BY <1>1, <1>2, NoneFact DEF SlaveVerify, Inv, TypeOK
<1> QED
  BY <1>3 DEF Inv, TypeOK, Refused, VerRec

LEMMA SlaveVerifyStep == \A g \in Gates : Inv /\ SlaveVerify(g) => Inv'
<1> SUFFICES ASSUME NEW g \in Gates, Inv, SlaveVerify(g) PROVE Inv'
  OBVIOUS
<1> USE DEF masterVars, connVars, saveVars
<1>1. /\ UNCHANGED <<balance, session_id, auth, connection, sock, atimer, etimer, owner, told>>
  BY DEF SlaveVerify
<1>2. Numbered' /\ Owned'
  BY <1>1 DEF Inv, Numbered, Owned
<1>3. CASE ver'[g].id # None
  <2> DEFINE n == ver[g].session
  <2>1. /\ ver[g].id = None /\ n \in Sessions
        /\ ver' \in [Gates -> VerRec]
        /\ ver'[g].session = n /\ ver'[g].id = owner[n] /\ ver'[g].pc = "done"
        /\ \A h \in Gates \ {g} : ver'[h] = ver[h]
        /\ etimer[n] = "set"
        /\ saved_session[SaveSlave(n)][n].token = Token
        /\ saved_session' \in [Slaves -> [Sessions -> SavedRec \cup {NoSaved}]]
        /\ saved_session'[SaveSlave(n)][n] = [id |-> owner[n], token |-> None]
        /\ \A m \in Sessions \ {n} :
             saved_session'[SaveSlave(m)][m] = saved_session[SaveSlave(m)][m]
    BY <1>3, RedeemFact
  <2>2. TypeOK'
    BY <1>1, <2>1 DEF Inv, TypeOK
  <2>3. Stored'
    <3>1. owner[n] \in Ids
      BY <2>1 DEF Inv, Stored
    <3> QED
      BY <1>1, <2>1, <3>1 DEF Inv, Stored, SavedRec
  <2>4. Consumed'
    <3>1. \A h \in Gates : ver[h].id # None => ver[h].session # n
      BY <2>1, NoneFact DEF Inv, Consumed
    <3> QED
      BY <1>1, <2>1, <3>1 DEF Inv, Consumed
  <2> QED
    BY <1>2, <2>2, <2>3, <2>4 DEF Inv
<1>4. CASE ver'[g].id = None
  <2>1. /\ saved_session' = saved_session
        /\ ver' \in [Gates -> VerRec] /\ ver'[g].pc = "done"
        /\ \A h \in Gates \ {g} : ver'[h] = ver[h]
    BY <1>4, RefuseFact
  <2>2. TypeOK' /\ Stored'
    BY <1>1, <2>1 DEF Inv, TypeOK, Stored
  <2>3. Consumed'
    BY <1>1, <1>4, <2>1 DEF Inv, Consumed
  <2> QED
    BY <1>2, <2>2, <2>3 DEF Inv
<1> QED
  BY <1>3, <1>4

LEMMA InvStep == Inv /\ [Next]_vars => Inv'
<1> SUFFICES ASSUME Inv, [Next]_vars PROVE Inv'
  OBVIOUS
<1>1. ASSUME NEW c \in Conns, Accept(c) \/ ReadMsg(c) \/ ClientClose(c) \/ AuthTimeout(c)
      PROVE  Inv'
  BY <1>1, AcceptStep, ReadMsgStep, ClientCloseStep, AuthTimeoutStep, BenignStep
<1>2. ASSUME NEW c \in Conns, Login(c)
      PROVE  Inv'
  <2>1. CASE SlaveAuth(c) \/ ReadError(c) \/ Dispatch(c)
    BY <2>1, SlaveAuthStep, ReadErrorStep, DispatchStep, BenignStep
  <2>2. CASE AuthPassword(c) \/ TravelerKnown(c) \/ TravelerCreated(c) \/ UserCenter(c)
    BY <2>2, AuthPasswordStep, TravelerKnownStep, TravelerCreatedStep, UserCenterStep,
       BenignStep
  <2>3. CASE SendSession(c) \/ CloseFd(c)
    BY <2>3, SendSessionStep, CloseFdStep, BenignStep
  <2>4. CASE ServerSaveSession(c) \/ SlaveSaveSession(c)
    BY <2>4, ServerSaveSessionStep, SlaveSaveSessionStep
  <2> QED
    BY <1>2, <2>1, <2>2, <2>3, <2>4 DEF Login
<1>3. ASSUME NEW n \in Sessions, SessionExpire(n)
      PROVE  Inv'
  BY <1>3, SessionExpireStep
<1>4. ASSUME NEW g \in Gates, \/ SlaveVerify(g)
                              \/ \E n \in Sessions, t \in Tokens : ServerVerify(g, n, t)
      PROVE  Inv'
  BY <1>4, SlaveVerifyStep, ServerVerifyStep
<1>5. CASE UNCHANGED vars
  <2>1. TypeOK'
    BY <1>5 DEF Inv, TypeOK, vars, masterVars, connVars, saveVars
  <2>2. Benign
    BY <1>5, NoneFact DEF Inv, Numbered, Benign, vars, masterVars, connVars, saveVars
  <2> QED
    BY <2>1, <2>2, BenignStep
<1> QED
  BY <1>1, <1>2, <1>3, <1>4, <1>5 DEF Next

\* The inductive invariant, for every behaviour of the login server.
THEOREM AlwaysInv == Spec => []Inv
  BY InitInv, InvStep, PTL DEF Spec

\* The variables of the login server always hold what the code puts there: in
\* particular balance names a slave and numbers stay within the bound.
THEOREM LoginTypeCorrect == Spec => []TypeOK
<1>1. Inv => TypeOK
  BY DEF Inv
<1> QED
  BY <1>1, AlwaysInv, PTL

\* cmd_server_verify admits the account a connection authenticated, and no two
\* logins on one session.
THEOREM LoginAdmitsOwnerOnce == Spec => []AdmitsOwnerOnce
<1>1. Inv => AdmitsOwnerOnce
  <2> SUFFICES ASSUME Inv, NEW g \in Gates, ver[g].id # None
               PROVE  /\ \E c \in Conns : auth[c].session = ver[g].session /\ auth[c].id = ver[g].id
                      /\ \A h \in Gates : ver[h].id # None /\ ver[h].session = ver[g].session => h = g
    BY DEF AdmitsOwnerOnce
  <2>1. ver[g].session \in Sessions /\ ver[g].id = owner[ver[g].session]
    BY DEF Inv, Consumed
  <2>2. \E c \in Conns : auth[c].session = ver[g].session /\ auth[c].id = ver[g].id
    BY <2>1 DEF Inv, Owned
  <2> QED
    BY <2>2 DEF Inv, Consumed
<1> QED
  BY <1>1, AlwaysInv, PTL

-----------------------------------------------------------------------------
(* The session a client was sent.                                          *)

\* A client is sent the session of its own connection, after it was stored for
\* the account of that connection; and a session that lost its token before it
\* expired lost it to a login that was let in.
Delivered ==
  /\ \A c \in Conns :
       /\ told[c] # None => told[c] = auth[c].session /\ auth[c].pc # "store"
       /\ auth[c].session # None /\ auth[c].pc # "store" =>
            /\ etimer[auth[c].session] # "none"
            /\ owner[auth[c].session] = auth[c].id
  /\ \A n \in Sessions :
       etimer[n] = "set" /\ saved_session[SaveSlave(n)][n].token = None =>
         \E g \in Gates : ver[g].session = n /\ ver[g].id = owner[n]

LEMMA InitDelivered == Init => Delivered
  BY DEF Init, Delivered, NoAuth

\* The answer to a client does not disturb what was stored.
LEMMA BenignDelivered ==
  ASSUME Inv, Delivered, Benign,
         \/ told' = told
         \/ \E c \in Conns : SendSession(c)
  PROVE  Delivered'
<1>1. UNCHANGED <<etimer, owner, saved_session, ver>>
  BY DEF Benign, saveVars
<1>2. \A n \in Sessions :
        (etimer[n] = "set" /\ saved_session[SaveSlave(n)][n].token = None =>
           \E g \in Gates : ver[g].session = n /\ ver[g].id = owner[n])'
  BY <1>1 DEF Delivered
<1>3. ASSUME NEW c \in Conns, auth'[c].session # None, auth'[c].pc # "store"
      PROVE  etimer'[auth'[c].session] # "none" /\ owner'[auth'[c].session] = auth'[c].id
  BY <1>1, <1>3 DEF Delivered, Benign
<1>4. ASSUME NEW c \in Conns, told'[c] # None
      PROVE  told'[c] = auth'[c].session /\ auth'[c].pc # "store"
  <2>1. CASE told' = told
    BY <1>4, <2>1 DEF Delivered, Benign
  <2>2. ASSUME NEW d \in Conns, SendSession(d)
        PROVE  told'[c] = auth'[c].session /\ auth'[c].pc # "store"
    <3>1. told'[c] = told[c] \/ (d = c /\ told'[c] = auth[c].session)
      BY <2>2 DEF SendSession, Sent, Inv, TypeOK
    <3> QED
      BY <1>4, <2>2, <3>1 DEF Delivered, Benign, SendSession
  <2> QED
    BY <2>1, <2>2
<1> QED
  BY <1>2, <1>3, <1>4 DEF Delivered

LEMMA NumberDelivered ==
  ASSUME Inv, Delivered, NEW c \in Conns, ServerSaveSession(c)
  PROVE  Delivered'
<1>1. UNCHANGED <<etimer, owner, saved_session, ver, told>>
  BY DEF ServerSaveSession, saveVars
<1>2. /\ auth'[c] = [pc |-> "store", id |-> auth[c].id, session |-> session_id]
      /\ \A d \in Conns \ {c} : auth'[d] = auth[d]
  BY DEF Inv, TypeOK, ServerSaveSession
<1>3. told[c] = None
  <2>1. auth[c].session = None
    BY DEF Inv, Numbered, ServerSaveSession
  <2> QED
    BY <2>1 DEF Delivered
<1> QED
  BY <1>1, <1>2, <1>3 DEF Delivered

LEMMA StoreDelivered ==
  ASSUME Inv, Delivered, NEW c \in Conns, SlaveSaveSession(c)
  PROVE  Delivered'
<1>1. PICK n \in Sessions : n = auth[c].session /\ SaveSlave(n) \in Slaves
  BY RouteFact, NoneFact DEF Inv, TypeOK, AuthRec, Numbered, SlaveSaveSession
<1>2. /\ saved_session' = [saved_session EXCEPT ![SaveSlave(n)][n] =
                             [id |-> auth[c].id, token |-> Token]]
      /\ etimer' = [etimer EXCEPT ![n] = "set"]
      /\ owner' = [owner EXCEPT ![n] = auth[c].id]
      /\ told' = told /\ ver' = ver
  BY <1>1 DEF SlaveSaveSession
<1>3. /\ auth'[c].pc = "stored" /\ auth'[c].id = auth[c].id /\ auth'[c].session = n
      /\ \A d \in Conns \ {c} : auth'[d] = auth[d]
  BY <1>1, GotoFact DEF Inv, SlaveSaveSession, AuthPcs
<1>4. etimer'[n] = "set" /\ owner'[n] = auth[c].id
  BY <1>2 DEF Inv, TypeOK
<1>5. \A m \in Sessions \ {n} :
        /\ etimer'[m] = etimer[m] /\ owner'[m] = owner[m]
        /\ saved_session'[SaveSlave(m)][m] = saved_session[SaveSlave(m)][m]
  BY <1>1, <1>2, RouteFact DEF Inv, TypeOK
<1>6. saved_session'[SaveSlave(n)][n].token = Token
  BY <1>1, <1>2 DEF Inv, TypeOK
<1>7. ASSUME NEW d \in Conns
      PROVE  /\ told'[d] # None => told'[d] = auth'[d].session /\ auth'[d].pc # "store"
             /\ auth'[d].session # None /\ auth'[d].pc # "store" =>
                  /\ etimer'[auth'[d].session] # "none"
                  /\ owner'[auth'[d].session] = auth'[d].id
  <2>1. CASE d = c
    BY <1>1, <1>2, <1>3, <1>4, <2>1 DEF Delivered, SlaveSaveSession
  <2>2. CASE d # c
    <3>1. auth'[d] = auth[d] /\ auth[d].session # n
      BY <1>1, <1>3, <2>2, NoneFact DEF Inv, Numbered
    <3>2. auth[d].session # None => auth[d].session \in Sessions \ {n}
      BY <3>1 DEF Inv, TypeOK, AuthRec
    <3> QED
      BY <1>2, <1>5, <3>1, <3>2 DEF Delivered
  <2> QED
    BY <2>1, <2>2
<1>8. Token # None
  BY NoneFact
<1>9. \A m \in Sessions :
        (etimer[m] = "set" /\ saved_session[SaveSlave(m)][m].token = None =>
           \E g \in Gates : ver[g].session = m /\ ver[g].id = owner[m])'
  BY <1>2, <1>5, <1>6, <1>8 DEF Delivered
<1> QED
  BY <1>7, <1>9 DEF Delivered

LEMMA ExpireDelivered ==
  ASSUME Inv, Delivered, NEW n \in Sessions, SessionExpire(n)
  PROVE  Delivered'
<1>1. /\ etimer' = [etimer EXCEPT ![n] = "fired"]
      /\ saved_session' = [saved_session EXCEPT ![SaveSlave(n)][n] = NoSaved]
      /\ UNCHANGED <<auth, told, ver, owner>>
  BY DEF SessionExpire, Forget
<1>2. etimer'[n] = "fired"
  BY <1>1 DEF Inv, TypeOK
<1>3. \A m \in Sessions \ {n} :
        /\ etimer'[m] = etimer[m]
        /\ saved_session'[SaveSlave(m)][m] = saved_session[SaveSlave(m)][m]
  BY <1>1, RouteFact DEF Inv, TypeOK
<1>4. \A c \in Conns : auth[c].session # None => auth[c].session \in Sessions
  BY DEF Inv, TypeOK, AuthRec
<1> QED
  BY <1>1, <1>2, <1>3, <1>4 DEF Delivered

LEMMA CallDelivered ==
  ASSUME Inv, Delivered, NEW g \in Gates, NEW n \in Sessions, NEW t \in Tokens,
         ServerVerify(g, n, t)
  PROVE  Delivered'
<1>1. /\ UNCHANGED <<etimer, owner, saved_session, auth, told>>
      /\ ver[g].id = None
      /\ \A h \in Gates \ {g} : ver'[h] = ver[h]
  BY DEF ServerVerify, saveVars, Inv, Consumed, TypeOK
<1>2. \A m \in Sessions : etimer[m] = "set" => owner[m] # None
  BY NoneFact DEF Inv, Stored
<1> QED
  BY <1>1, <1>2 DEF Delivered

LEMMA VerifyDelivered ==
  ASSUME Inv, Delivered, NEW g \in Gates, SlaveVerify(g)
  PROVE  Delivered'
<1>1. UNCHANGED <<etimer, owner, auth, told>> /\ ver[g].id = None
  BY DEF SlaveVerify, Inv, Consumed
<1>2. \A m \in Sessions : etimer[m] = "set" => owner[m] # None
  BY NoneFact DEF Inv, Stored
<1>3. CASE ver'[g].id # None
  <2> DEFINE n == ver[g].session
  <2>1. /\ n \in Sessions /\ ver'[g].session = n /\ ver'[g].id = owner[n]
        /\ \A h \in Gates \ {g} : ver'[h] = ver[h]
        /\ \A m \in Sessions \ {n} :
             saved_session'[SaveSlave(m)][m] = saved_session[SaveSlave(m)][m]
    BY <1>3, RedeemFact
  <2> QED
    BY <1>1, <1>2, <2>1 DEF Delivered
<1>4. CASE ver'[g].id = None
  <2>1. saved_session' = saved_session /\ \A h \in Gates \ {g} : ver'[h] = ver[h]
    BY <1>4, RefuseFact
  <2> QED
    BY <1>1, <1>2, <2>1 DEF Delivered
<1> QED
  BY <1>3, <1>4

LEMMA DeliveredStep == Inv /\ Delivered /\ [Next]_vars => Delivered'
<1> SUFFICES ASSUME Inv, Delivered, [Next]_vars PROVE Delivered'
  OBVIOUS
<1>1. ASSUME NEW c \in Conns, Accept(c) \/ ReadMsg(c) \/ ClientClose(c) \/ AuthTimeout(c)
      PROVE  Delivered'
  <2>1. Benign
    BY <1>1, AcceptStep, ReadMsgStep, ClientCloseStep, AuthTimeoutStep
  <2>2. told' = told
    BY <1>1 DEF Accept, ReadMsg, ClientClose, AuthTimeout
  <2> QED
    BY <2>1, <2>2, BenignDelivered
<1>2. ASSUME NEW c \in Conns, Login(c)
      PROVE  Delivered'
  <2>1. CASE SlaveAuth(c) \/ ReadError(c) \/ Dispatch(c) \/ AuthPassword(c) \/ TravelerKnown(c)
             \/ TravelerCreated(c) \/ UserCenter(c) \/ CloseFd(c)
    <3>1. Benign
      BY <2>1, SlaveAuthStep, ReadErrorStep, DispatchStep, AuthPasswordStep, TravelerKnownStep,
         TravelerCreatedStep, UserCenterStep, CloseFdStep
    <3>2. told' = told
      BY <2>1 DEF SlaveAuth, ReadError, Dispatch, AuthPassword, TravelerKnown,
         TravelerCreated, UserCenter, CloseFd
    <3> QED
      BY <3>1, <3>2, BenignDelivered
  <2>2. CASE SendSession(c)
    BY <2>2, SendSessionStep, BenignDelivered
  <2>3. CASE ServerSaveSession(c) \/ SlaveSaveSession(c)
    BY <2>3, NumberDelivered, StoreDelivered
  <2> QED
    BY <1>2, <2>1, <2>2, <2>3 DEF Login
<1>3. ASSUME NEW n \in Sessions, SessionExpire(n)
      PROVE  Delivered'
  BY <1>3, ExpireDelivered
<1>4. ASSUME NEW g \in Gates, \/ SlaveVerify(g)
                              \/ \E n \in Sessions, t \in Tokens : ServerVerify(g, n, t)
      PROVE  Delivered'
  BY <1>4, VerifyDelivered, CallDelivered
<1>5. CASE UNCHANGED vars
  BY <1>5 DEF Delivered, vars, saveVars
<1> QED
  BY <1>1, <1>2, <1>3, <1>4, <1>5 DEF Next

\* A client that was sent a session can log in with it: until it expires or is
\* used, the slave cmd_server_verify asks holds it for the client's account.
THEOREM LoginUsableSession == Spec => []UsableSession
<1>1. Inv /\ Delivered => UsableSession
  <2> SUFFICES ASSUME Inv, Delivered, NEW c \in Conns, told[c] # None
               PROVE  LET n == told[c] IN
                      \/ etimer[n] = "fired"
                      \/ saved_session[VerifySlave(n)][n] = [id |-> auth[c].id, token |-> Token]
                      \/ \E g \in Gates : ver[g].session = n /\ ver[g].id = auth[c].id
    BY DEF UsableSession
  <2>1. PICK n \in Sessions : n = told[c]
    BY DEF Inv, TypeOK
  <2>2. etimer[n] \in {"set", "fired"} /\ owner[n] = auth[c].id
    BY <2>1 DEF Delivered, Inv, TypeOK
  <2>3. VerifySlave(n) = SaveSlave(n)
    BY RouteFact
  <2>4. CASE etimer[n] = "set"
    <3> DEFINE r == saved_session[SaveSlave(n)][n]
    <3>1. r \in SavedRec /\ r.id = auth[c].id
      BY <2>2, <2>4 DEF Inv, Stored
    <3>2. CASE r.token = None
      BY <2>1, <2>2, <2>4, <3>2 DEF Delivered
    <3>3. CASE r.token = Token
      <4>1. r = [id |-> auth[c].id, token |-> Token]
        BY <3>1, <3>3 DEF SavedRec
      <4> QED
        BY <2>1, <2>3, <4>1
    <3> QED
      BY <3>1, <3>2, <3>3 DEF SavedRec
  <2> QED
    BY <2>1, <2>2, <2>4
<1> QED
  BY <1>1, InitDelivered, DeliveredStep, AlwaysInv, PTL DEF Spec

-----------------------------------------------------------------------------
(* Refinement.                                                             *)

LEMMA InitTickets == Init => T!Init
<1> SUFFICES ASSUME Init PROVE T!Init
  OBVIOUS
<1>1. \A n \in Sessions : TicketOf(n) = "none"
  BY DEF Init, TicketOf
<1>2. \A g \in Gates : ver[g].id = None
  BY DEF Init, NoVer
<1>3. owner = [n \in Sessions |-> None]
  BY DEF Init
<1> QED
  BY <1>1, <1>2, <1>3 DEF T!Init, T!NoTicket

\* A step that leaves saved sessions and verifications alone is a stutter.
LEMMA StutterStep == UNCHANGED <<saveVars, ver>> => UNCHANGED T!tvars
  BY DEF saveVars, T!tvars, TicketOf

LEMMA IssueStep ==
  ASSUME Inv, NEW c \in Conns, SlaveSaveSession(c)
  PROVE  T!Issue(auth[c].session, auth[c].id) /\ auth[c].session \in Sessions /\ auth[c].id \in Ids
<1>1. PICK n \in Sessions : /\ n = auth[c].session /\ auth[c].id \in Ids
                            /\ etimer[n] = "none" /\ SaveSlave(n) \in Slaves
  BY RouteFact, NoneFact DEF Inv, TypeOK, AuthRec, Numbered, SlaveSaveSession
<1>2. /\ etimer' = [etimer EXCEPT ![n] = "set"]
      /\ owner' = [owner EXCEPT ![n] = auth[c].id]
      /\ saved_session' = [saved_session EXCEPT ![SaveSlave(n)][n] =
                             [id |-> auth[c].id, token |-> Token]]
      /\ ver' = ver
  BY <1>1 DEF SlaveSaveSession
<1>3. TicketOf(n) = "none"
  BY <1>1 DEF TicketOf
<1>4. TicketOf(n)' = "valid"
  BY <1>1, <1>2 DEF TicketOf, Inv, TypeOK
<1>5. \A m \in Sessions \ {n} : TicketOf(m)' = TicketOf(m)
  BY <1>1, <1>2, RouteFact DEF TicketOf, Inv, TypeOK
<1> QED
  BY <1>1, <1>2, <1>3, <1>4, <1>5 DEF T!Issue

LEMMA ExpireStep ==
  ASSUME Inv, NEW n \in Sessions, SessionExpire(n)
  PROVE  T!Expire(n)
<1>1. /\ etimer[n] = "set" /\ etimer' = [etimer EXCEPT ![n] = "fired"]
      /\ saved_session' = [saved_session EXCEPT ![SaveSlave(n)][n] = NoSaved]
      /\ ver' = ver /\ owner' = owner
  BY DEF SessionExpire, Forget
<1>2. TicketOf(n) \in {"valid", "used"}
  BY <1>1 DEF TicketOf
<1>3. TicketOf(n)' = "expired"
  BY <1>1 DEF TicketOf, Inv, TypeOK
<1>4. \A m \in Sessions \ {n} : TicketOf(m)' = TicketOf(m)
  BY <1>1, RouteFact DEF TicketOf, Inv, TypeOK
<1> QED
  BY <1>1, <1>2, <1>3, <1>4 DEF T!Expire

LEMMA RedeemStep ==
  ASSUME Inv, NEW g \in Gates, SlaveVerify(g), ver'[g].id # None
  PROVE  T!Redeem(ver[g].session, g) /\ ver[g].session \in Sessions
<1> DEFINE n == ver[g].session
<1>1. /\ ver[g].id = None /\ n \in Sessions
      /\ ver'[g].session = n /\ ver'[g].id = owner[n]
      /\ \A h \in Gates \ {g} : ver'[h] = ver[h]
      /\ etimer[n] = "set"
      /\ saved_session[SaveSlave(n)][n].token = Token
      /\ saved_session'[SaveSlave(n)][n] = [id |-> owner[n], token |-> None]
      /\ \A m \in Sessions \ {n} :
           saved_session'[SaveSlave(m)][m] = saved_session[SaveSlave(m)][m]
  BY RedeemFact
<1>2. etimer' = etimer /\ owner' = owner
  BY DEF SlaveVerify
<1>3. TicketOf(n) = "valid"
  BY <1>1 DEF TicketOf
<1>4. TicketOf(n)' = "used"
  BY <1>1, <1>2, NoneFact DEF TicketOf
<1>5. \A m \in Sessions \ {n} : TicketOf(m)' = TicketOf(m)
  BY <1>1, <1>2 DEF TicketOf
<1>6. [m \in Sessions |-> TicketOf(m)]' = [[m \in Sessions |-> TicketOf(m)] EXCEPT ![n] = "used"]
  BY <1>1, <1>4, <1>5
<1> QED
  BY <1>1, <1>2, <1>3, <1>6 DEF T!Redeem, T!NoTicket

LEMMA TicketStep == Inv /\ [Next]_vars => [T!Next]_(T!tvars)
<1> SUFFICES ASSUME Inv, [Next]_vars PROVE [T!Next]_(T!tvars)
  OBVIOUS
<1>1. CASE UNCHANGED <<saveVars, ver>>
  BY <1>1, StutterStep
<1>2. ASSUME NEW c \in Conns, SlaveSaveSession(c)
      PROVE  T!Next
  BY <1>2, IssueStep DEF T!Next
<1>3. ASSUME NEW n \in Sessions, SessionExpire(n)
      PROVE  T!Next
  BY <1>3, ExpireStep DEF T!Next
<1>4. ASSUME NEW g \in Gates, NEW n \in Sessions, NEW t \in Tokens, ServerVerify(g, n, t)
      PROVE  UNCHANGED T!tvars
  <2>1. /\ ver' = [ver EXCEPT ![g] = [pc |-> "call", session |-> n, token |-> t, id |-> None]]
        /\ ver[g].id = None /\ UNCHANGED saveVars
    BY <1>4 DEF ServerVerify, Inv, Consumed
  <2>2. \A h \in Gates : ver'[h].id = ver[h].id /\ (ver[h].id # None => ver'[h] = ver[h])
    BY <2>1 DEF Inv, TypeOK
  <2> QED
    BY <2>1, <2>2 DEF T!tvars, TicketOf, saveVars
<1>5. ASSUME NEW g \in Gates, SlaveVerify(g)
      PROVE  T!Next \/ UNCHANGED T!tvars
  <2>1. CASE ver'[g].id # None
    BY <1>5, <2>1, RedeemStep DEF T!Next
  <2>2. CASE ver'[g].id = None
    <3>1. saved_session' = saved_session /\ \A h \in Gates \ {g} : ver'[h] = ver[h]
      BY <1>5, <2>2, RefuseFact
    <3>2. ver[g].id = None /\ etimer' = etimer /\ owner' = owner
      BY <1>5 DEF SlaveVerify, Inv, Consumed
    <3> QED
      BY <2>2, <3>1, <3>2 DEF T!tvars, TicketOf
  <2> QED
    BY <2>1, <2>2
<1>6. ASSUME NEW c \in Conns,
             \/ Accept(c) \/ ReadMsg(c) \/ ClientClose(c) \/ AuthTimeout(c)
             \/ Login(c) /\ ~SlaveSaveSession(c)
      PROVE  UNCHANGED <<saveVars, ver>>
  BY <1>6 DEF Accept, ReadMsg, ClientClose, AuthTimeout, Login, SlaveAuth, ReadError,
     Dispatch, AuthPassword, TravelerKnown, TravelerCreated, UserCenter,
     ServerSaveSession, SendSession, CloseFd
<1>7. CASE UNCHANGED vars
  BY <1>1, <1>7 DEF vars
<1> QED
  BY <1>1, <1>2, <1>3, <1>4, <1>5, <1>6, <1>7 DEF Next

\* The login server implements Tickets: whatever the interleaving of logins,
\* verifications and timers, a session is issued once, redeemed at most once,
\* before it expires and for the account it was issued for.
THEOREM LoginImplementsTickets == Spec => ImplementsTickets
  BY InitTickets, TicketStep, AlwaysInv, PTL DEF Spec, T!Spec, ImplementsTickets

=============================================================================
