----------------------------- MODULE GateProofs -----------------------------
(***************************************************************************)
(* Proofs about Gate, for any sets of sockets, accounts and agents: its    *)
(* types, and that an agent keeps the account it was created for.          *)
(* The inductive invariant Typed adds to the types what a coroutine holds  *)
(* while it runs; without it a message could be sent with a nil account.   *)
(***************************************************************************)
EXTENDS Gate, TLAPS

-----------------------------------------------------------------------------
(* What a coroutine holds while it runs: the parts of its record that are  *)
(* in use are set.  TypeOK alone allows None there.                        *)

CohOpen ==
  \A a \in Agents : aopen[a].pc # "none" =>
    aopen[a].fd \in Fds /\ aopen[a].from \in Coroutines /\ aopen[a].id \in Ids
CohClose ==
  \A a \in Agents : /\ aclose[a].pc = "save" => user_id[a] \in Ids
                    /\ aclose[a].pc = "logout" => aclose[a].id \in Ids
CohForward ==
  \A c \in Coroutines : fwd[c].pc # "none" => fwd[c].fd \in Fds /\ fwd[c].id \in Ids
CohKick ==
  \A i \in Ids : online_account[i].isKick => online_account[i].fd \in Fds

Coherent == CohOpen /\ CohClose /\ CohForward /\ CohKick

Typed == TypeOK /\ Coherent

-----------------------------------------------------------------------------
(* Messages.                                                               *)

\* Which fields of a message of gamed or of an agent are set, by command.
GamedFields(m) ==
  /\ m.cmd \in {"open", "data", "close"} => m.fd \in Fds
  /\ m.cmd = "cmd_gamed_kick" => /\ m.fd \in Fds \cup {None} /\ m.from \in Fds \cup {None}
                                 /\ m.agent \in Agents
  /\ m.cmd = "cmd_gamed_close" => m.agent \in Agents /\ m.id \in Ids
  /\ m.cmd = "ret_open" => m.from \in Coroutines
  /\ m.cmd \in {"ret_other", "ret_kick"} => m.from \in Fds
  /\ m.cmd = "ret_close" => m.from \in Fds \cup {None}

AgentFields(m) ==
  /\ m.cmd = "cmd_agent_open" => m.fd \in Fds /\ m.from \in Coroutines /\ m.id \in Ids
  /\ m.cmd \in {"cmd_agent_other_login", "cmd_agent_kick", "cmd_agent_close"} => m.from \in Fds
  /\ m.cmd = "ret_gamed_kick" => m.from \in Fds \cup {None}

LEMMA GamedMsgFields == ASSUME NEW m \in GamedMsg PROVE GamedFields(m)
BY DEF GamedMsg, MsgSet, GamedFields

LEMMA AgentMsgFields == ASSUME NEW m \in AgentMsg PROVE AgentFields(m)
BY DEF AgentMsg, MsgSet, AgentFields

\* The messages the actions build are messages of their mailbox.
LEMMA GamedMsgs ==
  /\ \A f \in Fds : /\ Msg("open", f, None, None, None) \in GamedMsg
                    /\ Msg("data", f, None, None, None) \in GamedMsg
                    /\ Msg("close", f, None, None, None) \in GamedMsg
                    /\ Msg("ret_other", None, f, None, None) \in GamedMsg
                    /\ Msg("ret_kick", None, f, None, None) \in GamedMsg
  /\ \A f \in Fds \cup {None} : Msg("ret_close", None, f, None, None) \in GamedMsg
  /\ \A c \in Coroutines : Msg("ret_open", None, c, None, None) \in GamedMsg
  /\ \A f, g \in Fds \cup {None}, a \in Agents : Msg("cmd_gamed_kick", f, g, a, None) \in GamedMsg
  /\ \A a \in Agents, i \in Ids : Msg("cmd_gamed_close", None, None, a, i) \in GamedMsg
BY DEF GamedMsg, MsgSet, Msg

LEMMA AgentMsgs ==
  /\ \A f \in Fds, c \in Coroutines, i \in Ids : Msg("cmd_agent_open", f, c, None, i) \in AgentMsg
  /\ \A f \in Fds : /\ Msg("cmd_agent_other_login", None, f, None, None) \in AgentMsg
                    /\ Msg("cmd_agent_kick", None, f, None, None) \in AgentMsg
                    /\ Msg("cmd_agent_close", None, f, None, None) \in AgentMsg
                    /\ Msg("test_dispatch", f, None, None, None) \in AgentMsg
  /\ \A f \in Fds \cup {None} : Msg("ret_gamed_kick", None, f, None, None) \in AgentMsg
  /\ Msg("self_exit", None, None, None, None) \in AgentMsg
  /\ Msg("ret_gamed_close", None, None, None, None) \in AgentMsg
BY DEF AgentMsg, MsgSet, Msg

\* Sending and receiving keep the mailboxes typed.
LEMMA GqSend ==
  ASSUME MailTypes
  PROVE  \A m \in GamedMsg : ToGamed(m) => gq' \in Seq(GamedMsg)
BY DEF MailTypes, ToGamed

LEMMA AqSend ==
  ASSUME MailTypes
  PROVE  \A a : \A m \in AgentMsg : ToAgent(a, m) => aq' \in [Agents -> Seq(AgentMsg)]
<1> SUFFICES ASSUME NEW a, NEW m \in AgentMsg, ToAgent(a, m)
             PROVE  aq' \in [Agents -> Seq(AgentMsg)]
  OBVIOUS
<1>1. \A b \in Agents : Append(aq[b], m) \in Seq(AgentMsg)
  BY DEF MailTypes
<1> QED
  BY <1>1 DEF MailTypes, ToAgent

LEMMA GqReceive ==
  ASSUME MailTypes, NEW cmd, Receive(cmd)
  PROVE  gq' \in Seq(GamedMsg) /\ GamedFields(Head(gq)) /\ Head(gq).cmd = cmd
<1>1. Head(gq) \in GamedMsg /\ gq' \in Seq(GamedMsg) /\ Head(gq).cmd = cmd
  BY DEF MailTypes, Receive
<1> QED
  BY <1>1, GamedMsgFields

LEMMA AqReceive ==
  ASSUME MailTypes, NEW a \in Agents, NEW cmd, Take(a, cmd)
  PROVE  /\ AgentFields(Head(aq[a])) /\ Head(aq[a]).cmd = cmd
         /\ Drop(a) => aq' \in [Agents -> Seq(AgentMsg)]
<1>1. aq[a] \in Seq(AgentMsg) /\ aq[a] # <<>>
  BY DEF MailTypes, Take
<1>2. Head(aq[a]) \in AgentMsg /\ Tail(aq[a]) \in Seq(AgentMsg)
  BY <1>1
<1>3. Drop(a) => aq' \in [Agents -> Seq(AgentMsg)]
  BY <1>2 DEF Drop, MailTypes
<1> QED
  BY <1>2, <1>3, AgentMsgFields DEF Take

\* A login keeps its type when its record is detached.
LEMMA DetachTyped == \A s \in [Fds -> LoginRec] : \A i : Detach(s, i) \in [Fds -> LoginRec]
BY DEF LoginRec, Detach

LEMMA OnlineTyped ==
  \A a \in Agents : OnlineRecord(a) \in AccountRec /\ ~OnlineRecord(a).isKick
BY DEF OnlineRecord, AccountRec

-----------------------------------------------------------------------------
(* Every action preserves Typed.                                           *)

LEMMA InitTyped == Init => Typed
BY NoneAssumption, BoundAssumption
   DEF Init, Typed, TypeOK, GateTypes, LoginTypes, TaskTypes, MailTypes, AgentTypes, LoginPcs,
       LoginRec, ForwardRec, AccountRec, GcloseRec, OpenRec, CloseRec,
       Coherent, CohOpen, CohClose, CohForward, CohKick,
       NoLogin, NoForward, NoAccount, NoGclose, NoOpen, NoClose

\* forward_agent up to its first yield, from a login or from cmd_gamed_close.
LEMMA ForwardTyped ==
  ASSUME TypeOK, Coherent, NEW c \in Coroutines, NEW f \in Fds, NEW i \in Ids,
         NEW s \in [Fds -> LoginRec], ForwardAgent(c, f, i, s)
  PROVE  /\ ses' \in [Fds -> LoginRec]
         /\ fwd' \in [Coroutines -> ForwardRec]
         /\ online_account' \in [Ids -> AccountRec]
         /\ clear_pool' \in [Ids -> Agents \cup {None}]
         /\ CohForward' /\ CohKick'
         /\ aq' \in [Agents -> Seq(AgentMsg)]
<1>1. clear_pool[i] \in Agents \cup {None}
  BY DEF TypeOK, LoginTypes
<1>2. ses' \in [Fds -> LoginRec]
  BY DetachTyped DEF ForwardAgent
<1>3. clear_pool' \in [Ids -> Agents \cup {None}]
  BY DEF ForwardAgent, LeavePool, TypeOK, LoginTypes
<1>4. /\ fwd' \in [Coroutines -> ForwardRec]
      /\ CohForward'
  BY <1>1 DEF ForwardAgent, Pooled, TypeOK, LoginTypes, ForwardRec, Coherent, CohForward
<1>5. /\ online_account' \in [Ids -> AccountRec]
      /\ CohKick'
  BY <1>1, OnlineTyped DEF ForwardAgent, Pooled, TypeOK, LoginTypes, Coherent, CohKick
<1>6. aq' \in [Agents -> Seq(AgentMsg)]
  BY <1>1, AqSend, AgentMsgs DEF ForwardAgent, Pooled, TypeOK, MailTypes
<1> QED
  BY <1>2, <1>3, <1>4, <1>5, <1>6

\* The two callers of forward_agent meet the assumptions of ForwardTyped.
LEMMA ForwardFromLogin ==
  ASSUME TypeOK, NEW f \in Fds, NEW i \in Ids, LoginHandler(f, i), online_account[i].agent = None
  PROVE  \E s \in [Fds -> LoginRec] : ForwardAgent(f, f, i, s)
<1> DEFINE r == [ses[f] EXCEPT !.pc = "forward", !.id = i]
           s == [ses EXCEPT ![f] = r]
<1>1. ses[f] \in LoginRec
  BY DEF TypeOK, LoginTypes
<1>2. r \in LoginRec
  BY <1>1 DEF LoginRec, LoginPcs
<1>3. s \in [Fds -> LoginRec]
  BY <1>2 DEF TypeOK, LoginTypes
<1>4. ForwardAgent(f, f, i, s)
  BY DEF LoginHandler
<1> QED
  BY <1>3, <1>4

GamedCloseForwards == online_account[Head(gq).id].agent # None /\ online_account[Head(gq).id].isKick

LEMMA ForwardFromClose ==
  ASSUME Typed, GamedClose, GamedCloseForwards
  PROVE  \E f \in Fds, i \in Ids, a \in Agents, s \in [Fds -> LoginRec] : ForwardAgent(a, f, i, s)
<1> DEFINE i == Head(gq).id
           f == online_account[i].fd
           r == [ses[f] EXCEPT !.pc = "forward"]
           s == [ses EXCEPT ![f] = r]
<1>1. i \in Ids /\ Head(gq).agent \in Agents
  BY GqReceive DEF GamedClose, Typed, TypeOK, GamedFields
<1>2. f \in Fds
  BY <1>1 DEF GamedCloseForwards, Typed, Coherent, CohKick
<1>3. ses[f] \in LoginRec
  BY <1>2 DEF Typed, TypeOK, LoginTypes
<1>4. r \in LoginRec
  BY <1>3 DEF LoginRec, LoginPcs
<1>5. s \in [Fds -> LoginRec]
  BY <1>4 DEF Typed, TypeOK, LoginTypes
<1>6. ForwardAgent(Head(gq).agent, f, i, s)
  BY DEF GamedClose, GamedCloseForwards
<1> QED
  BY <1>1, <1>2, <1>5, <1>6

LEMMA ConnectTyped ==
  ASSUME Typed, NEW f \in Fds, Connect(f)
  PROVE  Typed'
<1>1. LoginTypes' /\ TaskTypes' /\ AgentTypes' /\ CohOpen' /\ CohClose' /\
      CohForward' /\ CohKick'
  BY DEF Connect, Typed, TypeOK, Coherent, LoginTypes, TaskTypes, AgentTypes, CohOpen,
         CohClose, CohForward, CohKick, loginVars, taskVars, agentVars
<1>2. GateTypes'
  BY NoneAssumption
  DEF Connect, Typed, TypeOK, GateTypes, gateVars
<1>3. gq' \in Seq(GamedMsg)
  BY GqSend, GamedMsgs
  DEF Connect, Typed, TypeOK, MailTypes
<1>4. aq' \in [Agents -> Seq(AgentMsg)]
  BY DEF Connect, Typed, TypeOK, MailTypes
<1> QED
  BY <1>1, <1>2, <1>3, <1>4
  DEF Typed, TypeOK, Coherent, MailTypes

LEMMA ClientSendTyped ==
  ASSUME Typed, NEW f \in Fds, ClientSend(f)
  PROVE  Typed'
<1>1. LoginTypes' /\ TaskTypes' /\ AgentTypes' /\ CohOpen' /\ CohClose' /\
      CohForward' /\ CohKick'
  BY DEF ClientSend, Typed, TypeOK, Coherent, LoginTypes, TaskTypes, AgentTypes,
         CohOpen, CohClose, CohForward, CohKick, loginVars, taskVars, agentVars
<1>2. GateTypes'
  <2>1. sent' \in [Fds -> 0..MaxData]
    BY BoundAssumption DEF ClientSend, Typed, TypeOK, GateTypes
  <2> QED
    BY <2>1 DEF ClientSend, Typed, TypeOK, GateTypes, gateVars
<1>3. gq' \in Seq(GamedMsg)
  BY GqSend, GamedMsgs
  DEF ClientSend, Typed, TypeOK, MailTypes
<1>4. aq' \in [Agents -> Seq(AgentMsg)]
  BY DEF ClientSend, Typed, TypeOK, MailTypes
<1> QED
  BY <1>1, <1>2, <1>3, <1>4
  DEF Typed, TypeOK, Coherent, MailTypes

LEMMA ClientCloseTyped ==
  ASSUME Typed, NEW f \in Fds, ClientClose(f)
  PROVE  Typed'
<1>1. LoginTypes' /\ TaskTypes' /\ AgentTypes' /\ CohOpen' /\ CohClose' /\
      CohForward' /\ CohKick'
  BY DEF ClientClose, Typed, TypeOK, Coherent, LoginTypes, TaskTypes, AgentTypes,
         CohOpen, CohClose, CohForward, CohKick, loginVars, taskVars, agentVars
<1>2. GateTypes'
  BY NoneAssumption
  DEF ClientClose, Typed, TypeOK, GateTypes, gateVars
<1>3. gq' \in Seq(GamedMsg)
  BY GqSend, GamedMsgs
  DEF ClientClose, Typed, TypeOK, MailTypes
<1>4. aq' \in [Agents -> Seq(AgentMsg)]
  BY DEF ClientClose, Typed, TypeOK, MailTypes
<1> QED
  BY <1>1, <1>2, <1>3, <1>4
  DEF Typed, TypeOK, Coherent, MailTypes

LEMMA SocketClosedTyped ==
  ASSUME Typed, NEW f \in Fds, SocketClosed(f)
  PROVE  Typed'
<1>1. LoginTypes' /\ TaskTypes' /\ AgentTypes' /\ CohOpen' /\ CohClose' /\
      CohForward' /\ CohKick'
  BY DEF SocketClosed, Typed, TypeOK, Coherent, LoginTypes, TaskTypes, AgentTypes,
         CohOpen, CohClose, CohForward, CohKick, loginVars, taskVars, agentVars
<1>2. GateTypes'
  BY NoneAssumption
  DEF SocketClosed, Typed, TypeOK, GateTypes, gateVars
<1>3. gq' \in Seq(GamedMsg)
  BY GqSend, GamedMsgs
  DEF SocketClosed, Typed, TypeOK, MailTypes
<1>4. aq' \in [Agents -> Seq(AgentMsg)]
  BY DEF SocketClosed, Typed, TypeOK, MailTypes
<1> QED
  BY <1>1, <1>2, <1>3, <1>4
  DEF Typed, TypeOK, Coherent, MailTypes

LEMMA MsgOpenTyped ==
  ASSUME Typed, MsgOpen
  PROVE  Typed'
<1>1. GamedFields(Head(gq)) /\ Head(gq).cmd = "open" /\ gq' \in Seq(GamedMsg)
  BY GqReceive
  DEF MsgOpen, Typed, TypeOK
<1>2. LoginTypes' /\ TaskTypes' /\ AgentTypes' /\ CohOpen' /\ CohClose' /\
      CohForward' /\ CohKick'
  BY DEF MsgOpen, Typed, TypeOK, Coherent, LoginTypes, TaskTypes, AgentTypes, CohOpen,
         CohClose, CohForward, CohKick, loginVars, taskVars, agentVars
<1>3. GateTypes'
  <2>1. CASE Full
    BY <1>1, <2>1 DEF MsgOpen, GamedFields, Typed, TypeOK, GateTypes, gateVars
  <2>2. CASE ~Full
    <3>1. nclient + 1 \in Int
      BY DEF Typed, TypeOK, GateTypes
    <3> QED
      BY <1>1, <2>2, <3>1 DEF MsgOpen, Typed, TypeOK, GateTypes
  <2> QED
    BY <2>1, <2>2
<1>4. gq' \in Seq(GamedMsg)
  BY <1>1
  DEF MsgOpen, GamedFields, Typed, TypeOK, MailTypes
<1>5. aq' \in [Agents -> Seq(AgentMsg)]
  BY <1>1
  DEF MsgOpen, GamedFields, Typed, TypeOK, MailTypes
<1> QED
  BY <1>2, <1>3, <1>4, <1>5
  DEF Typed, TypeOK, Coherent, MailTypes

LEMMA MsgDataTyped ==
  ASSUME Typed, MsgData
  PROVE  Typed'
<1>1. GamedFields(Head(gq)) /\ Head(gq).cmd = "data" /\ gq' \in Seq(GamedMsg)
  BY GqReceive
  DEF MsgData, Typed, TypeOK
<1>2. TaskTypes' /\ AgentTypes' /\ CohOpen' /\ CohClose' /\ CohForward' /\
      CohKick'
  BY DEF MsgData, Typed, TypeOK, Coherent, TaskTypes, AgentTypes, CohOpen, CohClose,
         CohForward, CohKick, taskVars, agentVars
<1>3. GateTypes'
  BY <1>1, NoneAssumption
  DEF MsgData, Authenticating, NoLogin, GamedFields, Typed, TypeOK, GateTypes, sockVars
<1>4. LoginTypes'
  <2>1. [NoLogin EXCEPT !.pc = "auth"] \in LoginRec
    BY DEF NoLogin, LoginPcs, LoginRec
  <2> QED
    BY <1>1, <2>1 DEF MsgData, GamedFields, Typed, TypeOK, LoginTypes
<1>5. gq' \in Seq(GamedMsg)
  BY <1>1
  DEF MsgData, GamedFields, Typed, TypeOK, MailTypes
<1>6. aq' \in [Agents -> Seq(AgentMsg)]
  BY <1>1, AqSend, AgentMsgs
  DEF MsgData, GamedFields, Typed, TypeOK, MailTypes
<1> QED
  BY <1>2, <1>3, <1>4, <1>5, <1>6
  DEF Typed, TypeOK, Coherent, MailTypes

LEMMA MsgCloseTyped ==
  ASSUME Typed, MsgClose
  PROVE  Typed'
<1>1. GamedFields(Head(gq)) /\ Head(gq).cmd = "close" /\ gq' \in Seq(GamedMsg)
  BY GqReceive
  DEF MsgClose, Typed, TypeOK
<1>2. GateTypes' /\ LoginTypes' /\ AgentTypes' /\ CohOpen' /\ CohClose' /\
      CohForward' /\ CohKick'
  BY DEF MsgClose, Typed, TypeOK, Coherent, GateTypes, LoginTypes, AgentTypes, CohOpen,
         CohClose, CohForward, CohKick, sockVars, gateVars, loginVars, agentVars
<1>3. TaskTypes'
  BY <1>1, NoneAssumption
  DEF MsgClose, GamedFields, Typed, TypeOK, TaskTypes
<1>4. gq' \in Seq(GamedMsg)
  BY <1>1
  DEF MsgClose, GamedFields, Typed, TypeOK, MailTypes
<1>5. aq' \in [Agents -> Seq(AgentMsg)]
  BY <1>1
  DEF MsgClose, GamedFields, Typed, TypeOK, MailTypes
<1> QED
  BY <1>2, <1>3, <1>4, <1>5
  DEF Typed, TypeOK, Coherent, MailTypes

LEMMA CloseFdTyped ==
  ASSUME Typed, NEW f \in Fds, CloseFd(f)
  PROVE  Typed'
<1>1. LoginTypes' /\ AgentTypes' /\ CohOpen' /\ CohClose' /\ CohForward' /\
      CohKick'
  BY DEF CloseFd, Typed, TypeOK, Coherent, LoginTypes, AgentTypes, CohOpen, CohClose,
         CohForward, CohKick, loginVars, agentVars
<1>2. GateTypes'
  <2>1. nclient - 1 \in Int
    BY DEF Typed, TypeOK, GateTypes
  <2> QED
    BY <2>1 DEF CloseFd, Typed, TypeOK, GateTypes, sockVars
<1>3. TaskTypes'
  BY NoneAssumption
  DEF CloseFd, Typed, TypeOK, TaskTypes
<1>4. gq' \in Seq(GamedMsg)
  BY DEF CloseFd, Typed, TypeOK, MailTypes
<1>5. aq' \in [Agents -> Seq(AgentMsg)]
  BY AqSend, AgentMsgs
  DEF CloseFd, Typed, TypeOK, MailTypes
<1> QED
  BY <1>1, <1>2, <1>3, <1>4, <1>5
  DEF Typed, TypeOK, Coherent, MailTypes

LEMMA RetCloseTyped ==
  ASSUME Typed, RetClose
  PROVE  Typed'
<1>1. GamedFields(Head(gq)) /\ Head(gq).cmd = "ret_close" /\ gq' \in Seq(GamedMsg)
  BY GqReceive
  DEF RetClose, Typed, TypeOK
<1>2. LoginTypes' /\ AgentTypes' /\ CohOpen' /\ CohClose' /\ CohForward' /\
      CohKick'
  BY DEF RetClose, Typed, TypeOK, Coherent, LoginTypes, AgentTypes, CohOpen, CohClose,
         CohForward, CohKick, loginVars, agentVars
<1>3. GateTypes'
  <2>1. nclient - 1 \in Int
    BY DEF Typed, TypeOK, GateTypes
  <2> QED
    BY <2>1 DEF RetClose, Typed, TypeOK, GateTypes, sockVars
<1>4. TaskTypes'
  BY <1>1, NoneAssumption
  DEF RetClose, GamedFields, Typed, TypeOK, TaskTypes
<1>5. gq' \in Seq(GamedMsg)
  BY <1>1
  DEF RetClose, GamedFields, Typed, TypeOK, MailTypes
<1>6. aq' \in [Agents -> Seq(AgentMsg)]
  BY <1>1
  DEF RetClose, GamedFields, Typed, TypeOK, MailTypes
<1> QED
  BY <1>2, <1>3, <1>4, <1>5, <1>6
  DEF Typed, TypeOK, Coherent, MailTypes

LEMMA LoginHandlerTyped ==
  ASSUME Typed, NEW f \in Fds, NEW i \in Ids, LoginHandler(f, i)
  PROVE  Typed'
<1>1. GateTypes' /\ TaskTypes' /\ AgentTypes' /\ CohOpen' /\ CohClose'
  BY DEF LoginHandler, ForwardAgent, Typed, TypeOK, Coherent, GateTypes, TaskTypes,
         AgentTypes, CohOpen, CohClose, sockVars, gateVars, taskVars, agentVars
<1>2. LoginTypes'
  <2>1. CASE online_account[i].agent # None
    <3>1. [pc |-> "other", id |-> i, agent |-> online_account[i].agent, info |-> TRUE] \in LoginRec
      BY DEF Typed, TypeOK, LoginTypes, AccountRec, LoginRec, LoginPcs
    <3> QED
      BY <2>1, <3>1 DEF LoginHandler, Typed, TypeOK, LoginTypes
  <2>2. CASE online_account[i].agent = None
    BY <2>2, ForwardFromLogin, ForwardTyped
    DEF LoginHandler, Typed, TypeOK, Coroutines, LoginTypes
  <2> QED
    BY <2>1, <2>2
<1>3. CohForward'
  <2>1. CASE online_account[i].agent # None
    BY <2>1 DEF LoginHandler, Typed, Coherent, CohForward
  <2>2. CASE online_account[i].agent = None
    BY <2>2, ForwardFromLogin, ForwardTyped DEF LoginHandler, Typed, Coroutines
  <2> QED
    BY <2>1, <2>2
<1>4. CohKick'
  <2>1. CASE online_account[i].agent # None
    BY <2>1 DEF LoginHandler, Typed, Coherent, CohKick
  <2>2. CASE online_account[i].agent = None
    BY <2>2, ForwardFromLogin, ForwardTyped DEF LoginHandler, Typed, Coroutines
  <2> QED
    BY <2>1, <2>2
<1>5. gq' \in Seq(GamedMsg)
  BY DEF LoginHandler, ForwardAgent, Detach, Typed, TypeOK, MailTypes
<1>6. aq' \in [Agents -> Seq(AgentMsg)]
  BY AqSend, AgentMsgs
  DEF LoginHandler, ForwardAgent, Typed, TypeOK, MailTypes, Coroutines
<1> QED
  BY <1>1, <1>2, <1>3, <1>4, <1>5, <1>6
  DEF Typed, TypeOK, Coherent, MailTypes

LEMMA LoginFailedTyped ==
  ASSUME Typed, NEW f \in Fds, LoginFailed(f)
  PROVE  Typed'
<1>1. GateTypes' /\ AgentTypes' /\ CohOpen' /\ CohClose' /\ CohForward' /\
      CohKick'
  BY DEF LoginFailed, Typed, TypeOK, Coherent, GateTypes, AgentTypes, CohOpen, CohClose,
         CohForward, CohKick, sockVars, gateVars, agentVars
<1>2. LoginTypes'
  BY NoneAssumption
  DEF LoginFailed, Typed, TypeOK, LoginTypes, LoginRec, LoginPcs
<1>3. TaskTypes'
  BY NoneAssumption
  DEF LoginFailed, Typed, TypeOK, TaskTypes
<1>4. gq' \in Seq(GamedMsg)
  BY DEF LoginFailed, Typed, TypeOK, MailTypes
<1>5. aq' \in [Agents -> Seq(AgentMsg)]
  BY DEF LoginFailed, Typed, TypeOK, MailTypes
<1> QED
  BY <1>1, <1>2, <1>3, <1>4, <1>5
  DEF Typed, TypeOK, Coherent, MailTypes

LEMMA RetOtherTyped ==
  ASSUME Typed, RetOther
  PROVE  Typed'
<1>1. GamedFields(Head(gq)) /\ Head(gq).cmd = "ret_other" /\ gq' \in Seq(GamedMsg)
  BY GqReceive
  DEF RetOther, Typed, TypeOK
<1>2. GateTypes' /\ TaskTypes' /\ AgentTypes' /\ CohOpen' /\ CohClose' /\
      CohForward' /\ CohKick'
  BY DEF RetOther, Typed, TypeOK, Coherent, GateTypes, TaskTypes, AgentTypes, CohOpen,
         CohClose, CohForward, CohKick, sockVars, gateVars, taskVars, agentVars
<1>3. LoginTypes'
  <2>1. \A r \in LoginRec : /\ [r EXCEPT !.pc = "kick"] \in LoginRec
                            /\ [r EXCEPT !.pc = "dead"] \in LoginRec
    BY DEF LoginRec, LoginPcs
  <2> QED
    BY <2>1 DEF RetOther, Typed, TypeOK, LoginTypes
<1>4. gq' \in Seq(GamedMsg)
  BY <1>1
  DEF RetOther, GamedFields, Typed, TypeOK, MailTypes
<1>5. aq' \in [Agents -> Seq(AgentMsg)]
  BY <1>1, AqSend, AgentMsgs
  DEF RetOther, GamedFields, Typed, TypeOK, MailTypes
<1> QED
  BY <1>2, <1>3, <1>4, <1>5
  DEF Typed, TypeOK, Coherent, MailTypes

LEMMA RetKickTyped ==
  ASSUME Typed, RetKick
  PROVE  Typed'
<1>1. GamedFields(Head(gq)) /\ Head(gq).cmd = "ret_kick" /\ gq' \in Seq(GamedMsg)
  BY GqReceive
  DEF RetKick, Typed, TypeOK
<1>2. GateTypes' /\ TaskTypes' /\ AgentTypes' /\ CohOpen' /\ CohClose' /\
      CohForward'
  BY DEF RetKick, Typed, TypeOK, Coherent, GateTypes, TaskTypes, AgentTypes, CohOpen,
         CohClose, CohForward, sockVars, gateVars, taskVars, agentVars
<1>3. LoginTypes'
  <2> DEFINE f == Head(gq).from
             i == ses[f].id
  <2>1. f \in Fds
    BY <1>1 DEF GamedFields
  <2>2. ses[f] \in LoginRec
    BY <2>1 DEF Typed, TypeOK, LoginTypes
  <2>3. [ses[f] EXCEPT !.pc = "parked", !.info = FALSE] \in LoginRec
    BY <2>2 DEF LoginRec, LoginPcs
  <2>4. \A r \in AccountRec : [r EXCEPT !.isKick = TRUE, !.fd = f] \in AccountRec
    BY <2>1 DEF AccountRec
  <2> QED
    BY <2>1, <2>3, <2>4 DEF RetKick, Typed, TypeOK, LoginTypes
<1>4. CohKick'
  <2>1. Head(gq).from \in Fds
    BY <1>1 DEF GamedFields
  <2> QED
    BY <2>1 DEF RetKick, Typed, TypeOK, LoginTypes, AccountRec, Coherent, CohKick
<1>5. gq' \in Seq(GamedMsg)
  BY <1>1
  DEF RetKick, GamedFields, Typed, TypeOK, MailTypes
<1>6. aq' \in [Agents -> Seq(AgentMsg)]
  BY <1>1
  DEF RetKick, GamedFields, Typed, TypeOK, MailTypes
<1> QED
  BY <1>2, <1>3, <1>4, <1>5, <1>6
  DEF Typed, TypeOK, Coherent, MailTypes

LEMMA CallErrorTyped ==
  ASSUME Typed, NEW f \in Fds, CallError(f)
  PROVE  Typed'
<1>1. GateTypes' /\ AgentTypes' /\ CohOpen' /\ CohClose' /\ CohForward' /\
      CohKick'
  BY DEF CallError, Typed, TypeOK, Coherent, GateTypes, AgentTypes, CohOpen, CohClose,
         CohForward, CohKick, sockVars, gateVars, agentVars
<1>2. LoginTypes'
  <2>1. ses[f] \in LoginRec
    BY DEF Typed, TypeOK, LoginTypes
  <2>2. [ses[f] EXCEPT !.pc = "dead", !.info = FALSE] \in LoginRec
    BY <2>1 DEF LoginRec, LoginPcs
  <2> QED
    BY <2>2 DEF CallError, Typed, TypeOK, LoginTypes
<1>3. TaskTypes'
  BY NoneAssumption
  DEF CallError, Typed, TypeOK, TaskTypes
<1>4. gq' \in Seq(GamedMsg)
  BY DEF CallError, Typed, TypeOK, MailTypes
<1>5. aq' \in [Agents -> Seq(AgentMsg)]
  BY DEF CallError, Typed, TypeOK, MailTypes
<1> QED
  BY <1>1, <1>2, <1>3, <1>4, <1>5
  DEF Typed, TypeOK, Coherent, MailTypes

LEMMA CreateAgentTyped ==
  ASSUME Typed, NEW c \in Coroutines, NEW a \in Agents, CreateAgent(c, a)
  PROVE  Typed'
<1>1. GateTypes' /\ TaskTypes' /\ CohOpen' /\ CohClose'
  BY DEF CreateAgent, Typed, TypeOK, Coherent, GateTypes, TaskTypes, CohOpen, CohClose,
         sockVars, gateVars, taskVars
<1>2. LoginTypes'
  <2>1. fwd[c] \in ForwardRec /\ fwd[c].id \in Ids
    BY DEF CreateAgent, Typed, TypeOK, LoginTypes, Coherent, CohForward
  <2>2. [fwd[c] EXCEPT !.pc = "open", !.agent = a] \in ForwardRec
    BY <2>1 DEF ForwardRec
  <2> QED
    BY <2>1, <2>2, DetachTyped, OnlineTyped DEF CreateAgent, Typed, TypeOK, LoginTypes
<1>3. AgentTypes'
  BY NoneAssumption
  DEF CreateAgent, Detach, OnlineRecord, Typed, TypeOK, AgentTypes
<1>4. CohForward'
  BY NoneAssumption
  DEF CreateAgent, Detach, OnlineRecord, Typed, TypeOK, Coherent, CohForward,
      LoginTypes, ForwardRec
<1>5. CohKick'
  BY NoneAssumption
  DEF CreateAgent, Detach, OnlineRecord, Typed, TypeOK, Coherent, CohKick, LoginTypes,
      AccountRec
<1>6. gq' \in Seq(GamedMsg)
  BY DEF CreateAgent, Detach, Typed, TypeOK, MailTypes, Coherent, CohForward
<1>7. aq' \in [Agents -> Seq(AgentMsg)]
  <2>1. fwd[c].id \in Ids /\ fwd[c].fd \in Fds
    BY DEF CreateAgent, Typed, Coherent, CohForward
  <2> DEFINE m == Msg("cmd_agent_open", fwd[c].fd, c, None, fwd[c].id)
  <2>2. m \in AgentMsg
    BY <2>1, AgentMsgs
  <2>3. aq' = [aq EXCEPT ![a] = Append(@, m)]
    BY DEF CreateAgent
  <2> HIDE DEF m
  <2> QED
    BY <2>2, <2>3 DEF Typed, TypeOK, MailTypes
<1> QED
  BY <1>1, <1>2, <1>3, <1>4, <1>5, <1>6, <1>7
  DEF Typed, TypeOK, Coherent, MailTypes

LEMMA RetOpenTyped ==
  ASSUME Typed, RetOpen
  PROVE  Typed'
<1>1. GamedFields(Head(gq)) /\ Head(gq).cmd = "ret_open" /\ gq' \in Seq(GamedMsg)
  BY GqReceive
  DEF RetOpen, Typed, TypeOK
<1>2. AgentTypes' /\ CohOpen' /\ CohClose' /\ CohKick'
  BY DEF RetOpen, Typed, TypeOK, Coherent, AgentTypes, CohOpen, CohClose, CohKick,
         agentVars
<1>3. GateTypes'
  <2>1. \A c \in Coroutines : fwd[c].agent \in Agents \cup {None}
    BY DEF Typed, TypeOK, LoginTypes, ForwardRec
  <2>2. Head(gq).from \in Coroutines
    BY <1>1 DEF GamedFields
  <2>3. cagent' \in [Fds -> Agents \cup {None}]
    BY <2>1, <2>2 DEF RetOpen, Bound, Typed, TypeOK, GateTypes
  <2>4. pending_msg' \in [Fds -> Int]
    <3>1. -1 \in Int
      OBVIOUS
    <3> QED
      BY <3>1 DEF RetOpen, Typed, TypeOK, GateTypes
  <2> QED
    BY <2>3, <2>4 DEF RetOpen, Typed, TypeOK, GateTypes, sockVars
<1>4. LoginTypes'
  <2>1. NoForward \in ForwardRec
    BY DEF NoForward, ForwardRec
  <2>2. \A r \in LoginRec : [r EXCEPT !.pc = "done"] \in LoginRec
    BY DEF LoginRec, LoginPcs
  <2> QED
    BY <2>1, <2>2 DEF RetOpen, Typed, TypeOK, LoginTypes
<1>5. TaskTypes'
  BY <1>1, NoneAssumption
  DEF RetOpen, Bound, NoForward, GamedFields, Typed, TypeOK, TaskTypes, GcloseRec
<1>6. CohForward'
  BY <1>1, NoneAssumption
  DEF RetOpen, Bound, NoForward, GamedFields, Typed, TypeOK, Coherent, CohForward,
      LoginTypes, ForwardRec
<1>7. gq' \in Seq(GamedMsg)
  BY <1>1
  DEF RetOpen, GamedFields, Typed, TypeOK, MailTypes
<1>8. aq' \in [Agents -> Seq(AgentMsg)]
  BY <1>1
  DEF RetOpen, GamedFields, Typed, TypeOK, MailTypes
<1> QED
  BY <1>2, <1>3, <1>4, <1>5, <1>6, <1>7, <1>8
  DEF Typed, TypeOK, Coherent, MailTypes

LEMMA GamedKickTyped ==
  ASSUME Typed, GamedKick
  PROVE  Typed'
<1>1. GamedFields(Head(gq)) /\ Head(gq).cmd = "cmd_gamed_kick" /\ gq' \in Seq(GamedMsg)
  BY GqReceive
  DEF GamedKick, Typed, TypeOK
<1>2. GateTypes' /\ LoginTypes' /\ AgentTypes' /\ CohOpen' /\ CohClose' /\
      CohForward' /\ CohKick'
  BY DEF GamedKick, Typed, TypeOK, Coherent, GateTypes, LoginTypes, AgentTypes, CohOpen,
         CohClose, CohForward, CohKick, sockVars, gateVars, loginVars, agentVars
<1>3. TaskTypes'
  BY <1>1, NoneAssumption
  DEF GamedKick, GamedFields, Typed, TypeOK, TaskTypes
<1>4. gq' \in Seq(GamedMsg)
  BY <1>1
  DEF GamedKick, GamedFields, Typed, TypeOK, MailTypes
<1>5. aq' \in [Agents -> Seq(AgentMsg)]
  BY <1>1, AqSend, AgentMsgs
  DEF GamedKick, GamedFields, Typed, TypeOK, MailTypes
<1> QED
  BY <1>2, <1>3, <1>4, <1>5
  DEF Typed, TypeOK, Coherent, MailTypes

LEMMA CloseClientTyped ==
  ASSUME Typed, NEW k \in kicks, CloseClient(k)
  PROVE  Typed'
<1>1. LoginTypes' /\ AgentTypes' /\ CohOpen' /\ CohClose' /\ CohForward' /\
      CohKick'
  BY DEF CloseClient, Typed, TypeOK, Coherent, LoginTypes, AgentTypes, CohOpen,
         CohClose, CohForward, CohKick, loginVars, agentVars
<1>2. GateTypes'
  BY NoneAssumption
  DEF CloseClient, Typed, TypeOK, GateTypes, gateVars
<1>3. TaskTypes'
  BY NoneAssumption
  DEF CloseClient, Typed, TypeOK, TaskTypes
<1>4. gq' \in Seq(GamedMsg)
  BY DEF CloseClient, Typed, TypeOK, MailTypes
<1>5. aq' \in [Agents -> Seq(AgentMsg)]
  BY AqSend, AgentMsgs
  DEF CloseClient, Typed, TypeOK, MailTypes, TaskTypes
<1> QED
  BY <1>1, <1>2, <1>3, <1>4, <1>5
  DEF Typed, TypeOK, Coherent, MailTypes

LEMMA GamedCloseTyped ==
  ASSUME Typed, GamedClose
  PROVE  Typed'
<1>1. GamedFields(Head(gq)) /\ Head(gq).cmd = "cmd_gamed_close" /\ gq' \in Seq(GamedMsg)
  BY GqReceive
  DEF GamedClose, Typed, TypeOK
<1>2. GateTypes' /\ AgentTypes' /\ CohOpen' /\ CohClose'
  BY DEF GamedClose, ForwardAgent, Typed, TypeOK, Coherent, GateTypes, AgentTypes,
         CohOpen, CohClose, sockVars, gateVars, agentVars
<1>3. LoginTypes'
  <2>1. CASE GamedCloseForwards
    BY <2>1, ForwardFromClose, ForwardTyped DEF GamedClose, Typed, TypeOK, LoginTypes, Coroutines
  <2>2. CASE ~GamedCloseForwards
    <3>1. NoAccount \in AccountRec
      BY DEF NoAccount, AccountRec
    <3> QED
      BY SMTT(30), <2>2, <3>1, DetachTyped DEF GamedCloseForwards, GamedClose, Typed, TypeOK, LoginTypes
  <2> QED
    BY <2>1, <2>2
<1>4. TaskTypes'
  <2>1. Head(gq).agent \in Agents /\ Head(gq).id \in Ids
    BY <1>1 DEF GamedFields
  <2>2. \A p \in {"forward", "pool"} : [pc |-> p, id |-> Head(gq).id] \in GcloseRec
    BY <2>1 DEF GcloseRec
  <2> QED
    BY <2>1, <2>2 DEF GamedClose, Typed, TypeOK, TaskTypes
<1>5. CohForward'
  <2>1. CASE GamedCloseForwards
    BY <2>1, ForwardFromClose, ForwardTyped DEF GamedClose, Typed, Coroutines
  <2>2. CASE ~GamedCloseForwards
    BY <2>2 DEF GamedCloseForwards, GamedClose, Typed, TypeOK, Coherent, CohForward
  <2> QED
    BY <2>1, <2>2
<1>6. CohKick'
  <2>1. CASE GamedCloseForwards
    BY <2>1, ForwardFromClose, ForwardTyped DEF GamedClose, Typed, Coroutines
  <2>2. CASE ~GamedCloseForwards
    BY SMTT(30), <2>2 DEF GamedCloseForwards, GamedClose, Typed, TypeOK, Coherent, CohKick, LoginTypes, AccountRec, NoAccount
  <2> QED
    BY <2>1, <2>2
<1>7. gq' \in Seq(GamedMsg)
  BY <1>1
  DEF GamedClose, ForwardAgent, Detach, GamedFields, Typed, TypeOK, MailTypes, Coherent,
      CohKick
<1>8. aq' \in [Agents -> Seq(AgentMsg)]
  <2>1. CASE GamedCloseForwards
    BY <2>1, ForwardFromClose, ForwardTyped DEF GamedClose, Typed, Coroutines
  <2>2. CASE ~GamedCloseForwards
    BY <2>2 DEF GamedCloseForwards, GamedClose, Typed, TypeOK, MailTypes
  <2> QED
    BY <2>1, <2>2
<1> QED
  BY <1>2, <1>3, <1>4, <1>5, <1>6, <1>7, <1>8
  DEF Typed, TypeOK, Coherent, MailTypes

LEMMA PoolAgentTyped ==
  ASSUME Typed, NEW a \in Agents, PoolAgent(a)
  PROVE  Typed'
<1>1. GateTypes' /\ AgentTypes' /\ CohOpen' /\ CohClose' /\ CohForward' /\
      CohKick'
  BY DEF PoolAgent, Typed, TypeOK, Coherent, GateTypes, AgentTypes, CohOpen, CohClose,
         CohForward, CohKick, sockVars, gateVars, agentVars
<1>2. LoginTypes'
  BY NoneAssumption
  DEF PoolAgent, NoGclose, Typed, TypeOK, LoginTypes
<1>3. TaskTypes'
  BY NoneAssumption
  DEF PoolAgent, NoGclose, Typed, TypeOK, TaskTypes, GcloseRec
<1>4. gq' \in Seq(GamedMsg)
  BY DEF PoolAgent, Typed, TypeOK, MailTypes
<1>5. aq' \in [Agents -> Seq(AgentMsg)]
  BY AgentMsgs
  DEF PoolAgent, Typed, TypeOK, MailTypes
<1> QED
  BY <1>1, <1>2, <1>3, <1>4, <1>5
  DEF Typed, TypeOK, Coherent, MailTypes

LEMMA FiveSecTickTyped ==
  ASSUME Typed, NEW S \in SUBSET Ids, FiveSecTick(S)
  PROVE  Typed'
<1>1. GateTypes' /\ TaskTypes' /\ AgentTypes' /\ CohOpen' /\ CohClose' /\
      CohForward' /\ CohKick'
  BY DEF FiveSecTick, Typed, TypeOK, Coherent, GateTypes, TaskTypes, AgentTypes,
         CohOpen, CohClose, CohForward, CohKick, sockVars, gateVars, taskVars, agentVars
<1>2. LoginTypes'
  BY NoneAssumption
  DEF FiveSecTick, Expire, Typed, TypeOK, LoginTypes
<1>3. gq' \in Seq(GamedMsg)
  BY DEF FiveSecTick, Typed, TypeOK, MailTypes
<1>4. aq' \in [Agents -> Seq(AgentMsg)]
  BY AgentMsgs
  DEF FiveSecTick, Typed, TypeOK, MailTypes
<1> QED
  BY <1>1, <1>2, <1>3, <1>4
  DEF Typed, TypeOK, Coherent, MailTypes

LEMMA AgentOpenTyped ==
  ASSUME Typed, NEW a \in Agents, AgentOpen(a)
  PROVE  Typed'
<1>1. AgentFields(Head(aq[a])) /\ Head(aq[a]).cmd = "cmd_agent_open" /\ aq' \in [Agents -> Seq(AgentMsg)]
  BY AqReceive
  DEF AgentOpen, Typed, TypeOK
<1>2. GateTypes' /\ LoginTypes' /\ TaskTypes' /\ CohClose' /\ CohForward' /\
      CohKick'
  BY DEF AgentOpen, Typed, TypeOK, Coherent, GateTypes, LoginTypes, TaskTypes, CohClose,
         CohForward, CohKick, sockVars, gateVars, loginVars, taskVars
<1>3. AgentTypes'
  BY <1>1, NoneAssumption
  DEF AgentOpen, AgentFields, Typed, TypeOK, AgentTypes, OpenRec
<1>4. CohOpen'
  BY <1>1, NoneAssumption
  DEF AgentOpen, AgentFields, Typed, TypeOK, Coherent, CohOpen, AgentTypes, OpenRec
<1>5. gq' \in Seq(GamedMsg)
  BY <1>1
  DEF AgentOpen, AgentFields, Typed, TypeOK, MailTypes
<1>6. aq' \in [Agents -> Seq(AgentMsg)]
  BY <1>1
  DEF AgentOpen, AgentFields, Typed, TypeOK, MailTypes
<1> QED
  BY <1>2, <1>3, <1>4, <1>5, <1>6
  DEF Typed, TypeOK, Coherent, MailTypes

LEMMA OpenLoadedTyped ==
  ASSUME Typed, NEW a \in Agents, OpenLoaded(a)
  PROVE  Typed'
<1>1. GateTypes' /\ LoginTypes' /\ TaskTypes' /\ CohForward' /\ CohKick'
  BY DEF OpenLoaded, Typed, TypeOK, Coherent, GateTypes, LoginTypes, TaskTypes,
         CohForward, CohKick, sockVars, gateVars, loginVars, taskVars
<1>2. AgentTypes'
  <2>1. aopen[a] \in OpenRec /\ NoOpen \in OpenRec
    BY DEF NoOpen, OpenRec, Typed, TypeOK, AgentTypes
  <2>2. [aopen[a] EXCEPT !.pc = "reg"] \in OpenRec
    BY <2>1 DEF OpenRec
  <2>3. aopen[a].id \in Ids /\ aopen[a].fd \in Fds
    BY DEF OpenLoaded, Typed, Coherent, CohOpen
  <2>4. aopen' \in [Agents -> OpenRec]
    BY <2>1, <2>2 DEF OpenLoaded, Typed, TypeOK, AgentTypes
  <2>5. user_id' \in [Agents -> Ids \cup {None}]
    BY <2>3 DEF OpenLoaded, Typed, TypeOK, AgentTypes
  <2>6. user_fd' \in [Agents -> Fds \cup {None}]
    BY <2>3 DEF OpenLoaded, Typed, TypeOK, AgentTypes
  <2> QED
    BY <2>4, <2>5, <2>6 DEF OpenLoaded, Typed, TypeOK, AgentTypes
<1>3. CohOpen'
  <2>1. \A b \in Agents : /\ b # a => aopen'[b] = aopen[b]
                          /\ aopen'[a].pc # "none" => /\ aopen'[a].fd = aopen[a].fd
                                                      /\ aopen'[a].from = aopen[a].from
                                                      /\ aopen'[a].id = aopen[a].id
    <3>1. CASE aopen' = [aopen EXCEPT ![a].pc = "reg"]
      BY <3>1 DEF Typed, TypeOK, AgentTypes, OpenRec
    <3>2. CASE aopen' = [aopen EXCEPT ![a] = NoOpen]
      BY <3>2 DEF Typed, TypeOK, AgentTypes, NoOpen
    <3> QED
      BY <3>1, <3>2 DEF OpenLoaded
  <2>2. aopen[a].fd \in Fds /\ aopen[a].from \in Coroutines /\ aopen[a].id \in Ids
    BY DEF OpenLoaded, Typed, Coherent, CohOpen
  <2> QED
    BY <2>1, <2>2 DEF Typed, Coherent, CohOpen
<1>4. CohClose'
  <2>1. aopen[a].id \in Ids
    BY DEF OpenLoaded, Typed, Coherent, CohOpen
  <2> QED
    BY <2>1 DEF OpenLoaded, Typed, TypeOK, Coherent, CohClose, AgentTypes
<1>5. gq' \in Seq(GamedMsg)
  BY GqSend, GamedMsgs
  DEF OpenLoaded, RetNil, Typed, TypeOK, MailTypes, Coherent, CohOpen
<1>6. aq' \in [Agents -> Seq(AgentMsg)]
  BY DEF OpenLoaded, Typed, TypeOK, MailTypes
<1> QED
  BY <1>1, <1>2, <1>3, <1>4, <1>5, <1>6
  DEF Typed, TypeOK, Coherent, MailTypes

LEMMA OpenRegisteredTyped ==
  ASSUME Typed, NEW a \in Agents, OpenRegistered(a)
  PROVE  Typed'
<1>1. GateTypes' /\ LoginTypes' /\ TaskTypes' /\ CohClose' /\ CohForward' /\
      CohKick'
  BY DEF OpenRegistered, Typed, TypeOK, Coherent, GateTypes, LoginTypes, TaskTypes,
         CohClose, CohForward, CohKick, sockVars, gateVars, loginVars, taskVars
<1>2. AgentTypes'
  BY ZenonT(60), NoneAssumption
  DEF OpenRegistered, Typed, TypeOK, AgentTypes, OpenRec
<1>3. CohOpen'
  BY NoneAssumption
  DEF OpenRegistered, Typed, TypeOK, Coherent, CohOpen, AgentTypes, OpenRec
<1>4. gq' \in Seq(GamedMsg)
  BY DEF OpenRegistered, Typed, TypeOK, MailTypes
<1>5. aq' \in [Agents -> Seq(AgentMsg)]
  BY DEF OpenRegistered, Typed, TypeOK, MailTypes
<1> QED
  BY <1>1, <1>2, <1>3, <1>4, <1>5
  DEF Typed, TypeOK, Coherent, MailTypes

LEMMA OpenLoggedInTyped ==
  ASSUME Typed, NEW a \in Agents, OpenLoggedIn(a)
  PROVE  Typed'
<1>1. GateTypes' /\ LoginTypes' /\ TaskTypes' /\ CohClose' /\ CohForward' /\
      CohKick'
  BY DEF OpenLoggedIn, Typed, TypeOK, Coherent, GateTypes, LoginTypes, TaskTypes,
         CohClose, CohForward, CohKick, sockVars, gateVars, loginVars, taskVars
<1>2. AgentTypes'
  BY NoneAssumption
  DEF OpenLoggedIn, NoOpen, Typed, TypeOK, AgentTypes, OpenRec
<1>3. CohOpen'
  BY NoneAssumption
  DEF OpenLoggedIn, NoOpen, Typed, TypeOK, Coherent, CohOpen, AgentTypes, OpenRec
<1>4. gq' \in Seq(GamedMsg)
  BY GqSend, GamedMsgs
  DEF OpenLoggedIn, Typed, TypeOK, MailTypes, Coherent, CohOpen
<1>5. aq' \in [Agents -> Seq(AgentMsg)]
  BY DEF OpenLoggedIn, Typed, TypeOK, MailTypes
<1> QED
  BY <1>1, <1>2, <1>3, <1>4, <1>5
  DEF Typed, TypeOK, Coherent, MailTypes

LEMMA AgentOtherLoginTyped ==
  ASSUME Typed, NEW a \in Agents, AgentOtherLogin(a)
  PROVE  Typed'
<1>1. AgentFields(Head(aq[a])) /\ Head(aq[a]).cmd = "cmd_agent_other_login" /\ aq' \in [Agents -> Seq(AgentMsg)]
  BY AqReceive
  DEF AgentOtherLogin, Typed, TypeOK
<1>2. GateTypes' /\ LoginTypes' /\ TaskTypes' /\ AgentTypes' /\ CohOpen' /\
      CohClose' /\ CohForward' /\ CohKick'
  BY DEF AgentOtherLogin, Typed, TypeOK, Coherent, GateTypes, LoginTypes, TaskTypes,
         AgentTypes, CohOpen, CohClose, CohForward, CohKick, sockVars, gateVars,
         loginVars, taskVars, agentVars
<1>3. gq' \in Seq(GamedMsg)
  BY <1>1, GqSend, GamedMsgs
  DEF AgentOtherLogin, AgentFields, Typed, TypeOK, MailTypes
<1>4. aq' \in [Agents -> Seq(AgentMsg)]
  BY <1>1
  DEF AgentOtherLogin, AgentFields, Typed, TypeOK, MailTypes
<1> QED
  BY <1>2, <1>3, <1>4
  DEF Typed, TypeOK, Coherent, MailTypes

LEMMA AgentKickTyped ==
  ASSUME Typed, NEW a \in Agents, AgentKick(a)
  PROVE  Typed'
<1>1. AgentFields(Head(aq[a])) /\ Head(aq[a]).cmd = "cmd_agent_kick" /\ aq' \in [Agents -> Seq(AgentMsg)]
  BY AqReceive
  DEF AgentKick, Typed, TypeOK
<1>2. GateTypes' /\ LoginTypes' /\ TaskTypes' /\ CohOpen' /\ CohClose' /\
      CohForward' /\ CohKick'
  BY DEF AgentKick, Typed, TypeOK, Coherent, GateTypes, LoginTypes, TaskTypes, CohOpen,
         CohClose, CohForward, CohKick, sockVars, gateVars, loginVars, taskVars
<1>3. AgentTypes'
  BY <1>1, NoneAssumption
  DEF AgentKick, AgentFields, Typed, TypeOK, AgentTypes
<1>4. gq' \in Seq(GamedMsg)
  BY <1>1
  DEF AgentKick, AgentFields, Typed, TypeOK, MailTypes
<1>5. aq' \in [Agents -> Seq(AgentMsg)]
  BY <1>1
  DEF AgentKick, AgentFields, Typed, TypeOK, MailTypes
<1> QED
  BY <1>2, <1>3, <1>4, <1>5
  DEF Typed, TypeOK, Coherent, MailTypes

LEMMA KickSaveTyped ==
  ASSUME Typed, NEW a \in Agents, NEW f \in Fds, KickSave(a, f)
  PROVE  Typed'
<1>1. GateTypes' /\ LoginTypes' /\ TaskTypes' /\ CohOpen' /\ CohClose' /\
      CohForward' /\ CohKick'
  BY DEF KickSave, Typed, TypeOK, Coherent, GateTypes, LoginTypes, TaskTypes, CohOpen,
         CohClose, CohForward, CohKick, sockVars, gateVars, loginVars, taskVars
<1>2. AgentTypes'
  <2>1. akick' \in [Agents -> [Fds -> {"none", "log", "save"}]]
    BY DEF KickSave, Typed, TypeOK, AgentTypes
  <2> QED
    BY <2>1 DEF KickSave, Typed, TypeOK, AgentTypes
<1>3. gq' \in Seq(GamedMsg)
  BY GqSend, GamedMsgs
  DEF KickSave, RetNil, Typed, TypeOK, MailTypes
<1>4. aq' \in [Agents -> Seq(AgentMsg)]
  BY DEF KickSave, Typed, TypeOK, MailTypes
<1> QED
  BY <1>1, <1>2, <1>3, <1>4
  DEF Typed, TypeOK, Coherent, MailTypes

LEMMA KickSelfTyped ==
  ASSUME Typed, NEW a \in Agents, NEW f \in Fds, KickSelf(a, f)
  PROVE  Typed'
<1>1. GateTypes' /\ LoginTypes' /\ TaskTypes' /\ CohOpen' /\ CohClose' /\
      CohForward' /\ CohKick'
  BY DEF KickSelf, Typed, TypeOK, Coherent, GateTypes, LoginTypes, TaskTypes, CohOpen,
         CohClose, CohForward, CohKick, sockVars, gateVars, loginVars, taskVars
<1>2. AgentTypes'
  BY NoneAssumption
  DEF KickSelf, Typed, TypeOK, AgentTypes
<1>3. gq' \in Seq(GamedMsg)
  BY GqSend, GamedMsgs
  DEF KickSelf, Typed, TypeOK, MailTypes, AgentTypes
<1>4. aq' \in [Agents -> Seq(AgentMsg)]
  BY DEF KickSelf, Typed, TypeOK, MailTypes
<1> QED
  BY <1>1, <1>2, <1>3, <1>4
  DEF Typed, TypeOK, Coherent, MailTypes

LEMMA AgentKickedTyped ==
  ASSUME Typed, NEW a \in Agents, AgentKicked(a)
  PROVE  Typed'
<1>1. AgentFields(Head(aq[a])) /\ Head(aq[a]).cmd = "ret_gamed_kick" /\ aq' \in [Agents -> Seq(AgentMsg)]
  BY AqReceive
  DEF AgentKicked, Typed, TypeOK
<1>2. GateTypes' /\ LoginTypes' /\ TaskTypes' /\ AgentTypes' /\ CohOpen' /\
      CohClose' /\ CohForward' /\ CohKick'
  BY DEF AgentKicked, Typed, TypeOK, Coherent, GateTypes, LoginTypes, TaskTypes,
         AgentTypes, CohOpen, CohClose, CohForward, CohKick, sockVars, gateVars,
         loginVars, taskVars, agentVars
<1>3. gq' \in Seq(GamedMsg)
  BY <1>1, GqSend, GamedMsgs
  DEF AgentKicked, AgentFields, Typed, TypeOK, MailTypes
<1>4. aq' \in [Agents -> Seq(AgentMsg)]
  BY <1>1
  DEF AgentKicked, AgentFields, Typed, TypeOK, MailTypes
<1> QED
  BY <1>2, <1>3, <1>4
  DEF Typed, TypeOK, Coherent, MailTypes

LEMMA AgentCloseTyped ==
  ASSUME Typed, NEW a \in Agents, AgentClose(a)
  PROVE  Typed'
<1>1. AgentFields(Head(aq[a])) /\ Head(aq[a]).cmd = "cmd_agent_close" /\ aq' \in [Agents -> Seq(AgentMsg)]
  BY AqReceive
  DEF AgentClose, Typed, TypeOK
<1>2. GateTypes' /\ LoginTypes' /\ TaskTypes' /\ CohOpen' /\ CohForward' /\
      CohKick'
  BY DEF AgentClose, Typed, TypeOK, Coherent, GateTypes, LoginTypes, TaskTypes, CohOpen,
         CohForward, CohKick, sockVars, gateVars, loginVars, taskVars
<1>3. AgentTypes'
  <2>1. Head(aq[a]).from \in Fds
    BY <1>1 DEF AgentFields
  <2>2. [pc |-> "save", fd |-> Head(aq[a]).from, id |-> None] \in CloseRec
    BY <2>1 DEF CloseRec
  <2> QED
    BY <2>2 DEF AgentClose, Typed, TypeOK, AgentTypes
<1>4. CohClose'
  <2>1. CanSave(a) => user_id[a] \in Ids
    BY DEF CanSave, Typed, TypeOK, AgentTypes
  <2> QED
    BY <2>1 DEF AgentClose, Typed, TypeOK, AgentTypes, Coherent, CohClose
<1>5. gq' \in Seq(GamedMsg)
  BY <1>1, GqSend, GamedMsgs
  DEF AgentClose, RetNil, AgentFields, Typed, TypeOK, MailTypes
<1>6. aq' \in [Agents -> Seq(AgentMsg)]
  BY <1>1
  DEF AgentClose, AgentFields, Typed, TypeOK, MailTypes
<1> QED
  BY <1>2, <1>3, <1>4, <1>5, <1>6
  DEF Typed, TypeOK, Coherent, MailTypes

LEMMA CloseSavedTyped ==
  ASSUME Typed, NEW a \in Agents, CloseSaved(a)
  PROVE  Typed'
<1>1. GateTypes' /\ LoginTypes' /\ TaskTypes' /\ CohOpen' /\ CohForward' /\
      CohKick'
  BY DEF CloseSaved, Typed, TypeOK, Coherent, GateTypes, LoginTypes, TaskTypes, CohOpen,
         CohForward, CohKick, sockVars, gateVars, loginVars, taskVars
<1>2. AgentTypes'
  BY ZenonT(60), NoneAssumption
  DEF CloseSaved, Unregister, Typed, TypeOK, AgentTypes, CloseRec
<1>3. CohClose'
  BY NoneAssumption
  DEF CloseSaved, Unregister, Typed, TypeOK, Coherent, CohClose, AgentTypes, CloseRec
<1>4. gq' \in Seq(GamedMsg)
  BY DEF CloseSaved, Typed, TypeOK, MailTypes
<1>5. aq' \in [Agents -> Seq(AgentMsg)]
  BY DEF CloseSaved, Typed, TypeOK, MailTypes
<1> QED
  BY <1>1, <1>2, <1>3, <1>4, <1>5
  DEF Typed, TypeOK, Coherent, MailTypes

LEMMA CloseReportedTyped ==
  ASSUME Typed, NEW a \in Agents, CloseReported(a)
  PROVE  Typed'
<1>1. GateTypes' /\ LoginTypes' /\ TaskTypes' /\ CohOpen' /\ CohForward' /\
      CohKick'
  BY DEF CloseReported, Typed, TypeOK, Coherent, GateTypes, LoginTypes, TaskTypes,
         CohOpen, CohForward, CohKick, sockVars, gateVars, loginVars, taskVars
<1>2. AgentTypes'
  BY NoneAssumption
  DEF CloseReported, Typed, TypeOK, AgentTypes, CloseRec
<1>3. CohClose'
  BY NoneAssumption
  DEF CloseReported, Typed, TypeOK, Coherent, CohClose, AgentTypes, CloseRec
<1>4. gq' \in Seq(GamedMsg)
  BY GqSend, GamedMsgs
  DEF CloseReported, Typed, TypeOK, MailTypes, Coherent, CohClose
<1>5. aq' \in [Agents -> Seq(AgentMsg)]
  BY DEF CloseReported, Typed, TypeOK, MailTypes
<1> QED
  BY <1>1, <1>2, <1>3, <1>4, <1>5
  DEF Typed, TypeOK, Coherent, MailTypes

LEMMA AgentClosedTyped ==
  ASSUME Typed, NEW a \in Agents, AgentClosed(a)
  PROVE  Typed'
<1>1. AgentFields(Head(aq[a])) /\ Head(aq[a]).cmd = "ret_gamed_close" /\ aq' \in [Agents -> Seq(AgentMsg)]
  BY AqReceive
  DEF AgentClosed, Typed, TypeOK
<1>2. GateTypes' /\ LoginTypes' /\ TaskTypes' /\ CohOpen' /\ CohForward' /\
      CohKick'
  BY DEF AgentClosed, Typed, TypeOK, Coherent, GateTypes, LoginTypes, TaskTypes,
         CohOpen, CohForward, CohKick, sockVars, gateVars, loginVars, taskVars
<1>3. AgentTypes'
  BY <1>1, NoneAssumption
  DEF AgentClosed, NoClose, AgentFields, Typed, TypeOK, AgentTypes, CloseRec
<1>4. CohClose'
  BY <1>1, NoneAssumption
  DEF AgentClosed, NoClose, AgentFields, Typed, TypeOK, Coherent, CohClose, AgentTypes,
      CloseRec
<1>5. gq' \in Seq(GamedMsg)
  <2>1. aclose[a].fd \in Fds \cup {None}
    BY DEF Typed, TypeOK, AgentTypes, CloseRec
  <2> QED
    BY <2>1, GqSend, GamedMsgs DEF AgentClosed, Typed, TypeOK
<1>6. aq' \in [Agents -> Seq(AgentMsg)]
  BY <1>1
  DEF AgentClosed, AgentFields, Typed, TypeOK, MailTypes
<1> QED
  BY <1>2, <1>3, <1>4, <1>5, <1>6
  DEF Typed, TypeOK, Coherent, MailTypes

LEMMA AgentDispatchTyped ==
  ASSUME Typed, NEW a \in Agents, AgentDispatch(a)
  PROVE  Typed'
<1>1. AgentFields(Head(aq[a])) /\ Head(aq[a]).cmd = "test_dispatch" /\ aq' \in [Agents -> Seq(AgentMsg)]
  BY AqReceive
  DEF AgentDispatch, Typed, TypeOK
<1>2. GateTypes' /\ LoginTypes' /\ TaskTypes' /\ AgentTypes' /\ CohOpen' /\
      CohClose' /\ CohForward' /\ CohKick'
  BY DEF AgentDispatch, Typed, TypeOK, Coherent, GateTypes, LoginTypes, TaskTypes,
         AgentTypes, CohOpen, CohClose, CohForward, CohKick, sockVars, gateVars,
         loginVars, taskVars, agentVars
<1>3. gq' \in Seq(GamedMsg)
  BY <1>1, GqSend, GamedMsgs
  DEF AgentDispatch, AgentFields, Typed, TypeOK, MailTypes, AgentTypes
<1>4. aq' \in [Agents -> Seq(AgentMsg)]
  BY <1>1
  DEF AgentDispatch, AgentFields, Typed, TypeOK, MailTypes
<1> QED
  BY <1>2, <1>3, <1>4
  DEF Typed, TypeOK, Coherent, MailTypes

LEMMA SelfExitTyped ==
  ASSUME Typed, NEW a \in Agents, SelfExit(a)
  PROVE  Typed'
<1>1. AgentFields(Head(aq[a])) /\ Head(aq[a]).cmd = "self_exit" /\ TRUE
  BY AqReceive
  DEF SelfExit, Typed, TypeOK
<1>2. GateTypes' /\ LoginTypes' /\ CohOpen' /\ CohClose' /\ CohForward' /\
      CohKick'
  BY DEF SelfExit, Typed, TypeOK, Coherent, GateTypes, LoginTypes, CohOpen, CohClose,
         CohForward, CohKick, sockVars, gateVars, loginVars
<1>3. TaskTypes'
  BY <1>1, NoneAssumption
  DEF SelfExit, Unanswered, AgentFields, Typed, TypeOK, TaskTypes
<1>4. AgentTypes'
  BY <1>1, NoneAssumption
  DEF SelfExit, Unanswered, AgentFields, Typed, TypeOK, AgentTypes
<1>5. gq' \in Seq(GamedMsg)
  BY <1>1
  DEF SelfExit, AgentFields, Typed, TypeOK, MailTypes
<1>6. aq' \in [Agents -> Seq(AgentMsg)]
  BY <1>1
  DEF SelfExit, AgentFields, Typed, TypeOK, MailTypes
<1> QED
  BY <1>2, <1>3, <1>4, <1>5, <1>6
  DEF Typed, TypeOK, Coherent, MailTypes

LEMMA NextTyped == ASSUME Typed, [Next]_vars PROVE Typed'
<1>1. CASE UNCHANGED vars
  BY <1>1 DEF vars, sockVars, gateVars, loginVars, taskVars, agentVars, Typed, TypeOK,
     GateTypes, LoginTypes, TaskTypes, MailTypes, AgentTypes, Coherent, CohOpen, CohClose,
     CohForward, CohKick
<1>2. ASSUME NEW f \in Fds, Client(f) PROVE Typed'
  BY <1>2, ConnectTyped, ClientSendTyped, ClientCloseTyped DEF Client
<1>3. ASSUME NEW f \in Fds, Resume(f) PROVE Typed'
  BY <1>3, SocketClosedTyped, CloseFdTyped, LoginFailedTyped, CallErrorTyped,
     LoginHandlerTyped DEF Resume
<1>4. CASE Gamed
  BY <1>4, MsgOpenTyped, MsgDataTyped, MsgCloseTyped, RetCloseTyped, RetOtherTyped,
     RetKickTyped, RetOpenTyped, GamedKickTyped, GamedCloseTyped DEF Gamed
<1>5. ASSUME NEW k \in kicks, CloseClient(k) PROVE Typed'
  BY <1>5, CloseClientTyped
<1>6. ASSUME NEW a \in Agents, Agent(a) PROVE Typed'
  BY <1>6, AgentOpenTyped, OpenLoadedTyped, OpenRegisteredTyped, OpenLoggedInTyped,
     AgentOtherLoginTyped, AgentKickTyped, AgentKickedTyped, KickSaveTyped, KickSelfTyped,
     AgentCloseTyped, CloseSavedTyped, CloseReportedTyped, AgentClosedTyped,
     AgentDispatchTyped, SelfExitTyped, PoolAgentTyped, CreateAgentTyped DEF Agent
<1>7. ASSUME NEW S \in SUBSET Ids, FiveSecTick(S) PROVE Typed'
  BY <1>7, FiveSecTickTyped
<1> QED
  BY <1>1, <1>2, <1>3, <1>4, <1>5, <1>6, <1>7 DEF Next

\* Types, and what a coroutine holds, are kept for ever.
THEOREM AlwaysTyped == Spec => []Typed
<1>1. Init => Typed
  BY InitTyped
<1>2. Typed /\ [Next]_vars => Typed'
  BY NextTyped
<1> QED
  BY <1>1, <1>2, PTL DEF Spec

\* Every variable of gamed, of its coroutines and of the agents keeps its
\* type, whatever the interleaving, for any sets of sockets, accounts, agents.
THEOREM TypeCorrect == Spec => []TypeOK
<1>1. Typed => TypeOK
  BY DEF Typed
<1> QED
  BY <1>1, AlwaysTyped, PTL

-----------------------------------------------------------------------------
(* An agent keeps its account.  AgentKeepsAccount speaks of what gamed and *)
(* the agents have written down; it is inductive only together with what   *)
(* is under way: opens sent or in progress, closes about to be reported,   *)
(* and agents on their way into the pool.                                  *)

KeepsUser   == \A a \in Agents : user_id[a] \in {None, acct[a]}
KeepsPool   == \A i \in Ids : clear_pool[i] # None => acct[clear_pool[i]] = i
KeepsOnline == \A i \in Ids : online_account[i].agent # None => acct[online_account[i].agent] = i
KeepsOpen   == \A a \in Agents : aopen[a].pc # "none" => aopen[a].id = acct[a]
KeepsClose  == \A a \in Agents : aclose[a].pc = "logout" => aclose[a].id = acct[a]
KeepsGclose == \A a \in Agents : gclose[a].id \in {None, acct[a]}
KeepsBorn   == \A a \in Agents : status[a] = "unborn" => acct[a] = None

GamedOK    == {m \in GamedMsg : m.cmd = "cmd_gamed_close" => acct[m.agent] = m.id}
AgentOK(a) == {m \in AgentMsg : m.cmd = "cmd_agent_open" => m.id = acct[a]}
KeepsGq    == gq \in Seq(GamedOK)
KeepsAq    == \A a \in Agents : aq[a] \in Seq(AgentOK(a))

Keeps == /\ KeepsUser /\ KeepsPool /\ KeepsOnline /\ KeepsOpen /\ KeepsClose /\ KeepsGclose
         /\ KeepsBorn /\ KeepsGq /\ KeepsAq

\* The messages of the actions, by the account they carry.
LEMMA GamedOKMsgs ==
  /\ \A f \in Fds : /\ Msg("open", f, None, None, None) \in GamedOK
                    /\ Msg("data", f, None, None, None) \in GamedOK
                    /\ Msg("close", f, None, None, None) \in GamedOK
                    /\ Msg("ret_other", None, f, None, None) \in GamedOK
                    /\ Msg("ret_kick", None, f, None, None) \in GamedOK
  /\ \A f \in Fds \cup {None} : Msg("ret_close", None, f, None, None) \in GamedOK
  /\ \A c \in Coroutines : Msg("ret_open", None, c, None, None) \in GamedOK
  /\ \A f, g \in Fds \cup {None}, a \in Agents : Msg("cmd_gamed_kick", f, g, a, None) \in GamedOK
  /\ \A a \in Agents, i \in Ids :
       acct[a] = i => Msg("cmd_gamed_close", None, None, a, i) \in GamedOK
BY GamedMsgs DEF GamedOK, Msg

LEMMA AgentOKMsgs ==
  \A a :
  /\ \A f \in Fds, c \in Coroutines, i \in Ids :
       i = acct[a] => Msg("cmd_agent_open", f, c, None, i) \in AgentOK(a)
  /\ \A f \in Fds : /\ Msg("cmd_agent_other_login", None, f, None, None) \in AgentOK(a)
                    /\ Msg("cmd_agent_kick", None, f, None, None) \in AgentOK(a)
                    /\ Msg("cmd_agent_close", None, f, None, None) \in AgentOK(a)
                    /\ Msg("test_dispatch", f, None, None, None) \in AgentOK(a)
  /\ \A f \in Fds \cup {None} : Msg("ret_gamed_kick", None, f, None, None) \in AgentOK(a)
  /\ Msg("self_exit", None, None, None, None) \in AgentOK(a)
  /\ Msg("ret_gamed_close", None, None, None, None) \in AgentOK(a)
BY AgentMsgs DEF AgentOK, Msg

\* The mailboxes, as long as no agent is created.
LEMMA GqSendOK ==
  ASSUME KeepsGq, acct' = acct
  PROVE  \A m \in GamedOK : ToGamed(m) => KeepsGq'
BY DEF KeepsGq, GamedOK, ToGamed

LEMMA AqSendOK ==
  ASSUME MailTypes, KeepsAq, acct' = acct
  PROVE  \A a : \A m \in AgentOK(a) : ToAgent(a, m) => KeepsAq'
<1> SUFFICES ASSUME NEW a, NEW m \in AgentOK(a), ToAgent(a, m), NEW b \in Agents
             PROVE  (aq[b] \in Seq(AgentOK(b)))'
  BY DEF KeepsAq
<1>1. aq[b] \in Seq(AgentOK(b)) /\ AgentOK(b)' = AgentOK(b)
  BY DEF KeepsAq, AgentOK
<1>2. b = a => Append(aq[b], m) \in Seq(AgentOK(b))
  BY <1>1
<1>3. aq'[b] = aq[b] \/ (b = a /\ aq'[b] = Append(aq[b], m))
  BY DEF ToAgent, MailTypes
<1> QED
  BY <1>1, <1>2, <1>3

LEMMA AqSameOK == KeepsAq /\ acct' = acct /\ aq' = aq => KeepsAq'
BY DEF KeepsAq, AgentOK

LEMMA GqSameOK == KeepsGq /\ acct' = acct /\ gq' = gq => KeepsGq'
BY DEF KeepsGq, GamedOK

LEMMA GqReceiveOK ==
  ASSUME KeepsGq, acct' = acct, NEW cmd, Receive(cmd)
  PROVE  /\ Head(gq) \in GamedOK /\ GamedFields(Head(gq)) /\ Head(gq).cmd = cmd
         /\ KeepsGq'
<1>1. Head(gq) \in GamedOK /\ Head(gq).cmd = cmd /\ gq' \in Seq(GamedOK)
  BY DEF KeepsGq, Receive
<1>2. GamedOK' = GamedOK
  BY DEF GamedOK
<1>3. GamedFields(Head(gq))
  BY <1>1, GamedMsgFields DEF GamedOK
<1> QED
  BY <1>1, <1>2, <1>3 DEF KeepsGq

LEMMA AqReceiveOK ==
  ASSUME MailTypes, KeepsAq, acct' = acct, NEW a \in Agents, NEW cmd, Take(a, cmd)
  PROVE  /\ Head(aq[a]) \in AgentOK(a) /\ AgentFields(Head(aq[a])) /\ Head(aq[a]).cmd = cmd
         /\ Drop(a) => KeepsAq'
<1>1. aq[a] \in Seq(AgentOK(a)) /\ aq[a] # <<>>
  BY DEF KeepsAq, Take
<1>2. Head(aq[a]) \in AgentOK(a) /\ Tail(aq[a]) \in Seq(AgentOK(a))
  BY <1>1
<1>3. ASSUME Drop(a), NEW b \in Agents PROVE (aq[b] \in Seq(AgentOK(b)))'
  <2>1. AgentOK(b)' = AgentOK(b)
    BY DEF AgentOK
  <2>2. aq'[b] = IF b = a THEN Tail(aq[a]) ELSE aq[b]
    BY <1>3 DEF Drop, MailTypes
  <2> QED
    BY <1>2, <2>1, <2>2 DEF KeepsAq
<1>4. AgentFields(Head(aq[a]))
  BY <1>2, AgentMsgFields DEF AgentOK
<1> QED
  BY <1>2, <1>3, <1>4 DEF Take, KeepsAq

\* forward_agent hands out the pooled agent of that account or none.
LEMMA ForwardKeeps ==
  ASSUME Typed, Keeps, acct' = acct, NEW c \in Coroutines, NEW f \in Fds, NEW i \in Ids,
         NEW s, ForwardAgent(c, f, i, s)
  PROVE  KeepsPool' /\ KeepsOnline' /\ KeepsAq'
<1>1. clear_pool[i] \in Agents \cup {None}
  BY DEF Typed, TypeOK, LoginTypes
<1>2. clear_pool[i] # None => acct[clear_pool[i]] = i
  BY DEF Keeps, KeepsPool
<1>3. KeepsPool'
  BY DEF ForwardAgent, LeavePool, Keeps, KeepsPool, Typed, TypeOK, LoginTypes
<1>4. CASE clear_pool[i] = None
  BY <1>3, <1>4, AqSameOK DEF ForwardAgent, Pooled, Keeps, KeepsOnline
<1>5. CASE clear_pool[i] # None
  <2>1. KeepsOnline'
    BY <1>2, <1>5 DEF ForwardAgent, Pooled, OnlineRecord, Keeps, KeepsOnline, Typed, TypeOK,
       LoginTypes
  <2>2. KeepsAq'
    BY <1>2, <1>5, AqSendOK, AgentOKMsgs DEF ForwardAgent, Pooled, Keeps, Typed, TypeOK
  <2> QED
    BY <1>3, <2>1, <2>2
<1> QED
  BY <1>4, <1>5

LEMMA ConnectKeeps ==
  ASSUME Typed, Keeps, NEW f \in Fds, Connect(f)
  PROVE  Keeps'
<1>1. acct' = acct
  BY DEF Connect, loginVars
<1>2. KeepsUser' /\ KeepsPool' /\ KeepsOnline' /\ KeepsOpen' /\ KeepsClose' /\
      KeepsGclose' /\ KeepsBorn'
  BY <1>1
  DEF Connect, Keeps, KeepsUser, KeepsPool, KeepsOnline, KeepsOpen, KeepsClose,
      KeepsGclose, KeepsBorn, loginVars, taskVars, agentVars
<1>3. KeepsGq'
  BY <1>1, GqSendOK, GqSameOK, GamedOKMsgs
  DEF Connect, Keeps
<1>4. KeepsAq'
  BY <1>1, AqSameOK
  DEF Connect, Keeps
<1> QED
  BY <1>2, <1>3, <1>4
  DEF Keeps

LEMMA ClientSendKeeps ==
  ASSUME Typed, Keeps, NEW f \in Fds, ClientSend(f)
  PROVE  Keeps'
<1>1. acct' = acct
  BY DEF ClientSend, loginVars
<1>2. KeepsUser' /\ KeepsPool' /\ KeepsOnline' /\ KeepsOpen' /\ KeepsClose' /\
      KeepsGclose' /\ KeepsBorn'
  BY <1>1
  DEF ClientSend, Keeps, KeepsUser, KeepsPool, KeepsOnline, KeepsOpen, KeepsClose,
      KeepsGclose, KeepsBorn, loginVars, taskVars, agentVars
<1>3. KeepsGq'
  BY <1>1, GqSendOK, GqSameOK, GamedOKMsgs
  DEF ClientSend, Keeps
<1>4. KeepsAq'
  BY <1>1, AqSameOK
  DEF ClientSend, Keeps
<1> QED
  BY <1>2, <1>3, <1>4
  DEF Keeps

LEMMA ClientCloseKeeps ==
  ASSUME Typed, Keeps, NEW f \in Fds, ClientClose(f)
  PROVE  Keeps'
<1>1. acct' = acct
  BY DEF ClientClose, loginVars
<1>2. KeepsUser' /\ KeepsPool' /\ KeepsOnline' /\ KeepsOpen' /\ KeepsClose' /\
      KeepsGclose' /\ KeepsBorn'
  BY <1>1
  DEF ClientClose, Keeps, KeepsUser, KeepsPool, KeepsOnline, KeepsOpen, KeepsClose,
      KeepsGclose, KeepsBorn, loginVars, taskVars, agentVars
<1>3. KeepsGq'
  BY <1>1, GqSendOK, GqSameOK, GamedOKMsgs
  DEF ClientClose, Keeps
<1>4. KeepsAq'
  BY <1>1, AqSameOK
  DEF ClientClose, Keeps
<1> QED
  BY <1>2, <1>3, <1>4
  DEF Keeps

LEMMA SocketClosedKeeps ==
  ASSUME Typed, Keeps, NEW f \in Fds, SocketClosed(f)
  PROVE  Keeps'
<1>1. acct' = acct
  BY DEF SocketClosed, loginVars
<1>2. KeepsUser' /\ KeepsPool' /\ KeepsOnline' /\ KeepsOpen' /\ KeepsClose' /\
      KeepsGclose' /\ KeepsBorn'
  BY <1>1
  DEF SocketClosed, Keeps, KeepsUser, KeepsPool, KeepsOnline, KeepsOpen, KeepsClose,
      KeepsGclose, KeepsBorn, loginVars, taskVars, agentVars
<1>3. KeepsGq'
  BY <1>1, GqSendOK, GqSameOK, GamedOKMsgs
  DEF SocketClosed, Keeps
<1>4. KeepsAq'
  BY <1>1, AqSameOK
  DEF SocketClosed, Keeps
<1> QED
  BY <1>2, <1>3, <1>4
  DEF Keeps

LEMMA MsgOpenKeeps ==
  ASSUME Typed, Keeps, MsgOpen
  PROVE  Keeps'
<1>1. acct' = acct
  BY DEF MsgOpen, loginVars
<1>2. /\ Head(gq) \in GamedOK /\ GamedFields(Head(gq)) /\ Head(gq).cmd = "open"
      /\ KeepsGq'
  BY <1>1, GqReceiveOK
  DEF MsgOpen, Keeps
<1>3. KeepsUser' /\ KeepsPool' /\ KeepsOnline' /\ KeepsOpen' /\ KeepsClose' /\
      KeepsGclose' /\ KeepsBorn'
  BY <1>1
  DEF MsgOpen, Keeps, KeepsUser, KeepsPool, KeepsOnline, KeepsOpen, KeepsClose,
      KeepsGclose, KeepsBorn, loginVars, taskVars, agentVars
<1>4. KeepsAq'
  BY <1>1, AqSameOK
  DEF MsgOpen, Keeps
<1> QED
  BY <1>3, <1>2, <1>4
  DEF Keeps

LEMMA MsgDataKeeps ==
  ASSUME Typed, Keeps, MsgData
  PROVE  Keeps'
<1>1. acct' = acct
  BY DEF MsgData
<1>2. /\ Head(gq) \in GamedOK /\ GamedFields(Head(gq)) /\ Head(gq).cmd = "data"
      /\ KeepsGq'
  BY <1>1, GqReceiveOK
  DEF MsgData, Keeps
<1>3. KeepsUser' /\ KeepsPool' /\ KeepsOnline' /\ KeepsOpen' /\ KeepsClose' /\
      KeepsGclose' /\ KeepsBorn'
  BY <1>1
  DEF MsgData, Keeps, KeepsUser, KeepsPool, KeepsOnline, KeepsOpen, KeepsClose,
      KeepsGclose, KeepsBorn, taskVars, agentVars
<1>4. KeepsAq'
  BY <1>1, <1>2, AqSendOK, AqSameOK, AgentOKMsgs
  DEF MsgData, GamedFields, Keeps, Typed, TypeOK
<1> QED
  BY <1>3, <1>2, <1>4
  DEF Keeps

LEMMA MsgCloseKeeps ==
  ASSUME Typed, Keeps, MsgClose
  PROVE  Keeps'
<1>1. acct' = acct
  BY DEF MsgClose, loginVars
<1>2. /\ Head(gq) \in GamedOK /\ GamedFields(Head(gq)) /\ Head(gq).cmd = "close"
      /\ KeepsGq'
  BY <1>1, GqReceiveOK
  DEF MsgClose, Keeps
<1>3. KeepsUser' /\ KeepsPool' /\ KeepsOnline' /\ KeepsOpen' /\ KeepsClose' /\
      KeepsGclose' /\ KeepsBorn'
  BY <1>1
  DEF MsgClose, Keeps, KeepsUser, KeepsPool, KeepsOnline, KeepsOpen, KeepsClose,
      KeepsGclose, KeepsBorn, loginVars, agentVars
<1>4. KeepsAq'
  BY <1>1, AqSameOK
  DEF MsgClose, Keeps
<1> QED
  BY <1>3, <1>2, <1>4
  DEF Keeps

LEMMA CloseFdKeeps ==
  ASSUME Typed, Keeps, NEW f \in Fds, CloseFd(f)
  PROVE  Keeps'
<1>1. acct' = acct
  BY DEF CloseFd, loginVars
<1>2. KeepsUser' /\ KeepsPool' /\ KeepsOnline' /\ KeepsOpen' /\ KeepsClose' /\
      KeepsGclose' /\ KeepsBorn'
  BY <1>1
  DEF CloseFd, Keeps, KeepsUser, KeepsPool, KeepsOnline, KeepsOpen, KeepsClose,
      KeepsGclose, KeepsBorn, loginVars, agentVars
<1>3. KeepsGq'
  BY <1>1, GqSameOK
  DEF CloseFd, Keeps
<1>4. KeepsAq'
  BY <1>1, AqSendOK, AqSameOK, AgentOKMsgs
  DEF CloseFd, Keeps, Typed, TypeOK
<1> QED
  BY <1>2, <1>3, <1>4
  DEF Keeps

LEMMA RetCloseKeeps ==
  ASSUME Typed, Keeps, RetClose
  PROVE  Keeps'
<1>1. acct' = acct
  BY DEF RetClose, loginVars
<1>2. /\ Head(gq) \in GamedOK /\ GamedFields(Head(gq)) /\ Head(gq).cmd = "ret_close"
      /\ KeepsGq'
  BY <1>1, GqReceiveOK
  DEF RetClose, Keeps
<1>3. KeepsUser' /\ KeepsPool' /\ KeepsOnline' /\ KeepsOpen' /\ KeepsClose' /\
      KeepsGclose' /\ KeepsBorn'
  BY <1>1
  DEF RetClose, Keeps, KeepsUser, KeepsPool, KeepsOnline, KeepsOpen, KeepsClose,
      KeepsGclose, KeepsBorn, loginVars, agentVars
<1>4. KeepsAq'
  BY <1>1, AqSameOK
  DEF RetClose, Keeps
<1> QED
  BY <1>3, <1>2, <1>4
  DEF Keeps

LEMMA LoginHandlerKeeps ==
  ASSUME Typed, Keeps, NEW f \in Fds, NEW i \in Ids, LoginHandler(f, i)
  PROVE  Keeps'
<1>1. acct' = acct
  BY DEF LoginHandler
<1>2. KeepsUser' /\ KeepsOpen' /\ KeepsClose' /\ KeepsGclose' /\ KeepsBorn'
  BY <1>1
  DEF LoginHandler, ForwardAgent, Keeps, KeepsUser, KeepsOpen, KeepsClose, KeepsGclose,
      KeepsBorn, taskVars, agentVars
<1>3. KeepsPool'
  <2>1. CASE online_account[i].agent # None
    BY <1>1, <2>1 DEF LoginHandler, Keeps, KeepsPool
  <2>2. CASE online_account[i].agent = None
    BY <1>1, <2>2, ForwardFromLogin, ForwardKeeps DEF Typed, Coroutines
  <2> QED
    BY <2>1, <2>2
<1>4. KeepsOnline'
  <2>1. CASE online_account[i].agent # None
    BY <1>1, <2>1 DEF LoginHandler, Keeps, KeepsOnline
  <2>2. CASE online_account[i].agent = None
    BY <1>1, <2>2, ForwardFromLogin, ForwardKeeps DEF Typed, Coroutines
  <2> QED
    BY <2>1, <2>2
<1>5. KeepsGq'
  BY <1>1, GqSameOK
  DEF LoginHandler, Keeps
<1>6. KeepsAq'
  <2>1. CASE online_account[i].agent # None
    BY <1>1, <2>1, AqSendOK, AgentOKMsgs DEF LoginHandler, Keeps, Typed, TypeOK
  <2>2. CASE online_account[i].agent = None
    BY <1>1, <2>2, ForwardFromLogin, ForwardKeeps DEF Typed, Coroutines
  <2> QED
    BY <2>1, <2>2
<1> QED
  BY <1>2, <1>3, <1>4, <1>5, <1>6
  DEF Keeps

LEMMA LoginFailedKeeps ==
  ASSUME Typed, Keeps, NEW f \in Fds, LoginFailed(f)
  PROVE  Keeps'
<1>1. acct' = acct
  BY DEF LoginFailed
<1>2. KeepsUser' /\ KeepsPool' /\ KeepsOnline' /\ KeepsOpen' /\ KeepsClose' /\
      KeepsGclose' /\ KeepsBorn'
  BY <1>1
  DEF LoginFailed, Keeps, KeepsUser, KeepsPool, KeepsOnline, KeepsOpen, KeepsClose,
      KeepsGclose, KeepsBorn, agentVars
<1>3. KeepsGq'
  BY <1>1, GqSameOK
  DEF LoginFailed, Keeps
<1>4. KeepsAq'
  BY <1>1, AqSameOK
  DEF LoginFailed, Keeps
<1> QED
  BY <1>2, <1>3, <1>4
  DEF Keeps

LEMMA RetOtherKeeps ==
  ASSUME Typed, Keeps, RetOther
  PROVE  Keeps'
<1>1. acct' = acct
  BY DEF RetOther
<1>2. /\ Head(gq) \in GamedOK /\ GamedFields(Head(gq)) /\ Head(gq).cmd = "ret_other"
      /\ KeepsGq'
  BY <1>1, GqReceiveOK
  DEF RetOther, Keeps
<1>3. KeepsUser' /\ KeepsPool' /\ KeepsOnline' /\ KeepsOpen' /\ KeepsClose' /\
      KeepsGclose' /\ KeepsBorn'
  BY <1>1
  DEF RetOther, Keeps, KeepsUser, KeepsPool, KeepsOnline, KeepsOpen, KeepsClose,
      KeepsGclose, KeepsBorn, taskVars, agentVars
<1>4. KeepsAq'
  BY <1>1, <1>2, AqSendOK, AqSameOK, AgentOKMsgs
  DEF RetOther, GamedFields, Keeps, Typed, TypeOK
<1> QED
  BY <1>3, <1>2, <1>4
  DEF Keeps

LEMMA RetKickKeeps ==
  ASSUME Typed, Keeps, RetKick
  PROVE  Keeps'
<1>1. acct' = acct
  BY DEF RetKick
<1>2. /\ Head(gq) \in GamedOK /\ GamedFields(Head(gq)) /\ Head(gq).cmd = "ret_kick"
      /\ KeepsGq'
  BY <1>1, GqReceiveOK
  DEF RetKick, Keeps
<1>3. KeepsUser' /\ KeepsPool' /\ KeepsOpen' /\ KeepsClose' /\ KeepsGclose' /\
      KeepsBorn'
  BY <1>1
  DEF RetKick, Keeps, KeepsUser, KeepsPool, KeepsOpen, KeepsClose, KeepsGclose,
      KeepsBorn, taskVars, agentVars
<1>4. KeepsOnline'
  BY <1>1, <1>2
  DEF RetKick, Typed, TypeOK, Keeps, KeepsOnline, LoginTypes, AccountRec
<1>5. KeepsAq'
  BY <1>1, AqSameOK
  DEF RetKick, Keeps
<1> QED
  BY <1>3, <1>4, <1>2, <1>5
  DEF Keeps

LEMMA CallErrorKeeps ==
  ASSUME Typed, Keeps, NEW f \in Fds, CallError(f)
  PROVE  Keeps'
<1>1. acct' = acct
  BY DEF CallError
<1>2. KeepsUser' /\ KeepsPool' /\ KeepsOnline' /\ KeepsOpen' /\ KeepsClose' /\
      KeepsGclose' /\ KeepsBorn'
  BY <1>1
  DEF CallError, Keeps, KeepsUser, KeepsPool, KeepsOnline, KeepsOpen, KeepsClose,
      KeepsGclose, KeepsBorn, agentVars
<1>3. KeepsGq'
  BY <1>1, GqSameOK
  DEF CallError, Keeps
<1>4. KeepsAq'
  BY <1>1, AqSameOK
  DEF CallError, Keeps
<1> QED
  BY <1>2, <1>3, <1>4
  DEF Keeps

LEMMA RetOpenKeeps ==
  ASSUME Typed, Keeps, RetOpen
  PROVE  Keeps'
<1>1. acct' = acct
  BY DEF RetOpen
<1>2. /\ Head(gq) \in GamedOK /\ GamedFields(Head(gq)) /\ Head(gq).cmd = "ret_open"
      /\ KeepsGq'
  BY <1>1, GqReceiveOK
  DEF RetOpen, Keeps
<1>3. KeepsUser' /\ KeepsPool' /\ KeepsOnline' /\ KeepsOpen' /\ KeepsClose' /\
      KeepsBorn'
  BY <1>1
  DEF RetOpen, Keeps, KeepsUser, KeepsPool, KeepsOnline, KeepsOpen, KeepsClose,
      KeepsBorn, agentVars
<1>4. KeepsGclose'
  BY <1>1, <1>2
  DEF RetOpen, Bound, NoForward, Typed, TypeOK, Keeps, KeepsGclose, TaskTypes, GcloseRec
<1>5. KeepsAq'
  BY <1>1, AqSameOK
  DEF RetOpen, Keeps
<1> QED
  BY <1>3, <1>4, <1>2, <1>5
  DEF Keeps

LEMMA GamedKickKeeps ==
  ASSUME Typed, Keeps, GamedKick
  PROVE  Keeps'
<1>1. acct' = acct
  BY DEF GamedKick, loginVars
<1>2. /\ Head(gq) \in GamedOK /\ GamedFields(Head(gq)) /\ Head(gq).cmd = "cmd_gamed_kick"
      /\ KeepsGq'
  BY <1>1, GqReceiveOK
  DEF GamedKick, Keeps
<1>3. KeepsUser' /\ KeepsPool' /\ KeepsOnline' /\ KeepsOpen' /\ KeepsClose' /\
      KeepsGclose' /\ KeepsBorn'
  BY <1>1
  DEF GamedKick, Keeps, KeepsUser, KeepsPool, KeepsOnline, KeepsOpen, KeepsClose,
      KeepsGclose, KeepsBorn, loginVars, agentVars
<1>4. KeepsAq'
  BY <1>1, <1>2, AqSendOK, AqSameOK, AgentOKMsgs
  DEF GamedKick, GamedFields, Keeps, Typed, TypeOK
<1> QED
  BY <1>3, <1>2, <1>4
  DEF Keeps

LEMMA CloseClientKeeps ==
  ASSUME Typed, Keeps, NEW k \in kicks, CloseClient(k)
  PROVE  Keeps'
<1>1. acct' = acct
  BY DEF CloseClient, loginVars
<1>2. KeepsUser' /\ KeepsPool' /\ KeepsOnline' /\ KeepsOpen' /\ KeepsClose' /\
      KeepsGclose' /\ KeepsBorn'
  BY <1>1
  DEF CloseClient, Keeps, KeepsUser, KeepsPool, KeepsOnline, KeepsOpen, KeepsClose,
      KeepsGclose, KeepsBorn, loginVars, agentVars
<1>3. KeepsGq'
  BY <1>1, GqSameOK
  DEF CloseClient, Keeps
<1>4. KeepsAq'
  BY <1>1, AqSendOK, AqSameOK, AgentOKMsgs
  DEF CloseClient, Keeps, Typed, TypeOK, TaskTypes
<1> QED
  BY <1>2, <1>3, <1>4
  DEF Keeps

LEMMA GamedCloseKeeps ==
  ASSUME Typed, Keeps, GamedClose
  PROVE  Keeps'
<1>1. acct' = acct
  BY DEF GamedClose
<1>2. /\ Head(gq) \in GamedOK /\ GamedFields(Head(gq)) /\ Head(gq).cmd = "cmd_gamed_close"
      /\ KeepsGq'
  BY <1>1, GqReceiveOK
  DEF GamedClose, Keeps
<1>3. KeepsUser' /\ KeepsOpen' /\ KeepsClose' /\ KeepsBorn'
  BY <1>1
  DEF GamedClose, ForwardAgent, Keeps, KeepsUser, KeepsOpen, KeepsClose, KeepsBorn,
      agentVars
<1>4. KeepsPool'
  <2>1. CASE GamedCloseForwards
    BY <1>1, <2>1, ForwardFromClose, ForwardKeeps DEF Coroutines
  <2>2. CASE ~GamedCloseForwards
    BY <1>1, <2>2 DEF GamedCloseForwards, GamedClose, Keeps, KeepsPool
  <2> QED
    BY <2>1, <2>2
<1>5. KeepsOnline'
  <2>1. CASE GamedCloseForwards
    BY <1>1, <2>1, ForwardFromClose, ForwardKeeps DEF Coroutines
  <2>2. CASE ~GamedCloseForwards
    BY SMTT(30), <1>1, <2>2 DEF GamedCloseForwards, GamedClose, Keeps, KeepsOnline, NoAccount, Typed, TypeOK, LoginTypes
  <2> QED
    BY <2>1, <2>2
<1>6. KeepsGclose'
  <2>1. acct[Head(gq).agent] = Head(gq).id
    BY <1>2 DEF GamedOK
  <2>2. gclose'[Head(gq).agent].id = Head(gq).id
        /\ \A b \in Agents : b # Head(gq).agent => gclose'[b] = gclose[b]
    BY SMTT(30), <1>2 DEF GamedClose, GamedFields, Typed, TypeOK, TaskTypes
  <2> QED
    BY <1>1, <2>1, <2>2 DEF Keeps, KeepsGclose
<1>7. KeepsAq'
  <2>1. CASE GamedCloseForwards
    BY <1>1, <2>1, ForwardFromClose, ForwardKeeps DEF Coroutines
  <2>2. CASE ~GamedCloseForwards
    BY <1>1, <2>2, AqSameOK DEF GamedCloseForwards, GamedClose, Keeps
  <2> QED
    BY <2>1, <2>2
<1> QED
  BY <1>3, <1>4, <1>5, <1>6, <1>2, <1>7
  DEF Keeps

LEMMA PoolAgentKeeps ==
  ASSUME Typed, Keeps, NEW a \in Agents, PoolAgent(a)
  PROVE  Keeps'
<1>1. acct' = acct
  BY DEF PoolAgent
<1>2. KeepsUser' /\ KeepsOnline' /\ KeepsOpen' /\ KeepsClose' /\ KeepsBorn'
  BY <1>1
  DEF PoolAgent, Keeps, KeepsUser, KeepsOnline, KeepsOpen, KeepsClose, KeepsBorn,
      agentVars
<1>3. KeepsPool'
  <2>1. \A i \in Ids : clear_pool'[i] = clear_pool[i] \/ (clear_pool'[i] = a /\ i = gclose[a].id)
    BY DEF PoolAgent, Typed, TypeOK, LoginTypes
  <2>2. gclose[a].id \in {None, acct[a]}
    BY DEF Keeps, KeepsGclose
  <2> QED
    BY <1>1, <2>1, <2>2, NoneAssumption DEF Keeps, KeepsPool
<1>4. KeepsGclose'
  BY <1>1
  DEF PoolAgent, NoGclose, Typed, TypeOK, Keeps, KeepsGclose, TaskTypes, GcloseRec
<1>5. KeepsGq'
  BY <1>1, GqSameOK
  DEF PoolAgent, Keeps
<1>6. KeepsAq'
  <2> SUFFICES ASSUME NEW b \in Agents PROVE (aq[b] \in Seq(AgentOK(b)))'
    BY DEF KeepsAq
  <2>1. aq[b] \in Seq(AgentOK(b)) /\ AgentOK(b)' = AgentOK(b)
    BY <1>1 DEF Keeps, KeepsAq, AgentOK
  <2>2. /\ Append(aq[b], Msg("ret_gamed_close", None, None, None, None)) \in Seq(AgentOK(b))
        /\ Append(aq[b], Msg("self_exit", None, None, None, None)) \in Seq(AgentOK(b))
    BY <2>1, AgentOKMsgs
  <2>3. \/ aq'[b] = aq[b]
        \/ aq'[b] = Append(aq[b], Msg("ret_gamed_close", None, None, None, None))
        \/ aq'[b] = Append(aq[b], Msg("self_exit", None, None, None, None))
    BY DEF PoolAgent
  <2> QED
    BY <2>1, <2>2, <2>3
<1> QED
  BY <1>2, <1>3, <1>4, <1>5, <1>6
  DEF Keeps

LEMMA FiveSecTickKeeps ==
  ASSUME Typed, Keeps, NEW S \in SUBSET Ids, FiveSecTick(S)
  PROVE  Keeps'
<1>1. acct' = acct
  BY DEF FiveSecTick
<1>2. KeepsUser' /\ KeepsOnline' /\ KeepsOpen' /\ KeepsClose' /\ KeepsGclose' /\
      KeepsBorn'
  BY <1>1
  DEF FiveSecTick, Keeps, KeepsUser, KeepsOnline, KeepsOpen, KeepsClose, KeepsGclose,
      KeepsBorn, taskVars, agentVars
<1>3. KeepsPool'
  BY <1>1
  DEF FiveSecTick, Expire, Typed, TypeOK, Keeps, KeepsPool, LoginTypes
<1>4. KeepsGq'
  BY <1>1, GqSameOK
  DEF FiveSecTick, Keeps
<1>5. KeepsAq'
  <2> SUFFICES ASSUME NEW b \in Agents PROVE (aq[b] \in Seq(AgentOK(b)))'
    BY DEF KeepsAq
  <2>1. aq[b] \in Seq(AgentOK(b)) /\ AgentOK(b)' = AgentOK(b)
    BY <1>1 DEF Keeps, KeepsAq, AgentOK
  <2>2. Append(aq[b], Msg("self_exit", None, None, None, None)) \in Seq(AgentOK(b))
    BY <2>1, AgentOKMsgs
  <2>3. \/ aq'[b] = aq[b]
        \/ aq'[b] = Append(aq[b], Msg("self_exit", None, None, None, None))
    BY DEF FiveSecTick
  <2> QED
    BY <2>1, <2>2, <2>3
<1> QED
  BY <1>2, <1>3, <1>4, <1>5
  DEF Keeps

LEMMA AgentOpenKeeps ==
  ASSUME Typed, Keeps, NEW a \in Agents, AgentOpen(a)
  PROVE  Keeps'
<1>1. acct' = acct
  BY DEF AgentOpen, loginVars
<1>2. /\ Head(aq[a]) \in AgentOK(a) /\ AgentFields(Head(aq[a])) /\ Head(aq[a]).cmd = "cmd_agent_open"
      /\ Drop(a) => KeepsAq'
  BY <1>1, AqReceiveOK
  DEF AgentOpen, Keeps, Typed, TypeOK
<1>3. KeepsUser' /\ KeepsPool' /\ KeepsOnline' /\ KeepsClose' /\ KeepsGclose' /\
      KeepsBorn'
  BY <1>1
  DEF AgentOpen, Keeps, KeepsUser, KeepsPool, KeepsOnline, KeepsClose, KeepsGclose,
      KeepsBorn, loginVars, taskVars
<1>4. KeepsOpen'
  <2>1. Head(aq[a]).id = acct[a]
    BY <1>2 DEF AgentOK
  <2>2. aopen'[a].id = Head(aq[a]).id /\ \A b \in Agents : b # a => aopen'[b] = aopen[b]
    BY DEF AgentOpen, Typed, TypeOK, AgentTypes
  <2> QED
    BY <1>1, <2>1, <2>2 DEF Keeps, KeepsOpen
<1>5. KeepsGq'
  BY <1>1, GqSameOK
  DEF AgentOpen, Keeps
<1>6. KeepsAq'
  BY <1>2
  DEF AgentOpen
<1> QED
  BY <1>3, <1>4, <1>5, <1>6
  DEF Keeps

LEMMA OpenLoadedKeeps ==
  ASSUME Typed, Keeps, NEW a \in Agents, OpenLoaded(a)
  PROVE  Keeps'
<1>1. acct' = acct
  BY DEF OpenLoaded, loginVars
<1>2. KeepsPool' /\ KeepsOnline' /\ KeepsClose' /\ KeepsGclose' /\ KeepsBorn'
  BY <1>1
  DEF OpenLoaded, Keeps, KeepsPool, KeepsOnline, KeepsClose, KeepsGclose, KeepsBorn,
      loginVars, taskVars
<1>3. KeepsUser'
  <2>1. aopen[a].id = acct[a]
    BY DEF OpenLoaded, Keeps, KeepsOpen
  <2>2. user_id'[a] \in {user_id[a], aopen[a].id} /\ \A b \in Agents : b # a => user_id'[b] = user_id[b]
    BY DEF OpenLoaded, Typed, TypeOK, AgentTypes
  <2> QED
    BY <1>1, <2>1, <2>2 DEF Keeps, KeepsUser
<1>4. KeepsOpen'
  <2>1. aopen[a].id = acct[a]
    BY DEF OpenLoaded, Keeps, KeepsOpen
  <2>2. \A b \in Agents : b # a => aopen'[b] = aopen[b]
    BY DEF OpenLoaded, Typed, TypeOK, AgentTypes
  <2>3. aopen'[a].pc = "none" \/ aopen'[a].id = aopen[a].id
    <3>1. CASE aopen' = [aopen EXCEPT ![a].pc = "reg"]
      BY <3>1 DEF Typed, TypeOK, AgentTypes, OpenRec
    <3>2. CASE aopen' = [aopen EXCEPT ![a] = NoOpen]
      BY <3>2 DEF Typed, TypeOK, AgentTypes, NoOpen
    <3> QED
      BY <3>1, <3>2 DEF OpenLoaded
  <2> QED
    BY <1>1, <2>1, <2>2, <2>3 DEF Keeps, KeepsOpen
<1>5. KeepsGq'
  BY <1>1, GqSendOK, GqSameOK, GamedOKMsgs
  DEF OpenLoaded, RetNil, Keeps, Typed, Coherent, CohOpen
<1>6. KeepsAq'
  BY <1>1, AqSameOK
  DEF OpenLoaded, Keeps
<1> QED
  BY <1>2, <1>3, <1>4, <1>5, <1>6
  DEF Keeps

LEMMA OpenRegisteredKeeps ==
  ASSUME Typed, Keeps, NEW a \in Agents, OpenRegistered(a)
  PROVE  Keeps'
<1>1. acct' = acct
  BY DEF OpenRegistered, loginVars
<1>2. KeepsUser' /\ KeepsPool' /\ KeepsOnline' /\ KeepsClose' /\ KeepsGclose' /\
      KeepsBorn'
  BY <1>1
  DEF OpenRegistered, Keeps, KeepsUser, KeepsPool, KeepsOnline, KeepsClose, KeepsGclose,
      KeepsBorn, loginVars, taskVars
<1>3. KeepsOpen'
  BY <1>1
  DEF OpenRegistered, Typed, TypeOK, Keeps, KeepsOpen, AgentTypes, OpenRec
<1>4. KeepsGq'
  BY <1>1, GqSameOK
  DEF OpenRegistered, Keeps
<1>5. KeepsAq'
  BY <1>1, AqSameOK
  DEF OpenRegistered, Keeps
<1> QED
  BY <1>2, <1>3, <1>4, <1>5
  DEF Keeps

LEMMA OpenLoggedInKeeps ==
  ASSUME Typed, Keeps, NEW a \in Agents, OpenLoggedIn(a)
  PROVE  Keeps'
<1>1. acct' = acct
  BY DEF OpenLoggedIn, loginVars
<1>2. KeepsUser' /\ KeepsPool' /\ KeepsOnline' /\ KeepsClose' /\ KeepsGclose' /\
      KeepsBorn'
  BY <1>1
  DEF OpenLoggedIn, Keeps, KeepsUser, KeepsPool, KeepsOnline, KeepsClose, KeepsGclose,
      KeepsBorn, loginVars, taskVars
<1>3. KeepsOpen'
  BY <1>1
  DEF OpenLoggedIn, NoOpen, Typed, TypeOK, Keeps, KeepsOpen, AgentTypes, OpenRec
<1>4. KeepsGq'
  BY <1>1, GqSendOK, GqSameOK, GamedOKMsgs
  DEF OpenLoggedIn, Keeps, Typed, Coherent, CohOpen
<1>5. KeepsAq'
  BY <1>1, AqSameOK
  DEF OpenLoggedIn, Keeps
<1> QED
  BY <1>2, <1>3, <1>4, <1>5
  DEF Keeps

LEMMA AgentOtherLoginKeeps ==
  ASSUME Typed, Keeps, NEW a \in Agents, AgentOtherLogin(a)
  PROVE  Keeps'
<1>1. acct' = acct
  BY DEF AgentOtherLogin, loginVars
<1>2. /\ Head(aq[a]) \in AgentOK(a) /\ AgentFields(Head(aq[a])) /\ Head(aq[a]).cmd = "cmd_agent_other_login"
      /\ Drop(a) => KeepsAq'
  BY <1>1, AqReceiveOK
  DEF AgentOtherLogin, Keeps, Typed, TypeOK
<1>3. KeepsUser' /\ KeepsPool' /\ KeepsOnline' /\ KeepsOpen' /\ KeepsClose' /\
      KeepsGclose' /\ KeepsBorn'
  BY <1>1
  DEF AgentOtherLogin, Keeps, KeepsUser, KeepsPool, KeepsOnline, KeepsOpen, KeepsClose,
      KeepsGclose, KeepsBorn, loginVars, taskVars, agentVars
<1>4. KeepsGq'
  BY <1>1, <1>2, GqSendOK, GqSameOK, GamedOKMsgs
  DEF AgentOtherLogin, AgentFields, Keeps
<1>5. KeepsAq'
  BY <1>2
  DEF AgentOtherLogin
<1> QED
  BY <1>3, <1>4, <1>5
  DEF Keeps

LEMMA AgentKickKeeps ==
  ASSUME Typed, Keeps, NEW a \in Agents, AgentKick(a)
  PROVE  Keeps'
<1>1. acct' = acct
  BY DEF AgentKick, loginVars
<1>2. /\ Head(aq[a]) \in AgentOK(a) /\ AgentFields(Head(aq[a])) /\ Head(aq[a]).cmd = "cmd_agent_kick"
      /\ Drop(a) => KeepsAq'
  BY <1>1, AqReceiveOK
  DEF AgentKick, Keeps, Typed, TypeOK
<1>3. KeepsUser' /\ KeepsPool' /\ KeepsOnline' /\ KeepsOpen' /\ KeepsClose' /\
      KeepsGclose' /\ KeepsBorn'
  BY <1>1
  DEF AgentKick, Keeps, KeepsUser, KeepsPool, KeepsOnline, KeepsOpen, KeepsClose,
      KeepsGclose, KeepsBorn, loginVars, taskVars
<1>4. KeepsGq'
  BY <1>1, GqSameOK
  DEF AgentKick, Keeps
<1>5. KeepsAq'
  BY <1>2
  DEF AgentKick
<1> QED
  BY <1>3, <1>4, <1>5
  DEF Keeps

LEMMA KickSaveKeeps ==
  ASSUME Typed, Keeps, NEW a \in Agents, NEW f \in Fds, KickSave(a, f)
  PROVE  Keeps'
<1>1. acct' = acct
  BY DEF KickSave, loginVars
<1>2. KeepsUser' /\ KeepsPool' /\ KeepsOnline' /\ KeepsOpen' /\ KeepsClose' /\
      KeepsGclose' /\ KeepsBorn'
  BY <1>1
  DEF KickSave, Keeps, KeepsUser, KeepsPool, KeepsOnline, KeepsOpen, KeepsClose,
      KeepsGclose, KeepsBorn, loginVars, taskVars
<1>3. KeepsGq'
  BY <1>1, GqSendOK, GqSameOK, GamedOKMsgs
  DEF KickSave, RetNil, Keeps
<1>4. KeepsAq'
  BY <1>1, AqSameOK
  DEF KickSave, Keeps
<1> QED
  BY <1>2, <1>3, <1>4
  DEF Keeps

LEMMA KickSelfKeeps ==
  ASSUME Typed, Keeps, NEW a \in Agents, NEW f \in Fds, KickSelf(a, f)
  PROVE  Keeps'
<1>1. acct' = acct
  BY DEF KickSelf, loginVars
<1>2. KeepsUser' /\ KeepsPool' /\ KeepsOnline' /\ KeepsOpen' /\ KeepsClose' /\
      KeepsGclose' /\ KeepsBorn'
  BY <1>1
  DEF KickSelf, Keeps, KeepsUser, KeepsPool, KeepsOnline, KeepsOpen, KeepsClose,
      KeepsGclose, KeepsBorn, loginVars, taskVars
<1>3. KeepsGq'
  BY <1>1, GqSendOK, GqSameOK, GamedOKMsgs
  DEF KickSelf, Keeps, Typed, TypeOK, AgentTypes
<1>4. KeepsAq'
  BY <1>1, AqSameOK
  DEF KickSelf, Keeps
<1> QED
  BY <1>2, <1>3, <1>4
  DEF Keeps

LEMMA AgentKickedKeeps ==
  ASSUME Typed, Keeps, NEW a \in Agents, AgentKicked(a)
  PROVE  Keeps'
<1>1. acct' = acct
  BY DEF AgentKicked, loginVars
<1>2. /\ Head(aq[a]) \in AgentOK(a) /\ AgentFields(Head(aq[a])) /\ Head(aq[a]).cmd = "ret_gamed_kick"
      /\ Drop(a) => KeepsAq'
  BY <1>1, AqReceiveOK
  DEF AgentKicked, Keeps, Typed, TypeOK
<1>3. KeepsUser' /\ KeepsPool' /\ KeepsOnline' /\ KeepsOpen' /\ KeepsClose' /\
      KeepsGclose' /\ KeepsBorn'
  BY <1>1
  DEF AgentKicked, Keeps, KeepsUser, KeepsPool, KeepsOnline, KeepsOpen, KeepsClose,
      KeepsGclose, KeepsBorn, loginVars, taskVars, agentVars
<1>4. KeepsGq'
  BY <1>1, <1>2, GqSendOK, GqSameOK, GamedOKMsgs
  DEF AgentKicked, AgentFields, Keeps
<1>5. KeepsAq'
  BY <1>2
  DEF AgentKicked
<1> QED
  BY <1>3, <1>4, <1>5
  DEF Keeps

LEMMA AgentCloseKeeps ==
  ASSUME Typed, Keeps, NEW a \in Agents, AgentClose(a)
  PROVE  Keeps'
<1>1. acct' = acct
  BY DEF AgentClose, loginVars
<1>2. /\ Head(aq[a]) \in AgentOK(a) /\ AgentFields(Head(aq[a])) /\ Head(aq[a]).cmd = "cmd_agent_close"
      /\ Drop(a) => KeepsAq'
  BY <1>1, AqReceiveOK
  DEF AgentClose, Keeps, Typed, TypeOK
<1>3. KeepsUser' /\ KeepsPool' /\ KeepsOnline' /\ KeepsOpen' /\ KeepsGclose' /\
      KeepsBorn'
  BY <1>1
  DEF AgentClose, Keeps, KeepsUser, KeepsPool, KeepsOnline, KeepsOpen, KeepsGclose,
      KeepsBorn, loginVars, taskVars
<1>4. KeepsClose'
  <2>1. \A b \in Agents : aclose'[b] = aclose[b] \/ aclose'[b].pc = "save"
    BY DEF AgentClose, Typed, TypeOK, AgentTypes
  <2> QED
    BY <1>1, <2>1 DEF Keeps, KeepsClose
<1>5. KeepsGq'
  BY <1>1, <1>2, GqSendOK, GqSameOK, GamedOKMsgs
  DEF AgentClose, RetNil, AgentFields, Keeps
<1>6. KeepsAq'
  BY <1>2
  DEF AgentClose
<1> QED
  BY <1>3, <1>4, <1>5, <1>6
  DEF Keeps

LEMMA CloseSavedKeeps ==
  ASSUME Typed, Keeps, NEW a \in Agents, CloseSaved(a)
  PROVE  Keeps'
<1>1. acct' = acct
  BY DEF CloseSaved, loginVars
<1>2. KeepsPool' /\ KeepsOnline' /\ KeepsOpen' /\ KeepsGclose' /\ KeepsBorn'
  BY <1>1
  DEF CloseSaved, Keeps, KeepsPool, KeepsOnline, KeepsOpen, KeepsGclose, KeepsBorn,
      loginVars, taskVars
<1>3. KeepsUser'
  BY <1>1
  DEF CloseSaved, Unregister, Typed, TypeOK, Keeps, KeepsUser, AgentTypes
<1>4. KeepsClose'
  <2>1. user_id[a] = acct[a]
    BY NoneAssumption DEF CloseSaved, Typed, Coherent, CohClose, Keeps, KeepsUser
  <2>2. aclose[a] \in CloseRec
    BY DEF Typed, TypeOK, AgentTypes
  <2>3. [aclose[a] EXCEPT !.pc = "logout", !.id = user_id[a]].id = user_id[a]
    BY <2>2 DEF CloseRec
  <2>4. \A b \in Agents : b # a => aclose'[b] = aclose[b]
    BY DEF CloseSaved, Typed, TypeOK, AgentTypes
  <2>5. aclose'[a].id = user_id[a]
    BY <2>3 DEF CloseSaved, Typed, TypeOK, AgentTypes
  <2> QED
    BY <1>1, <2>1, <2>4, <2>5 DEF Keeps, KeepsClose
<1>5. KeepsGq'
  BY <1>1, GqSameOK
  DEF CloseSaved, Keeps
<1>6. KeepsAq'
  BY <1>1, AqSameOK
  DEF CloseSaved, Keeps
<1> QED
  BY <1>2, <1>3, <1>4, <1>5, <1>6
  DEF Keeps

LEMMA CloseReportedKeeps ==
  ASSUME Typed, Keeps, NEW a \in Agents, CloseReported(a)
  PROVE  Keeps'
<1>1. acct' = acct
  BY DEF CloseReported, loginVars
<1>2. KeepsUser' /\ KeepsPool' /\ KeepsOnline' /\ KeepsOpen' /\ KeepsGclose' /\
      KeepsBorn'
  BY <1>1
  DEF CloseReported, Keeps, KeepsUser, KeepsPool, KeepsOnline, KeepsOpen, KeepsGclose,
      KeepsBorn, loginVars, taskVars
<1>3. KeepsClose'
  BY <1>1
  DEF CloseReported, Typed, TypeOK, Keeps, KeepsClose, AgentTypes, CloseRec
<1>4. KeepsGq'
  BY <1>1, GqSendOK, GqSameOK, GamedOKMsgs
  DEF CloseReported, Keeps, KeepsClose, Typed, Coherent, CohClose
<1>5. KeepsAq'
  BY <1>1, AqSameOK
  DEF CloseReported, Keeps
<1> QED
  BY <1>2, <1>3, <1>4, <1>5
  DEF Keeps

LEMMA AgentClosedKeeps ==
  ASSUME Typed, Keeps, NEW a \in Agents, AgentClosed(a)
  PROVE  Keeps'
<1>1. acct' = acct
  BY DEF AgentClosed, loginVars
<1>2. /\ Head(aq[a]) \in AgentOK(a) /\ AgentFields(Head(aq[a])) /\ Head(aq[a]).cmd = "ret_gamed_close"
      /\ Drop(a) => KeepsAq'
  BY <1>1, AqReceiveOK
  DEF AgentClosed, Keeps, Typed, TypeOK
<1>3. KeepsUser' /\ KeepsPool' /\ KeepsOnline' /\ KeepsOpen' /\ KeepsGclose' /\
      KeepsBorn'
  BY <1>1
  DEF AgentClosed, Keeps, KeepsUser, KeepsPool, KeepsOnline, KeepsOpen, KeepsGclose,
      KeepsBorn, loginVars, taskVars
<1>4. KeepsClose'
  BY <1>1, <1>2
  DEF AgentClosed, NoClose, Typed, TypeOK, Keeps, KeepsClose, AgentTypes, CloseRec
<1>5. KeepsGq'
  BY <1>1, <1>2, GqSendOK, GqSameOK, GamedOKMsgs
  DEF AgentClosed, AgentFields, Keeps, Typed, TypeOK, AgentTypes, CloseRec
<1>6. KeepsAq'
  BY <1>2
  DEF AgentClosed
<1> QED
  BY <1>3, <1>4, <1>5, <1>6
  DEF Keeps

LEMMA AgentDispatchKeeps ==
  ASSUME Typed, Keeps, NEW a \in Agents, AgentDispatch(a)
  PROVE  Keeps'
<1>1. acct' = acct
  BY DEF AgentDispatch, loginVars
<1>2. /\ Head(aq[a]) \in AgentOK(a) /\ AgentFields(Head(aq[a])) /\ Head(aq[a]).cmd = "test_dispatch"
      /\ Drop(a) => KeepsAq'
  BY <1>1, AqReceiveOK
  DEF AgentDispatch, Keeps, Typed, TypeOK
<1>3. KeepsUser' /\ KeepsPool' /\ KeepsOnline' /\ KeepsOpen' /\ KeepsClose' /\
      KeepsGclose' /\ KeepsBorn'
  BY <1>1
  DEF AgentDispatch, Keeps, KeepsUser, KeepsPool, KeepsOnline, KeepsOpen, KeepsClose,
      KeepsGclose, KeepsBorn, loginVars, taskVars, agentVars
<1>4. KeepsGq'
  BY <1>1, <1>2, GqSendOK, GqSameOK, GamedOKMsgs
  DEF AgentDispatch, AgentFields, Keeps, Typed, TypeOK, AgentTypes
<1>5. KeepsAq'
  BY <1>2
  DEF AgentDispatch
<1> QED
  BY <1>3, <1>4, <1>5
  DEF Keeps

LEMMA SelfExitKeeps ==
  ASSUME Typed, Keeps, NEW a \in Agents, SelfExit(a)
  PROVE  Keeps'
<1>1. acct' = acct
  BY DEF SelfExit, loginVars
<1>2. /\ Head(aq[a]) \in AgentOK(a) /\ AgentFields(Head(aq[a])) /\ Head(aq[a]).cmd = "self_exit"
      /\ Drop(a) => KeepsAq'
  BY <1>1, AqReceiveOK
  DEF SelfExit, Keeps, Typed, TypeOK
<1>3. KeepsUser' /\ KeepsPool' /\ KeepsOnline' /\ KeepsOpen' /\ KeepsClose' /\
      KeepsGclose'
  BY <1>1
  DEF SelfExit, Keeps, KeepsUser, KeepsPool, KeepsOnline, KeepsOpen, KeepsClose,
      KeepsGclose, loginVars
<1>4. KeepsBorn'
  BY <1>1, <1>2
  DEF SelfExit, Unanswered, Typed, TypeOK, Keeps, KeepsBorn, AgentTypes
<1>5. KeepsGq'
  BY <1>1, GqSameOK
  DEF SelfExit, Keeps
<1>6. KeepsAq'
  <2> SUFFICES ASSUME NEW b \in Agents PROVE (aq[b] \in Seq(AgentOK(b)))'
    BY DEF KeepsAq
  <2>1. aq[b] \in Seq(AgentOK(b)) /\ AgentOK(b)' = AgentOK(b)
    BY <1>1 DEF Keeps, KeepsAq, AgentOK
  <2>2. aq'[b] = aq[b] \/ aq'[b] = <<>>
    BY DEF SelfExit, Typed, TypeOK, MailTypes
  <2>3. <<>> \in Seq(AgentOK(b))
    OBVIOUS
  <2> QED
    BY <2>1, <2>2, <2>3
<1> QED
  BY <1>3, <1>4, <1>5, <1>6
  DEF Keeps

\* newservice returns an agent nobody knows yet: nothing refers to it.
LEMMA CreateAgentKeeps ==
  ASSUME Typed, Keeps, NEW c \in Coroutines, NEW a \in Agents, CreateAgent(c, a)
  PROVE  Keeps'
<1> DEFINE i == fwd[c].id
           m == Msg("cmd_agent_open", fwd[c].fd, c, None, i)
<1>1. i \in Ids /\ fwd[c].fd \in Fds /\ i # None
  BY NoneAssumption DEF CreateAgent, Typed, Coherent, CohForward
<1>2. acct[a] = None /\ acct'[a] = i /\ \A b \in Agents : b # a => acct'[b] = acct[b]
  BY DEF CreateAgent, Keeps, KeepsBorn, Typed, TypeOK, LoginTypes
<1>3. KeepsUser'
  BY <1>2 DEF CreateAgent, Keeps, KeepsUser
<1>4. KeepsPool'
  BY <1>2, NoneAssumption DEF CreateAgent, Keeps, KeepsPool, Typed, TypeOK, LoginTypes
<1>5. KeepsOnline'
  <2>1. online_account'[i].agent = a /\ \A j \in Ids : j # i => online_account'[j] = online_account[j]
    BY <1>1 DEF CreateAgent, OnlineRecord, Typed, TypeOK, LoginTypes
  <2>2. \A j \in Ids : online_account[j].agent # None => /\ online_account[j].agent \in Agents
                                                        /\ online_account[j].agent # a
    BY <1>2, NoneAssumption DEF Keeps, KeepsOnline, Typed, TypeOK, LoginTypes, AccountRec
  <2> QED
    BY <1>2, <2>1, <2>2 DEF Keeps, KeepsOnline
<1>6. KeepsOpen' /\ KeepsClose'
  BY <1>2, NoneAssumption DEF CreateAgent, Keeps, KeepsOpen, KeepsClose, Typed, Coherent,
     CohOpen, CohClose
<1>7. KeepsGclose' /\ KeepsBorn'
  BY <1>2 DEF CreateAgent, taskVars, Keeps, KeepsGclose, KeepsBorn, Typed, TypeOK, AgentTypes
<1>8. KeepsGq'
  <2>1. GamedOK \subseteq GamedOK'
    <3> SUFFICES ASSUME NEW x \in GamedMsg, x.cmd = "cmd_gamed_close", acct[x.agent] = x.id
                 PROVE  acct'[x.agent] = x.id
      BY DEF GamedOK
    <3>1. x.agent \in Agents /\ x.id \in Ids
      BY GamedMsgFields DEF GamedFields
    <3> QED
      BY <1>2, <3>1, NoneAssumption
  <2>2. gq \in Seq(GamedOK) /\ gq' = gq
    BY DEF CreateAgent, Keeps, KeepsGq
  <2> QED
    BY <2>1, <2>2 DEF KeepsGq
<1>9. KeepsAq'
  <2> SUFFICES ASSUME NEW b \in Agents PROVE (aq[b] \in Seq(AgentOK(b)))'
    BY DEF KeepsAq
  <2>1. aq[b] \in Seq(AgentOK(b))
    BY DEF Keeps, KeepsAq
  <2>2. AgentOK(b) \subseteq AgentOK(b)'
    <3> SUFFICES ASSUME NEW x \in AgentMsg, x.cmd = "cmd_agent_open", x.id = acct[b]
                 PROVE  x.id = acct'[b]
      BY DEF AgentOK
    <3>1. x.id \in Ids
      BY AgentMsgFields DEF AgentFields
    <3> QED
      BY <1>2, <3>1, NoneAssumption
  <2>3. b = a => m \in AgentOK(b)'
    BY <1>1, <1>2, AgentMsgs DEF AgentOK, Msg
  <2>4. aq'[b] = IF b = a THEN Append(aq[b], m) ELSE aq[b]
    BY DEF CreateAgent, Typed, TypeOK, MailTypes
  <2> HIDE DEF m
  <2>5. aq[b] \in Seq(AgentOK(b)')
    BY <2>1, <2>2
  <2> QED
    BY <2>3, <2>4, <2>5
<1> QED
  BY <1>3, <1>4, <1>5, <1>6, <1>7, <1>8, <1>9 DEF Keeps

LEMMA InitKeeps == Init => Keeps
BY NoneAssumption
   DEF Init, Keeps, KeepsUser, KeepsPool, KeepsOnline, KeepsOpen, KeepsClose, KeepsGclose,
       KeepsBorn, KeepsGq, KeepsAq, NoAccount, NoGclose, NoOpen, NoClose

LEMMA NextKeeps == ASSUME Typed, Keeps, [Next]_vars PROVE Keeps'
<1>1. CASE UNCHANGED vars
  BY <1>1 DEF vars, loginVars, taskVars, agentVars, Keeps, KeepsUser, KeepsPool, KeepsOnline,
     KeepsOpen, KeepsClose, KeepsGclose, KeepsBorn, KeepsGq, KeepsAq, GamedOK, AgentOK
<1>2. ASSUME NEW f \in Fds, Client(f) PROVE Keeps'
  BY <1>2, ConnectKeeps, ClientSendKeeps, ClientCloseKeeps DEF Client
<1>3. ASSUME NEW f \in Fds, Resume(f) PROVE Keeps'
  BY <1>3, SocketClosedKeeps, CloseFdKeeps, LoginFailedKeeps, CallErrorKeeps,
     LoginHandlerKeeps DEF Resume
<1>4. CASE Gamed
  BY <1>4, MsgOpenKeeps, MsgDataKeeps, MsgCloseKeeps, RetCloseKeeps, RetOtherKeeps,
     RetKickKeeps, RetOpenKeeps, GamedKickKeeps, GamedCloseKeeps DEF Gamed
<1>5. ASSUME NEW k \in kicks, CloseClient(k) PROVE Keeps'
  BY <1>5, CloseClientKeeps
<1>6. ASSUME NEW a \in Agents, Agent(a) PROVE Keeps'
  BY <1>6, AgentOpenKeeps, OpenLoadedKeeps, OpenRegisteredKeeps, OpenLoggedInKeeps,
     AgentOtherLoginKeeps, AgentKickKeeps, AgentKickedKeeps, KickSaveKeeps, KickSelfKeeps,
     AgentCloseKeeps, CloseSavedKeeps, CloseReportedKeeps, AgentClosedKeeps,
     AgentDispatchKeeps, SelfExitKeeps, PoolAgentKeeps, CreateAgentKeeps DEF Agent
<1>7. ASSUME NEW S \in SUBSET Ids, FiveSecTick(S) PROVE Keeps'
  BY <1>7, FiveSecTickKeeps
<1> QED
  BY <1>1, <1>2, <1>3, <1>4, <1>5, <1>6, <1>7 DEF Next

\* Whatever agent the pool, a login or a relogin hands out was created for
\* that account, and an agent never holds another account's user.
THEOREM AgentAccountKept == Spec => []AgentKeepsAccount
<1>1. Init => Keeps
  BY InitKeeps
<1>2. Typed /\ Keeps /\ [Next]_vars => Keeps'
  BY NextKeeps
<1>3. Keeps => AgentKeepsAccount
  BY DEF Keeps, KeepsUser, KeepsPool, KeepsOnline, AgentKeepsAccount
<1> QED
  BY <1>1, <1>2, <1>3, AlwaysTyped, PTL DEF Spec

=============================================================================
