-------------------------------- MODULE Gate --------------------------------
(***************************************************************************)
(* The gate of the game server: connections, login, the agent that serves  *)
(* an account, kicking out an earlier login of the same account, and the   *)
(* pool that keeps a closed agent for EXPIRE_CLEAN_TIME.                   *)
(*                                                                         *)
(* gamed.lua, gameserver.lua and gateserver.lua are one skynet service     *)
(* ("gamed"); every agent.lua is a service of its own.  A service handles  *)
(* one message at a time, but a handler that waits for an answer           *)
(* (skynet.call, newservice, and syslog.debugf, which calls the logger)    *)
(* yields, and other messages of the same service run meanwhile.  An       *)
(* action below is what a handler does between two such yields.  gq is the *)
(* mailbox of gamed, aq[a] that of agent a: FIFO, as skynet's are.         *)
(***************************************************************************)
EXTENDS Integers, Sequences, FiniteSets

CONSTANTS Fds,        \* socket ids; skynet does not reuse one within a run
          Ids,        \* account ids
          Agents,     \* service handles newservice may return
          MaxClient,  \* conf.maxclient
          MaxData,    \* bound: packages a client sends on one socket
          None        \* Lua's nil

ASSUME NoneAssumption == None \notin Fds \cup Ids \cup Agents
ASSUME NamesAssumption == Fds \cap Agents = {}
ASSUME BoundAssumption == MaxClient \in Nat /\ MaxData \in Nat

VARIABLES
  sock,            \* socket layer: idle, accepted, open, shut, closed
  sent,            \* packages the client has sent on the socket
  connection,      \* gateserver: connection[fd] is present
  cagent,          \* gateserver: connection[fd].agent
  nclient,         \* gateserver: nclient
  pending_msg,     \* gameserver: pending_msg[fd], -1 for nil, else queue length
  ses,             \* login of fd: the coroutine of handler.message
  fwd,             \* coroutine inside forward_agent, see Coroutines
  online_account,  \* gamed: online_account[id]; agent = None when absent
  clear_pool,      \* gamed: clear_pool[id].agent
  kicks,           \* coroutines inside gateserver.close_client
  closes,          \* coroutine of MSG.close for fd
  gclose,          \* coroutine of cmd_gamed_close for an agent
  errs,            \* logins whose callee exited before it answered
  gq, aq,          \* mailboxes
  status,          \* agent service: unborn, live, dead
  user_id, user_fd,\* agent.lua: user.account and user_fd, None when user = nil
  reg,             \* agent.lua: handlers registered in user.CMD and user.RPC
  loaded,          \* record.lua: info is a table
  aopen,           \* agent: coroutine of cmd_agent_open
  akick,           \* agent: coroutine of cmd_agent_kick for a login
  aclose,          \* agent: coroutine of cmd_agent_close
  acct             \* auxiliary: the account an agent was created for

sockVars  == <<sock, sent>>
gateVars  == <<connection, cagent, nclient, pending_msg>>
loginVars == <<ses, fwd, online_account, clear_pool, acct>>
taskVars  == <<kicks, closes, gclose, errs>>
agentVars == <<status, user_id, user_fd, reg, loaded, aopen, akick, aclose>>
vars == <<sockVars, gateVars, loginVars, taskVars, gq, aq, agentVars>>

-----------------------------------------------------------------------------
(* Messages.  Every message carries the same fields; from names the        *)
(* coroutine that waits for the answer: the login or the close of a socket,*)
(* or the cmd_gamed_close of an agent.                                     *)

Coroutines == Fds \cup Agents

Msg(cmd, fd, from, agent, id) ==
  [cmd |-> cmd, fd |-> fd, from |-> from, agent |-> agent, id |-> id]

MsgSet(cmds, fds, froms, agents, ids) ==
  [cmd : cmds, fd : fds, from : froms, agent : agents, id : ids]

GamedMsg ==
  MsgSet({"open", "data", "close"}, Fds, {None}, {None}, {None})
  \cup MsgSet({"cmd_gamed_kick"}, Fds \cup {None}, Fds \cup {None}, Agents, {None})
  \cup MsgSet({"cmd_gamed_close"}, {None}, {None}, Agents, Ids)
  \cup MsgSet({"ret_open"}, {None}, Coroutines, {None}, {None})
  \cup MsgSet({"ret_other", "ret_kick"}, {None}, Fds, {None}, {None})
  \cup MsgSet({"ret_close"}, {None}, Fds \cup {None}, {None}, {None})

AgentMsg ==
  MsgSet({"cmd_agent_open"}, Fds, Coroutines, {None}, Ids)
  \cup MsgSet({"cmd_agent_other_login", "cmd_agent_kick", "cmd_agent_close"},
              {None}, Fds, {None}, {None})
  \cup MsgSet({"test_dispatch"}, Fds, {None}, {None}, {None})
  \cup MsgSet({"self_exit", "ret_gamed_close"}, {None}, {None}, {None}, {None})
  \cup MsgSet({"ret_gamed_kick"}, {None}, Fds \cup {None}, {None}, {None})

ToGamed(m) == gq' = Append(gq, m)

\* skynet.send to a service that has exited is dropped.
ToAgent(a, m) == aq' = [aq EXCEPT ![a] = IF status[a] = "live" THEN Append(@, m) ELSE @]

NoLogin   == [pc |-> "none", id |-> None, agent |-> None, info |-> FALSE]
NoForward == [pc |-> "none", fd |-> None, id |-> None, agent |-> None]
NoAccount == [agent |-> None, isKick |-> FALSE, fd |-> None]
NoGclose  == [pc |-> "none", id |-> None]
NoOpen    == [pc |-> "none", fd |-> None, from |-> None, id |-> None]
NoClose   == [pc |-> "none", fd |-> None, id |-> None]

LoginPcs == {"none", "auth", "failed", "other", "kick", "parked",
             "forward", "done", "dead"}

LoginRec   == [pc : LoginPcs, id : Ids \cup {None}, agent : Agents \cup {None},
               info : BOOLEAN]
ForwardRec == [pc : {"none", "create", "open"}, fd : Fds \cup {None}, id : Ids \cup {None},
               agent : Agents \cup {None}]
AccountRec == [agent : Agents \cup {None}, isKick : BOOLEAN, fd : Fds \cup {None}]
GcloseRec  == [pc : {"none", "forward", "pool"}, id : Ids \cup {None}]
OpenRec    == [pc : {"none", "load", "reg", "login"}, fd : Fds \cup {None},
               from : Coroutines \cup {None}, id : Ids \cup {None}]
CloseRec   == [pc : {"none", "save", "logout", "gamed"}, fd : Fds \cup {None},
               id : Ids \cup {None}]

GateTypes ==
  /\ sock \in [Fds -> {"idle", "accepted", "open", "shut", "closed"}]
  /\ sent \in [Fds -> 0..MaxData]
  /\ connection \in [Fds -> BOOLEAN]
  /\ cagent \in [Fds -> Agents \cup {None}]
  /\ nclient \in Int
  /\ pending_msg \in [Fds -> Int]

LoginTypes ==
  /\ ses \in [Fds -> LoginRec]
  /\ fwd \in [Coroutines -> ForwardRec]
  /\ online_account \in [Ids -> AccountRec]
  /\ clear_pool \in [Ids -> Agents \cup {None}]
  /\ acct \in [Agents -> Ids \cup {None}]

TaskTypes ==
  /\ kicks \subseteq [fd : Fds, from : Fds \cup {None}, agent : Agents \cup {None}]
  /\ closes \in [Fds -> {"none", "log", "call", "done"}]
  /\ gclose \in [Agents -> GcloseRec]
  /\ errs \subseteq Fds

MailTypes ==
  /\ gq \in Seq(GamedMsg)
  /\ aq \in [Agents -> Seq(AgentMsg)]

AgentTypes ==
  /\ status \in [Agents -> {"unborn", "live", "dead"}]
  /\ user_id \in [Agents -> Ids \cup {None}]
  /\ user_fd \in [Agents -> Fds \cup {None}]
  /\ reg \in [Agents -> BOOLEAN]
  /\ loaded \in [Agents -> BOOLEAN]
  /\ aopen \in [Agents -> OpenRec]
  /\ akick \in [Agents -> [Fds -> {"none", "log", "save"}]]
  /\ aclose \in [Agents -> CloseRec]

TypeOK == GateTypes /\ LoginTypes /\ TaskTypes /\ MailTypes /\ AgentTypes

Init ==
  /\ sock = [f \in Fds |-> "idle"]
  /\ sent = [f \in Fds |-> 0]
  /\ connection = [f \in Fds |-> FALSE]
  /\ cagent = [f \in Fds |-> None]
  /\ nclient = 0
  /\ pending_msg = [f \in Fds |-> -1]
  /\ ses = [f \in Fds |-> NoLogin]
  /\ fwd = [c \in Coroutines |-> NoForward]
  /\ online_account = [i \in Ids |-> NoAccount]
  /\ clear_pool = [i \in Ids |-> None]
  /\ kicks = {}
  /\ closes = [f \in Fds |-> "none"]
  /\ gclose = [a \in Agents |-> NoGclose]
  /\ errs = {}
  /\ gq = <<>>
  /\ aq = [a \in Agents |-> <<>>]
  /\ status = [a \in Agents |-> "unborn"]
  /\ user_id = [a \in Agents |-> None]
  /\ user_fd = [a \in Agents |-> None]
  /\ reg = [a \in Agents |-> FALSE]
  /\ loaded = [a \in Agents |-> FALSE]
  /\ aopen = [a \in Agents |-> NoOpen]
  /\ akick = [a \in Agents |-> [f \in Fds |-> "none"]]
  /\ aclose = [a \in Agents |-> NoClose]
  /\ acct = [a \in Agents |-> None]

-----------------------------------------------------------------------------
(* Clients and skynet's socket layer (external).  A socket reports one     *)
(* close or error event, after all its data.                               *)

Connect(f) ==
  /\ sock[f] = "idle"
  /\ sock' = [sock EXCEPT ![f] = "accepted"]
  /\ ToGamed(Msg("open", f, None, None, None))
  /\ UNCHANGED <<sent, gateVars, loginVars, taskVars, aq, agentVars>>

ClientSend(f) ==
  /\ sock[f] = "open" /\ sent[f] < MaxData
  /\ sent' = [sent EXCEPT ![f] = @ + 1]
  /\ ToGamed(Msg("data", f, None, None, None))
  /\ UNCHANGED <<sock, gateVars, loginVars, taskVars, aq, agentVars>>

ClientClose(f) ==
  /\ sock[f] = "open"
  /\ sock' = [sock EXCEPT ![f] = "closed"]
  /\ ToGamed(Msg("close", f, None, None, None))
  /\ UNCHANGED <<sent, gateVars, loginVars, taskVars, aq, agentVars>>

\* The socket thread reports a socket that the server closed.
SocketClosed(f) ==
  /\ sock[f] = "shut"
  /\ sock' = [sock EXCEPT ![f] = "closed"]
  /\ ToGamed(Msg("close", f, None, None, None))
  /\ UNCHANGED <<sent, gateVars, loginVars, taskVars, aq, agentVars>>

-----------------------------------------------------------------------------
(* gamed: socket events.                                                   *)

Receive(cmd) == gq # <<>> /\ Head(gq).cmd = cmd /\ gq' = Tail(gq)

Full_bug == nclient > MaxClient

Full == nclient >= MaxClient

\* MSG.open; handler.connect and open_client start the socket at once.
MsgOpen ==
  /\ Receive("open")
  /\ LET f == Head(gq).fd IN
     \/ /\ Full
        /\ sock' = [sock EXCEPT ![f] = "shut"]
        /\ UNCHANGED gateVars
     \/ /\ ~Full
        /\ sock' = [sock EXCEPT ![f] = "open"]
        /\ connection' = [connection EXCEPT ![f] = TRUE]
        /\ nclient' = nclient + 1
        /\ UNCHANGED <<cagent, pending_msg>>
  /\ UNCHANGED <<sent, loginVars, taskVars, aq, agentVars>>

Authenticating_bug(f) == FALSE

\* pending_msg[fd] is there from the login package to deal_pending_msg.
Authenticating(f) == pending_msg[f] >= 0

\* dispatch_msg: forward to the agent, or handler.message, which queues what
\* arrives during authentication and otherwise calls the login server.
\* Without a connection, indexing connection[fd] raises an error.
MsgData ==
  /\ Receive("data")
  /\ LET f == Head(gq).fd
         a == cagent[f] IN
     \/ /\ a # None
        /\ ToAgent(a, Msg("test_dispatch", f, None, None, None))
        /\ UNCHANGED <<pending_msg, ses>>
     \/ /\ a = None /\ (connection[f] => Authenticating(f))
        /\ pending_msg' = [pending_msg EXCEPT ![f] = IF connection[f] THEN @ + 1 ELSE @]
        /\ UNCHANGED <<ses, aq>>
     \/ /\ a = None /\ connection[f] /\ ~Authenticating(f)
        /\ pending_msg' = [pending_msg EXCEPT ![f] = 0]
        /\ ses' = [ses EXCEPT ![f] = [NoLogin EXCEPT !.pc = "auth"]]
        /\ UNCHANGED aq
  /\ UNCHANGED <<sockVars, connection, cagent, nclient, fwd, online_account, clear_pool,
                 acct, taskVars, agentVars>>

\* MSG.close and MSG.error log first (a call), then run close_fd.
MsgClose ==
  /\ Receive("close")
  /\ closes' = [closes EXCEPT ![Head(gq).fd] = "log"]
  /\ UNCHANGED <<sockVars, gateVars, loginVars, kicks, gclose, errs, aq, agentVars>>

\* The part of close_fd up to the call of cmd_agent_close.
CloseFd(f) ==
  /\ closes[f] = "log"
  /\ \/ /\ connection[f] /\ cagent[f] # None
        /\ closes' = [closes EXCEPT ![f] = "call"]
        /\ ToAgent(cagent[f], Msg("cmd_agent_close", None, f, None, None))
        /\ UNCHANGED <<connection, nclient>>
     \/ /\ connection[f] /\ cagent[f] = None
        /\ connection' = [connection EXCEPT ![f] = FALSE]
        /\ nclient' = nclient - 1
        /\ closes' = [closes EXCEPT ![f] = "done"]
        /\ UNCHANGED aq
     \/ /\ ~connection[f]
        /\ closes' = [closes EXCEPT ![f] = "done"]
        /\ UNCHANGED <<connection, nclient, aq>>
  /\ UNCHANGED <<sockVars, cagent, pending_msg, loginVars, kicks, gclose, errs, gq,
                 agentVars>>

\* The rest of close_fd, after cmd_agent_close answered.
RetClose ==
  /\ Receive("ret_close")
  /\ LET f == Head(gq).from IN
     /\ cagent' = [cagent EXCEPT ![f] = None]
     /\ connection' = [connection EXCEPT ![f] = FALSE]
     /\ nclient' = nclient - 1
     /\ closes' = [closes EXCEPT ![f] = "done"]
  /\ UNCHANGED <<sockVars, pending_msg, loginVars, kicks, gclose, errs, aq, agentVars>>

-----------------------------------------------------------------------------
(* gamed: login.                                                           *)

OnlineRecord_bug(a) == [agent |-> a, isKick |-> None, fd |-> None]

OnlineRecord(a) == [agent |-> a, isKick |-> FALSE, fd |-> None]

\* online_account[i] gets another table: the logins that hold the old one in
\* their local info hold a table nobody reads.
Detach(s, i) == [g \in Fds |-> IF s[g].id = i THEN [s[g] EXCEPT !.info = FALSE] ELSE s[g]]

Pooled_bug(i) ==
  IF \E j \in Ids : clear_pool[j] # None
  THEN clear_pool[CHOOSE j \in Ids : clear_pool[j] # None] ELSE None

\* The agent forward_agent finds in the pool, and the pool without it.
Pooled(i) == clear_pool[i]

LeavePool_bug(i) == clear_pool

LeavePool(i) == [clear_pool EXCEPT ![i] = None]

\* forward_agent up to its first yield: the call of cmd_agent_open on the
\* pooled agent of this account, or newservice.  s is ses as the caller sets it.
ForwardAgent(c, f, i, s) ==
  LET a == Pooled(i) IN
  /\ clear_pool' = LeavePool(i)
  /\ fwd' = [fwd EXCEPT ![c] = [pc |-> IF a = None THEN "create" ELSE "open",
                                fd |-> f, id |-> i, agent |-> a]]
  /\ IF a = None
     THEN ses' = s /\ UNCHANGED <<online_account, aq>>
     ELSE /\ ses' = Detach(s, i)
          /\ online_account' = [online_account EXCEPT ![i] = OnlineRecord(a)]
          /\ ToAgent(a, Msg("cmd_agent_open", f, c, None, i))

\* do_login succeeds: cmd_server_verify answers with the id of the session.
\* login_handler then forwards, or asks the agent already online to leave.
LoginHandler(f, i) ==
  /\ ses[f].pc = "auth"
  /\ LET a == online_account[i].agent IN
     \/ /\ a # None
        /\ ses' = [ses EXCEPT ![f] =
                     [pc |-> "other", id |-> i, agent |-> a, info |-> TRUE]]
        /\ ToAgent(a, Msg("cmd_agent_other_login", None, f, None, None))
        /\ UNCHANGED <<fwd, online_account, clear_pool>>
     \/ /\ a = None
        /\ ForwardAgent(f, f, i, [ses EXCEPT ![f] = [@ EXCEPT !.pc = "forward", !.id = i]])
  /\ UNCHANGED <<sockVars, gateVars, acct, taskVars, gq, agentVars>>

\* do_login fails: close_client, whose log call yields before the close.
LoginFailed(f) ==
  /\ ses[f].pc = "auth"
  /\ ses' = [ses EXCEPT ![f].pc = "failed"]
  /\ kicks' = IF connection[f] THEN kicks \cup {[fd |-> f, from |-> None, agent |-> None]}
              ELSE kicks
  /\ UNCHANGED <<sockVars, gateVars, fwd, online_account, clear_pool, acct, closes,
                 gclose, errs, gq, aq, agentVars>>

\* cmd_agent_other_login answered; call cmd_agent_kick.
RetOther ==
  /\ Receive("ret_other")
  /\ LET f == Head(gq).from
         a == ses[f].agent IN
     /\ ses' = [ses EXCEPT ![f].pc = IF status[a] = "live" THEN "kick" ELSE "dead"]
     /\ ToAgent(a, Msg("cmd_agent_kick", None, f, None, None))
  /\ UNCHANGED <<sockVars, gateVars, fwd, online_account, clear_pool, acct, taskVars,
                 agentVars>>

\* cmd_agent_kick answered: mark the record read before the two calls.
RetKick ==
  /\ Receive("ret_kick")
  /\ LET f == Head(gq).from
         i == ses[f].id IN
     /\ ses' = [ses EXCEPT ![f] = [@ EXCEPT !.pc = "parked", !.info = FALSE]]
     /\ online_account' = IF ses[f].info
                          THEN [online_account EXCEPT ![i] = [@ EXCEPT !.isKick = TRUE,
                                                                      !.fd = f]]
                          ELSE online_account
  /\ UNCHANGED <<sockVars, gateVars, fwd, clear_pool, acct, taskVars, aq, agentVars>>

\* A call to an agent that exited raises an error: the login coroutine dies.
CallError(f) ==
  /\ f \in errs
  /\ errs' = errs \ {f}
  /\ ses' = [ses EXCEPT ![f] = [@ EXCEPT !.pc = "dead", !.info = FALSE]]
  /\ UNCHANGED <<sockVars, gateVars, fwd, online_account, clear_pool, acct, kicks, closes,
                 gclose, gq, aq, agentVars>>

\* newservice("agent") answered: register the agent and open it.
CreateAgent(c, a) ==
  /\ fwd[c].pc = "create"
  /\ status[a] = "unborn"
  /\ LET i == fwd[c].id IN
     /\ status' = [status EXCEPT ![a] = "live"]
     /\ acct' = [acct EXCEPT ![a] = i]
     /\ fwd' = [fwd EXCEPT ![c] = [@ EXCEPT !.pc = "open", !.agent = a]]
     /\ ses' = Detach(ses, i)
     /\ online_account' = [online_account EXCEPT ![i] = OnlineRecord(a)]
     /\ aq' = [aq EXCEPT ![a] = Append(@, Msg("cmd_agent_open", fwd[c].fd, c, None, i))]
  /\ UNCHANGED <<sockVars, gateVars, clear_pool, taskVars, gq,
                 user_id, user_fd, reg, loaded, aopen, akick, aclose>>

Bound_bug(c) == online_account[fwd[c].id].agent

\* The agent forward_agent binds: its local, read before the calls.
Bound(c) == fwd[c].agent

\* cmd_agent_open answered: drop the pending messages, bind the connection.
\* When cmd_gamed_close ran forward_agent, that coroutine goes on to its log.
RetOpen ==
  /\ Receive("ret_open")
  /\ LET c == Head(gq).from
         f == fwd[c].fd IN
     /\ pending_msg' = [pending_msg EXCEPT ![f] = -1]
     /\ cagent' = IF connection[f] THEN [cagent EXCEPT ![f] = Bound(c)] ELSE cagent
     /\ fwd' = [fwd EXCEPT ![c] = NoForward]
     /\ ses' = [ses EXCEPT ![f].pc = "done"]
     /\ gclose' = IF c \in Agents THEN [gclose EXCEPT ![c].pc = "pool"] ELSE gclose
  /\ UNCHANGED <<sockVars, connection, nclient, online_account, clear_pool, acct,
                 kicks, closes, errs, aq, agentVars>>

-----------------------------------------------------------------------------
(* gamed: commands of the agents and of the timer.                         *)

\* cmd_gamed_kick: close_client checks the connection, then logs (yields).
GamedKick ==
  /\ Receive("cmd_gamed_kick")
  /\ LET m == Head(gq)
         known == m.fd # None /\ connection[m.fd] IN
     \/ /\ known
        /\ kicks' = kicks \cup {[fd |-> m.fd, from |-> m.from, agent |-> m.agent]}
        /\ UNCHANGED aq
     \/ /\ ~known
        /\ ToAgent(m.agent, Msg("ret_gamed_kick", None, m.from, None, None))
        /\ UNCHANGED kicks
  /\ UNCHANGED <<sockVars, gateVars, loginVars, closes, gclose, errs, agentVars>>

\* close_client after its log: close the socket and answer the agent.
CloseClient(k) ==
  /\ k \in kicks
  /\ kicks' = kicks \ {k}
  /\ sock' = IF sock[k.fd] = "open" THEN [sock EXCEPT ![k.fd] = "shut"] ELSE sock
  /\ IF k.agent = None THEN UNCHANGED aq
     ELSE ToAgent(k.agent, Msg("ret_gamed_kick", None, k.from, None, None))
  /\ UNCHANGED <<sent, gateVars, loginVars, closes, gclose, errs, gq, agentVars>>

\* cmd_gamed_close up to its log: serve the login that waits for this close,
\* or take the account offline.
GamedClose ==
  /\ Receive("cmd_gamed_close")
  /\ LET i == Head(gq).id
         a == Head(gq).agent
         info == online_account[i] IN
     \/ /\ info.agent # None /\ info.isKick
        /\ gclose' = [gclose EXCEPT ![a] = [pc |-> "forward", id |-> i]]
        /\ ForwardAgent(a, info.fd, i, [ses EXCEPT ![info.fd].pc = "forward"])
     \/ /\ ~(info.agent # None /\ info.isKick)
        /\ gclose' = [gclose EXCEPT ![a] = [pc |-> "pool", id |-> i]]
        /\ online_account' = [online_account EXCEPT ![i] = NoAccount]
        /\ ses' = Detach(ses, i)
        /\ UNCHANGED <<fwd, clear_pool, aq>>
  /\ UNCHANGED <<sockVars, gateVars, acct, kicks, closes, errs, agentVars>>

\* cmd_gamed_close after its log: the agent takes the account's pool slot,
\* an agent that held it is told to exit.
PoolAgent(a) ==
  /\ gclose[a].pc = "pool"
  /\ LET i == gclose[a].id
         old == clear_pool[i] IN
     /\ clear_pool' = [clear_pool EXCEPT ![i] = a]
     /\ gclose' = [gclose EXCEPT ![a] = NoGclose]
     /\ aq' = [b \in Agents |->
                 IF b = a /\ status[a] = "live"
                 THEN Append(aq[b], Msg("ret_gamed_close", None, None, None, None))
                 ELSE IF b = old /\ status[b] = "live"
                 THEN Append(aq[b], Msg("self_exit", None, None, None, None))
                 ELSE aq[b]]
  /\ UNCHANGED <<sockVars, gateVars, ses, fwd, online_account, acct, kicks, closes, errs,
                 gq, agentVars>>

Expire_bug(S) == clear_pool

Expire(S) == [i \in Ids |-> IF i \in S THEN None ELSE clear_pool[i]]

\* five_sec_tick: the pooled agents of the accounts in S have expired.
FiveSecTick(S) ==
  /\ S # {} /\ \A i \in S : clear_pool[i] # None
  /\ clear_pool' = Expire(S)
  /\ aq' = [a \in Agents |->
              IF (\E i \in S : clear_pool[i] = a) /\ status[a] = "live"
              THEN Append(aq[a], Msg("self_exit", None, None, None, None))
              ELSE aq[a]]
  /\ UNCHANGED <<sockVars, gateVars, ses, fwd, online_account, acct, taskVars, gq,
                 agentVars>>

-----------------------------------------------------------------------------
(* agent.lua                                                               *)

Take(a, cmd) == status[a] = "live" /\ aq[a] # <<>> /\ Head(aq[a]).cmd = cmd
Drop(a) == aq' = [aq EXCEPT ![a] = Tail(@)]

RetNil_bug(m) == UNCHANGED gq

\* The dispatcher answers nil when a command raises an error.
RetNil(m) == ToGamed(m)

\* save_data raises an error unless user is set, record.lua is registered and
\* its info is loaded.
CanSave(a) == user_id[a] # None /\ reg[a] /\ loaded[a]

AgentOpen(a) ==
  /\ Take(a, "cmd_agent_open") /\ Drop(a)
  /\ aopen' = [aopen EXCEPT ![a] = [pc |-> "load", fd |-> Head(aq[a]).fd,
                                    from |-> Head(aq[a]).from, id |-> Head(aq[a]).id]]
  /\ UNCHANGED <<sockVars, gateVars, loginVars, taskVars, gq, status, user_id, user_fd,
                 reg, loaded, akick, aclose>>

\* cmd_account_loadInfo answered.  With no info at all (the database failed)
\* indexing it raises an error and the call of gamed is answered.
OpenLoaded(a) ==
  /\ aopen[a].pc = "load"
  /\ \/ /\ user_id' = [user_id EXCEPT ![a] = aopen[a].id]
        /\ user_fd' = [user_fd EXCEPT ![a] = aopen[a].fd]
        /\ aopen' = [aopen EXCEPT ![a].pc = "reg"]
        /\ UNCHANGED gq
     \/ /\ RetNil(Msg("ret_open", None, aopen[a].from, None, None))
        /\ aopen' = [aopen EXCEPT ![a] = NoOpen]
        /\ UNCHANGED <<user_id, user_fd>>
  /\ UNCHANGED <<sockVars, gateVars, loginVars, taskVars, aq, status, reg, loaded, akick,
                 aclose>>

\* register_handler, whose init functions query services (yield).
OpenRegistered(a) ==
  /\ aopen[a].pc = "reg"
  /\ reg' = [reg EXCEPT ![a] = TRUE]
  /\ aopen' = [aopen EXCEPT ![a].pc = "login"]
  /\ UNCHANGED <<sockVars, gateVars, loginVars, taskVars, gq, aq, status, user_id,
                 user_fd, loaded, akick, aclose>>

\* login_handler: record.lua stores what getResultInfo answered, nil included.
OpenLoggedIn(a) ==
  /\ aopen[a].pc = "login"
  /\ \E ok \in BOOLEAN : loaded' = [loaded EXCEPT ![a] = ok]
  /\ ToGamed(Msg("ret_open", None, aopen[a].from, None, None))
  /\ aopen' = [aopen EXCEPT ![a] = NoOpen]
  /\ UNCHANGED <<sockVars, gateVars, loginVars, taskVars, aq, status, user_id, user_fd,
                 reg, akick, aclose>>

AgentOtherLogin(a) ==
  /\ Take(a, "cmd_agent_other_login") /\ Drop(a)
  /\ ToGamed(Msg("ret_other", None, Head(aq[a]).from, None, None))
  /\ UNCHANGED <<sockVars, gateVars, loginVars, taskVars, agentVars>>

\* cmd_agent_kick logs (yields) before save_data.
AgentKick(a) ==
  /\ Take(a, "cmd_agent_kick") /\ Drop(a)
  /\ akick' = [akick EXCEPT ![a][Head(aq[a]).from] = "log"]
  /\ UNCHANGED <<sockVars, gateVars, loginVars, taskVars, gq, status, user_id, user_fd,
                 reg, loaded, aopen, aclose>>

KickSave(a, f) ==
  /\ akick[a][f] = "log"
  /\ \/ /\ CanSave(a)
        /\ akick' = [akick EXCEPT ![a][f] = "save"]
        /\ UNCHANGED gq
     \/ /\ ~CanSave(a)
        /\ akick' = [akick EXCEPT ![a][f] = "none"]
        /\ RetNil(Msg("ret_kick", None, f, None, None))
  /\ UNCHANGED <<sockVars, gateVars, loginVars, taskVars, aq, status, user_id, user_fd,
                 reg, loaded, aopen, aclose>>

\* cmd_agent_kick after save_data: kick_self with the user_fd of this moment.
KickSelf(a, f) ==
  /\ akick[a][f] = "save"
  /\ akick' = [akick EXCEPT ![a][f] = "none"]
  /\ ToGamed(Msg("cmd_gamed_kick", user_fd[a], f, a, None))
  /\ UNCHANGED <<sockVars, gateVars, loginVars, taskVars, aq, status, user_id, user_fd,
                 reg, loaded, aopen, aclose>>

\* cmd_gamed_kick answered; answer cmd_agent_kick, if that is what asked.
AgentKicked(a) ==
  /\ Take(a, "ret_gamed_kick") /\ Drop(a)
  /\ LET f == Head(aq[a]).from IN
     IF f = None THEN UNCHANGED gq ELSE ToGamed(Msg("ret_kick", None, f, None, None))
  /\ UNCHANGED <<sockVars, gateVars, loginVars, taskVars, agentVars>>

AgentClose(a) ==
  /\ Take(a, "cmd_agent_close") /\ Drop(a)
  /\ LET f == Head(aq[a]).from IN
     \/ /\ CanSave(a)
        /\ aclose' = [aclose EXCEPT ![a] = [pc |-> "save", fd |-> f, id |-> None]]
        /\ UNCHANGED gq
     \/ /\ ~CanSave(a)
        /\ RetNil(Msg("ret_close", None, f, None, None))
        /\ UNCHANGED aclose
  /\ UNCHANGED <<sockVars, gateVars, loginVars, taskVars, status, user_id, user_fd, reg,
                 loaded, aopen, akick>>

Unregister_bug(a) == reg

\* unregister_handler removes the methods that register_handler merged.
Unregister(a) == [reg EXCEPT ![a] = FALSE]

\* cmd_agent_close after save_data and its log: forget the user.
CloseSaved(a) ==
  /\ aclose[a].pc = "save"
  /\ aclose' = [aclose EXCEPT ![a] = [@ EXCEPT !.pc = "logout", !.id = user_id[a]]]
  /\ user_id' = [user_id EXCEPT ![a] = None]
  /\ user_fd' = [user_fd EXCEPT ![a] = None]
  /\ reg' = Unregister(a)
  /\ UNCHANGED <<sockVars, gateVars, loginVars, taskVars, gq, aq, status, loaded, aopen,
                 akick>>

\* save_role_logout answered: report to gamed.
CloseReported(a) ==
  /\ aclose[a].pc = "logout"
  /\ aclose' = [aclose EXCEPT ![a].pc = "gamed"]
  /\ ToGamed(Msg("cmd_gamed_close", None, None, a, aclose[a].id))
  /\ UNCHANGED <<sockVars, gateVars, loginVars, taskVars, aq, status, user_id, user_fd,
                 reg, loaded, aopen, akick>>

AgentClosed(a) ==
  /\ Take(a, "ret_gamed_close") /\ Drop(a)
  /\ ToGamed(Msg("ret_close", None, aclose[a].fd, None, None))
  /\ aclose' = [aclose EXCEPT ![a] = NoClose]
  /\ UNCHANGED <<sockVars, gateVars, loginVars, taskVars, status, user_id, user_fd, reg,
                 loaded, aopen, akick>>

\* test_dispatch: a known RPC runs on the data of user (nothing the gate
\* sees); an unknown one makes the agent kick its own client.  Without a user
\* RPC is nil, which is an error, or empty, and user_fd is nil: a kick of no
\* socket, which cmd_gamed_kick ignores.
AgentDispatch(a) ==
  /\ Take(a, "test_dispatch") /\ Drop(a)
  /\ \/ UNCHANGED gq
     \/ ToGamed(Msg("cmd_gamed_kick", user_fd[a], None, a, None))
  /\ UNCHANGED <<sockVars, gateVars, loginVars, taskVars, agentVars>>

\* Logins that wait for an answer of agent a that is not on its way.
Unanswered(a) ==
  {f \in Fds : /\ ses[f].pc \in {"other", "kick"} /\ ses[f].agent = a
               /\ ~\E k \in 1..Len(gq) : /\ gq[k].cmd \in {"ret_other", "ret_kick"}
                                         /\ gq[k].from = f}

\* self_exit: skynet.exit raises an error in every caller not yet answered.
SelfExit(a) ==
  /\ Take(a, "self_exit")
  /\ status' = [status EXCEPT ![a] = "dead"]
  /\ aq' = [aq EXCEPT ![a] = <<>>]
  /\ akick' = [akick EXCEPT ![a] = [f \in Fds |-> "none"]]
  /\ errs' = errs \cup Unanswered(a)
  /\ UNCHANGED <<sockVars, gateVars, loginVars, kicks, closes, gclose, gq, user_id,
                 user_fd, reg, loaded, aopen, aclose>>

-----------------------------------------------------------------------------
Client(f) == Connect(f) \/ ClientSend(f) \/ ClientClose(f)

Gamed ==
  \/ MsgOpen \/ MsgData \/ MsgClose \/ RetClose \/ RetOther \/ RetKick \/ RetOpen
  \/ GamedKick \/ GamedClose

Resume(f) ==
  \/ SocketClosed(f) \/ CloseFd(f) \/ LoginFailed(f) \/ CallError(f)
  \/ \E i \in Ids : LoginHandler(f, i)

Agent(a) ==
  \/ AgentOpen(a) \/ OpenLoaded(a) \/ OpenRegistered(a) \/ OpenLoggedIn(a)
  \/ AgentOtherLogin(a) \/ AgentKick(a) \/ AgentKicked(a)
  \/ (\E f \in Fds : KickSave(a, f) \/ KickSelf(a, f))
  \/ AgentClose(a) \/ CloseSaved(a) \/ CloseReported(a) \/ AgentClosed(a)
  \/ AgentDispatch(a) \/ SelfExit(a) \/ PoolAgent(a)
  \/ \E c \in Coroutines : CreateAgent(c, a)

Next ==
  \/ \E f \in Fds : Client(f) \/ Resume(f)
  \/ Gamed
  \/ \E k \in kicks : CloseClient(k)
  \/ \E a \in Agents : Agent(a)
  \/ \E S \in SUBSET Ids : FiveSecTick(S)

Spec == Init /\ [][Next]_vars

-----------------------------------------------------------------------------
(* Properties.                                                             *)

\* gateserver counts its clients exactly and never holds more than maxclient:
\* a connection is counted out once, whichever of close and kick ends it.
NclientExact ==
  nclient = Cardinality({f \in Fds : connection[f]}) /\ nclient <= MaxClient

\* An agent works for one account all its life: whatever the pool, a login or
\* a relogin hands out is an agent created for that very account, so that the
\* data an agent caches (record.lua, role_handler.lua) never meets another's.
AgentKeepsAccount ==
  /\ \A a \in Agents : user_id[a] \in {None, acct[a]}
  /\ \A i \in Ids : /\ clear_pool[i] # None => acct[clear_pool[i]] = i
                    /\ online_account[i].agent # None => acct[online_account[i].agent] = i

\* What a client sends after its login reaches the agent of the account that
\* its own login was verified for.
AccountIsolation ==
  \A f \in Fds : cagent[f] # None => /\ ses[f].id = acct[cagent[f]]
                                     /\ user_id[cagent[f]] \in {None, ses[f].id}

\* An agent in the pool is alive and idle: no user, no open in progress, not
\* online, and no open socket forwards to it.  forward_agent relies on this
\* when it reopens the agent, five_sec_tick when it lets the agent exit.
PoolIdle ==
  \A i \in Ids : clear_pool[i] # None =>
    LET a == clear_pool[i] IN
    /\ status[a] = "live" /\ user_id[a] = None /\ aopen[a].pc = "none"
    /\ \A j \in Ids : online_account[j].agent # a
    /\ \A f \in Fds : sock[f] = "open" => cagent[f] # a

\* Two open sockets are never forwarded to the same agent, which has a single
\* user and user_fd.
NoSharedAgent ==
  \A f, g \in Fds : f # g /\ cagent[f] # None /\ sock[f] = "open" /\ sock[g] = "open"
                    => cagent[f] # cagent[g]

\* cmd_agent_open finds the agent without a user and without the handlers of
\* an earlier one: the assertion of merge_safe (no method registered twice)
\* cannot fail, and no live user is overwritten.
ReopenSafe ==
  \A a \in Agents : /\ aopen[a].pc = "load" => user_id[a] = None
                    /\ aopen[a].pc \in {"load", "reg"} => ~reg[a]

\* The services gamed is about to call or to forward to have not exited: the
\* agent online for an account, the one being opened, the one of a connection.
CalleesLive ==
  /\ \A i \in Ids : online_account[i].agent # None => status[online_account[i].agent] = "live"
  /\ \A c \in Coroutines : fwd[c].pc = "open" => status[fwd[c].agent] = "live"
  /\ \A f \in Fds : cagent[f] # None /\ closes[f] \in {"none", "log"}
                    => status[cagent[f]] = "live"

\* An agent exits only after its user has been saved and forgotten and its
\* cmd_agent_close has been answered.
ExitsClosed ==
  [][\A a \in Agents : status[a] = "live" /\ status'[a] = "dead" =>
       /\ user_id[a] = None /\ aopen[a].pc = "none" /\ aclose[a].pc = "none"
       /\ \A i \in Ids : clear_pool[i] # a]_vars

-----------------------------------------------------------------------------
(* Liveness.  skynet runs every service whose mailbox is not empty and     *)
(* resumes every coroutine whose call was answered; the database and the   *)
(* login server answer.  Clients and the passing of 60 seconds are free.   *)

Fairness ==
  /\ WF_vars(Gamed)
  /\ \A f \in Fds : WF_vars(Resume(f))
  /\ WF_vars(\E k \in kicks : CloseClient(k))
  /\ \A a \in Agents : WF_vars(Agent(a))

FairSpec == Spec /\ Fairness

\* A socket that has closed gives its client slot back: close_fd waits for
\* cmd_agent_close, which saves, and calls gamed back, and always returns.
SlotReleased == \A f \in Fds : sock[f] = "closed" ~> ~connection[f]

\* gamed waits for agents that call gamed, and nobody waits for ever: a login
\* that kicks is answered, or fails because the agent left, and an agent that
\* started to close finishes, although cmd_gamed_close may open another first.
CallsReturn ==
  /\ \A f \in Fds : ses[f].pc \in {"other", "kick"} ~> ses[f].pc \notin {"other", "kick"}
  /\ \A a \in Agents : aclose[a].pc # "none" ~> aclose[a].pc = "none"

\* The call of cmd_agent_open in forward_agent returns, opened or failed (no
\* info in the database: the agent is then bound without a user), although the
\* agent may have to be created, or called by a close of gamed: the login ends,
\* and what its socket sends from then on, if it is still there, goes to an
\* agent of its account.
LoginServed ==
  \A f \in Fds : ses[f].pc = "forward" ~>
    /\ ses[f].pc = "done"
    /\ connection[f] => cagent[f] # None /\ acct[cagent[f]] = ses[f].id

\* The comment in login_handler: a relogin kicks out the earlier user, and is
\* dealt with after that user's socket has closed.
ReloginServed ==
  \A f \in Fds : ses[f].pc = "parked" /\ sock[f] = "open"
                 ~> ses[f].pc # "parked" \/ sock[f] # "open"

\* The same comment, as a state: an account has one session at a time.
OneSessionPerAccount ==
  \A a, b \in Agents : a # b /\ user_id[a] # None => user_id[a] # user_id[b]
=============================================================================
