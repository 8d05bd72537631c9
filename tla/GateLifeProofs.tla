--------------------------- MODULE GateLifeProofs ---------------------------
(***************************************************************************)
(* The sockets, the logins and the agents of the gate, for any sets of     *)
(* them: connections are counted exactly, a login reaches an agent of its  *)
(* own account, and every agent is in one place of its life at a time,     *)
(* from newservice through opening, serving, closing and the pool to its   *)
(* exit.  AgentKeepsAccount is in GateProofs.                              *)
(***************************************************************************)
EXTENDS GateProofs, FiniteSetTheorems

-----------------------------------------------------------------------------
(* Mailboxes.                                                              *)

\* The coroutine, socket or agent a message is about.
Key(m) == IF m.cmd \in {"open", "data", "close"} THEN m.fd
          ELSE IF m.cmd = "cmd_gamed_close" THEN m.agent ELSE m.from

Is(m, cmd, x) == m.cmd = cmd /\ Key(m) = x

\* A mailbox holds such a message; at most one.
Has(s, cmd, x) == \E k \in 1..Len(s) : Is(s[k], cmd, x)
Once(s, cmd, x) ==
  \A j, k \in 1..Len(s) : Is(s[j], cmd, x) /\ Is(s[k], cmd, x) => j = k

\* The answer to cmd_gamed_close comes before what gamed sends afterwards.
Follows(s) ==
  \A j, k \in 1..Len(s) :
    s[j].cmd = "ret_gamed_close" /\ s[k].cmd \in {"self_exit", "cmd_agent_open"} => j < k

-----------------------------------------------------------------------------
(* A socket.                                                               *)

\* It is opened once, and closed once, in this order.
SockOpens ==
  \A f \in Fds : /\ Once(gq, "open", f)
                 /\ Has(gq, "open", f) => sock[f] = "accepted"
SockCloses ==
  \A f \in Fds : /\ Once(gq, "close", f)
                 /\ Has(gq, "close", f) => sock[f] = "closed" /\ closes[f] = "none"
                 /\ closes[f] # "none" => sock[f] = "closed"
SockHeld ==
  \A f \in Fds : /\ connection[f] => sock[f] \notin {"idle", "accepted"} /\ closes[f] # "done"
                 /\ closes[f] = "call" => connection[f]
                 /\ cagent[f] # None => connection[f]

\* The call of cmd_agent_close for a socket is in one place.
CallAsked ==
  \A a \in Agents, f \in Fds : Has(aq[a], "cmd_agent_close", f) =>
    /\ closes[f] = "call" /\ Once(aq[a], "cmd_agent_close", f)
    /\ \A b \in Agents : Has(aq[b], "cmd_agent_close", f) => a = b
    /\ \A g \in Fds : Has(aq[a], "cmd_agent_close", g) => f = g
CallRuns ==
  \A a \in Agents : aclose[a].pc # "none" =>
    /\ aclose[a].fd \in Fds /\ closes[aclose[a].fd] = "call"
    /\ \A b \in Agents : ~Has(aq[b], "cmd_agent_close", aclose[a].fd)
    /\ \A b \in Agents : aclose[b].pc # "none" /\ aclose[b].fd = aclose[a].fd => a = b
CallAnswered ==
  /\ ~Has(gq, "ret_close", None)
  /\ \A f \in Fds :
       /\ Once(gq, "ret_close", f)
       /\ Has(gq, "ret_close", f) =>
            /\ closes[f] = "call"
            /\ \A a \in Agents : /\ ~Has(aq[a], "cmd_agent_close", f)
                                 /\ aclose[a].pc # "none" => aclose[a].fd # f

\* gateserver has counted the connections.
Held == {f \in Fds : connection[f]}
Counted == IsFiniteSet(Held) /\ nclient = Cardinality(Held) /\ nclient <= MaxClient

-----------------------------------------------------------------------------
(* A login.                                                                *)

\* A login knows its account from the answer of the login server on.
LoginIds ==
  \A f \in Fds : (ses[f].pc \in {"none", "auth", "failed"}) <=> (ses[f].id = None)
LoginFresh ==
  \A f \in Fds :
    /\ connection[f] /\ cagent[f] = None /\ pending_msg[f] < 0 => ses[f].pc = "none"
    /\ sock[f] \in {"idle", "accepted"} => ses[f].pc = "none"
LoginBound ==
  \A f \in Fds : cagent[f] # None => ses[f].id \in Ids /\ ses[f].id = acct[cagent[f]]
LoginForwards ==
  \A c \in Coroutines : fwd[c].pc # "none" =>
    /\ ses[fwd[c].fd].id = fwd[c].id
    /\ c \in Fds => fwd[c].fd = c
LoginParked ==
  \A i \in Ids : online_account[i].isKick => ses[online_account[i].fd].id = i
LoginWaitsG ==
  \A f \in Fds : Has(gq, "ret_other", f) \/ Has(gq, "ret_kick", f) \/ Has(gq, "cmd_gamed_kick", f)
    => ses[f].id # None
LoginWaitsA ==
  \A a \in Agents, f \in Fds :
    \/ Has(aq[a], "cmd_agent_other_login", f) \/ Has(aq[a], "cmd_agent_kick", f)
    \/ Has(aq[a], "ret_gamed_kick", f) \/ akick[a][f] # "none"
    => ses[f].id # None
LoginWaitsK ==
  /\ \A k \in kicks : k.from # None => ses[k.from].id # None
  /\ \A f \in errs : ses[f].id # None

-----------------------------------------------------------------------------
(* forward_agent.                                                          *)

ForwardOne ==
  \A c \in Coroutines : fwd[c].pc = "open" =>
    /\ fwd[c].agent \in Agents /\ acct[fwd[c].agent] = fwd[c].id
    /\ \A d \in Coroutines : fwd[d].pc = "open" /\ fwd[d].agent = fwd[c].agent => c = d
ForwardClose ==
  \A a \in Agents : fwd[a].pc # "none" => gclose[a].pc = "forward" /\ fwd[a].id = acct[a]
OpenSent ==
  \A a \in Agents, c \in Coroutines :
    /\ Once(aq[a], "cmd_agent_open", c)
    /\ Has(aq[a], "cmd_agent_open", c) =>
         /\ fwd[c].pc = "open" /\ fwd[c].agent = a /\ ~Has(gq, "ret_open", c)
         /\ aopen[a].pc = "none" /\ user_id[a] = None /\ ~reg[a]
OpenRuns ==
  \A a \in Agents : aopen[a].pc # "none" =>
    LET c == aopen[a].from IN
    /\ c \in Coroutines
    /\ fwd[c].pc = "open" /\ fwd[c].agent = a /\ ~Has(gq, "ret_open", c)
    /\ ~Has(aq[a], "ret_gamed_close", None)
    /\ aopen[a].pc = "load" => user_id[a] = None
    /\ aopen[a].pc \in {"load", "reg"} => ~reg[a]
OpenAnswered ==
  \A c \in Coroutines :
    /\ Once(gq, "ret_open", c)
    /\ Has(gq, "ret_open", c) =>
         fwd[c].pc = "open" /\ ~Has(aq[fwd[c].agent], "ret_gamed_close", None)

-----------------------------------------------------------------------------
(* The life of an agent.                                                   *)

Reports == \A a \in Agents : Once(gq, "cmd_gamed_close", a)
Answers == \A a \in Agents : Follows(aq[a]) /\ Once(aq[a], "ret_gamed_close", None)
LoggedOut == \A a \in Agents : aclose[a].pc = "logout" => user_id[a] = None /\ ~reg[a]

Phases == {"unborn", "opening", "served", "asked", "saving", "reported", "pooling",
           "pooled", "exiting", "dead"}

PStatus(a, p)   == status[a] = IF p \in {"unborn", "dead"} THEN p ELSE "live"
POpening(a, p)  == \A c \in Coroutines : fwd[c].pc = "open" /\ fwd[c].agent = a => p = "opening"
Serves(f, a) == cagent[f] = a /\ closes[f] \in {"none", "log"}
PServed(a, p)   == \A f \in Fds : Serves(f, a) =>
                     p = "served" /\ \A g \in Fds : Serves(g, a) => f = g
PAsked(a, p)    == \A f \in Fds : Has(aq[a], "cmd_agent_close", f) => p = "asked"
PSaving(a, p)   == aclose[a].pc \in {"save", "logout"} => p = "saving"
PReported(a, p) == Has(gq, "cmd_gamed_close", a) => p = "reported" /\ aclose[a].pc = "gamed"
PPooling(a, p)  == gclose[a].pc # "none" =>
                     p = "pooling" /\ aclose[a].pc = "gamed" /\ gclose[a].id \in Ids
PPooled(a, p)   == \A i \in Ids : clear_pool[i] = a => p = "pooled"
PExiting(a, p)  == Has(aq[a], "self_exit", None) => p = "exiting"
PGamed(a, p)    == aclose[a].pc = "gamed" =>
                     p \in {"reported", "pooling"} \/ Has(aq[a], "ret_gamed_close", None)
PAnswered(a, p) == Has(aq[a], "ret_gamed_close", None) =>
                     p \in {"opening", "pooled", "exiting"} /\ aclose[a].pc = "gamed"
PUser(a, p)     == user_id[a] # None \/ reg[a] => p \in {"opening", "served", "asked", "saving"}
POnline(a, p)   == \A i \in Ids : online_account[i].agent = a =>
                     \/ p \in {"opening", "served", "asked", "saving", "reported"}
                     \/ p = "pooling" /\ fwd[a].pc = "create"

LifeAt(a, p) ==
  /\ PStatus(a, p) /\ POpening(a, p) /\ PServed(a, p) /\ PAsked(a, p) /\ PSaving(a, p)
  /\ PReported(a, p) /\ PPooling(a, p) /\ PPooled(a, p) /\ PExiting(a, p) /\ PGamed(a, p)
  /\ PAnswered(a, p) /\ PUser(a, p) /\ POnline(a, p)

Lives == \A a \in Agents : \E p \in Phases : LifeAt(a, p)
-----------------------------------------------------------------------------
(* What sending and receiving do to a mailbox.  C and X are the command    *)
(* and the key of the message; what is added may be lost.                  *)

GqAdds(C, X) ==
  /\ \A cmd, x : Has(gq, cmd, x) => Has(gq', cmd, x)
  /\ \A cmd, x : Has(gq', cmd, x) => Has(gq, cmd, x) \/ (cmd = C /\ x = X)
  /\ \A cmd, x : Once(gq, cmd, x) /\ ~(cmd = C /\ x = X /\ Has(gq, cmd, x)) => Once(gq', cmd, x)

GqTakes(C, X) ==
  /\ Has(gq, C, X)
  /\ \A cmd, x : Has(gq', cmd, x) => Has(gq, cmd, x)
  /\ \A cmd, x : Has(gq, cmd, x) /\ ~(cmd = C /\ x = X) => Has(gq', cmd, x)
  /\ \A cmd, x : Once(gq, cmd, x) => Once(gq', cmd, x)
  /\ Once(gq, C, X) => ~Has(gq', C, X)

\* A message to agent a.
AqAdds(a, C, X) ==
  \A b \in Agents :
    /\ b # a => aq'[b] = aq[b]
    /\ \A cmd, x : Has(aq[b], cmd, x) => Has(aq'[b], cmd, x)
    /\ \A cmd, x : Has(aq'[b], cmd, x) => Has(aq[b], cmd, x) \/ (b = a /\ cmd = C /\ x = X)
    /\ \A cmd, x : Once(aq[b], cmd, x) /\ ~(cmd = C /\ x = X /\ Has(aq[b], cmd, x))
                     => Once(aq'[b], cmd, x)
    /\ C # "ret_gamed_close" /\ Follows(aq[b]) => Follows(aq'[b])

AqTakes(a, C, X) ==
  /\ Has(aq[a], C, X)
  /\ \A b \in Agents :
       /\ b # a => aq'[b] = aq[b]
       /\ \A cmd, x : Has(aq'[b], cmd, x) => Has(aq[b], cmd, x)
       /\ \A cmd, x : Has(aq[b], cmd, x) /\ ~(b = a /\ cmd = C /\ x = X) => Has(aq'[b], cmd, x)
       /\ \A cmd, x : Once(aq[b], cmd, x) => Once(aq'[b], cmd, x)
       /\ Follows(aq[b]) => Follows(aq'[b])
  /\ Once(aq[a], C, X) => ~Has(aq'[a], C, X)
  /\ C \in {"self_exit", "cmd_agent_open"} /\ Follows(aq[a]) => ~Has(aq[a], "ret_gamed_close", None)

\* A message at the end of a mailbox.
LEMMA AppendMail ==
  ASSUME NEW S, NEW s \in Seq(S), NEW m \in S
  PROVE  /\ \A cmd, x : Has(Append(s, m), cmd, x) <=> Has(s, cmd, x) \/ Is(m, cmd, x)
         /\ \A cmd, x : Once(s, cmd, x) /\ ~(Is(m, cmd, x) /\ Has(s, cmd, x))
                          => Once(Append(s, m), cmd, x)
         /\ m.cmd # "ret_gamed_close" /\ Follows(s) => Follows(Append(s, m))
<1> DEFINE t == Append(s, m)
<1>1. /\ Len(s) \in Nat /\ Len(t) = Len(s) + 1 /\ t[Len(s) + 1] = m
      /\ \A k \in 1..Len(s) : t[k] = s[k]
  OBVIOUS
<1>2. \A k \in 1..Len(t) : k \in 1..Len(s) \/ k = Len(s) + 1
  BY <1>1
<1>3. 1..Len(s) \subseteq 1..Len(t) /\ Len(t) \in 1..Len(t)
  BY <1>1
<1> HIDE DEF t
<1>4. ASSUME NEW cmd, NEW x
      PROVE  Has(t, cmd, x) <=> Has(s, cmd, x) \/ Is(m, cmd, x)
  <2>1. Has(s, cmd, x) => Has(t, cmd, x)
    BY <1>1, <1>3 DEF Has
  <2>2. Is(m, cmd, x) => Has(t, cmd, x)
    BY <1>1, <1>3 DEF Has
  <2>3. Has(t, cmd, x) => Has(s, cmd, x) \/ Is(m, cmd, x)
    BY <1>1, <1>2 DEF Has
  <2> QED
    BY <2>1, <2>2, <2>3
<1>5. ASSUME NEW cmd, NEW x, Once(s, cmd, x), ~(Is(m, cmd, x) /\ Has(s, cmd, x))
      PROVE  Once(t, cmd, x)
  BY <1>1, <1>2, <1>5 DEF Once, Has
<1>6. ASSUME m.cmd # "ret_gamed_close", Follows(s)
      PROVE  Follows(t)
  <2> SUFFICES ASSUME NEW j \in 1..Len(t), NEW k \in 1..Len(t),
                      t[j].cmd = "ret_gamed_close", t[k].cmd \in {"self_exit", "cmd_agent_open"}
               PROVE  j < k
    BY DEF Follows
  <2>1. j \in 1..Len(s)
    BY <1>1, <1>2, <1>6
  <2>2. CASE k \in 1..Len(s)
    BY <1>1, <1>6, <2>1, <2>2 DEF Follows
  <2>3. CASE k = Len(s) + 1
    BY <1>1, <2>1, <2>3
  <2> QED
    BY <1>2, <2>2, <2>3
<1> QED
  BY <1>4, <1>5, <1>6 DEF t

\* The first message of a mailbox.
LEMMA TailMail ==
  ASSUME NEW S, NEW s \in Seq(S), s # <<>>
  PROVE  LET C == Head(s).cmd
             X == Key(Head(s)) IN
         /\ Has(s, C, X)
         /\ \A cmd, x : Has(Tail(s), cmd, x) => Has(s, cmd, x)
         /\ \A cmd, x : Has(s, cmd, x) /\ ~(cmd = C /\ x = X) => Has(Tail(s), cmd, x)
         /\ \A cmd, x : Once(s, cmd, x) => Once(Tail(s), cmd, x)
         /\ Once(s, C, X) => ~Has(Tail(s), C, X)
         /\ Follows(s) => Follows(Tail(s))
         /\ C \in {"self_exit", "cmd_agent_open"} /\ Follows(s) => ~Has(s, "ret_gamed_close", None)
<1> DEFINE t == Tail(s)
           C == Head(s).cmd
           X == Key(Head(s))
<1>1. /\ Len(s) \in Nat /\ 1 \in 1..Len(s) /\ Len(t) \in Nat /\ Len(t) = Len(s) - 1 /\ Head(s) = s[1]
      /\ \A k \in 1..Len(t) : t[k] = s[k + 1]
  OBVIOUS
<1>2. \A k \in 1..Len(t) : k + 1 \in 1..Len(s)
  BY <1>1
<1>3. \A k \in 1..Len(s) : k = 1 \/ (k - 1 \in 1..Len(t) /\ t[k - 1] = s[k])
  BY <1>1
<1>4. C = s[1].cmd /\ X = Key(s[1])
  BY <1>1
<1> HIDE DEF t, C, X
<1>5. Has(s, C, X)
  BY <1>1, <1>4 DEF Has, Is
<1>6. ASSUME NEW cmd, NEW x, Has(t, cmd, x)
      PROVE  Has(s, cmd, x)
  BY <1>1, <1>2, <1>6 DEF Has
<1>7. ASSUME NEW cmd, NEW x, Has(s, cmd, x), ~(cmd = C /\ x = X)
      PROVE  Has(t, cmd, x)
  BY <1>3, <1>4, <1>7 DEF Has, Is
<1>8. ASSUME NEW cmd, NEW x, Once(s, cmd, x)
      PROVE  Once(t, cmd, x)
  <2> SUFFICES ASSUME NEW j \in 1..Len(t), NEW k \in 1..Len(t), Is(t[j], cmd, x), Is(t[k], cmd, x)
               PROVE  j = k
    BY DEF Once
  <2>1. j + 1 = k + 1
    BY <1>1, <1>2, <1>8 DEF Once
  <2> QED
    BY <2>1
<1>9. ASSUME Once(s, C, X), Has(t, C, X)
      PROVE  FALSE
  <2>1. PICK k \in 1..Len(t) : Is(t[k], C, X)
    BY <1>9 DEF Has
  <2>2. Is(s[k + 1], C, X) /\ Is(s[1], C, X)
    BY <1>1, <1>4, <2>1 DEF Is
  <2>3. k + 1 = 1
    BY <1>1, <1>2, <1>9, <2>2 DEF Once
  <2> QED
    BY <2>3
<1>10. ASSUME Follows(s)
       PROVE  Follows(t)
  <2> SUFFICES ASSUME NEW j \in 1..Len(t), NEW k \in 1..Len(t),
                      t[j].cmd = "ret_gamed_close", t[k].cmd \in {"self_exit", "cmd_agent_open"}
               PROVE  j < k
    BY DEF Follows
  <2>1. j + 1 < k + 1
    BY <1>1, <1>2, <1>10 DEF Follows
  <2> QED
    BY <2>1
<1>11. ASSUME C \in {"self_exit", "cmd_agent_open"}, Follows(s), Has(s, "ret_gamed_close", None)
       PROVE  FALSE
  <2>1. PICK k \in 1..Len(s) : s[k].cmd = "ret_gamed_close"
    BY <1>11 DEF Has, Is
  <2>2. k < 1
    BY <1>1, <1>4, <1>11, <2>1 DEF Follows
  <2> QED
    BY <2>2
<1> QED
  BY <1>5, <1>6, <1>7, <1>8, <1>9, <1>10, <1>11 DEF t, C, X

LEMMA GqSent ==
  ASSUME MailTypes, NEW m \in GamedMsg, ToGamed(m)
  PROVE  GqAdds(m.cmd, Key(m))
<1>1. gq \in Seq(GamedMsg) /\ gq' = Append(gq, m)
  BY DEF MailTypes, ToGamed
<1>2. /\ \A cmd, x : Has(gq', cmd, x) <=> Has(gq, cmd, x) \/ Is(m, cmd, x)
      /\ \A cmd, x : Once(gq, cmd, x) /\ ~(Is(m, cmd, x) /\ Has(gq, cmd, x)) => Once(gq', cmd, x)
  BY <1>1, AppendMail
<1> QED
  BY <1>2 DEF GqAdds, Is

LEMMA GqReceived ==
  ASSUME MailTypes, NEW C, Receive(C)
  PROVE  GqTakes(C, Key(Head(gq))) /\ GamedFields(Head(gq)) /\ Head(gq).cmd = C
<1>1. gq \in Seq(GamedMsg) /\ gq # <<>> /\ gq' = Tail(gq) /\ Head(gq).cmd = C
  BY DEF MailTypes, Receive
<1>2. GamedFields(Head(gq))
  BY GqReceive
<1> QED
  BY <1>1, <1>2, TailMail DEF GqTakes

LEMMA AqAppended ==
  ASSUME MailTypes, NEW a, NEW m \in AgentMsg,
         \A b \in Agents : aq'[b] = aq[b] \/ (b = a /\ aq'[b] = Append(aq[b], m))
  PROVE  AqAdds(a, m.cmd, Key(m))
<1> SUFFICES ASSUME NEW b \in Agents
             PROVE  /\ b # a => aq'[b] = aq[b]
                    /\ \A cmd, x : Has(aq[b], cmd, x) => Has(aq'[b], cmd, x)
                    /\ \A cmd, x : Has(aq'[b], cmd, x)
                                     => Has(aq[b], cmd, x) \/ (b = a /\ Is(m, cmd, x))
                    /\ \A cmd, x : Once(aq[b], cmd, x) /\ ~(Is(m, cmd, x) /\ Has(aq[b], cmd, x))
                                     => Once(aq'[b], cmd, x)
                    /\ m.cmd # "ret_gamed_close" /\ Follows(aq[b]) => Follows(aq'[b])
  BY DEF AqAdds, Is
<1>1. aq[b] \in Seq(AgentMsg)
  BY DEF MailTypes
<1>2. CASE aq'[b] = aq[b]
  BY <1>2
<1>3. CASE b = a /\ aq'[b] = Append(aq[b], m)
  BY <1>1, <1>3, AppendMail
<1> QED
  BY <1>2, <1>3

LEMMA AqSent ==
  ASSUME MailTypes, NEW a, NEW m \in AgentMsg, ToAgent(a, m)
  PROVE  AqAdds(a, m.cmd, Key(m))
<1>1. \A b \in Agents : aq'[b] = aq[b] \/ (b = a /\ aq'[b] = Append(aq[b], m))
  BY DEF ToAgent, MailTypes
<1> QED
  BY <1>1, AqAppended

LEMMA AqReceived ==
  ASSUME MailTypes, NEW a \in Agents, NEW C, Take(a, C), Drop(a)
  PROVE  AqTakes(a, C, Key(Head(aq[a]))) /\ AgentFields(Head(aq[a])) /\ Head(aq[a]).cmd = C
<1>1. aq[a] \in Seq(AgentMsg) /\ aq[a] # <<>> /\ Head(aq[a]).cmd = C
  BY DEF MailTypes, Take
<1>2. aq'[a] = Tail(aq[a]) /\ \A b \in Agents : b # a => aq'[b] = aq[b]
  BY DEF MailTypes, Drop
<1>3. AgentFields(Head(aq[a]))
  BY AqReceive
<1>4. /\ Has(aq[a], C, Key(Head(aq[a])))
      /\ \A cmd, x : Has(aq'[a], cmd, x) => Has(aq[a], cmd, x)
      /\ \A cmd, x : Has(aq[a], cmd, x) /\ ~(cmd = C /\ x = Key(Head(aq[a]))) => Has(aq'[a], cmd, x)
      /\ \A cmd, x : Once(aq[a], cmd, x) => Once(aq'[a], cmd, x)
      /\ Once(aq[a], C, Key(Head(aq[a]))) => ~Has(aq'[a], C, Key(Head(aq[a])))
      /\ Follows(aq[a]) => Follows(aq'[a])
      /\ C \in {"self_exit", "cmd_agent_open"} /\ Follows(aq[a])
           => ~Has(aq[a], "ret_gamed_close", None)
  BY <1>1, <1>2, TailMail
<1>5. AqTakes(a, C, Key(Head(aq[a])))
  BY <1>2, <1>4 DEF AqTakes
<1> QED
  BY <1>1, <1>3, <1>5

\* No message at all is a case of both.
LEMMA MailSame ==
  /\ gq' = gq => \A C, X : GqAdds(C, X)
  /\ aq' = aq => \A a, C, X : AqAdds(a, C, X)
BY DEF GqAdds, AqAdds

\* The key of a message, by its command.
LEMMA MsgKey ==
  \A cmd, f, c, a, i :
    /\ Msg(cmd, f, c, a, i).cmd = cmd
    /\ Key(Msg(cmd, f, c, a, i)) = IF cmd \in {"open", "data", "close"} THEN f
                                   ELSE IF cmd = "cmd_gamed_close" THEN a ELSE c
BY DEF Msg, Key

-----------------------------------------------------------------------------
(* The inductive invariant.                                                *)

Sockets == SockOpens /\ SockCloses /\ SockHeld /\ CallAsked /\ CallRuns /\ CallAnswered
Logins == /\ LoginIds /\ LoginFresh /\ LoginBound /\ LoginForwards /\ LoginParked
          /\ LoginWaitsG /\ LoginWaitsA /\ LoginWaitsK
Forwards == ForwardOne /\ ForwardClose /\ OpenSent /\ OpenRuns /\ OpenAnswered
Lifecycle == Reports /\ Answers /\ LoggedOut /\ Lives

Good == Sockets /\ Counted /\ Logins /\ Forwards /\ Lifecycle

\* A step that adds no message of one of these commands.
GqKeeps(cmds) ==
  \A cmd \in cmds : \A x : /\ Has(gq', cmd, x) => Has(gq, cmd, x)
                           /\ Once(gq, cmd, x) => Once(gq', cmd, x)
AqKeeps(cmds) ==
  \A b \in Agents :
    /\ \A cmd \in cmds : \A x : /\ Has(aq'[b], cmd, x) <=> Has(aq[b], cmd, x)
                                /\ Once(aq[b], cmd, x) => Once(aq'[b], cmd, x)
    /\ "ret_gamed_close" \in cmds /\ Follows(aq[b]) => Follows(aq'[b])

LEMMA MailKept ==
  \A cmds :
    /\ \A C, X : GqTakes(C, X) => GqKeeps(cmds)
    /\ \A C, X : C \notin cmds /\ GqAdds(C, X) => GqKeeps(cmds)
    /\ \A a, C, X : C \notin cmds /\ AqAdds(a, C, X) => AqKeeps(cmds)
    /\ \A a, C, X : C \notin cmds /\ AqTakes(a, C, X) => AqKeeps(cmds)
    /\ gq' = gq => GqKeeps(cmds)
    /\ aq' = aq => AqKeeps(cmds)
BY DEF GqTakes, GqAdds, AqTakes, AqAdds, GqKeeps, AqKeeps

\* The messages that move a socket, an open or an agent on.
GamedMoves == {"open", "close", "ret_open", "ret_close", "cmd_gamed_close"}
AgentMoves == {"cmd_agent_open", "cmd_agent_close", "ret_gamed_close", "self_exit"}

\* Nothing happened to agent b that would move it on.
SameLife(b) ==
  /\ status'[b] = status[b] /\ aclose'[b].pc = aclose[b].pc
  /\ user_id'[b] # None \/ reg'[b] =>
       \/ user_id[b] # None \/ reg[b]
       \/ \E c \in Coroutines : fwd[c].pc = "open" /\ fwd[c].agent = b
  /\ gclose'[b].pc # "none" => gclose[b].pc # "none" /\ gclose'[b].id = gclose[b].id
  /\ \A c \in Coroutines : fwd'[c].pc = "open" /\ fwd'[c].agent = b
                             => fwd[c].pc = "open" /\ fwd[c].agent = b
  /\ \A f \in Fds : cagent'[f] = b /\ closes'[f] \in {"none", "log"} => Serves(f, b)
  /\ \A i \in Ids : clear_pool'[i] = b => clear_pool[i] = b
  /\ \A i \in Ids : online_account'[i].agent = b =>
       /\ online_account[i].agent = b
       /\ fwd[b].pc = "create" => fwd'[b].pc = "create"
  /\ Has(gq', "cmd_gamed_close", b) => Has(gq, "cmd_gamed_close", b)
  /\ \A f \in Fds : Has(aq'[b], "cmd_agent_close", f) => Has(aq[b], "cmd_agent_close", f)
  /\ Has(aq'[b], "self_exit", None) => Has(aq[b], "self_exit", None)
  /\ Has(aq'[b], "ret_gamed_close", None) <=> Has(aq[b], "ret_gamed_close", None)

LEMMA SameLifeFact ==
  ASSUME NEW b \in Agents, NEW p \in Phases, LifeAt(b, p), SameLife(b)
  PROVE  LifeAt(b, p)'
<1>1. PStatus(b, p)' /\ PSaving(b, p)' /\ PReported(b, p)' /\ PPooling(b, p)' /\ PUser(b, p)'
  BY DEF LifeAt, SameLife, PStatus, PSaving, PReported, PPooling, PUser, POpening
<1>2. POpening(b, p)' /\ PPooled(b, p)' /\ POnline(b, p)'
  BY DEF LifeAt, SameLife, POpening, PPooled, POnline
<1>3. PServed(b, p)'
  BY DEF LifeAt, SameLife, PServed, Serves
<1>4. PAsked(b, p)' /\ PExiting(b, p)' /\ PGamed(b, p)' /\ PAnswered(b, p)'
  BY DEF LifeAt, SameLife, PAsked, PExiting, PGamed, PAnswered
<1> QED
  BY <1>1, <1>2, <1>3, <1>4 DEF LifeAt

\* A step that moves no socket, no open, or no agent on.
LEMMA SocketsSame ==
  ASSUME Sockets, UNCHANGED <<sock, connection, cagent, closes, aclose>>,
         GqKeeps({"open", "close", "ret_close"}), AqKeeps({"cmd_agent_close"})
  PROVE  Sockets'
<1>1. SockOpens' /\ SockCloses'
  BY DEF Sockets, SockOpens, SockCloses, GqKeeps
<1>2. SockHeld'
  BY DEF Sockets, SockHeld
<1>3. CallAsked'
  BY DEF Sockets, CallAsked, AqKeeps
<1>4. CallRuns'
  BY DEF Sockets, CallRuns, AqKeeps
<1>5. CallAnswered'
  BY DEF Sockets, CallAnswered, GqKeeps, AqKeeps
<1> QED
  BY <1>1, <1>2, <1>3, <1>4, <1>5 DEF Sockets

LEMMA ForwardsSame ==
  ASSUME Forwards, UNCHANGED <<fwd, acct, gclose, user_id, reg, aopen>>,
         GqKeeps({"ret_open"}), AqKeeps({"cmd_agent_open", "ret_gamed_close"})
  PROVE  Forwards'
<1>1. ForwardOne' /\ ForwardClose'
  BY DEF Forwards, ForwardOne, ForwardClose
<1>2. OpenSent'
  BY DEF Forwards, OpenSent, GqKeeps, AqKeeps
<1>3. OpenRuns'
  BY DEF Forwards, OpenRuns, GqKeeps, AqKeeps
<1>4. OpenAnswered'
  BY DEF Forwards, OpenAnswered, ForwardOne, GqKeeps, AqKeeps
<1> QED
  BY <1>1, <1>2, <1>3, <1>4 DEF Forwards

LEMMA LifecycleSame ==
  ASSUME Lifecycle, UNCHANGED <<cagent, closes, fwd, gclose, clear_pool>>,
         UNCHANGED <<status, user_id, reg, aclose>>,
         \A i \in Ids : online_account'[i].agent = online_account[i].agent,
         GqKeeps({"cmd_gamed_close"}),
         AqKeeps({"cmd_agent_close", "ret_gamed_close", "self_exit"})
  PROVE  Lifecycle'
<1>1. Reports' /\ Answers' /\ LoggedOut'
  BY DEF Lifecycle, Reports, Answers, LoggedOut, GqKeeps, AqKeeps
<1>2. \A b \in Agents : SameLife(b)
  BY DEF GqKeeps, AqKeeps, SameLife, Serves
<1>3. Lives'
  BY <1>2, SameLifeFact DEF Lifecycle, Lives
<1> QED
  BY <1>1, <1>3 DEF Lifecycle

LEMMA CountedSame == Counted /\ UNCHANGED <<connection, nclient>> => Counted'
BY DEF Counted, Held

\* A step that does none of these.
Quiet ==
  /\ UNCHANGED <<sock, connection, cagent, nclient, closes, fwd, gclose, clear_pool, acct>>
  /\ UNCHANGED <<status, user_id, reg, aopen, aclose>>
  /\ \A i \in Ids : online_account'[i].agent = online_account[i].agent
  /\ GqKeeps(GamedMoves) /\ AqKeeps(AgentMoves)

LEMMA QuietStep ==
  ASSUME Good, Quiet
  PROVE  Sockets' /\ Counted' /\ Forwards' /\ Lifecycle'
<1>1. /\ GqKeeps({"open", "close", "ret_close"}) /\ AqKeeps({"cmd_agent_close"})
      /\ GqKeeps({"ret_open"}) /\ AqKeeps({"cmd_agent_open", "ret_gamed_close"})
      /\ GqKeeps({"cmd_gamed_close"})
      /\ AqKeeps({"cmd_agent_close", "ret_gamed_close", "self_exit"})
  BY DEF Quiet, GqKeeps, AqKeeps, GamedMoves, AgentMoves
<1> QED
  BY <1>1, SocketsSame, CountedSame, ForwardsSame, LifecycleSame DEF Good, Quiet

\* The messages of a login that waits for the agent in its way.
GamedWaits == {"ret_other", "ret_kick", "cmd_gamed_kick"}
AgentWaits == {"cmd_agent_other_login", "cmd_agent_kick", "ret_gamed_kick"}

Known(f) == ses[f].id # None

\* A step that moves only logins whose account is known.
LoginsQuiet ==
  /\ \A c \in Coroutines : fwd'[c].pc # "none" =>
       \/ fwd[c].pc # "none" /\ fwd'[c].fd = fwd[c].fd /\ fwd'[c].id = fwd[c].id
       \/ ses[fwd'[c].fd].id = fwd'[c].id /\ (c \in Fds => fwd'[c].fd = c)
  /\ \A f \in Fds : cagent'[f] # None =>
       \/ cagent[f] # None /\ acct'[cagent'[f]] = acct[cagent[f]]
       \/ ses[f].id \in Ids /\ ses[f].id = acct'[cagent'[f]]
  /\ \A f \in Fds : /\ sock'[f] \in {"idle", "accepted"} => sock[f] \in {"idle", "accepted"}
                    /\ connection'[f] /\ cagent'[f] = None /\ pending_msg'[f] < 0
                         => connection[f] /\ cagent[f] = None /\ pending_msg[f] < 0
                    /\ ses'[f].id = ses[f].id
                    /\ ses'[f].pc = ses[f].pc
                         \/ (Known(f) /\ ses'[f].pc \notin {"none", "auth", "failed"})
                         \/ (ses[f].pc = "auth" /\ ses'[f].pc = "failed")
  /\ \A i \in Ids : online_account'[i].isKick =>
       online_account'[i] = online_account[i] \/ ses[online_account'[i].fd].id = i
  /\ \A k \in kicks' : k \in kicks \/ k.from = None \/ (k.from \in Fds /\ Known(k.from))
  /\ \A f \in errs' : f \in errs \/ (f \in Fds /\ Known(f))
  /\ \A cmd \in GamedWaits : \A f \in Fds : Has(gq', cmd, f) => Has(gq, cmd, f) \/ Known(f)
  /\ \A a \in Agents : \A f \in Fds :
       /\ akick'[a][f] # "none" => akick[a][f] # "none" \/ Known(f)
       /\ \A cmd \in AgentWaits : Has(aq'[a], cmd, f) => Has(aq[a], cmd, f) \/ Known(f)

LEMMA LoginsSame ==
  ASSUME Typed, Typed', Logins, LoginsQuiet
  PROVE  Logins'
<1>1. LoginIds' /\ LoginFresh'
  BY DEF Logins, LoginsQuiet, LoginIds, LoginFresh, Known
<1>6. LoginBound'
  BY DEF Logins, LoginsQuiet, LoginBound
<1>2. LoginForwards'
  <2>1. \A c \in Coroutines : fwd'[c].pc # "none" => fwd'[c].fd \in Fds
    BY DEF Typed, Coherent, CohForward
  <2> QED
    BY <2>1 DEF Logins, LoginsQuiet, LoginForwards
<1>3. LoginParked'
  <2>1. \A i \in Ids : online_account'[i].isKick => online_account'[i].fd \in Fds
    BY DEF Typed, Coherent, CohKick
  <2> QED
    BY <2>1 DEF Logins, LoginsQuiet, LoginParked
<1>4. LoginWaitsG' /\ LoginWaitsA'
  BY DEF Logins, LoginsQuiet, LoginWaitsG, LoginWaitsA, GamedWaits, AgentWaits, Known
<1>5. LoginWaitsK'
  <2>1. (\A k \in kicks : k.from \in Fds \cup {None}) /\ errs \subseteq Fds
    BY DEF Typed, TypeOK, TaskTypes
  <2> QED
    BY <2>1 DEF Logins, LoginsQuiet, LoginWaitsK, Known
<1> QED
  BY <1>1, <1>2, <1>3, <1>4, <1>5, <1>6 DEF Logins

-----------------------------------------------------------------------------
(* Every action preserves Good.  First the clients and the socket layer.   *)

LEMMA InitGood == Init => Good
<1> SUFFICES ASSUME Init PROVE Good
  OBVIOUS
<1>1. \A cmd, x : ~Has(<<>>, cmd, x) /\ Once(<<>>, cmd, x) /\ Follows(<<>>)
  BY DEF Has, Once, Follows
<1>2. gq = <<>> /\ \A a \in Agents : aq[a] = <<>>
  BY DEF Init
<1>3. Sockets
  BY <1>1, <1>2, NoneAssumption
  DEF Init, Sockets, SockOpens, SockCloses, SockHeld, CallAsked, CallRuns, CallAnswered, NoClose
<1>4. Counted
  <2>1. Held = {}
    BY DEF Init, Held
  <2> QED
    BY <2>1, FS_EmptySet, BoundAssumption DEF Init, Counted
<1>5. Logins
  BY <1>1, <1>2
  DEF Init, Logins, LoginIds, LoginFresh, LoginBound, LoginForwards, LoginParked, LoginWaitsG,
      LoginWaitsA, LoginWaitsK, NoLogin, NoForward, NoAccount
<1>6. Forwards
  BY <1>1, <1>2
  DEF Init, Forwards, ForwardOne, ForwardClose, OpenSent, OpenRuns, OpenAnswered, NoForward,
      NoOpen, Coroutines
<1>7. Reports /\ Answers /\ LoggedOut
  BY <1>1, <1>2 DEF Init, Reports, Answers, LoggedOut, NoClose
<1>8. ASSUME NEW a \in Agents
      PROVE  LifeAt(a, "unborn")
  BY <1>1, <1>2, NoneAssumption
  DEF Init, LifeAt, PStatus, POpening, PServed, Serves, PAsked, PSaving, PReported, PPooling,
      PPooled, PExiting, PGamed, PAnswered, PUser, POnline, NoForward, NoAccount, NoGclose, NoClose
<1>9. Lives
  BY <1>8 DEF Lives, Phases
<1> QED
  BY <1>3, <1>4, <1>5, <1>6, <1>7, <1>9 DEF Good, Lifecycle

LEMMA ConnectGood ==
  ASSUME Typed, Typed', Keeps, Good, NEW f \in Fds, Connect(f)
  PROVE  Good'
<1>1. /\ GqAdds("open", f) /\ sock[f] = "idle" /\ sock'[f] = "accepted"
      /\ \A g \in Fds \ {f} : sock'[g] = sock[g]
      /\ UNCHANGED <<gateVars, loginVars, taskVars, aq, agentVars>>
  BY GqSent, GamedMsgs, MsgKey DEF Connect, Typed, TypeOK, GateTypes
<1> USE DEF gateVars, loginVars, taskVars, agentVars
<1>2. Sockets'
  <2>1. SockOpens'
    BY <1>1 DEF Good, Sockets, SockOpens, GqAdds
  <2>2. SockCloses'
    BY <1>1 DEF Good, Sockets, SockCloses, GqAdds
  <2>3. SockHeld' /\ CallAsked' /\ CallRuns'
    BY <1>1 DEF Good, Sockets, SockHeld, CallAsked, CallRuns
  <2>4. CallAnswered'
    BY <1>1 DEF Good, Sockets, CallAnswered, GqAdds
  <2> QED
    BY <2>1, <2>2, <2>3, <2>4 DEF Sockets
<1>3. Logins'
  BY <1>1, LoginsSame DEF Good, LoginsQuiet, Known, GqAdds, GamedWaits
<1>4. Forwards' /\ Lifecycle'
  BY <1>1, MailKept, ForwardsSame, LifecycleSame DEF Good
<1> QED
  BY <1>1, <1>2, <1>3, <1>4, CountedSame DEF Good

LEMMA ClientSendGood ==
  ASSUME Typed, Typed', Keeps, Good, NEW f \in Fds, ClientSend(f)
  PROVE  Good'
<1>1. GqAdds("data", f) /\ UNCHANGED <<sock, gateVars, loginVars, taskVars, aq, agentVars>>
  BY GqSent, GamedMsgs, MsgKey DEF ClientSend, Typed, TypeOK
<1> USE DEF gateVars, loginVars, taskVars, agentVars
<1>2. Quiet
  BY <1>1, MailKept DEF Quiet, GamedMoves
<1>3. Logins'
  BY <1>1, LoginsSame DEF Good, LoginsQuiet, Known, GqAdds, GamedWaits
<1> QED
  BY <1>2, <1>3, QuietStep DEF Good

\* A socket closes, by the client or by the server: the close is reported once.
LEMMA ClosesGood ==
  ASSUME Typed, Typed', Keeps, Good, NEW f \in Fds, ClientClose(f) \/ SocketClosed(f)
  PROVE  Good'
<1>1. /\ GqAdds("close", f) /\ sock[f] \in {"open", "shut"} /\ sock'[f] = "closed"
      /\ \A g \in Fds \ {f} : sock'[g] = sock[g]
      /\ UNCHANGED <<gateVars, loginVars, taskVars, aq, agentVars>>
  BY GqSent, GamedMsgs, MsgKey DEF ClientClose, SocketClosed, Typed, TypeOK, GateTypes
<1> USE DEF gateVars, loginVars, taskVars, agentVars
<1>2. Sockets'
  <2>1. SockOpens'
    BY <1>1 DEF Good, Sockets, SockOpens, GqAdds
  <2>2. SockCloses'
    BY <1>1 DEF Good, Sockets, SockCloses, GqAdds
  <2>3. SockHeld' /\ CallAsked' /\ CallRuns'
    BY <1>1 DEF Good, Sockets, SockHeld, CallAsked, CallRuns
  <2>4. CallAnswered'
    BY <1>1 DEF Good, Sockets, CallAnswered, GqAdds
  <2> QED
    BY <2>1, <2>2, <2>3, <2>4 DEF Sockets
<1>3. Logins'
  BY <1>1, LoginsSame DEF Good, LoginsQuiet, Known, GqAdds, GamedWaits
<1>4. Forwards' /\ Lifecycle'
  BY <1>1, MailKept, ForwardsSame, LifecycleSame DEF Good
<1> QED
  BY <1>1, <1>2, <1>3, <1>4, CountedSame DEF Good

LEMMA MsgOpenGood ==
  ASSUME Typed, Typed', Keeps, Good, MsgOpen
  PROVE  Good'
<1> USE DEF gateVars, loginVars, taskVars, agentVars
<1>1. PICK f \in Fds : f = Head(gq).fd /\ GqTakes("open", f)
  BY GqReceived DEF MsgOpen, Typed, TypeOK, Key, GamedFields
<1>2. /\ sock'[f] \in {"shut", "open"} /\ \A g \in Fds \ {f} : sock'[g] = sock[g]
      /\ UNCHANGED <<cagent, pending_msg, loginVars, taskVars, aq, agentVars>>
  BY <1>1 DEF MsgOpen, Typed, TypeOK, GateTypes
<1>3. /\ \A g \in Fds \ {f} : connection'[g] = connection[g]
      /\ \/ nclient < MaxClient /\ connection'[f] = TRUE /\ nclient' = nclient + 1
         \/ UNCHANGED <<connection, nclient>>
  <2>1. CASE Full
    BY <1>1, <2>1 DEF MsgOpen
  <2>2. CASE ~Full
    BY <1>1, <2>2, BoundAssumption DEF MsgOpen, Full, Typed, TypeOK, GateTypes
  <2> QED
    BY <2>1, <2>2
<1>4. sock[f] = "accepted" /\ ~Has(gq', "open", f) /\ ~connection[f]
  BY <1>1 DEF Good, Sockets, SockOpens, SockHeld, GqTakes
<1>5. Sockets'
  <2>1. SockOpens'
    BY <1>1, <1>2, <1>4 DEF Good, Sockets, SockOpens, GqTakes
  <2>2. SockCloses'
    BY <1>1, <1>2, <1>4 DEF Good, Sockets, SockCloses, GqTakes
  <2>3. SockHeld'
    BY <1>1, <1>2, <1>3, <1>4 DEF Good, Sockets, SockHeld, SockCloses
  <2>4. CallAsked' /\ CallRuns'
    BY <1>2 DEF Good, Sockets, CallAsked, CallRuns
  <2>5. CallAnswered'
    BY <1>1, <1>2 DEF Good, Sockets, CallAnswered, GqTakes
  <2> QED
    BY <2>1, <2>2, <2>3, <2>4, <2>5 DEF Sockets
<1>6. Counted'
  <2>1. CASE UNCHANGED <<connection, nclient>>
    BY <2>1, CountedSame DEF Good
  <2>2. CASE nclient < MaxClient /\ connection'[f] = TRUE /\ nclient' = nclient + 1
    <3>1. Held' = Held \cup {f} /\ f \notin Held
      BY <1>1, <1>3, <1>4, <2>2 DEF Held
    <3>2. IsFiniteSet(Held') /\ Cardinality(Held') = Cardinality(Held) + 1
      BY <3>1, FS_AddElement DEF Good, Counted
    <3>3. Cardinality(Held) \in Nat
      BY FS_CardinalityType DEF Good, Counted
    <3> QED
      BY <2>2, <3>2, <3>3, BoundAssumption DEF Good, Counted
  <2> QED
    BY <1>3, <2>1, <2>2
<1>7. Logins'
  <2>1. LoginFresh'
    BY <1>1, <1>2, <1>3, <1>4 DEF Good, Logins, LoginFresh
  <2>2. LoginIds' /\ LoginBound' /\ LoginForwards' /\ LoginParked' /\ LoginWaitsA' /\ LoginWaitsK'
    BY <1>2 DEF Good, Logins, LoginIds, LoginBound, LoginForwards, LoginParked, LoginWaitsA,
       LoginWaitsK
  <2>3. LoginWaitsG'
    BY <1>1, <1>2 DEF Good, Logins, LoginWaitsG, GqTakes
  <2> QED
    BY <2>1, <2>2, <2>3 DEF Logins
<1>8. Forwards' /\ Lifecycle'
  BY <1>1, <1>2, MailKept, ForwardsSame, LifecycleSame DEF Good
<1> QED
  BY <1>5, <1>6, <1>7, <1>8 DEF Good

-----------------------------------------------------------------------------
(* gamed: socket events.                                                   *)

LEMMA MsgDataGood ==
  ASSUME Typed, Typed', Keeps, Good, MsgData
  PROVE  Good'
<1> USE DEF sockVars, taskVars, agentVars
<1>1. PICK f \in Fds : f = Head(gq).fd /\ GqTakes("data", f)
  BY GqReceived DEF MsgData, Typed, TypeOK, Key, GamedFields
<1>2. AqAdds(cagent[f], "test_dispatch", None)
  BY <1>1, AqSent, AgentMsgs, MsgKey, MailSame DEF MsgData, Typed, TypeOK
<1>3. /\ UNCHANGED <<sockVars, connection, cagent, nclient, fwd, online_account, clear_pool>>
      /\ UNCHANGED <<acct, taskVars, agentVars>>
  BY DEF MsgData
<1>4. Quiet
  BY <1>1, <1>2, <1>3, MailKept DEF Quiet, GamedMoves, AgentMoves
<1>5. CASE ses' = ses
  <2>1. \A g \in Fds : pending_msg'[g] < 0 => pending_msg[g] < 0
    <3>1. CASE pending_msg' = pending_msg
      BY <3>1
    <3>2. CASE pending_msg' # pending_msg
      <4>1. \/ /\ connection[f] /\ Authenticating(f)
               /\ pending_msg' = [pending_msg EXCEPT ![f] = @ + 1]
            \/ pending_msg' = [pending_msg EXCEPT ![f] = 0]
            \/ pending_msg' = [pending_msg EXCEPT ![f] = @]
        BY <1>1, <3>2 DEF MsgData
      <4> QED
        BY <1>1, <4>1 DEF Authenticating, Typed, TypeOK, GateTypes
    <3> QED
      BY <3>1, <3>2
  <2> QED
    BY <1>1, <1>2, <1>3, <1>4, <1>5, <2>1, QuietStep, LoginsSame
    DEF Good, LoginsQuiet, Known, GqTakes, AqAdds, GamedWaits, AgentWaits
<1>6. CASE ses' # ses
  <2>1. /\ cagent[f] = None /\ connection[f] /\ ~Authenticating(f) /\ aq' = aq
        /\ pending_msg' = [pending_msg EXCEPT ![f] = 0]
        /\ ses' = [ses EXCEPT ![f] = [NoLogin EXCEPT !.pc = "auth"]]
    BY <1>1, <1>6 DEF MsgData
  <2>2. /\ pending_msg'[f] = 0 /\ ses'[f].pc = "auth" /\ ses'[f].id = None
        /\ \A g \in Fds \ {f} : ses'[g] = ses[g] /\ pending_msg'[g] = pending_msg[g]
    BY <1>1, <2>1 DEF Typed, TypeOK, GateTypes, LoginTypes, NoLogin
  <2>3. ses[f].pc = "none"
    BY <1>1, <2>1 DEF Authenticating, Typed, TypeOK, GateTypes, Good, Logins, LoginFresh
  <2>4. \A g \in Fds : ses'[g].id = ses[g].id
    BY <1>1, <2>2, <2>3 DEF Good, Logins, LoginIds
  <2>5. sock[f] \notin {"idle", "accepted"}
    BY <1>1, <2>1 DEF Good, Sockets, SockHeld
  <2>6. LoginIds' /\ LoginFresh'
    BY <1>3, <2>2, <2>3, <2>4, <2>5 DEF Good, Logins, LoginIds, LoginFresh
  <2>7. LoginBound' /\ LoginForwards' /\ LoginParked'
    <3>1. /\ \A c \in Coroutines : fwd[c].pc # "none" => fwd[c].fd \in Fds
          /\ \A i \in Ids : online_account[i].isKick => online_account[i].fd \in Fds
      BY DEF Typed, Coherent, CohForward, CohKick
    <3> QED
      BY <1>3, <2>4, <3>1 DEF Good, Logins, LoginBound, LoginForwards, LoginParked
  <2>8. LoginWaitsG' /\ LoginWaitsA' /\ LoginWaitsK'
    <3>1. (\A k \in kicks : k.from \in Fds \cup {None}) /\ errs \subseteq Fds
      BY DEF Typed, TypeOK, TaskTypes
    <3> QED
      BY <1>1, <1>3, <2>1, <2>4, <3>1
      DEF Good, Logins, LoginWaitsG, LoginWaitsA, LoginWaitsK, GqTakes
  <2> QED
    BY <1>4, <2>6, <2>7, <2>8, QuietStep DEF Good, Logins
<1> QED
  BY <1>5, <1>6

LEMMA MsgCloseGood ==
  ASSUME Typed, Typed', Keeps, Good, MsgClose
  PROVE  Good'
<1> USE DEF sockVars, gateVars, loginVars, agentVars
<1>1. PICK f \in Fds : f = Head(gq).fd /\ GqTakes("close", f)
  BY GqReceived DEF MsgClose, Typed, TypeOK, Key, GamedFields
<1>2. /\ closes'[f] = "log" /\ \A g \in Fds \ {f} : closes'[g] = closes[g]
      /\ UNCHANGED <<sockVars, gateVars, loginVars, kicks, gclose, errs, aq, agentVars>>
  BY <1>1 DEF MsgClose, Typed, TypeOK, TaskTypes
<1>3. sock[f] = "closed" /\ closes[f] = "none" /\ ~Has(gq', "close", f)
  BY <1>1 DEF Good, Sockets, SockCloses, GqTakes
<1>4. Sockets'
  <2>1. SockOpens' /\ SockCloses'
    BY <1>1, <1>2, <1>3 DEF Good, Sockets, SockOpens, SockCloses, GqTakes
  <2>2. SockHeld'
    BY <1>2, <1>3 DEF Good, Sockets, SockHeld
  <2>3. CallAsked' /\ CallRuns'
    BY <1>2, <1>3 DEF Good, Sockets, CallAsked, CallRuns
  <2>4. CallAnswered'
    BY <1>1, <1>2, <1>3 DEF Good, Sockets, CallAnswered, GqTakes
  <2> QED
    BY <2>1, <2>2, <2>3, <2>4 DEF Sockets
<1>5. Logins'
  BY <1>1, <1>2, LoginsSame DEF Good, LoginsQuiet, Known, GqTakes, GamedWaits
<1>6. Forwards'
  BY <1>1, <1>2, MailKept, ForwardsSame DEF Good
<1>7. Lifecycle'
  <2>1. Reports' /\ Answers' /\ LoggedOut'
    BY <1>1, <1>2 DEF Good, Lifecycle, Reports, Answers, LoggedOut, GqTakes
  <2>2. \A b \in Agents : SameLife(b)
    BY <1>1, <1>2, <1>3 DEF SameLife, Serves, GqTakes
  <2> QED
    BY <2>1, <2>2, SameLifeFact DEF Good, Lifecycle, Lives
<1> QED
  BY <1>2, <1>4, <1>5, <1>6, <1>7, CountedSame DEF Good

\* close_fd counts a connection without an agent out.
LEMMA CloseFdDropsGood ==
  ASSUME Typed, Typed', Keeps, Good, NEW f \in Fds, CloseFd(f), closes'[f] = "done"
  PROVE  Good'
<1> USE DEF sockVars, loginVars, agentVars
<1>1. /\ closes[f] = "log" /\ \A g \in Fds \ {f} : closes'[g] = closes[g]
      /\ UNCHANGED <<sockVars, cagent, pending_msg, loginVars, kicks, gclose, errs, gq, aq, agentVars>>
  BY DEF CloseFd, Typed, TypeOK, TaskTypes
<1>2. /\ ~connection'[f] /\ \A g \in Fds \ {f} : connection'[g] = connection[g]
      /\ IF connection[f] THEN nclient' = nclient - 1 ELSE nclient' = nclient
      /\ connection[f] => cagent[f] = None
  BY DEF CloseFd, Typed, TypeOK, TaskTypes, GateTypes
<1>3. cagent[f] = None
  BY <1>2 DEF Good, Sockets, SockHeld
<1>4. Sockets'
  <2>1. SockOpens' /\ SockCloses'
    BY <1>1 DEF Good, Sockets, SockOpens, SockCloses
  <2>2. SockHeld'
    BY <1>1, <1>2, <1>3 DEF Good, Sockets, SockHeld
  <2>3. CallAsked' /\ CallRuns' /\ CallAnswered'
    BY <1>1 DEF Good, Sockets, CallAsked, CallRuns, CallAnswered
  <2> QED
    BY <2>1, <2>2, <2>3 DEF Sockets
<1>5. Counted'
  <2>1. CASE ~connection[f]
    <3>1. Held' = Held
      BY <1>2, <2>1 DEF Held
    <3> QED
      BY <1>2, <2>1, <3>1 DEF Good, Counted
  <2>2. CASE connection[f]
    <3>1. Held' = Held \ {f} /\ f \in Held
      BY <1>2, <2>2 DEF Held
    <3>2. IsFiniteSet(Held') /\ Cardinality(Held') = Cardinality(Held) - 1
      BY <3>1, FS_RemoveElement DEF Good, Counted
    <3>3. Cardinality(Held) \in Nat
      BY FS_CardinalityType DEF Good, Counted
    <3> QED
      BY <1>2, <2>2, <3>2, <3>3, BoundAssumption DEF Good, Counted
  <2> QED
    BY <2>1, <2>2
<1>6. Logins'
  <2>1. LoginFresh'
    BY <1>1, <1>2 DEF Good, Logins, LoginFresh
  <2>2. LoginIds' /\ LoginBound' /\ LoginForwards' /\ LoginParked' /\ LoginWaitsG'
    BY <1>1 DEF Good, Logins, LoginIds, LoginBound, LoginForwards, LoginParked, LoginWaitsG
  <2>3. LoginWaitsA' /\ LoginWaitsK'
    BY <1>1 DEF Good, Logins, LoginWaitsA, LoginWaitsK
  <2> QED
    BY <2>1, <2>2, <2>3 DEF Logins
<1>7. Forwards'
  BY <1>1, MailKept, ForwardsSame DEF Good
<1>8. Lifecycle'
  <2>1. Reports' /\ Answers' /\ LoggedOut'
    BY <1>1 DEF Good, Lifecycle, Reports, Answers, LoggedOut
  <2>2. \A b \in Agents : SameLife(b)
    BY <1>1 DEF SameLife, Serves
  <2> QED
    BY <2>1, <2>2, SameLifeFact DEF Good, Lifecycle, Lives
<1> QED
  BY <1>4, <1>5, <1>6, <1>7, <1>8 DEF Good

\* close_fd asks the agent of the connection to close: it served only this one.
LEMMA CloseFdCallsGood ==
  ASSUME Typed, Typed', Keeps, Good, NEW f \in Fds, CloseFd(f), closes'[f] # "done"
  PROVE  Good'
<1> USE DEF sockVars, gateVars, loginVars, agentVars
<1>1. PICK a \in Agents :
        /\ connection[f] /\ a = cagent[f] /\ closes[f] = "log" /\ closes'[f] = "call"
        /\ \A g \in Fds \ {f} : closes'[g] = closes[g]
        /\ UNCHANGED <<sockVars, gateVars, loginVars, kicks, gclose, errs, gq, agentVars>>
  BY DEF CloseFd, Typed, TypeOK, TaskTypes, GateTypes
<1>2. AqAdds(a, "cmd_agent_close", f)
  BY <1>1, AqSent, AgentMsgs, MsgKey DEF CloseFd, Typed, TypeOK, TaskTypes
<1>3. /\ \A b \in Agents : ~Has(aq[b], "cmd_agent_close", f)
      /\ \A b \in Agents : aclose[b].pc # "none" => aclose[b].fd # f
      /\ ~Has(gq, "ret_close", f)
  BY <1>1 DEF Good, Sockets, CallAsked, CallRuns, CallAnswered
<1>4. PICK p \in Phases : LifeAt(a, p)
  BY <1>1 DEF Good, Lifecycle, Lives
<1>5. /\ p = "served" /\ \A g \in Fds : ~Has(aq[a], "cmd_agent_close", g)
      /\ \A g \in Fds \ {f} : ~Serves(g, a)
  BY <1>1, <1>4 DEF LifeAt, PServed, PAsked, Serves
<1>6. Sockets'
  <2>1. SockOpens' /\ SockCloses'
    BY <1>1 DEF Good, Sockets, SockOpens, SockCloses
  <2>2. SockHeld'
    BY <1>1 DEF Good, Sockets, SockHeld
  <2>3. CallAsked'
    <3> SUFFICES ASSUME NEW b \in Agents, NEW g \in Fds, Has(aq'[b], "cmd_agent_close", g)
                 PROVE  /\ closes'[g] = "call" /\ Once(aq'[b], "cmd_agent_close", g)
                        /\ \A d \in Agents : Has(aq'[d], "cmd_agent_close", g) => b = d
                        /\ \A h \in Fds : Has(aq'[b], "cmd_agent_close", h) => g = h
      BY DEF CallAsked
    <3>1. CASE b = a /\ g = f
      <4>1. Once(aq[b], "cmd_agent_close", g)
        BY <1>3, <3>1 DEF Once, Has
      <4> QED
        BY <1>1, <1>2, <1>3, <1>5, <3>1, <4>1 DEF AqAdds
    <3>2. CASE ~(b = a /\ g = f)
      <4>1. Has(aq[b], "cmd_agent_close", g)
        BY <1>2, <3>2 DEF AqAdds
      <4>2. b # a /\ g # f
        BY <1>3, <1>5, <4>1
      <4> QED
        BY <1>1, <1>2, <4>1, <4>2 DEF Good, Sockets, CallAsked, AqAdds
    <3> QED
      BY <3>1, <3>2
  <2>4. CallRuns'
    BY <1>1, <1>2, <1>3 DEF Good, Sockets, CallRuns, AqAdds
  <2>5. CallAnswered'
    BY <1>1, <1>2, <1>3 DEF Good, Sockets, CallAnswered, AqAdds
  <2> QED
    BY <2>1, <2>2, <2>3, <2>4, <2>5 DEF Sockets
<1>7. Logins'
  BY <1>1, <1>2, LoginsSame DEF Good, LoginsQuiet, Known, AqAdds, AgentWaits
<1>8. Forwards'
  BY <1>1, <1>2, MailKept, ForwardsSame DEF Good
<1>9. Lifecycle'
  <2>1. Reports' /\ Answers' /\ LoggedOut'
    BY <1>1, <1>2 DEF Good, Lifecycle, Reports, Answers, LoggedOut, AqAdds
  <2>2. \A b \in Agents \ {a} : SameLife(b)
    BY <1>1, <1>2 DEF SameLife, Serves, AqAdds
  <2>3. LifeAt(a, "asked")'
    <3>1. \A g \in Fds : ~Serves(g, a)'
      BY <1>1, <1>5 DEF Serves
    <3> QED
      BY <1>1, <1>2, <1>4, <1>5, <3>1
      DEF LifeAt, PStatus, POpening, PServed, PAsked, PSaving, PReported, PPooling, PPooled,
          PExiting, PGamed, PAnswered, PUser, POnline, AqAdds
  <2> QED
    BY <1>1, <2>1, <2>2, <2>3, SameLifeFact DEF Good, Lifecycle, Lives, Phases
<1> QED
  BY <1>1, <1>6, <1>7, <1>8, <1>9, CountedSame DEF Good

LEMMA RetCloseGood ==
  ASSUME Typed, Typed', Keeps, Good, RetClose
  PROVE  Good'
<1> USE DEF sockVars, loginVars, agentVars
<1>1. PICK f \in Fds \cup {None} : f = Head(gq).from /\ GqTakes("ret_close", f)
  BY GqReceived DEF RetClose, Typed, TypeOK, Key, GamedFields
<1>2. f \in Fds /\ closes[f] = "call"
  BY <1>1 DEF Good, Sockets, CallAnswered, GqTakes
<1>3. /\ cagent'[f] = None /\ ~connection'[f] /\ closes'[f] = "done" /\ nclient' = nclient - 1
      /\ \A g \in Fds \ {f} : /\ cagent'[g] = cagent[g] /\ connection'[g] = connection[g]
                              /\ closes'[g] = closes[g]
      /\ UNCHANGED <<sockVars, pending_msg, loginVars, kicks, gclose, errs, aq, agentVars>>
  BY <1>1, <1>2 DEF RetClose, Typed, TypeOK, TaskTypes, GateTypes
<1>4. /\ connection[f] /\ ~Has(gq', "ret_close", f)
      /\ \A a \in Agents : /\ ~Has(aq[a], "cmd_agent_close", f)
                           /\ aclose[a].pc # "none" => aclose[a].fd # f
  BY <1>1, <1>2 DEF Good, Sockets, SockHeld, CallAnswered, GqTakes
<1>5. Sockets'
  <2>1. SockOpens' /\ SockCloses'
    BY <1>1, <1>2, <1>3 DEF Good, Sockets, SockOpens, SockCloses, GqTakes
  <2>2. SockHeld'
    BY <1>2, <1>3 DEF Good, Sockets, SockHeld
  <2>3. CallAsked' /\ CallRuns'
    BY <1>2, <1>3, <1>4 DEF Good, Sockets, CallAsked, CallRuns
  <2>4. CallAnswered'
    BY <1>1, <1>2, <1>3, <1>4 DEF Good, Sockets, CallAnswered, GqTakes
  <2> QED
    BY <2>1, <2>2, <2>3, <2>4 DEF Sockets
<1>6. Counted'
  <2>1. Held' = Held \ {f} /\ f \in Held
    BY <1>2, <1>3, <1>4 DEF Held
  <2>2. IsFiniteSet(Held') /\ Cardinality(Held') = Cardinality(Held) - 1
    BY <2>1, FS_RemoveElement DEF Good, Counted
  <2>3. Cardinality(Held) \in Nat
    BY FS_CardinalityType DEF Good, Counted
  <2> QED
    BY <1>3, <2>2, <2>3, BoundAssumption DEF Good, Counted
<1>7. Logins'
  <2>1. LoginFresh' /\ LoginBound'
    BY <1>2, <1>3 DEF Good, Logins, LoginFresh, LoginBound
  <2>2. LoginIds' /\ LoginForwards' /\ LoginParked' /\ LoginWaitsA' /\ LoginWaitsK'
    BY <1>3 DEF Good, Logins, LoginIds, LoginForwards, LoginParked, LoginWaitsA, LoginWaitsK
  <2>3. LoginWaitsG'
    BY <1>1, <1>3 DEF Good, Logins, LoginWaitsG, GqTakes
  <2> QED
    BY <2>1, <2>2, <2>3 DEF Logins
<1>8. Forwards'
  BY <1>1, <1>3, MailKept, ForwardsSame DEF Good
<1>9. Lifecycle'
  <2>1. Reports' /\ Answers' /\ LoggedOut'
    BY <1>1, <1>3 DEF Good, Lifecycle, Reports, Answers, LoggedOut, GqTakes
  <2>2. \A b \in Agents : SameLife(b)
    BY <1>1, <1>2, <1>3, NoneAssumption DEF SameLife, Serves, GqTakes
  <2> QED
    BY <2>1, <2>2, SameLifeFact DEF Good, Lifecycle, Lives
<1> QED
  BY <1>5, <1>6, <1>7, <1>8, <1>9 DEF Good

-----------------------------------------------------------------------------
(* A login and the agent in its way: nothing moves but the login.          *)

LEMMA LoginFailedGood ==
  ASSUME Typed, Typed', Keeps, Good, NEW f \in Fds, LoginFailed(f)
  PROVE  Good'
<1> USE DEF sockVars, gateVars, agentVars
<1>1. /\ UNCHANGED <<sockVars, gateVars, fwd, online_account, clear_pool, acct, closes>>
      /\ UNCHANGED <<gclose, errs, gq, aq, agentVars>>
      /\ \A k \in kicks' : k \in kicks \/ k.from = None
  BY DEF LoginFailed
<1>2. /\ ses[f].pc = "auth" /\ ses'[f].pc = "failed" /\ ses'[f].id = ses[f].id
      /\ \A g \in Fds \ {f} : ses'[g] = ses[g]
  <2>1. ses[f] \in LoginRec
    BY DEF Typed, TypeOK, LoginTypes
  <2> QED
    BY <2>1 DEF LoginFailed, Typed, TypeOK, LoginTypes, LoginRec
<1>3. Quiet
  BY <1>1, MailKept DEF Quiet
<1>4. Logins'
  BY <1>1, <1>2, LoginsSame DEF Good, LoginsQuiet
<1> QED
  BY <1>3, <1>4, QuietStep DEF Good

LEMMA RetOtherGood ==
  ASSUME Typed, Typed', Keeps, Good, RetOther
  PROVE  Good'
<1> USE DEF sockVars, gateVars, taskVars, agentVars
<1>1. PICK f \in Fds : f = Head(gq).from /\ GqTakes("ret_other", f)
  BY GqReceived DEF RetOther, Typed, TypeOK, Key, GamedFields
<1>2. Known(f)
  BY <1>1 DEF Good, Logins, LoginWaitsG, GqTakes, Known
<1>3. AqAdds(ses[f].agent, "cmd_agent_kick", f)
  BY <1>1, AqSent, AgentMsgs, MsgKey DEF RetOther, Typed, TypeOK
<1>4. /\ ses'[f].pc \in {"kick", "dead"} /\ ses'[f].id = ses[f].id
      /\ \A g \in Fds \ {f} : ses'[g] = ses[g]
      /\ UNCHANGED <<sockVars, gateVars, fwd, online_account, clear_pool, acct, taskVars, agentVars>>
  <2>1. ses[f] \in LoginRec
    BY DEF Typed, TypeOK, LoginTypes
  <2> QED
    BY <1>1, <2>1 DEF RetOther, Typed, TypeOK, LoginTypes, LoginRec
<1>5. Quiet
  BY <1>1, <1>3, <1>4, MailKept DEF Quiet, AgentMoves
<1>6. Logins'
  BY <1>1, <1>2, <1>3, <1>4, LoginsSame DEF Good, LoginsQuiet, GqTakes, AqAdds, GamedWaits, AgentWaits
<1> QED
  BY <1>5, <1>6, QuietStep DEF Good

LEMMA RetKickGood ==
  ASSUME Typed, Typed', Keeps, Good, RetKick
  PROVE  Good'
<1> USE DEF sockVars, gateVars, taskVars, agentVars
<1>1. PICK f \in Fds : f = Head(gq).from /\ GqTakes("ret_kick", f)
  BY GqReceived DEF RetKick, Typed, TypeOK, Key, GamedFields
<1>2. Known(f)
  BY <1>1 DEF Good, Logins, LoginWaitsG, GqTakes, Known
<1>3. PICK i \in Ids : i = ses[f].id
  BY <1>2 DEF Known, Typed, TypeOK, LoginTypes, LoginRec
<1>4. /\ ses'[f].pc = "parked" /\ ses'[f].id = i
      /\ \A g \in Fds \ {f} : ses'[g] = ses[g]
      /\ UNCHANGED <<sockVars, gateVars, fwd, clear_pool, acct, taskVars, aq, agentVars>>
  <2>1. ses[f] \in LoginRec
    BY DEF Typed, TypeOK, LoginTypes
  <2> QED
    BY <1>1, <1>3, <2>1 DEF RetKick, Typed, TypeOK, LoginTypes, LoginRec
<1>5. \A j \in Ids : /\ online_account'[j].agent = online_account[j].agent
                     /\ online_account'[j] = online_account[j]
                          \/ (j = i /\ online_account'[j].fd = f)
  <2>1. \A j \in Ids : online_account[j] \in AccountRec
    BY DEF Typed, TypeOK, LoginTypes
  <2> QED
    BY <1>1, <1>3, <2>1 DEF RetKick, Typed, TypeOK, LoginTypes, AccountRec
<1>6. Quiet
  BY <1>1, <1>4, <1>5, MailKept DEF Quiet
<1>7. Logins'
  BY <1>1, <1>2, <1>3, <1>4, <1>5, LoginsSame DEF Good, LoginsQuiet, GqTakes, GamedWaits
<1> QED
  BY <1>6, <1>7, QuietStep DEF Good

LEMMA CallErrorGood ==
  ASSUME Typed, Typed', Keeps, Good, NEW f \in Fds, CallError(f)
  PROVE  Good'
<1> USE DEF sockVars, gateVars, agentVars
<1>1. /\ UNCHANGED <<sockVars, gateVars, fwd, online_account, clear_pool, acct, kicks, closes>>
      /\ UNCHANGED <<gclose, gq, aq, agentVars>>
      /\ f \in errs /\ errs' \subseteq errs
  BY DEF CallError
<1>2. /\ ses'[f].pc = "dead" /\ ses'[f].id = ses[f].id
      /\ \A g \in Fds \ {f} : ses'[g] = ses[g]
  <2>1. ses[f] \in LoginRec
    BY DEF Typed, TypeOK, LoginTypes
  <2> QED
    BY <2>1 DEF CallError, Typed, TypeOK, LoginTypes, LoginRec
<1>3. Known(f)
  BY <1>1 DEF Good, Logins, LoginWaitsK, Known
<1>4. Quiet
  BY <1>1, MailKept DEF Quiet
<1>5. Logins'
  BY <1>1, <1>2, <1>3, LoginsSame DEF Good, LoginsQuiet
<1> QED
  BY <1>4, <1>5, QuietStep DEF Good

LEMMA GamedKickGood ==
  ASSUME Typed, Typed', Keeps, Good, GamedKick
  PROVE  Good'
<1> USE DEF sockVars, gateVars, loginVars, agentVars
<1>1. PICK f \in Fds \cup {None} : f = Head(gq).from /\ GqTakes("cmd_gamed_kick", f)
  BY GqReceived DEF GamedKick, Typed, TypeOK, Key, GamedFields
<1>2. f # None => Known(f)
  BY <1>1 DEF Good, Logins, LoginWaitsG, GqTakes, Known
<1>3. AqAdds(Head(gq).agent, "ret_gamed_kick", f)
  BY <1>1, AqSent, AgentMsgs, MsgKey, MailSame DEF GamedKick, Typed, TypeOK
<1>4. /\ UNCHANGED <<sockVars, gateVars, loginVars, closes, gclose, errs, agentVars>>
      /\ \A k \in kicks' : k \in kicks \/ k.from = f
  BY <1>1 DEF GamedKick
<1>5. Quiet
  BY <1>1, <1>3, <1>4, MailKept DEF Quiet, AgentMoves
<1>6. Logins'
  BY <1>1, <1>2, <1>3, <1>4, NoneAssumption, LoginsSame
  DEF Good, LoginsQuiet, GqTakes, AqAdds, GamedWaits, AgentWaits
<1> QED
  BY <1>5, <1>6, QuietStep DEF Good

LEMMA CloseClientGood ==
  ASSUME Typed, Typed', Keeps, Good, NEW k \in kicks, CloseClient(k)
  PROVE  Good'
<1> USE DEF gateVars, loginVars, agentVars
<1>1. k.fd \in Fds /\ k.from \in Fds \cup {None} /\ k.agent \in Agents \cup {None}
  BY DEF Typed, TypeOK, TaskTypes
<1>2. AqAdds(k.agent, "ret_gamed_kick", k.from)
  BY <1>1, AqSent, AgentMsgs, MsgKey, MailSame DEF CloseClient, Typed, TypeOK
<1>3. /\ UNCHANGED <<sent, gateVars, loginVars, closes, gclose, errs, gq, agentVars>>
      /\ kicks' \subseteq kicks
      /\ \A f \in Fds : sock'[f] = sock[f] \/ (sock[f] = "open" /\ sock'[f] = "shut")
  BY <1>1 DEF CloseClient, Typed, TypeOK, GateTypes
<1>4. k.from # None => Known(k.from)
  BY <1>1 DEF Good, Logins, LoginWaitsK, Known
<1>5. Sockets'
  <2>1. SockOpens' /\ SockCloses' /\ SockHeld'
    BY <1>3 DEF Good, Sockets, SockOpens, SockCloses, SockHeld
  <2>2. AqKeeps({"cmd_agent_close"})
    BY <1>2, MailKept
  <2>3. CallAsked'
    BY <1>3, <2>2 DEF Good, Sockets, CallAsked, AqKeeps
  <2>4. CallRuns'
    BY <1>3, <2>2 DEF Good, Sockets, CallRuns, AqKeeps
  <2>5. CallAnswered'
    BY <1>3, <2>2 DEF Good, Sockets, CallAnswered, AqKeeps
  <2> QED
    BY <2>1, <2>3, <2>4, <2>5 DEF Sockets
<1>6. Logins'
  BY <1>2, <1>3, <1>4, NoneAssumption, LoginsSame
  DEF Good, LoginsQuiet, AqAdds, GamedWaits, AgentWaits
<1>7. Forwards' /\ Lifecycle'
  BY <1>2, <1>3, MailKept, ForwardsSame, LifecycleSame DEF Good
<1> QED
  BY <1>3, <1>5, <1>6, <1>7, CountedSame DEF Good

LEMMA AgentOtherLoginGood ==
  ASSUME Typed, Typed', Keeps, Good, NEW a \in Agents, AgentOtherLogin(a)
  PROVE  Good'
<1> USE DEF sockVars, gateVars, loginVars, taskVars, agentVars
<1>1. PICK f \in Fds : f = Head(aq[a]).from /\ AqTakes(a, "cmd_agent_other_login", f)
  BY AqReceived DEF AgentOtherLogin, Typed, TypeOK, Key, AgentFields
<1>2. GqAdds("ret_other", f)
  BY <1>1, GqSent, GamedMsgs, MsgKey DEF AgentOtherLogin, Typed, TypeOK
<1>3. UNCHANGED <<sockVars, gateVars, loginVars, taskVars, agentVars>>
  BY DEF AgentOtherLogin
<1>4. Known(f)
  BY <1>1 DEF Good, Logins, LoginWaitsA, AqTakes, Known
<1>5. Quiet
  BY <1>1, <1>2, <1>3, MailKept DEF Quiet, GamedMoves, AgentMoves
<1>6. Logins'
  BY <1>1, <1>2, <1>3, <1>4, LoginsSame
  DEF Good, LoginsQuiet, GqAdds, AqTakes, GamedWaits, AgentWaits
<1> QED
  BY <1>5, <1>6, QuietStep DEF Good

LEMMA AgentKickGood ==
  ASSUME Typed, Typed', Keeps, Good, NEW a \in Agents, AgentKick(a)
  PROVE  Good'
<1> USE DEF sockVars, gateVars, loginVars, taskVars
<1>1. PICK f \in Fds : f = Head(aq[a]).from /\ AqTakes(a, "cmd_agent_kick", f)
  BY AqReceived DEF AgentKick, Typed, TypeOK, Key, AgentFields
<1>2. /\ UNCHANGED <<sockVars, gateVars, loginVars, taskVars, gq, status, user_id, reg, aopen, aclose>>
      /\ \A b \in Agents, g \in Fds : akick'[b][g] = akick[b][g] \/ g = f
  BY <1>1 DEF AgentKick, Typed, TypeOK, AgentTypes
<1>3. Known(f)
  BY <1>1 DEF Good, Logins, LoginWaitsA, AqTakes, Known
<1>4. Quiet
  BY <1>1, <1>2, MailKept DEF Quiet, GamedMoves, AgentMoves
<1>5. Logins'
  BY <1>1, <1>2, <1>3, LoginsSame DEF Good, LoginsQuiet, AqTakes, GamedWaits, AgentWaits
<1> QED
  BY <1>4, <1>5, QuietStep DEF Good

\* cmd_agent_kick saves, or answers at once; then it asks gamed to close.
LEMMA KickGood ==
  ASSUME Typed, Typed', Keeps, Good, NEW a \in Agents, NEW f \in Fds,
         KickSave(a, f) \/ KickSelf(a, f)
  PROVE  Good'
<1> USE DEF sockVars, gateVars, loginVars, taskVars
<1>1. user_fd[a] \in Fds \cup {None}
  BY DEF Typed, TypeOK, AgentTypes
<1>2. PICK C \in {"ret_kick", "cmd_gamed_kick"} : GqAdds(C, f)
  <2>1. CASE gq' = gq
    BY <2>1, MailSame
  <2>2. CASE KickSave(a, f) /\ gq' # gq
    BY <2>2, GqSent, GamedMsgs, MsgKey DEF KickSave, RetNil, Typed, TypeOK
  <2>3. CASE KickSelf(a, f)
    BY <1>1, <2>3, GqSent, GamedMsgs, MsgKey DEF KickSelf, Typed, TypeOK
  <2> QED
    BY <2>1, <2>2, <2>3
<1>3. /\ UNCHANGED <<sockVars, gateVars, loginVars, taskVars, aq, status, user_id, reg, aopen, aclose>>
      /\ akick[a][f] # "none"
      /\ \A b \in Agents, g \in Fds : akick'[b][g] = akick[b][g] \/ g = f
  <2>1. CASE KickSave(a, f)
    BY <2>1 DEF KickSave, Typed, TypeOK, AgentTypes
  <2>2. CASE KickSelf(a, f)
    BY <2>2 DEF KickSelf, Typed, TypeOK, AgentTypes
  <2> QED
    BY <2>1, <2>2
<1>4. Known(f)
  BY <1>3 DEF Good, Logins, LoginWaitsA, Known
<1>5. Quiet
  BY <1>2, <1>3, MailKept DEF Quiet, GamedMoves, AgentMoves
<1>6. Logins'
  BY <1>2, <1>3, <1>4, LoginsSame DEF Good, LoginsQuiet, GqAdds, GamedWaits, AgentWaits
<1> QED
  BY <1>5, <1>6, QuietStep DEF Good

LEMMA AgentKickedGood ==
  ASSUME Typed, Typed', Keeps, Good, NEW a \in Agents, AgentKicked(a)
  PROVE  Good'
<1> USE DEF sockVars, gateVars, loginVars, taskVars, agentVars
<1>1. PICK f \in Fds \cup {None} : f = Head(aq[a]).from /\ AqTakes(a, "ret_gamed_kick", f)
  BY AqReceived DEF AgentKicked, Typed, TypeOK, Key, AgentFields
<1>2. GqAdds("ret_kick", f)
  BY <1>1, GqSent, GamedMsgs, MsgKey, MailSame DEF AgentKicked, Typed, TypeOK
<1>3. UNCHANGED <<sockVars, gateVars, loginVars, taskVars, agentVars>>
  BY DEF AgentKicked
<1>4. f # None => Known(f)
  BY <1>1 DEF Good, Logins, LoginWaitsA, AqTakes, Known
<1>5. Quiet
  BY <1>1, <1>2, <1>3, MailKept DEF Quiet, GamedMoves, AgentMoves
<1>6. Logins'
  BY <1>1, <1>2, <1>3, <1>4, NoneAssumption, LoginsSame
  DEF Good, LoginsQuiet, GqAdds, AqTakes, GamedWaits, AgentWaits
<1> QED
  BY <1>5, <1>6, QuietStep DEF Good

LEMMA AgentDispatchGood ==
  ASSUME Typed, Typed', Keeps, Good, NEW a \in Agents, AgentDispatch(a)
  PROVE  Good'
<1> USE DEF sockVars, gateVars, loginVars, taskVars, agentVars
<1>1. PICK f : f = Key(Head(aq[a])) /\ AqTakes(a, "test_dispatch", f)
  BY AqReceived DEF AgentDispatch, Typed, TypeOK
<1>2. user_fd[a] \in Fds \cup {None}
  BY DEF Typed, TypeOK, AgentTypes
<1>3. GqAdds("cmd_gamed_kick", None)
  <2>1. CASE gq' = gq
    BY <2>1, MailSame
  <2>2. CASE ToGamed(Msg("cmd_gamed_kick", user_fd[a], None, a, None))
    <3>1. Msg("cmd_gamed_kick", user_fd[a], None, a, None) \in GamedMsg
      BY <1>2, GamedMsgs
    <3> QED
      BY <2>2, <3>1, GqSent, MsgKey DEF Typed, TypeOK
  <2> QED
    BY <2>1, <2>2 DEF AgentDispatch
<1>4. UNCHANGED <<sockVars, gateVars, loginVars, taskVars, agentVars>>
  BY DEF AgentDispatch
<1>5. Quiet
  BY <1>1, <1>3, <1>4, MailKept DEF Quiet, GamedMoves, AgentMoves
<1>6. Logins'
  BY <1>1, <1>3, <1>4, NoneAssumption, LoginsSame
  DEF Good, LoginsQuiet, GqAdds, AqTakes, GamedWaits, AgentWaits
<1> QED
  BY <1>5, <1>6, QuietStep DEF Good


-----------------------------------------------------------------------------
(* An agent opens, and closes.                                             *)

LEMMA AgentOpenGood ==
  ASSUME Typed, Typed', Keeps, Good, NEW a \in Agents, AgentOpen(a)
  PROVE  Good'
<1> USE DEF sockVars, gateVars, loginVars, taskVars
<1>1. PICK c \in Coroutines : c = Head(aq[a]).from /\ AqTakes(a, "cmd_agent_open", c)
  BY AqReceived DEF AgentOpen, Typed, TypeOK, Key, AgentFields
<1>2. /\ UNCHANGED <<sockVars, gateVars, loginVars, taskVars, gq, status, user_id, reg, akick, aclose>>
      /\ aopen'[a].pc = "load" /\ aopen'[a].from = c
      /\ \A b \in Agents \ {a} : aopen'[b] = aopen[b]
  BY <1>1 DEF AgentOpen, Typed, TypeOK, AgentTypes
<1>3. /\ fwd[c].pc = "open" /\ fwd[c].agent = a /\ ~Has(gq, "ret_open", c)
      /\ user_id[a] = None /\ ~reg[a]
      /\ ~Has(aq'[a], "cmd_agent_open", c)
  BY <1>1 DEF Good, Forwards, OpenSent, AqTakes
<1>4. ~Has(aq[a], "ret_gamed_close", None)
  BY <1>1 DEF Good, Lifecycle, Answers, AqTakes
<1>5. AqKeeps({"ret_gamed_close"})
  BY <1>1, MailKept
<1>6. Sockets' /\ Counted'
  BY <1>1, <1>2, MailKept, SocketsSame, CountedSame DEF Good
<1>7. Logins'
  BY <1>1, <1>2, LoginsSame DEF Good, LoginsQuiet, AqTakes, AgentWaits
<1>8. Forwards'
  <2>1. ForwardOne' /\ ForwardClose'
    BY <1>2 DEF Good, Forwards, ForwardOne, ForwardClose
  <2>2. OpenSent'
    <3> SUFFICES ASSUME NEW b \in Agents, NEW d \in Coroutines
                 PROVE  /\ Once(aq'[b], "cmd_agent_open", d)
                        /\ Has(aq'[b], "cmd_agent_open", d) =>
                             /\ fwd'[d].pc = "open" /\ fwd'[d].agent = b /\ ~Has(gq', "ret_open", d)
                             /\ aopen'[b].pc = "none" /\ user_id'[b] = None /\ ~reg'[b]
      BY DEF OpenSent
    <3>1. Once(aq'[b], "cmd_agent_open", d)
      BY <1>1 DEF Good, Forwards, OpenSent, AqTakes
    <3>2. ASSUME Has(aq'[b], "cmd_agent_open", d)
          PROVE  /\ fwd'[d].pc = "open" /\ fwd'[d].agent = b /\ ~Has(gq', "ret_open", d)
                 /\ aopen'[b].pc = "none" /\ user_id'[b] = None /\ ~reg'[b]
      <4>1. Has(aq[b], "cmd_agent_open", d)
        BY <1>1, <3>2 DEF AqTakes
      <4>2. /\ fwd[d].pc = "open" /\ fwd[d].agent = b /\ ~Has(gq, "ret_open", d)
            /\ aopen[b].pc = "none" /\ user_id[b] = None /\ ~reg[b]
        BY <4>1 DEF Good, Forwards, OpenSent
      <4>3. b # a
        BY <1>3, <3>2, <4>2 DEF Good, Forwards, ForwardOne
      <4> QED
        BY <1>2, <4>2, <4>3
    <3> QED
      BY <3>1, <3>2
  <2>3. OpenRuns'
    <3> SUFFICES ASSUME NEW b \in Agents, aopen'[b].pc # "none"
                 PROVE  LET d == aopen'[b].from IN
                        /\ d \in Coroutines
                        /\ fwd'[d].pc = "open" /\ fwd'[d].agent = b /\ ~Has(gq', "ret_open", d)
                        /\ ~Has(aq'[b], "ret_gamed_close", None)
                        /\ aopen'[b].pc = "load" => user_id'[b] = None
                        /\ aopen'[b].pc \in {"load", "reg"} => ~reg'[b]
      BY DEF OpenRuns
    <3>1. CASE b = a
      BY <1>2, <1>3, <1>4, <1>5, <3>1 DEF AqKeeps
    <3>2. CASE b # a
      BY <1>2, <1>5, <3>2 DEF AqKeeps, Good, Forwards, OpenRuns
    <3> QED
      BY <3>1, <3>2
  <2>4. OpenAnswered'
    BY <1>2, <1>5 DEF Good, Forwards, OpenAnswered, ForwardOne, AqKeeps
  <2> QED
    BY <2>1, <2>2, <2>3, <2>4 DEF Forwards
<1>9. Lifecycle'
  BY <1>1, <1>2, MailKept, LifecycleSame DEF Good
<1> QED
  BY <1>6, <1>7, <1>8, <1>9 DEF Good

\* While cmd_agent_open runs, the agent is opening and nothing else.
LEMMA OpeningAlone ==
  ASSUME Typed, Good, NEW a \in Agents, aopen[a].pc # "none"
  PROVE  \E c \in Coroutines :
           /\ c = aopen[a].from /\ fwd[c].pc = "open" /\ fwd[c].agent = a
           /\ ~Has(gq, "ret_open", c) /\ ~Has(aq[a], "ret_gamed_close", None)
           /\ \A d \in Coroutines : ~Has(aq[a], "cmd_agent_open", d)
           /\ \A b \in Agents : ~Has(aq[b], "cmd_agent_open", c)
           /\ \A b \in Agents \ {a} : aopen[b].pc # "none" => aopen[b].from # c
           /\ aclose[a].pc # "logout"
           /\ LifeAt(a, "opening")
<1>1. PICK c \in Coroutines :
        /\ c = aopen[a].from /\ fwd[c].pc = "open" /\ fwd[c].agent = a
        /\ ~Has(gq, "ret_open", c) /\ ~Has(aq[a], "ret_gamed_close", None)
  BY DEF Good, Forwards, OpenRuns
<1>2. \A d \in Coroutines : ~Has(aq[a], "cmd_agent_open", d)
  BY DEF Good, Forwards, OpenSent
<1>3. \A b \in Agents : ~Has(aq[b], "cmd_agent_open", c)
  BY <1>1, <1>2 DEF Good, Forwards, OpenSent
<1>4. \A b \in Agents \ {a} : aopen[b].pc # "none" => aopen[b].from # c
  BY <1>1 DEF Good, Forwards, OpenRuns
<1>5. PICK p \in Phases : LifeAt(a, p)
  BY DEF Good, Lifecycle, Lives
<1>6. p = "opening"
  BY <1>1, <1>5 DEF LifeAt, POpening
<1>7. aclose[a].pc # "logout"
  BY <1>5, <1>6 DEF LifeAt, PSaving
<1> QED
  BY <1>1, <1>2, <1>3, <1>4, <1>5, <1>6, <1>7

\* cmd_agent_open sets the user or registers the handlers.
LEMMA OpenSetsGood ==
  ASSUME Typed, Typed', Good, NEW a \in Agents, aopen[a].pc # "none",
         UNCHANGED <<sockVars, gateVars, loginVars, taskVars, gq, aq, status, akick, aclose>>,
         aopen'[a].from = aopen[a].from,
         (aopen'[a].pc = "reg" /\ ~reg'[a]) \/ aopen'[a].pc = "login",
         \A b \in Agents \ {a} : /\ aopen'[b] = aopen[b] /\ user_id'[b] = user_id[b]
                                 /\ reg'[b] = reg[b]
  PROVE  Good'
<1> USE DEF sockVars, gateVars, loginVars, taskVars
<1>1. PICK c \in Coroutines :
           /\ c = aopen[a].from /\ fwd[c].pc = "open" /\ fwd[c].agent = a
           /\ ~Has(gq, "ret_open", c) /\ ~Has(aq[a], "ret_gamed_close", None)
           /\ \A d \in Coroutines : ~Has(aq[a], "cmd_agent_open", d)
           /\ aclose[a].pc # "logout"
  BY OpeningAlone
<1>2. Sockets' /\ Counted'
  BY MailKept, SocketsSame, CountedSame DEF Good
<1>3. Logins'
  BY LoginsSame DEF Good, LoginsQuiet
<1>4. Forwards'
  <2>1. ForwardOne' /\ ForwardClose' /\ OpenAnswered'
    BY DEF Good, Forwards, ForwardOne, ForwardClose, OpenAnswered
  <2>2. OpenSent'
    BY <1>1 DEF Good, Forwards, OpenSent
  <2>3. OpenRuns'
    <3> SUFFICES ASSUME NEW b \in Agents, aopen'[b].pc # "none"
                 PROVE  LET d == aopen'[b].from IN
                        /\ d \in Coroutines
                        /\ fwd[d].pc = "open" /\ fwd[d].agent = b /\ ~Has(gq, "ret_open", d)
                        /\ ~Has(aq[b], "ret_gamed_close", None)
                        /\ aopen'[b].pc = "load" => user_id'[b] = None
                        /\ aopen'[b].pc \in {"load", "reg"} => ~reg'[b]
      BY DEF OpenRuns
    <3>1. CASE b = a
      BY <1>1, <3>1
    <3>2. CASE b # a
      BY <3>2 DEF Good, Forwards, OpenRuns
    <3> QED
      BY <3>1, <3>2
  <2> QED
    BY <2>1, <2>2, <2>3 DEF Forwards
<1>5. Lifecycle'
  <2>1. Reports' /\ Answers' /\ LoggedOut'
    BY <1>1 DEF Good, Lifecycle, Reports, Answers, LoggedOut
  <2>2. \A b \in Agents : SameLife(b)
    BY <1>1 DEF SameLife, Serves
  <2> QED
    BY <2>1, <2>2, SameLifeFact DEF Good, Lifecycle, Lives
<1> QED
  BY <1>2, <1>3, <1>4, <1>5 DEF Good

\* cmd_agent_open answers gamed, with or without success.
LEMMA OpenReturnsGood ==
  ASSUME Typed, Typed', Good, NEW a \in Agents, aopen[a].pc # "none",
         UNCHANGED <<sockVars, gateVars, loginVars, taskVars, aq, status, user_id, reg, akick, aclose>>,
         ToGamed(Msg("ret_open", None, aopen[a].from, None, None)),
         aopen' = [aopen EXCEPT ![a] = NoOpen]
  PROVE  Good'
<1> USE DEF sockVars, gateVars, loginVars, taskVars
<1>1. PICK c \in Coroutines :
           /\ c = aopen[a].from /\ fwd[c].pc = "open" /\ fwd[c].agent = a
           /\ ~Has(gq, "ret_open", c) /\ ~Has(aq[a], "ret_gamed_close", None)
           /\ \A b \in Agents : ~Has(aq[b], "cmd_agent_open", c)
           /\ \A b \in Agents \ {a} : aopen[b].pc # "none" => aopen[b].from # c
  BY OpeningAlone
<1>2. GqAdds("ret_open", c)
  BY <1>1, GqSent, GamedMsgs, MsgKey DEF Typed, TypeOK
<1>3. aopen'[a].pc = "none" /\ \A b \in Agents \ {a} : aopen'[b] = aopen[b]
  BY DEF Typed, TypeOK, AgentTypes, NoOpen
<1>4. Sockets' /\ Counted'
  BY <1>2, MailKept, SocketsSame, CountedSame DEF Good
<1>5. Logins'
  BY <1>2, LoginsSame DEF Good, LoginsQuiet, GqAdds, GamedWaits
<1>6. Forwards'
  <2>1. ForwardOne' /\ ForwardClose'
    BY DEF Good, Forwards, ForwardOne, ForwardClose
  <2>2. OpenSent'
    BY <1>1, <1>2, <1>3 DEF Good, Forwards, OpenSent, GqAdds
  <2>3. OpenRuns'
    BY <1>1, <1>2, <1>3 DEF Good, Forwards, OpenRuns, GqAdds
  <2>4. OpenAnswered'
    BY <1>1, <1>2 DEF Good, Forwards, OpenAnswered, GqAdds
  <2> QED
    BY <2>1, <2>2, <2>3, <2>4 DEF Forwards
<1>7. Lifecycle'
  BY <1>2, MailKept, LifecycleSame DEF Good
<1> QED
  BY <1>4, <1>5, <1>6, <1>7 DEF Good

LEMMA OpenLoadedGood ==
  ASSUME Typed, Typed', Keeps, Good, NEW a \in Agents, OpenLoaded(a)
  PROVE  Good'
<1> USE DEF sockVars, gateVars, loginVars, taskVars
<1>1. CASE gq' = gq /\ aopen' = [aopen EXCEPT ![a].pc = "reg"]
           /\ user_id' = [user_id EXCEPT ![a] = aopen[a].id]
  <2>1. aopen[a] \in OpenRec
    BY DEF Typed, TypeOK, AgentTypes
  <2>2. /\ aopen'[a].from = aopen[a].from /\ aopen'[a].pc = "reg"
        /\ \A b \in Agents \ {a} : aopen'[b] = aopen[b] /\ user_id'[b] = user_id[b]
    BY <1>1, <2>1 DEF Typed, TypeOK, AgentTypes, OpenRec
  <2>3. ~reg[a]
    BY DEF OpenLoaded, Good, Forwards, OpenRuns
  <2> QED
    BY <1>1, <2>2, <2>3, OpenSetsGood DEF OpenLoaded
<1>2. CASE RetNil(Msg("ret_open", None, aopen[a].from, None, None)) /\ UNCHANGED <<user_id, user_fd>>
           /\ aopen' = [aopen EXCEPT ![a] = NoOpen]
  BY <1>2, OpenReturnsGood DEF OpenLoaded, RetNil
<1> QED
  BY <1>1, <1>2 DEF OpenLoaded

LEMMA OpenRegisteredGood ==
  ASSUME Typed, Typed', Keeps, Good, NEW a \in Agents, OpenRegistered(a)
  PROVE  Good'
<1>1. aopen[a] \in OpenRec
  BY DEF Typed, TypeOK, AgentTypes
<1>2. /\ aopen'[a].from = aopen[a].from /\ aopen'[a].pc = "login"
      /\ \A b \in Agents \ {a} : aopen'[b] = aopen[b] /\ reg'[b] = reg[b]
  BY <1>1 DEF OpenRegistered, Typed, TypeOK, AgentTypes, OpenRec
<1> QED
  BY <1>2, OpenSetsGood DEF OpenRegistered

LEMMA OpenLoggedInGood ==
  ASSUME Typed, Typed', Keeps, Good, NEW a \in Agents, OpenLoggedIn(a)
  PROVE  Good'
BY OpenReturnsGood DEF OpenLoggedIn

\* An agent told to close: one call, of the one socket it served.
LEMMA AskedAlone ==
  ASSUME Typed, Good, NEW a \in Agents, NEW f \in Fds, Has(aq[a], "cmd_agent_close", f)
  PROVE  /\ closes[f] = "call" /\ Once(aq[a], "cmd_agent_close", f)
         /\ \A b \in Agents : Has(aq[b], "cmd_agent_close", f) => b = a
         /\ \A g \in Fds : Has(aq[a], "cmd_agent_close", g) => g = f
         /\ ~Has(gq, "ret_close", f)
         /\ \A b \in Agents : aclose[b].pc # "none" => aclose[b].fd # f
         /\ LifeAt(a, "asked")
<1>1. /\ closes[f] = "call" /\ Once(aq[a], "cmd_agent_close", f)
      /\ \A b \in Agents : Has(aq[b], "cmd_agent_close", f) => b = a
      /\ \A g \in Fds : Has(aq[a], "cmd_agent_close", g) => g = f
  BY DEF Good, Sockets, CallAsked
<1>2. ~Has(gq, "ret_close", f) /\ \A b \in Agents : aclose[b].pc # "none" => aclose[b].fd # f
  BY DEF Good, Sockets, CallRuns, CallAnswered
<1>3. PICK p \in Phases : LifeAt(a, p)
  BY DEF Good, Lifecycle, Lives
<1>4. p = "asked"
  BY <1>3 DEF LifeAt, PAsked
<1> QED
  BY <1>1, <1>2, <1>3, <1>4

LEMMA AgentCloseGood ==
  ASSUME Typed, Typed', Keeps, Good, NEW a \in Agents, AgentClose(a)
  PROVE  Good'
<1> USE DEF sockVars, gateVars, loginVars, taskVars
<1>1. PICK f \in Fds : f = Head(aq[a]).from /\ AqTakes(a, "cmd_agent_close", f)
  BY AqReceived DEF AgentClose, Typed, TypeOK, Key, AgentFields
<1>2. UNCHANGED <<sockVars, gateVars, loginVars, taskVars, status, user_id, reg, aopen, akick>>
  BY DEF AgentClose
<1>3. /\ closes[f] = "call" /\ Once(aq[a], "cmd_agent_close", f)
      /\ \A b \in Agents : Has(aq[b], "cmd_agent_close", f) => b = a
      /\ \A g \in Fds : Has(aq[a], "cmd_agent_close", g) => g = f
      /\ ~Has(gq, "ret_close", f)
      /\ \A b \in Agents : aclose[b].pc # "none" => aclose[b].fd # f
      /\ LifeAt(a, "asked")
  BY <1>1, AskedAlone DEF AqTakes
<1>4. /\ \A b \in Agents : ~Has(aq'[b], "cmd_agent_close", f)
      /\ \A g \in Fds : ~Has(aq'[a], "cmd_agent_close", g)
  BY <1>1, <1>3 DEF AqTakes
<1>5. /\ \/ aclose'[a].pc = "save" /\ aclose'[a].fd = f
         \/ aclose'[a] = aclose[a]
      /\ \A b \in Agents \ {a} : aclose'[b] = aclose[b]
  BY <1>1 DEF AgentClose, Typed, TypeOK, AgentTypes
<1>6. GqAdds("ret_close", f) /\ (gq' = gq \/ aclose' = aclose)
  <2>1. CASE gq' = gq
    BY <2>1, MailSame
  <2>2. CASE gq' # gq
    BY <1>1, <2>2, GqSent, GamedMsgs, MsgKey DEF AgentClose, RetNil, Typed, TypeOK
  <2> QED
    BY <2>1, <2>2
<1>7. Sockets'
  <2>1. SockOpens' /\ SockCloses' /\ SockHeld'
    BY <1>2, <1>6 DEF Good, Sockets, SockOpens, SockCloses, SockHeld, GqAdds
  <2>2. CallAsked'
    BY <1>1, <1>2 DEF Good, Sockets, CallAsked, AqTakes
  <2>3. CallRuns'
    <3> SUFFICES ASSUME NEW b \in Agents, aclose'[b].pc # "none"
                 PROVE  /\ aclose'[b].fd \in Fds /\ closes[aclose'[b].fd] = "call"
                        /\ \A d \in Agents : ~Has(aq'[d], "cmd_agent_close", aclose'[b].fd)
                        /\ \A d \in Agents : aclose'[d].pc # "none" /\ aclose'[d].fd = aclose'[b].fd
                             => b = d
      BY <1>2 DEF CallRuns
    <3>1. CASE b = a /\ aclose'[a] # aclose[a]
      BY <1>1, <1>3, <1>4, <1>5, <3>1
    <3>2. CASE aclose'[b] = aclose[b]
      BY <1>1, <1>3, <1>5, <3>2 DEF Good, Sockets, CallRuns, AqTakes
    <3> QED
      BY <1>5, <3>1, <3>2
  <2>4. CallAnswered'
    <3>1. ~Has(gq', "ret_close", None)
      BY <1>1, <1>6, NoneAssumption DEF Good, Sockets, CallAnswered, GqAdds
    <3>2. ASSUME NEW g \in Fds
          PROVE  Once(gq', "ret_close", g)
      BY <1>3, <1>6 DEF Good, Sockets, CallAnswered, GqAdds
    <3>3. ASSUME NEW g \in Fds, Has(gq', "ret_close", g)
          PROVE  /\ closes[g] = "call"
                 /\ \A b \in Agents : /\ ~Has(aq'[b], "cmd_agent_close", g)
                                      /\ aclose'[b].pc # "none" => aclose'[b].fd # g
      <4>1. CASE Has(gq, "ret_close", g)
        BY <1>1, <1>3, <1>5, <4>1 DEF Good, Sockets, CallAnswered, AqTakes
      <4>2. CASE ~Has(gq, "ret_close", g)
        <5>1. g = f /\ gq' # gq
          BY <1>6, <3>3, <4>2 DEF GqAdds
        <5> QED
          BY <1>3, <1>4, <1>6, <5>1
      <4> QED
        BY <4>1, <4>2
    <3> QED
      BY <1>2, <3>1, <3>2, <3>3 DEF CallAnswered
  <2> QED
    BY <2>1, <2>2, <2>3, <2>4 DEF Sockets
<1>8. Logins'
  BY <1>1, <1>2, <1>6, LoginsSame DEF Good, LoginsQuiet, GqAdds, AqTakes, GamedWaits, AgentWaits
<1>9. Forwards'
  BY <1>1, <1>2, <1>6, MailKept, ForwardsSame DEF Good
<1>10. Lifecycle'
  <2>1. Reports' /\ Answers' /\ LoggedOut'
    BY <1>1, <1>2, <1>5, <1>6 DEF Good, Lifecycle, Reports, Answers, LoggedOut, GqAdds, AqTakes
  <2>2. \A b \in Agents \ {a} : SameLife(b)
    BY <1>1, <1>2, <1>5, <1>6 DEF SameLife, Serves, GqAdds, AqTakes
  <2>3. CASE aclose'[a].pc = "save"
    <3>1. LifeAt(a, "saving")'
      BY <1>1, <1>2, <1>3, <1>4, <1>6, <2>3
      DEF LifeAt, PStatus, POpening, PServed, Serves, PAsked, PSaving, PReported, PPooling, PPooled,
          PExiting, PGamed, PAnswered, PUser, POnline, GqAdds, AqTakes
    <3> QED
      BY <1>1, <2>1, <2>2, <3>1, SameLifeFact DEF Good, Lifecycle, Lives, Phases
  <2>4. CASE aclose'[a] = aclose[a]
    <3>1. LifeAt(a, "served")'
      BY <1>1, <1>2, <1>3, <1>4, <1>6, <2>4
      DEF LifeAt, PStatus, POpening, PServed, Serves, PAsked, PSaving, PReported, PPooling, PPooled,
          PExiting, PGamed, PAnswered, PUser, POnline, GqAdds, AqTakes
    <3> QED
      BY <1>1, <2>1, <2>2, <3>1, SameLifeFact DEF Good, Lifecycle, Lives, Phases
  <2> QED
    BY <1>5, <2>3, <2>4
<1> QED
  BY <1>2, <1>7, <1>8, <1>9, <1>10, CountedSame DEF Good

LEMMA CloseSavedGood ==
  ASSUME Typed, Typed', Keeps, Good, NEW a \in Agents, CloseSaved(a)
  PROVE  Good'
<1> USE DEF sockVars, gateVars, loginVars, taskVars
<1>1. /\ UNCHANGED <<sockVars, gateVars, loginVars, taskVars, gq, aq, status, aopen, akick>>
      /\ aclose[a].pc = "save" /\ aclose'[a].pc = "logout" /\ aclose'[a].fd = aclose[a].fd
      /\ user_id'[a] = None /\ ~reg'[a]
      /\ \A b \in Agents \ {a} : /\ aclose'[b] = aclose[b] /\ user_id'[b] = user_id[b]
                                 /\ reg'[b] = reg[b]
  <2>1. aclose[a] \in CloseRec
    BY DEF Typed, TypeOK, AgentTypes
  <2> QED
    BY <2>1 DEF CloseSaved, Unregister, Typed, TypeOK, AgentTypes, CloseRec
<1>2. LifeAt(a, "saving")
  <2>1. PICK p \in Phases : LifeAt(a, p)
    BY DEF Good, Lifecycle, Lives
  <2>2. p = "saving"
    BY <1>1, <2>1 DEF LifeAt, PSaving
  <2> QED
    BY <2>1, <2>2
<1>3. Sockets'
  <2>1. SockOpens' /\ SockCloses' /\ SockHeld' /\ CallAsked'
    BY <1>1 DEF Good, Sockets, SockOpens, SockCloses, SockHeld, CallAsked
  <2>2. \A b \in Agents : /\ aclose'[b].fd = aclose[b].fd
                          /\ aclose'[b].pc # "none" => aclose[b].pc # "none"
    BY <1>1
  <2>3. CallRuns'
    BY <1>1, <2>2 DEF Good, Sockets, CallRuns
  <2>4. CallAnswered'
    BY <1>1, <2>2 DEF Good, Sockets, CallAnswered
  <2> QED
    BY <2>1, <2>3, <2>4 DEF Sockets
<1>4. Logins'
  BY <1>1, LoginsSame DEF Good, LoginsQuiet
<1>5. Forwards'
  <2>1. ForwardOne' /\ ForwardClose' /\ OpenAnswered'
    BY <1>1 DEF Good, Forwards, ForwardOne, ForwardClose, OpenAnswered
  <2>2. OpenSent' /\ OpenRuns'
    BY <1>1 DEF Good, Forwards, OpenSent, OpenRuns
  <2> QED
    BY <2>1, <2>2 DEF Forwards
<1>6. Lifecycle'
  <2>1. Reports' /\ Answers' /\ LoggedOut'
    BY <1>1 DEF Good, Lifecycle, Reports, Answers, LoggedOut
  <2>2. \A b \in Agents \ {a} : SameLife(b)
    BY <1>1 DEF SameLife, Serves
  <2>3. LifeAt(a, "saving")'
    BY <1>1, <1>2
    DEF LifeAt, PStatus, POpening, PServed, Serves, PAsked, PSaving, PReported, PPooling, PPooled,
        PExiting, PGamed, PAnswered, PUser, POnline
  <2> QED
    BY <2>1, <2>2, <2>3, SameLifeFact DEF Good, Lifecycle, Lives, Phases
<1> QED
  BY <1>1, <1>3, <1>4, <1>5, <1>6, CountedSame DEF Good

LEMMA CloseReportedGood ==
  ASSUME Typed, Typed', Keeps, Good, NEW a \in Agents, CloseReported(a)
  PROVE  Good'
<1> USE DEF sockVars, gateVars, loginVars, taskVars
<1>1. /\ UNCHANGED <<sockVars, gateVars, loginVars, taskVars, aq, status, user_id, reg, aopen, akick>>
      /\ aclose[a].pc = "logout" /\ aclose'[a].pc = "gamed" /\ aclose'[a].fd = aclose[a].fd
      /\ \A b \in Agents \ {a} : aclose'[b] = aclose[b]
  <2>1. aclose[a] \in CloseRec
    BY DEF Typed, TypeOK, AgentTypes
  <2> QED
    BY <2>1 DEF CloseReported, Typed, TypeOK, AgentTypes, CloseRec
<1>2. GqAdds("cmd_gamed_close", a)
  <2>1. Msg("cmd_gamed_close", None, None, a, aclose[a].id) \in GamedMsg
    BY <1>1, GamedMsgs DEF Typed, Coherent, CohClose
  <2> QED
    BY <2>1, GqSent, MsgKey DEF CloseReported, Typed, TypeOK
<1>3. LifeAt(a, "saving") /\ user_id[a] = None /\ ~reg[a]
  <2>1. PICK p \in Phases : LifeAt(a, p)
    BY DEF Good, Lifecycle, Lives
  <2>2. p = "saving"
    BY <1>1, <2>1 DEF LifeAt, PSaving
  <2> QED
    BY <1>1, <2>1, <2>2 DEF Good, Lifecycle, LoggedOut
<1>4. Sockets'
  <2>1. SockOpens' /\ SockCloses' /\ SockHeld' /\ CallAsked'
    BY <1>1, <1>2 DEF Good, Sockets, SockOpens, SockCloses, SockHeld, CallAsked, GqAdds
  <2>2. \A b \in Agents : /\ aclose'[b].fd = aclose[b].fd
                          /\ aclose'[b].pc # "none" => aclose[b].pc # "none"
    BY <1>1
  <2>3. CallRuns'
    BY <1>1, <2>2 DEF Good, Sockets, CallRuns
  <2>4. CallAnswered'
    BY <1>1, <1>2, <2>2 DEF Good, Sockets, CallAnswered, GqAdds
  <2> QED
    BY <2>1, <2>3, <2>4 DEF Sockets
<1>5. Logins'
  BY <1>1, <1>2, LoginsSame DEF Good, LoginsQuiet, GqAdds, GamedWaits
<1>6. Forwards'
  BY <1>1, <1>2, MailKept, ForwardsSame DEF Good
<1>7. Lifecycle'
  <2>1. Reports'
    BY <1>2, <1>3 DEF Good, Lifecycle, Reports, LifeAt, PReported, GqAdds
  <2>2. Answers' /\ LoggedOut'
    BY <1>1 DEF Good, Lifecycle, Answers, LoggedOut
  <2>3. \A b \in Agents \ {a} : SameLife(b)
    BY <1>1, <1>2 DEF SameLife, Serves, GqAdds
  <2>4. LifeAt(a, "reported")'
    BY <1>1, <1>3
    DEF LifeAt, PStatus, POpening, PServed, Serves, PAsked, PSaving, PReported, PPooling, PPooled,
        PExiting, PGamed, PAnswered, PUser, POnline
  <2> QED
    BY <2>1, <2>2, <2>3, <2>4, SameLifeFact DEF Good, Lifecycle, Lives, Phases
<1> QED
  BY <1>1, <1>4, <1>5, <1>6, <1>7, CountedSame DEF Good

LEMMA AgentClosedGood ==
  ASSUME Typed, Typed', Keeps, Good, NEW a \in Agents, AgentClosed(a)
  PROVE  Good'
<1> USE DEF sockVars, gateVars, loginVars, taskVars
<1>1. AqTakes(a, "ret_gamed_close", None)
  <2>1. aq[a] \in Seq(AgentMsg) /\ aq[a] # <<>> /\ Head(aq[a]).cmd = "ret_gamed_close"
    BY DEF AgentClosed, Take, Typed, TypeOK, MailTypes
  <2>2. Head(aq[a]) \in AgentMsg
    BY <2>1
  <2>3. Key(Head(aq[a])) = None
    BY <2>1, <2>2 DEF AgentMsg, MsgSet, Key
  <2> QED
    BY <2>3, AqReceived DEF AgentClosed, Typed, TypeOK
<1>2. PICK p \in Phases : LifeAt(a, p)
  BY DEF Good, Lifecycle, Lives
<1>3. /\ p \in {"opening", "pooled", "exiting"} /\ aclose[a].pc = "gamed"
      /\ ~Has(aq'[a], "ret_gamed_close", None)
  BY <1>1, <1>2 DEF LifeAt, PAnswered, AqTakes, Good, Lifecycle, Answers
<1>4. PICK f \in Fds :
        /\ f = aclose[a].fd /\ closes[f] = "call"
        /\ \A b \in Agents : ~Has(aq[b], "cmd_agent_close", f)
        /\ \A b \in Agents : aclose[b].pc # "none" /\ aclose[b].fd = f => a = b
  BY <1>3 DEF Good, Sockets, CallRuns
<1>5. ~Has(gq, "ret_close", f)
  BY <1>3, <1>4 DEF Good, Sockets, CallAnswered
<1>6. GqAdds("ret_close", f)
  BY <1>4, GqSent, GamedMsgs, MsgKey DEF AgentClosed, Typed, TypeOK
<1>7. /\ UNCHANGED <<sockVars, gateVars, loginVars, taskVars, status, user_id, reg, aopen, akick>>
      /\ aclose'[a].pc = "none" /\ \A b \in Agents \ {a} : aclose'[b] = aclose[b]
  BY DEF AgentClosed, Typed, TypeOK, AgentTypes, NoClose
<1>8. AqKeeps({"cmd_agent_close"})
  BY <1>1, MailKept
<1>9. Sockets'
  <2>1. SockOpens' /\ SockCloses' /\ SockHeld'
    BY <1>6, <1>7 DEF Good, Sockets, SockOpens, SockCloses, SockHeld, GqAdds
  <2>2. CallAsked'
    BY <1>7, <1>8 DEF Good, Sockets, CallAsked, AqKeeps
  <2>3. CallRuns'
    BY <1>7, <1>8 DEF Good, Sockets, CallRuns, AqKeeps
  <2>4. CallAnswered'
    BY <1>4, <1>5, <1>6, <1>7, <1>8, NoneAssumption DEF Good, Sockets, CallAnswered, GqAdds, AqKeeps
  <2> QED
    BY <2>1, <2>2, <2>3, <2>4 DEF Sockets
<1>10. Logins'
  BY <1>1, <1>6, <1>7, LoginsSame DEF Good, LoginsQuiet, GqAdds, AqTakes, GamedWaits, AgentWaits
<1>11. Forwards'
  <2>1. ForwardOne' /\ ForwardClose'
    BY <1>7 DEF Good, Forwards, ForwardOne, ForwardClose
  <2>2. OpenSent'
    BY <1>1, <1>6, <1>7 DEF Good, Forwards, OpenSent, GqAdds, AqTakes
  <2>3. OpenRuns'
    BY <1>1, <1>6, <1>7 DEF Good, Forwards, OpenRuns, GqAdds, AqTakes
  <2>4. OpenAnswered'
    BY <1>1, <1>6, <1>7 DEF Good, Forwards, OpenAnswered, ForwardOne, GqAdds, AqTakes
  <2> QED
    BY <2>1, <2>2, <2>3, <2>4 DEF Forwards
<1>12. Lifecycle'
  <2>1. Reports' /\ Answers' /\ LoggedOut'
    BY <1>1, <1>6, <1>7 DEF Good, Lifecycle, Reports, Answers, LoggedOut, GqAdds, AqTakes
  <2>2. \A b \in Agents \ {a} : SameLife(b)
    BY <1>1, <1>6, <1>7 DEF SameLife, Serves, GqAdds, AqTakes
  <2>3. LifeAt(a, p)'
    BY <1>1, <1>2, <1>3, <1>6, <1>7
    DEF LifeAt, PStatus, POpening, PServed, Serves, PAsked, PSaving, PReported, PPooling, PPooled,
        PExiting, PGamed, PAnswered, PUser, POnline, GqAdds, AqTakes
  <2> QED
    BY <2>1, <2>2, <2>3, SameLifeFact DEF Good, Lifecycle, Lives
<1> QED
  BY <1>7, <1>9, <1>10, <1>11, <1>12, CountedSame DEF Good

\* An agent that exits has nothing under way; logins that wait for it fail.
LEMMA ExitingAlone ==
  ASSUME Typed, Good, NEW a \in Agents, Take(a, "self_exit")
  PROVE  /\ LifeAt(a, "exiting") /\ aclose[a].pc = "none"
         /\ ~Has(aq[a], "ret_gamed_close", None)
         /\ \A f \in Fds : ~Has(aq[a], "cmd_agent_close", f)
         /\ \A c \in Coroutines : /\ ~Has(aq[a], "cmd_agent_open", c)
                                  /\ ~(fwd[c].pc = "open" /\ fwd[c].agent = a)
<1>1. aq[a] \in Seq(AgentMsg) /\ aq[a] # <<>> /\ Head(aq[a]).cmd = "self_exit"
  BY DEF Take, Typed, TypeOK, MailTypes
<1>2. Key(Head(aq[a])) = None
  <2>1. Head(aq[a]) \in AgentMsg
    BY <1>1
  <2> QED
    BY <1>1, <2>1 DEF AgentMsg, MsgSet, Key
<1>3. Has(aq[a], "self_exit", None) /\ ~Has(aq[a], "ret_gamed_close", None)
  BY <1>1, <1>2, TailMail DEF Good, Lifecycle, Answers
<1>4. PICK p \in Phases : LifeAt(a, p)
  BY DEF Good, Lifecycle, Lives
<1>5. p = "exiting"
  BY <1>3, <1>4 DEF LifeAt, PExiting
<1>6. aclose[a].pc = "none"
  <2>1. aclose[a].pc \in {"none", "save", "logout", "gamed"}
    BY DEF Typed, TypeOK, AgentTypes, CloseRec
  <2> QED
    BY <1>3, <1>4, <1>5, <2>1 DEF LifeAt, PSaving, PGamed
<1>7. /\ \A f \in Fds : ~Has(aq[a], "cmd_agent_close", f)
      /\ \A c \in Coroutines : ~(fwd[c].pc = "open" /\ fwd[c].agent = a)
  BY <1>4, <1>5 DEF LifeAt, PAsked, POpening
<1>8. \A c \in Coroutines : ~Has(aq[a], "cmd_agent_open", c)
  BY <1>7 DEF Good, Forwards, OpenSent
<1> QED
  BY <1>3, <1>4, <1>5, <1>6, <1>7, <1>8

LEMMA SelfExitGood ==
  ASSUME Typed, Typed', Keeps, Good, NEW a \in Agents, SelfExit(a)
  PROVE  Good'
<1> USE DEF sockVars, gateVars, loginVars, taskVars
<1>1. /\ LifeAt(a, "exiting") /\ aclose[a].pc = "none"
      /\ ~Has(aq[a], "ret_gamed_close", None)
      /\ \A f \in Fds : ~Has(aq[a], "cmd_agent_close", f)
      /\ \A c \in Coroutines : /\ ~Has(aq[a], "cmd_agent_open", c)
                               /\ ~(fwd[c].pc = "open" /\ fwd[c].agent = a)
  BY ExitingAlone DEF SelfExit
<1>2. /\ UNCHANGED <<sockVars, gateVars, loginVars, kicks, closes, gclose, gq>>
      /\ UNCHANGED <<user_id, reg, aopen, aclose>>
      /\ status'[a] = "dead" /\ aq'[a] = <<>> /\ errs' = errs \cup Unanswered(a)
      /\ \A b \in Agents \ {a} : aq'[b] = aq[b] /\ akick'[b] = akick[b] /\ status'[b] = status[b]
      /\ \A f \in Fds : akick'[a][f] = "none"
  BY DEF SelfExit, Typed, TypeOK, AgentTypes, MailTypes
<1>3. \A cmd, x : ~Has(aq'[a], cmd, x) /\ Once(aq'[a], cmd, x) /\ Follows(aq'[a])
  BY <1>2 DEF Has, Once, Follows
<1>4. Sockets'
  <2>1. SockOpens' /\ SockCloses' /\ SockHeld'
    BY <1>2 DEF Good, Sockets, SockOpens, SockCloses, SockHeld
  <2>2. \A b \in Agents, f \in Fds :
          /\ Has(aq'[b], "cmd_agent_close", f) => Has(aq[b], "cmd_agent_close", f)
          /\ Once(aq[b], "cmd_agent_close", f) => Once(aq'[b], "cmd_agent_close", f)
    BY <1>2, <1>3
  <2>3. CallAsked'
    BY <1>2, <2>2 DEF Good, Sockets, CallAsked
  <2>4. CallRuns'
    BY <1>2, <2>2 DEF Good, Sockets, CallRuns
  <2>5. CallAnswered'
    BY <1>2, <2>2 DEF Good, Sockets, CallAnswered
  <2> QED
    BY <2>1, <2>3, <2>4, <2>5 DEF Sockets
<1>5. Logins'
  <2>1. \A f \in Unanswered(a) : f \in Fds /\ Known(f)
    BY DEF Unanswered, Known, Good, Logins, LoginIds
  <2> QED
    BY <1>2, <1>3, <2>1, LoginsSame DEF Good, LoginsQuiet
<1>6. Forwards'
  <2>1. ForwardOne' /\ ForwardClose'
    BY <1>2 DEF Good, Forwards, ForwardOne, ForwardClose
  <2>2. OpenSent'
    BY <1>2, <1>3 DEF Good, Forwards, OpenSent
  <2>3. OpenRuns'
    BY <1>2, <1>3 DEF Good, Forwards, OpenRuns
  <2>4. OpenAnswered'
    BY <1>1, <1>2, <1>3 DEF Good, Forwards, OpenAnswered, ForwardOne
  <2> QED
    BY <2>1, <2>2, <2>3, <2>4 DEF Forwards
<1>7. Lifecycle'
  <2>1. Reports' /\ Answers' /\ LoggedOut'
    BY <1>2, <1>3 DEF Good, Lifecycle, Reports, Answers, LoggedOut
  <2>2. \A b \in Agents \ {a} : SameLife(b)
    BY <1>2 DEF SameLife, Serves
  <2>3. LifeAt(a, "dead")'
    BY <1>1, <1>2, <1>3
    DEF LifeAt, PStatus, POpening, PServed, Serves, PAsked, PSaving, PReported, PPooling, PPooled,
        PExiting, PGamed, PAnswered, PUser, POnline
  <2> QED
    BY <2>1, <2>2, <2>3, SameLifeFact DEF Good, Lifecycle, Lives, Phases
<1> QED
  BY <1>2, <1>4, <1>5, <1>6, <1>7, CountedSame DEF Good

-----------------------------------------------------------------------------
(* forward_agent.                                                          *)

\* An agent that is handed out: one that newservice made, or the pooled one.
\* Nothing of an earlier open or user is left in it.
LEMMA FreshAlone ==
  ASSUME Typed, Good, NEW a \in Agents, NEW p \in {"unborn", "pooled"}, LifeAt(a, p)
  PROVE  /\ aopen[a].pc = "none" /\ user_id[a] = None /\ ~reg[a]
         /\ \A c \in Coroutines : /\ ~Has(aq[a], "cmd_agent_open", c)
                                  /\ ~(fwd[c].pc = "open" /\ fwd[c].agent = a)
         /\ a \in Coroutines => fwd[a].pc = "none"
<1>1. \A c \in Coroutines : ~(fwd[c].pc = "open" /\ fwd[c].agent = a)
  BY DEF LifeAt, POpening
<1>2. \A c \in Coroutines : ~Has(aq[a], "cmd_agent_open", c)
  BY <1>1 DEF Good, Forwards, OpenSent
<1>3. aopen[a].pc = "none"
  BY <1>1 DEF Good, Forwards, OpenRuns
<1>4. user_id[a] = None /\ ~reg[a]
  BY DEF LifeAt, PUser
<1>5. fwd[a].pc = "none"
  BY DEF LifeAt, PPooling, Good, Forwards, ForwardClose
<1> QED
  BY <1>1, <1>2, <1>3, <1>4, <1>5

\* Coroutine c opens agent a, which was fresh, for account i.
Opens(c, a, i) ==
  /\ fwd[c].pc # "open"
  /\ fwd'[c].pc = "open" /\ fwd'[c].agent = a /\ fwd'[c].id = i
  /\ \A d \in Coroutines \ {c} : fwd'[d] = fwd[d]
  /\ AqAdds(a, "cmd_agent_open", c)
  /\ acct'[a] = i /\ \A b \in Agents \ {a} : acct'[b] = acct[b]
  /\ UNCHANGED <<user_id, reg, aopen>>

LEMMA OpensForwards ==
  ASSUME Typed, Good, NEW c \in Coroutines, NEW a \in Agents, NEW i, Opens(c, a, i),
         NEW p \in {"unborn", "pooled"}, LifeAt(a, p), GqKeeps({"ret_open"}),
         ForwardClose'
  PROVE  Forwards'
<1>1. /\ aopen[a].pc = "none" /\ user_id[a] = None /\ ~reg[a]
      /\ \A d \in Coroutines : /\ ~Has(aq[a], "cmd_agent_open", d)
                               /\ ~(fwd[d].pc = "open" /\ fwd[d].agent = a)
  BY FreshAlone
<1>2. /\ ~Has(gq, "ret_open", c) /\ \A b \in Agents : ~Has(aq[b], "cmd_agent_open", c)
  BY DEF Opens, Good, Forwards, OpenSent, OpenAnswered
<1>3. ForwardOne'
  BY <1>1 DEF Opens, Good, Forwards, ForwardOne
<1>4. OpenSent'
  <2> SUFFICES ASSUME NEW b \in Agents, NEW d \in Coroutines
               PROVE  /\ Once(aq'[b], "cmd_agent_open", d)
                      /\ Has(aq'[b], "cmd_agent_open", d) =>
                           /\ fwd'[d].pc = "open" /\ fwd'[d].agent = b /\ ~Has(gq', "ret_open", d)
                           /\ aopen'[b].pc = "none" /\ user_id'[b] = None /\ ~reg'[b]
    BY DEF OpenSent
  <2>1. Once(aq'[b], "cmd_agent_open", d)
    BY <1>2 DEF Opens, Good, Forwards, OpenSent, AqAdds
  <2>2. ASSUME Has(aq'[b], "cmd_agent_open", d)
        PROVE  /\ fwd'[d].pc = "open" /\ fwd'[d].agent = b /\ ~Has(gq', "ret_open", d)
               /\ aopen'[b].pc = "none" /\ user_id'[b] = None /\ ~reg'[b]
    <3>1. CASE Has(aq[b], "cmd_agent_open", d)
      <4>1. d # c
        BY <1>2, <3>1
      <4> QED
        BY <3>1, <4>1 DEF Opens, Good, Forwards, OpenSent, GqKeeps
    <3>2. CASE ~Has(aq[b], "cmd_agent_open", d)
      <4>1. b = a /\ d = c
        BY <2>2, <3>2 DEF Opens, AqAdds
      <4> QED
        BY <1>1, <1>2, <4>1 DEF Opens, GqKeeps
    <3> QED
      BY <3>1, <3>2
  <2> QED
    BY <2>1, <2>2
<1>5. AqKeeps({"ret_gamed_close"})
  BY MailKept DEF Opens
<1>6. OpenRuns'
  <2>1. \A b \in Agents : aopen[b].pc # "none" => aopen[b].from # c
    BY DEF Opens, Good, Forwards, OpenRuns
  <2> QED
    BY <1>5, <2>1 DEF Opens, Good, Forwards, OpenRuns, GqKeeps, AqKeeps
<1>7. OpenAnswered'
  BY <1>2, <1>5 DEF Opens, Good, Forwards, OpenAnswered, ForwardOne, GqKeeps, AqKeeps
<1> QED
  BY <1>3, <1>4, <1>6, <1>7 DEF Forwards

LEMMA CreateAgentGood ==
  ASSUME Typed, Typed', Keeps, Good, NEW c \in Coroutines, NEW a \in Agents, CreateAgent(c, a)
  PROVE  Good'
<1> USE DEF sockVars, gateVars, taskVars
<1>1. PICK i \in Ids, f \in Fds : i = fwd[c].id /\ f = fwd[c].fd
  BY DEF CreateAgent, Typed, Coherent, CohForward
<1>2. LifeAt(a, "unborn")
  <2>1. PICK p \in Phases : LifeAt(a, p)
    BY DEF Good, Lifecycle, Lives
  <2>2. p = "unborn"
    BY <2>1 DEF CreateAgent, LifeAt, PStatus
  <2> QED
    BY <2>1, <2>2
<1>3. /\ aopen[a].pc = "none" /\ user_id[a] = None /\ ~reg[a] /\ fwd[a].pc = "none"
      /\ \A d \in Coroutines : ~(fwd[d].pc = "open" /\ fwd[d].agent = a)
  BY <1>2, FreshAlone DEF Coroutines
<1>4. /\ UNCHANGED <<sockVars, gateVars, clear_pool, taskVars, gq>>
      /\ UNCHANGED <<user_id, reg, aopen, akick, aclose>>
      /\ status'[a] = "live" /\ \A b \in Agents \ {a} : status'[b] = status[b]
      /\ acct'[a] = i /\ \A b \in Agents \ {a} : acct'[b] = acct[b]
      /\ online_account'[i].agent = a /\ ~online_account'[i].isKick
      /\ \A j \in Ids \ {i} : online_account'[j] = online_account[j]
  BY <1>1 DEF CreateAgent, OnlineRecord, Typed, TypeOK, LoginTypes, AgentTypes
<1>5. /\ fwd[c].pc = "create" /\ fwd'[c].pc = "open" /\ fwd'[c].agent = a
      /\ fwd'[c].id = i /\ fwd'[c].fd = f
      /\ \A d \in Coroutines \ {c} : fwd'[d] = fwd[d]
  <2>1. fwd[c] \in ForwardRec
    BY DEF Typed, TypeOK, LoginTypes
  <2> QED
    BY <1>1, <2>1 DEF CreateAgent, Typed, TypeOK, LoginTypes, ForwardRec
<1>6. AqAdds(a, "cmd_agent_open", c)
  <2>1. Msg("cmd_agent_open", f, c, None, i) \in AgentMsg
    BY AgentMsgs
  <2>2. \A b \in Agents :
          aq'[b] = aq[b] \/ (b = a /\ aq'[b] = Append(aq[b], Msg("cmd_agent_open", f, c, None, i)))
    BY <1>1 DEF CreateAgent, Typed, TypeOK, MailTypes
  <2>3. AqAdds(a, Msg("cmd_agent_open", f, c, None, i).cmd, Key(Msg("cmd_agent_open", f, c, None, i)))
    BY <2>1, <2>2, AqAppended DEF Typed, TypeOK
  <2> QED
    BY <2>3, MsgKey
<1>7. \A g \in Fds : ses'[g].id = ses[g].id /\ ses'[g].pc = ses[g].pc
  <2>1. \A g \in Fds : ses[g] \in LoginRec
    BY DEF Typed, TypeOK, LoginTypes
  <2> QED
    BY <1>1, <2>1 DEF CreateAgent, Detach, LoginRec
<1>8. \A b \in Agents : fwd[b].pc # "none" => b # a /\ fwd[b].id = acct[b]
  BY <1>3 DEF Good, Forwards, ForwardClose
<1>9. Sockets' /\ Counted'
  BY <1>4, <1>6, MailKept, SocketsSame, CountedSame DEF Good
<1>10. Logins'
  <2>1. \A g \in Fds : cagent[g] # a
    BY NoneAssumption DEF Keeps, KeepsBorn, CreateAgent, Good, Logins, LoginBound
  <2>2. \A g \in Fds : cagent[g] # None => cagent[g] \in Agents
    BY DEF Typed, TypeOK, GateTypes
  <2> QED
    BY <1>1, <1>4, <1>5, <1>6, <1>7, <2>1, <2>2, LoginsSame
    DEF Good, LoginsQuiet, AqAdds, AgentWaits
<1>11. Forwards'
  <2>1. ForwardClose'
    BY <1>1, <1>4, <1>5, <1>8 DEF Good, Forwards, ForwardClose, Coroutines
  <2>2. Opens(c, a, i)
    BY <1>4, <1>5, <1>6 DEF Opens
  <2>3. GqKeeps({"ret_open"})
    BY <1>4, MailKept
  <2> QED
    BY <1>2, <2>1, <2>2, <2>3, OpensForwards
<1>12. Lifecycle'
  <2>1. Reports' /\ Answers' /\ LoggedOut'
    BY <1>4, <1>6 DEF Good, Lifecycle, Reports, Answers, LoggedOut, AqAdds
  <2>2. ASSUME NEW b \in Agents \ {a}
        PROVE  SameLife(b)
    <3>1. ASSUME NEW j \in Ids, online_account'[j].agent = b
          PROVE  /\ online_account[j].agent = b
                 /\ fwd[b].pc = "create" => fwd'[b].pc = "create"
      <4>1. j # i /\ online_account[j].agent = b
        BY <1>4, <3>1
      <4>2. acct[b] = j
        BY <4>1, NoneAssumption DEF Keeps, KeepsOnline
      <4>3. b # c
        BY <1>1, <1>5, <1>8, <4>1, <4>2
      <4> QED
        BY <1>5, <4>1, <4>3 DEF Coroutines
    <3> QED
      BY <1>4, <1>5, <1>6, <3>1 DEF SameLife, Serves, AqAdds
  <2>3. LifeAt(a, "opening")'
    <3>1. PStatus(a, "opening")' /\ POpening(a, "opening")' /\ PUser(a, "opening")'
      BY <1>4 DEF PStatus, POpening, PUser
    <3>2. PServed(a, "opening")' /\ PSaving(a, "opening")' /\ PReported(a, "opening")'
      BY <1>2, <1>4 DEF LifeAt, PServed, Serves, PSaving, PReported
    <3>3. PPooling(a, "opening")' /\ PPooled(a, "opening")' /\ POnline(a, "opening")'
      BY <1>2, <1>4 DEF LifeAt, PPooling, PPooled, POnline
    <3>4. PAsked(a, "opening")' /\ PExiting(a, "opening")'
      BY <1>2, <1>6 DEF LifeAt, PAsked, PExiting, AqAdds
    <3>5. PGamed(a, "opening")' /\ PAnswered(a, "opening")'
      BY <1>2, <1>4, <1>6 DEF LifeAt, PGamed, PAnswered, AqAdds
    <3> QED
      BY <3>1, <3>2, <3>3, <3>4, <3>5 DEF LifeAt
  <2> QED
    BY <2>1, <2>2, <2>3, SameLifeFact DEF Good, Lifecycle, Lives, Phases
<1> QED
  BY <1>9, <1>10, <1>11, <1>12 DEF Good

\* cmd_agent_open answered: the agent serves the connection, if it is there.
LEMMA RetOpenGood ==
  ASSUME Typed, Typed', Keeps, Good, RetOpen
  PROVE  Good'
<1> USE DEF sockVars, agentVars
<1>1. PICK c \in Coroutines : c = Head(gq).from /\ GqTakes("ret_open", c)
  BY GqReceived DEF RetOpen, Typed, TypeOK, Key, GamedFields
<1>2. /\ fwd[c].pc = "open" /\ ~Has(aq[fwd[c].agent], "ret_gamed_close", None)
      /\ ~Has(gq', "ret_open", c)
  BY <1>1 DEF Good, Forwards, OpenAnswered, GqTakes
<1>3. PICK f \in Fds, i \in Ids : f = fwd[c].fd /\ i = fwd[c].id
  BY <1>2 DEF Typed, Coherent, CohForward
<1>4. PICK a \in Agents : a = fwd[c].agent /\ acct[a] = i
  BY <1>2, <1>3 DEF Good, Forwards, ForwardOne
<1>5. ses[f].id = i
  BY <1>2, <1>3 DEF Good, Logins, LoginForwards
<1>6. LifeAt(a, "opening")
  <2>1. PICK p \in Phases : LifeAt(a, p)
    BY DEF Good, Lifecycle, Lives
  <2>2. p = "opening"
    BY <1>2, <1>4, <2>1 DEF LifeAt, POpening
  <2> QED
    BY <2>1, <2>2
<1>7. /\ UNCHANGED <<sockVars, connection, nclient, online_account, clear_pool, acct>>
      /\ UNCHANGED <<kicks, closes, errs, aq, agentVars>>
      /\ cagent'[f] = IF connection[f] THEN a ELSE cagent[f]
      /\ \A g \in Fds \ {f} : cagent'[g] = cagent[g] /\ pending_msg'[g] = pending_msg[g]
      /\ fwd'[c].pc = "none" /\ \A d \in Coroutines \ {c} : fwd'[d] = fwd[d]
  BY <1>1, <1>3, <1>4 DEF RetOpen, Bound, NoForward, Typed, TypeOK, GateTypes, LoginTypes
<1>8. /\ ses'[f].pc = "done" /\ ses'[f].id = ses[f].id /\ \A g \in Fds \ {f} : ses'[g] = ses[g]
  <2>1. ses[f] \in LoginRec
    BY DEF Typed, TypeOK, LoginTypes
  <2> QED
    BY <1>1, <1>3, <2>1 DEF RetOpen, Typed, TypeOK, LoginTypes, LoginRec
<1>9. /\ \A b \in Agents \ {c} : gclose'[b] = gclose[b]
      /\ c \in Agents => gclose'[c].id = gclose[c].id /\ gclose[c].pc = "forward"
  <2>1. \A b \in Agents : gclose[b] \in GcloseRec
    BY DEF Typed, TypeOK, TaskTypes
  <2>2. c \in Agents => gclose[c].pc = "forward"
    BY <1>2 DEF Good, Forwards, ForwardClose
  <2> QED
    BY <1>1, <2>1, <2>2 DEF RetOpen, Typed, TypeOK, TaskTypes, GcloseRec
<1>10. Sockets'
  <2>1. SockOpens' /\ SockCloses'
    BY <1>1, <1>7 DEF Good, Sockets, SockOpens, SockCloses, GqTakes
  <2>2. SockHeld'
    BY <1>7 DEF Good, Sockets, SockHeld
  <2>3. CallAsked' /\ CallRuns'
    BY <1>7 DEF Good, Sockets, CallAsked, CallRuns
  <2>4. CallAnswered'
    BY <1>1, <1>7 DEF Good, Sockets, CallAnswered, GqTakes
  <2> QED
    BY <2>1, <2>2, <2>3, <2>4 DEF Sockets
<1>11. Logins'
  <2>1. Known(f)
    BY <1>5, NoneAssumption DEF Known
  <2>2. \A g \in Fds : connection'[g] /\ cagent'[g] = None /\ pending_msg'[g] < 0
                         => connection[g] /\ cagent[g] = None /\ pending_msg[g] < 0
    BY <1>7, NoneAssumption
  <2>3. \A g \in Fds : cagent'[g] # None =>
          \/ cagent[g] # None /\ acct'[cagent'[g]] = acct[cagent[g]]
          \/ ses[g].id \in Ids /\ ses[g].id = acct'[cagent'[g]]
    BY <1>4, <1>5, <1>7
  <2> QED
    BY <1>1, <1>7, <1>8, <2>1, <2>2, <2>3, LoginsSame DEF Good, LoginsQuiet, GqTakes, GamedWaits
<1>12. Forwards'
  <2>1. ForwardOne' /\ ForwardClose'
    BY <1>7, <1>9 DEF Good, Forwards, ForwardOne, ForwardClose, Coroutines
  <2>2. OpenSent'
    BY <1>1, <1>7 DEF Good, Forwards, OpenSent, GqTakes
  <2>3. OpenRuns'
    BY <1>1, <1>7 DEF Good, Forwards, OpenRuns, GqTakes
  <2>4. OpenAnswered'
    BY <1>1, <1>2, <1>7 DEF Good, Forwards, OpenAnswered, GqTakes
  <2> QED
    BY <2>1, <2>2, <2>3, <2>4 DEF Forwards
<1>13. Lifecycle'
  <2>1. Reports' /\ Answers' /\ LoggedOut'
    BY <1>1, <1>7 DEF Good, Lifecycle, Reports, Answers, LoggedOut, GqTakes
  <2>2. ASSUME NEW b \in Agents \ {a}
        PROVE  SameLife(b)
    <3>1. gclose'[b].pc # "none" => gclose[b].pc # "none" /\ gclose'[b].id = gclose[b].id
      BY <1>9
    <3>2. fwd[b].pc = "create" => fwd'[b].pc = "create"
      BY <1>2, <1>7 DEF Coroutines
    <3> QED
      BY <1>1, <1>7, <3>1, <3>2 DEF SameLife, Serves, GqTakes
  <2>3. gclose'[a].pc # "none" => gclose[a].pc # "none"
    BY <1>9
  <2>4. PServed(a, "served")'
    BY <1>6, <1>7 DEF LifeAt, PServed, Serves
  <2>5. POpening(a, "served")'
    BY <1>2, <1>4, <1>7 DEF Good, Forwards, ForwardOne, POpening
  <2>6. LifeAt(a, "served")'
    BY <1>1, <1>2, <1>4, <1>6, <1>7, <2>3, <2>4, <2>5
    DEF LifeAt, PStatus, PAsked, PSaving, PReported, PPooling, PPooled,
        PExiting, PGamed, PAnswered, PUser, POnline, GqTakes
  <2> QED
    BY <2>1, <2>2, <2>6, SameLifeFact DEF Good, Lifecycle, Lives, Phases
<1> QED
  BY <1>7, <1>10, <1>11, <1>12, <1>13, CountedSame DEF Good

\* An agent in the pool is in no other place, and in one slot of it.
LEMMA PooledAlone ==
  ASSUME Typed, Keeps, Good, NEW i \in Ids, NEW a \in Agents, clear_pool[i] = a
  PROVE  LifeAt(a, "pooled") /\ acct[a] = i /\ \A j \in Ids : clear_pool[j] = a => j = i
<1>1. PICK p \in Phases : LifeAt(a, p)
  BY DEF Good, Lifecycle, Lives
<1>2. p = "pooled"
  BY <1>1 DEF LifeAt, PPooled
<1>3. acct[a] = i /\ \A j \in Ids : clear_pool[j] = a => j = i
  BY NoneAssumption DEF Keeps, KeepsPool
<1> QED
  BY <1>1, <1>2, <1>3

\* What forward_agent does before its first yield.
Forwarded(c, f, i) ==
  /\ fwd'[c].pc # "none" /\ fwd'[c].fd = f /\ fwd'[c].id = i
  /\ \A d \in Coroutines \ {c} : fwd'[d] = fwd[d]
  /\ \A j \in Ids : clear_pool'[j] # None => j # i /\ clear_pool'[j] = clear_pool[j]
  /\ \/ UNCHANGED <<online_account, aq>> /\ fwd'[c].pc = "create"
     \/ \E a \in Agents :
          /\ clear_pool[i] = a /\ fwd'[c].pc = "open" /\ fwd'[c].agent = a
          /\ online_account'[i].agent = a /\ ~online_account'[i].isKick
          /\ \A j \in Ids \ {i} : online_account'[j] = online_account[j]
          /\ AqAdds(a, "cmd_agent_open", c)

LEMMA ForwardFact ==
  ASSUME Typed, NEW c \in Coroutines, NEW f \in Fds, NEW i \in Ids,
         NEW s \in [Fds -> LoginRec], ForwardAgent(c, f, i, s)
  PROVE  Forwarded(c, f, i) /\ \A g \in Fds : ses'[g].id = s[g].id /\ ses'[g].pc = s[g].pc
<1>1. \A g \in Fds : ses'[g].id = s[g].id /\ ses'[g].pc = s[g].pc
  <2>1. \A g \in Fds : s[g] \in LoginRec
    OBVIOUS
  <2> QED
    BY <2>1 DEF ForwardAgent, Detach, LoginRec
<1>2. /\ fwd'[c].pc = (IF clear_pool[i] = None THEN "create" ELSE "open")
      /\ fwd'[c].fd = f /\ fwd'[c].id = i /\ fwd'[c].agent = clear_pool[i]
      /\ \A d \in Coroutines \ {c} : fwd'[d] = fwd[d]
      /\ \A j \in Ids : clear_pool'[j] # None => j # i /\ clear_pool'[j] = clear_pool[j]
  BY DEF ForwardAgent, Pooled, LeavePool, Typed, TypeOK, LoginTypes
<1>3. CASE clear_pool[i] = None
  BY <1>1, <1>2, <1>3 DEF ForwardAgent, Pooled, Forwarded
<1>4. CASE clear_pool[i] # None
  <2>1. PICK a \in Agents : clear_pool[i] = a
    BY <1>4 DEF Typed, TypeOK, LoginTypes
  <2>2. /\ online_account'[i].agent = a /\ ~online_account'[i].isKick
        /\ \A j \in Ids \ {i} : online_account'[j] = online_account[j]
    BY <1>4, <2>1 DEF ForwardAgent, Pooled, OnlineRecord, Typed, TypeOK, LoginTypes
  <2>3. AqAdds(a, "cmd_agent_open", c)
    BY <1>4, <2>1, AqSent, AgentMsgs, MsgKey DEF ForwardAgent, Pooled, Typed, TypeOK
  <2> QED
    BY <1>1, <1>2, <1>4, <2>1, <2>2, <2>3 DEF Forwarded
<1> QED
  BY <1>3, <1>4

LEMMA ForwardLife ==
  ASSUME Typed, Keeps, Good, NEW c \in Coroutines, NEW f \in Fds, NEW i \in Ids,
         Forwarded(c, f, i), fwd[c].pc = "none",
         UNCHANGED <<cagent, closes, status, user_id, reg, aopen, aclose, acct>>,
         GqKeeps({"ret_open"}), GqKeeps({"cmd_gamed_close"}),
         \A b \in Agents \ {c} : gclose'[b] = gclose[b],
         c \in Agents => gclose'[c].pc = "forward" /\ acct[c] = i
  PROVE  /\ Forwards' /\ Answers'
         /\ \A b \in Agents \ {c} : \E p \in Phases : LifeAt(b, p)'
<1>1. ForwardClose'
  BY DEF Forwarded, Good, Forwards, ForwardClose, Coroutines
<1>2. CASE UNCHANGED <<online_account, aq>> /\ fwd'[c].pc = "create"
  <2>1. Forwards'
    <3>1. ForwardOne'
      BY <1>2 DEF Forwarded, Good, Forwards, ForwardOne
    <3>2. OpenSent'
      BY <1>2 DEF Forwarded, Good, Forwards, OpenSent, GqKeeps
    <3>3. OpenRuns'
      BY <1>2 DEF Forwarded, Good, Forwards, OpenRuns, GqKeeps
    <3>4. OpenAnswered'
      BY <1>2 DEF Forwarded, Good, Forwards, OpenAnswered, GqKeeps
    <3> QED
      BY <1>1, <3>1, <3>2, <3>3, <3>4 DEF Forwards
  <2>2. Answers'
    BY <1>2 DEF Good, Lifecycle, Answers
  <2>3. ASSUME NEW b \in Agents \ {c}
        PROVE  SameLife(b)
    <3>1. \A j \in Ids : clear_pool'[j] = b => clear_pool[j] = b
      BY NoneAssumption DEF Forwarded
    <3> QED
      BY <1>2, <3>1 DEF Forwarded, SameLife, Serves, GqKeeps, Coroutines
  <2> QED
    BY <2>1, <2>2, <2>3, SameLifeFact DEF Good, Lifecycle, Lives
<1>3. ASSUME NEW a \in Agents,
             clear_pool[i] = a, fwd'[c].pc = "open", fwd'[c].agent = a,
             online_account'[i].agent = a,
             \A j \in Ids \ {i} : online_account'[j] = online_account[j],
             AqAdds(a, "cmd_agent_open", c)
      PROVE  /\ Forwards' /\ Answers'
             /\ \A b \in Agents \ {c} : \E p \in Phases : LifeAt(b, p)'
  <2>1. LifeAt(a, "pooled") /\ acct[a] = i /\ \A j \in Ids : clear_pool[j] = a => j = i
    BY <1>3, PooledAlone
  <2>2. Opens(c, a, i)
    BY <1>3, <2>1 DEF Opens, Forwarded
  <2>3. Forwards'
    BY <1>1, <2>1, <2>2, OpensForwards
  <2>4. Answers'
    BY <1>3 DEF Good, Lifecycle, Answers, AqAdds
  <2>5. ASSUME NEW b \in Agents \ {c}, b # a
        PROVE  SameLife(b)
    <3>1. \A j \in Ids : clear_pool'[j] = b => clear_pool[j] = b
      BY NoneAssumption DEF Forwarded
    <3>2. \A j \in Ids : online_account'[j].agent = b => online_account[j].agent = b
      BY <1>3, <2>5
    <3> QED
      BY <1>3, <2>5, <3>1, <3>2 DEF Forwarded, SameLife, Serves, GqKeeps, AqAdds, Coroutines
  <2>6. ASSUME a # c
        PROVE  LifeAt(a, "opening")'
    <3>1. PStatus(a, "opening")' /\ POpening(a, "opening")' /\ PUser(a, "opening")'
      BY <2>1 DEF LifeAt, PStatus, POpening, PUser
    <3>2. PServed(a, "opening")' /\ PSaving(a, "opening")' /\ PReported(a, "opening")'
      BY <2>1 DEF LifeAt, PServed, Serves, PSaving, PReported, GqKeeps
    <3>3. PPooling(a, "opening")' /\ POnline(a, "opening")'
      BY <2>1, <2>6 DEF LifeAt, PPooling, POnline
    <3>4. PPooled(a, "opening")'
      BY <2>1, NoneAssumption DEF Forwarded, PPooled
    <3>5. PAsked(a, "opening")' /\ PExiting(a, "opening")'
      BY <1>3, <2>1 DEF LifeAt, PAsked, PExiting, AqAdds
    <3>6. PGamed(a, "opening")' /\ PAnswered(a, "opening")'
      BY <1>3, <2>1 DEF LifeAt, PGamed, PAnswered, AqAdds
    <3> QED
      BY <3>1, <3>2, <3>3, <3>4, <3>5, <3>6 DEF LifeAt
  <2>7. \A b \in Agents \ {c} : \E p \in Phases : LifeAt(b, p)'
    BY <2>5, <2>6, SameLifeFact DEF Good, Lifecycle, Lives, Phases
  <2> QED
    BY <2>3, <2>4, <2>7
<1> QED
  BY <1>2, <1>3 DEF Forwarded

\* A login learns its account.
LEMMA LoginStarts ==
  ASSUME Typed, Typed', Good, NEW f \in Fds, NEW i \in Ids,
         ses[f].pc = "auth", ses'[f].pc \in {"other", "forward"}, ses'[f].id = i,
         \A g \in Fds \ {f} : ses'[g].id = ses[g].id /\ ses'[g].pc = ses[g].pc,
         UNCHANGED <<sock, connection, cagent, pending_msg, acct, kicks, errs, gq, akick>>,
         \A c \in Coroutines : fwd'[c] = fwd[c] \/ (c = f /\ fwd'[c].fd = f /\ fwd'[c].id = i),
         \A j \in Ids : online_account'[j].isKick => online_account'[j] = online_account[j],
         \A b \in Agents, cmd \in AgentWaits, g \in Fds :
           Has(aq'[b], cmd, g) => Has(aq[b], cmd, g) \/ g = f
  PROVE  Logins'
<1>1. ses[f].id = None /\ i # None
  BY NoneAssumption DEF Good, Logins, LoginIds
<1>2. LoginIds'
  BY <1>1 DEF Good, Logins, LoginIds
<1>3. LoginFresh'
  BY DEF Good, Logins, LoginFresh
<1>4. LoginBound'
  BY <1>1, NoneAssumption DEF Good, Logins, LoginBound
<1>5. LoginForwards'
  <2>1. \A c \in Coroutines : fwd[c].pc # "none" => fwd[c].fd \in Fds /\ fwd[c].id \in Ids
    BY DEF Typed, Coherent, CohForward
  <2>2. \A c \in Coroutines : fwd[c].pc # "none" => fwd[c].fd # f
    BY <1>1, <2>1, NoneAssumption DEF Good, Logins, LoginForwards
  <2> QED
    BY <2>1, <2>2 DEF Good, Logins, LoginForwards
<1>6. LoginParked'
  <2>1. \A j \in Ids : online_account[j].isKick => online_account[j].fd \in Fds \ {f}
    BY <1>1, NoneAssumption DEF Typed, Coherent, CohKick, Good, Logins, LoginParked
  <2> QED
    BY <2>1 DEF Good, Logins, LoginParked
<1>7. \A g \in Fds : ses[g].id # None => ses'[g].id # None
  BY <1>1
<1>8. LoginWaitsG' /\ LoginWaitsA'
  BY <1>1, <1>7 DEF Good, Logins, LoginWaitsG, LoginWaitsA, AgentWaits
<1>9. LoginWaitsK'
  <2>1. (\A k \in kicks : k.from \in Fds \cup {None}) /\ errs \subseteq Fds
    BY DEF Typed, TypeOK, TaskTypes
  <2> QED
    BY <1>7, <2>1 DEF Good, Logins, LoginWaitsK
<1> QED
  BY <1>2, <1>3, <1>4, <1>5, <1>6, <1>8, <1>9 DEF Logins

LEMMA LoginHandlerGood ==
  ASSUME Typed, Typed', Keeps, Good, NEW f \in Fds, NEW i \in Ids, LoginHandler(f, i)
  PROVE  Good'
<1> USE DEF sockVars, gateVars, taskVars, agentVars
<1>1. /\ ses[f].pc = "auth" /\ ses[f] \in LoginRec
      /\ UNCHANGED <<sockVars, gateVars, acct, taskVars, gq, agentVars>>
  BY DEF LoginHandler, Typed, TypeOK, LoginTypes
<1>2. CASE online_account[i].agent # None
  <2>1. PICK a \in Agents : a = online_account[i].agent
    BY <1>2 DEF Typed, TypeOK, LoginTypes, AccountRec
  <2>2. AqAdds(a, "cmd_agent_other_login", f)
    BY <1>2, <2>1, AqSent, AgentMsgs, MsgKey DEF LoginHandler, Typed, TypeOK
  <2>3. /\ ses'[f].pc = "other" /\ ses'[f].id = i /\ \A g \in Fds \ {f} : ses'[g] = ses[g]
        /\ UNCHANGED <<fwd, online_account, clear_pool>>
    BY <1>2 DEF LoginHandler, Typed, TypeOK, LoginTypes
  <2>4. Quiet
    BY <1>1, <2>2, <2>3, MailKept DEF Quiet, AgentMoves
  <2>5. Logins'
    BY <1>1, <2>2, <2>3, LoginStarts DEF AqAdds
  <2> QED
    BY <2>4, <2>5, QuietStep DEF Good
<1>3. CASE online_account[i].agent = None
  <2> DEFINE s == [ses EXCEPT ![f] = [@ EXCEPT !.pc = "forward", !.id = i]]
  <2>1. ForwardAgent(f, f, i, s)
    BY <1>3 DEF LoginHandler
  <2>2. /\ s \in [Fds -> LoginRec] /\ s[f].pc = "forward" /\ s[f].id = i
        /\ \A g \in Fds \ {f} : s[g] = ses[g]
    BY <1>1 DEF Typed, TypeOK, LoginTypes, LoginRec, LoginPcs
  <2> HIDE DEF s
  <2>3. f \in Coroutines /\ f \notin Agents
    BY NamesAssumption DEF Coroutines
  <2>4. Forwarded(f, f, i) /\ \A g \in Fds : ses'[g].id = s[g].id /\ ses'[g].pc = s[g].pc
    BY <2>1, <2>2, <2>3, ForwardFact
  <2>5. fwd[f].pc = "none"
    <3>1. ses[f].id = None
      BY <1>1 DEF Good, Logins, LoginIds
    <3>2. ASSUME fwd[f].pc # "none" PROVE fwd[f].id = None /\ fwd[f].id \in Ids
      BY <2>3, <3>1, <3>2 DEF Good, Logins, LoginForwards, Typed, Coherent, CohForward
    <3> QED
      BY <3>2, NoneAssumption
  <2>6. \A a, b \in Agents, cmd \in AgentWaits : \A x :
          AqAdds(a, "cmd_agent_open", f) /\ Has(aq'[b], cmd, x) => Has(aq[b], cmd, x)
    BY DEF AqAdds, AgentWaits
  <2>7. Logins'
    <3>1. \A j \in Ids : online_account'[j].isKick => online_account'[j] = online_account[j]
      BY <2>4 DEF Forwarded
    <3>2. \A b \in Agents, cmd \in AgentWaits, g \in Fds : Has(aq'[b], cmd, g) => Has(aq[b], cmd, g)
      BY <2>4, <2>6 DEF Forwarded
    <3>3. \A c \in Coroutines : fwd'[c] = fwd[c] \/ (c = f /\ fwd'[c].fd = f /\ fwd'[c].id = i)
      BY <2>4 DEF Forwarded
    <3>4. /\ ses'[f].pc = "forward" /\ ses'[f].id = i
          /\ \A g \in Fds \ {f} : ses'[g].id = ses[g].id /\ ses'[g].pc = ses[g].pc
      BY <2>2, <2>4
    <3> QED
      BY <1>1, <3>1, <3>2, <3>3, <3>4, LoginStarts
  <2>8. AqKeeps({"cmd_agent_close"})
    BY <2>4, MailKept DEF Forwarded
  <2>9. Sockets' /\ Counted'
    BY <1>1, <2>8, MailKept, SocketsSame, CountedSame DEF Good
  <2>10. /\ Forwards' /\ Answers'
         /\ \A b \in Agents \ {f} : \E p \in Phases : LifeAt(b, p)'
    BY <1>1, <2>3, <2>4, <2>5, MailKept, ForwardLife
  <2>11. Reports' /\ LoggedOut'
    BY <1>1 DEF Good, Lifecycle, Reports, LoggedOut
  <2> QED
    BY <2>3, <2>7, <2>9, <2>10, <2>11 DEF Good, Lifecycle, Lives
<1> QED
  BY <1>2, <1>3

-----------------------------------------------------------------------------
(* cmd_gamed_close, and the pool.                                          *)

LEMMA GamedCloseGood ==
  ASSUME Typed, Typed', Keeps, Good, GamedClose
  PROVE  Good'
<1> USE DEF sockVars, gateVars, agentVars
<1>1. PICK a \in Agents : a = Head(gq).agent /\ GqTakes("cmd_gamed_close", a)
  BY GqReceived DEF GamedClose, Typed, TypeOK, Key, GamedFields
<1>2. PICK i \in Ids : i = Head(gq).id /\ acct[a] = i
  <2>1. gq \in Seq(GamedOK) /\ gq # <<>>
    BY DEF Keeps, KeepsGq, GamedClose, Receive
  <2>2. Head(gq) \in GamedOK /\ Head(gq).cmd = "cmd_gamed_close"
    BY <2>1 DEF GamedClose, Receive
  <2>3. Head(gq).id \in Ids
    BY <2>2, GamedMsgFields DEF GamedOK, GamedFields
  <2> QED
    BY <1>1, <2>2, <2>3 DEF GamedOK
<1>3. LifeAt(a, "reported") /\ aclose[a].pc = "gamed" /\ ~Has(gq', "cmd_gamed_close", a)
  <2>1. PICK p \in Phases : LifeAt(a, p)
    BY DEF Good, Lifecycle, Lives
  <2>2. p = "reported" /\ aclose[a].pc = "gamed"
    BY <1>1, <2>1 DEF LifeAt, PReported, GqTakes
  <2> QED
    BY <1>1, <2>1, <2>2 DEF GqTakes, Good, Lifecycle, Reports
<1>4. gclose[a].pc = "none" /\ fwd[a].pc = "none" /\ a \in Coroutines
  BY <1>3 DEF LifeAt, PPooling, Good, Forwards, ForwardClose, Coroutines
<1>5. UNCHANGED <<sockVars, gateVars, acct, kicks, closes, errs, agentVars>>
  BY DEF GamedClose
<1>6. \A j \in Ids : online_account[j].agent = a => j = i
  BY <1>2, NoneAssumption DEF Keeps, KeepsOnline
<1>7. gclose'[a].id = i /\ \A b \in Agents \ {a} : gclose'[b] = gclose[b]
  BY <1>1, <1>2 DEF GamedClose, Typed, TypeOK, TaskTypes
<1>8. Reports' /\ LoggedOut'
  BY <1>1, <1>5 DEF Good, Lifecycle, Reports, LoggedOut, GqTakes
\* The parts of its next phase that do not depend on the branch.
<1>9. /\ PStatus(a, "pooling")' /\ PServed(a, "pooling")' /\ PSaving(a, "pooling")'
      /\ PReported(a, "pooling")' /\ PPooling(a, "pooling")' /\ PUser(a, "pooling")'
      /\ PGamed(a, "pooling")'
  BY <1>2, <1>3, <1>5, <1>7
  DEF LifeAt, PStatus, PServed, Serves, PSaving, PReported, PPooling, PUser, PGamed
<1>10. CASE GamedCloseForwards
  <2>1. PICK f \in Fds : f = online_account[i].fd /\ ses[f].id = i
    BY <1>2, <1>10 DEF GamedCloseForwards, Typed, Coherent, CohKick, Good, Logins, LoginParked
  <2> DEFINE s == [ses EXCEPT ![f].pc = "forward"]
  <2>2. ForwardAgent(a, f, i, s) /\ gclose'[a].pc = "forward"
    BY <1>1, <1>2, <1>10, <2>1 DEF GamedClose, GamedCloseForwards, Typed, TypeOK, TaskTypes
  <2>3. /\ s \in [Fds -> LoginRec] /\ s[f].pc = "forward" /\ s[f].id = i
        /\ \A g \in Fds \ {f} : s[g] = ses[g]
    <3>1. ses[f] \in LoginRec
      BY DEF Typed, TypeOK, LoginTypes
    <3> QED
      BY <2>1, <3>1 DEF Typed, TypeOK, LoginTypes, LoginRec, LoginPcs
  <2> HIDE DEF s
  <2>4. Forwarded(a, f, i) /\ \A g \in Fds : ses'[g].id = s[g].id /\ ses'[g].pc = s[g].pc
    BY <1>4, <2>2, <2>3, ForwardFact
  <2>5. AqKeeps({"cmd_agent_close"}) /\ AqKeeps({"ret_gamed_close"}) /\ AqKeeps({"self_exit"})
        /\ AqKeeps(AgentWaits)
    BY <2>4, MailKept DEF Forwarded, AgentWaits
  <2>6. Sockets' /\ Counted'
    BY <1>1, <1>5, <2>5, MailKept, SocketsSame, CountedSame DEF Good
  <2>7. Logins'
    <3>1. Known(f)
      BY <2>1, NoneAssumption DEF Known
    <3>2. \A j \in Ids : online_account'[j].isKick => online_account'[j] = online_account[j]
      BY <2>4 DEF Forwarded
    <3>3. \A c \in Coroutines : fwd'[c].pc # "none" =>
            \/ fwd[c].pc # "none" /\ fwd'[c].fd = fwd[c].fd /\ fwd'[c].id = fwd[c].id
            \/ ses[fwd'[c].fd].id = fwd'[c].id /\ (c \in Fds => fwd'[c].fd = c)
      BY <2>1, <2>4, NamesAssumption DEF Forwarded
    <3> QED
      BY <1>1, <1>5, <2>1, <2>3, <2>4, <2>5, <3>1, <3>2, <3>3, LoginsSame
      DEF Good, LoginsQuiet, GqTakes, AqKeeps, GamedWaits
  <2>8. /\ Forwards' /\ Answers'
        /\ \A b \in Agents \ {a} : \E p \in Phases : LifeAt(b, p)'
    BY <1>1, <1>2, <1>4, <1>5, <1>7, <2>2, <2>4, MailKept, ForwardLife
  <2>9. LifeAt(a, "pooling")'
    <3>1. POpening(a, "pooling")'
      <4>1. \A c \in Coroutines : ~(fwd[c].pc = "open" /\ fwd[c].agent = a)
        BY <1>3 DEF LifeAt, POpening
      <4>2. clear_pool[i] # a
        BY <1>3 DEF LifeAt, PPooled
      <4> QED
        BY <2>4, <4>1, <4>2 DEF POpening, Forwarded
    <3>2. PPooled(a, "pooling")'
      BY <1>3, <2>4, NoneAssumption DEF LifeAt, PPooled, Forwarded
    <3>3. PAsked(a, "pooling")' /\ PExiting(a, "pooling")' /\ PAnswered(a, "pooling")'
      BY <1>3, <2>5 DEF LifeAt, PAsked, PExiting, PAnswered, AqKeeps
    <3>4. POnline(a, "pooling")'
      BY <1>3, <1>6, <2>4 DEF LifeAt, PPooled, POnline, Forwarded
    <3> QED
      BY <1>9, <3>1, <3>2, <3>3, <3>4 DEF LifeAt
  <2> QED
    BY <1>8, <2>6, <2>7, <2>8, <2>9 DEF Good, Lifecycle, Lives, Phases
<1>11. CASE ~GamedCloseForwards
  <2>1. /\ gclose'[a].pc = "pool" /\ UNCHANGED <<fwd, clear_pool, aq>>
        /\ online_account'[i].agent = None /\ ~online_account'[i].isKick
        /\ \A j \in Ids \ {i} : online_account'[j] = online_account[j]
    BY <1>1, <1>2, <1>11
    DEF GamedClose, GamedCloseForwards, NoAccount, Typed, TypeOK, TaskTypes, LoginTypes
  <2>2. \A g \in Fds : ses'[g].id = ses[g].id /\ ses'[g].pc = ses[g].pc
    <3>1. \A g \in Fds : ses[g] \in LoginRec
      BY DEF Typed, TypeOK, LoginTypes
    <3> QED
      BY <1>2, <1>11, <3>1 DEF GamedClose, GamedCloseForwards, Detach, LoginRec
  <2>3. Sockets' /\ Counted'
    BY <1>1, <1>5, <2>1, MailKept, SocketsSame, CountedSame DEF Good
  <2>4. Logins'
    BY <1>1, <1>5, <2>1, <2>2, LoginsSame DEF Good, LoginsQuiet, GqTakes, GamedWaits
  <2>5. Forwards'
    <3>1. ForwardOne'
      BY <1>5, <2>1 DEF Good, Forwards, ForwardOne
    <3>2. ForwardClose'
      BY <1>4, <1>5, <1>7, <2>1 DEF Good, Forwards, ForwardClose
    <3>3. OpenSent'
      BY <1>1, <1>5, <2>1 DEF Good, Forwards, OpenSent, GqTakes
    <3>4. OpenRuns'
      BY <1>1, <1>5, <2>1 DEF Good, Forwards, OpenRuns, GqTakes
    <3>5. OpenAnswered'
      BY <1>1, <1>5, <2>1 DEF Good, Forwards, OpenAnswered, GqTakes
    <3> QED
      BY <3>1, <3>2, <3>3, <3>4, <3>5 DEF Forwards
  <2>6. Answers'
    BY <2>1 DEF Good, Lifecycle, Answers
  <2>7. ASSUME NEW b \in Agents \ {a}
        PROVE  SameLife(b)
    <3>1. \A j \in Ids : online_account'[j].agent = b => online_account[j].agent = b
      BY <2>1, NoneAssumption
    <3> QED
      BY <1>1, <1>5, <1>7, <2>1, <3>1 DEF SameLife, Serves, GqTakes
  <2>8. LifeAt(a, "pooling")'
    <3>1. POpening(a, "pooling")' /\ PPooled(a, "pooling")' /\ PAsked(a, "pooling")'
      BY <1>3, <2>1 DEF LifeAt, POpening, PPooled, PAsked
    <3>2. PExiting(a, "pooling")' /\ PAnswered(a, "pooling")'
      BY <1>3, <2>1 DEF LifeAt, PExiting, PAnswered
    <3>3. POnline(a, "pooling")'
      BY <1>6, <2>1, NoneAssumption DEF POnline
    <3> QED
      BY <1>9, <3>1, <3>2, <3>3 DEF LifeAt
  <2> QED
    BY <1>8, <2>3, <2>4, <2>5, <2>6, <2>7, <2>8, SameLifeFact DEF Good, Lifecycle, Lives, Phases
<1> QED
  BY <1>10, <1>11

\* The only message an agent gets is self_exit.
Expelled(b) ==
  /\ \A cmd, x : Has(aq[b], cmd, x) => Has(aq'[b], cmd, x)
  /\ \A cmd, x : Has(aq'[b], cmd, x) => Has(aq[b], cmd, x) \/ (cmd = "self_exit" /\ x = None)
  /\ \A cmd, x : cmd # "self_exit" /\ Once(aq[b], cmd, x) => Once(aq'[b], cmd, x)
  /\ Follows(aq[b]) => Follows(aq'[b])

LEMMA ExpelSent ==
  ASSUME Typed, NEW b \in Agents,
         aq'[b] = aq[b] \/ aq'[b] = Append(aq[b], Msg("self_exit", None, None, None, None))
  PROVE  Expelled(b)
<1>1. aq[b] \in Seq(AgentMsg)
  BY DEF Typed, TypeOK, MailTypes
<1>2. CASE aq'[b] = aq[b]
  BY <1>2 DEF Expelled
<1>3. CASE aq'[b] = Append(aq[b], Msg("self_exit", None, None, None, None))
  <2>1. Msg("self_exit", None, None, None, None) \in AgentMsg
    BY AgentMsgs
  <2> DEFINE m == Msg("self_exit", None, None, None, None)
  <2>2. m.cmd = "self_exit" /\ Key(m) = None
    BY MsgKey
  <2>3. /\ \A cmd, x : Has(aq'[b], cmd, x) <=> Has(aq[b], cmd, x) \/ Is(m, cmd, x)
        /\ \A cmd, x : Once(aq[b], cmd, x) /\ ~(Is(m, cmd, x) /\ Has(aq[b], cmd, x))
                         => Once(aq'[b], cmd, x)
        /\ m.cmd # "ret_gamed_close" /\ Follows(aq[b]) => Follows(aq'[b])
    BY <1>1, <1>3, <2>1, AppendMail
  <2> HIDE DEF m
  <2> QED
    BY <2>2, <2>3 DEF Expelled, Is
<1> QED
  BY <1>2, <1>3

\* A pooled agent leaves the pool and is told to exit.
LEMMA ExpelLife ==
  ASSUME Typed, NEW b \in Agents, LifeAt(b, "pooled"), Expelled(b),
         \A i \in Ids : clear_pool'[i] # b,
         gclose'[b] = gclose[b],
         UNCHANGED <<cagent, closes, fwd, online_account, gq, status, user_id, reg, aclose>>
  PROVE  LifeAt(b, "exiting")'
<1>1. PStatus(b, "exiting")' /\ PSaving(b, "exiting")' /\ PReported(b, "exiting")'
      /\ PPooling(b, "exiting")' /\ PUser(b, "exiting")'
  BY DEF LifeAt, PStatus, PSaving, PReported, PPooling, PUser
<1>2. POpening(b, "exiting")' /\ PServed(b, "exiting")' /\ PPooled(b, "exiting")' /\ POnline(b, "exiting")'
  BY DEF LifeAt, POpening, PServed, Serves, PPooled, POnline
<1>3. PAsked(b, "exiting")' /\ PExiting(b, "exiting")'
  BY DEF LifeAt, PAsked, PExiting, Expelled
<1>4. PGamed(b, "exiting")' /\ PAnswered(b, "exiting")'
  BY DEF LifeAt, PGamed, PAnswered, Expelled
<1> QED
  BY <1>1, <1>2, <1>3, <1>4 DEF LifeAt

LEMMA FiveSecTickGood ==
  ASSUME Typed, Typed', Keeps, Good, NEW S \in SUBSET Ids, FiveSecTick(S)
  PROVE  Good'
<1> USE DEF sockVars, gateVars, taskVars, agentVars
<1>1. UNCHANGED <<sockVars, gateVars, ses, fwd, online_account, acct, taskVars, gq, agentVars>>
  BY DEF FiveSecTick
<1>2. \A b \in Agents : Expelled(b)
  <2> SUFFICES ASSUME NEW b \in Agents PROVE Expelled(b)
    OBVIOUS
  <2>1. aq'[b] = aq[b] \/ aq'[b] = Append(aq[b], Msg("self_exit", None, None, None, None))
    BY DEF FiveSecTick
  <2> QED
    BY <2>1, ExpelSent
<1>3. \A i \in Ids : clear_pool'[i] = IF i \in S THEN None ELSE clear_pool[i]
  BY DEF FiveSecTick, Expire
<1>4. /\ AqKeeps({"cmd_agent_close"}) /\ AqKeeps({"cmd_agent_open", "ret_gamed_close"})
      /\ \A b \in Agents, cmd \in AgentWaits : \A x : Has(aq'[b], cmd, x) => Has(aq[b], cmd, x)
  BY <1>2 DEF Expelled, AqKeeps, AgentWaits
<1>5. Sockets' /\ Counted' /\ Forwards'
  BY <1>1, <1>4, MailKept, SocketsSame, CountedSame, ForwardsSame DEF Good
<1>6. Logins'
  BY <1>1, <1>4, LoginsSame DEF Good, LoginsQuiet
<1>7. Lifecycle'
  <2>1. Reports' /\ Answers' /\ LoggedOut'
    BY <1>1, <1>2 DEF Good, Lifecycle, Reports, Answers, LoggedOut, Expelled
  <2>2. ASSUME NEW b \in Agents
        PROVE  \E p \in Phases : LifeAt(b, p)'
    <3>1. CASE \E i \in S : clear_pool[i] = b
      <4>1. PICK i \in S : clear_pool[i] = b
        BY <3>1
      <4>2. LifeAt(b, "pooled") /\ \A j \in Ids : clear_pool[j] = b => j = i
        BY <4>1, PooledAlone
      <4>3. \A j \in Ids : clear_pool'[j] # b
        BY <1>3, <4>1, <4>2, NoneAssumption
      <4>4. LifeAt(b, "exiting")'
        BY <1>1, <1>2, <4>2, <4>3, ExpelLife
      <4> QED
        BY <4>4 DEF Phases
    <3>2. CASE ~\E i \in S : clear_pool[i] = b
      <4>1. aq'[b] = aq[b]
        BY <3>2 DEF FiveSecTick
      <4>2. \A j \in Ids : clear_pool'[j] = b => clear_pool[j] = b
        BY <1>3, NoneAssumption
      <4>3. SameLife(b)
        BY <1>1, <4>1, <4>2 DEF SameLife, Serves
      <4> QED
        BY <4>3, SameLifeFact DEF Good, Lifecycle, Lives
    <3> QED
      BY <3>1, <3>2
  <2> QED
    BY <2>1, <2>2 DEF Lifecycle, Lives
<1> QED
  BY <1>5, <1>6, <1>7 DEF Good

\* cmd_gamed_close answers an agent that nothing else was sent to meanwhile.
LEMMA AnswerSent ==
  ASSUME Typed, NEW a \in Agents,
         aq'[a] = Append(aq[a], Msg("ret_gamed_close", None, None, None, None)),
         ~Has(aq[a], "ret_gamed_close", None), ~Has(aq[a], "self_exit", None),
         \A c \in Coroutines : ~Has(aq[a], "cmd_agent_open", c)
  PROVE  /\ \A cmd, x : Has(aq'[a], cmd, x)
                          <=> Has(aq[a], cmd, x) \/ (cmd = "ret_gamed_close" /\ x = None)
         /\ \A cmd, x : Once(aq[a], cmd, x) => Once(aq'[a], cmd, x)
         /\ Follows(aq'[a])
<1> DEFINE m == Msg("ret_gamed_close", None, None, None, None)
<1>1. aq[a] \in Seq(AgentMsg) /\ m \in AgentMsg /\ m.cmd = "ret_gamed_close" /\ Key(m) = None
  BY AgentMsgs, MsgKey DEF Typed, TypeOK, MailTypes
<1>2. /\ \A cmd, x : Has(aq'[a], cmd, x) <=> Has(aq[a], cmd, x) \/ Is(m, cmd, x)
      /\ \A cmd, x : Once(aq[a], cmd, x) /\ ~(Is(m, cmd, x) /\ Has(aq[a], cmd, x))
                       => Once(aq'[a], cmd, x)
  BY <1>1, AppendMail
<1>3. \A k \in 1..Len(aq[a]) : aq[a][k].cmd \notin {"self_exit", "cmd_agent_open"}
  <2> SUFFICES ASSUME NEW k \in 1..Len(aq[a]) PROVE aq[a][k].cmd \notin {"self_exit", "cmd_agent_open"}
    OBVIOUS
  <2>1. aq[a][k] \in AgentMsg
    BY <1>1
  <2>2. /\ aq[a][k].cmd = "self_exit" => Key(aq[a][k]) = None
        /\ aq[a][k].cmd = "cmd_agent_open" => Key(aq[a][k]) \in Coroutines
    BY <2>1 DEF AgentMsg, MsgSet, Key
  <2> QED
    BY <2>2 DEF Has, Is
<1>4. Follows(aq'[a])
  <2>1. /\ Len(aq'[a]) = Len(aq[a]) + 1 /\ Len(aq[a]) \in Nat /\ aq'[a][Len(aq[a]) + 1] = m
        /\ \A k \in 1..Len(aq[a]) : aq'[a][k] = aq[a][k]
    BY <1>1
  <2>2. \A k \in 1..Len(aq'[a]) : k \in 1..Len(aq[a]) \/ k = Len(aq[a]) + 1
    BY <2>1
  <2> QED
    BY <1>1, <1>3, <2>1, <2>2 DEF Follows
<1> HIDE DEF m
<1> QED
  BY <1>1, <1>2, <1>4 DEF Is

LEMMA PoolAgentGood ==
  ASSUME Typed, Typed', Keeps, Good, NEW a \in Agents, PoolAgent(a)
  PROVE  Good'
<1> USE DEF sockVars, gateVars, agentVars
<1>1. LifeAt(a, "pooling") /\ gclose[a].pc = "pool" /\ gclose[a].id \in Ids
  <2>1. PICK p \in Phases : LifeAt(a, p)
    BY DEF Good, Lifecycle, Lives
  <2>2. p = "pooling" /\ gclose[a].pc = "pool" /\ gclose[a].id \in Ids
    BY <2>1 DEF PoolAgent, LifeAt, PPooling
  <2> QED
    BY <2>1, <2>2
<1>2. PICK i \in Ids : i = gclose[a].id /\ acct[a] = i
  BY <1>1, NoneAssumption DEF Keeps, KeepsGclose
<1>3. UNCHANGED <<sockVars, gateVars, ses, fwd, online_account, acct, kicks, closes, errs, gq, agentVars>>
  BY DEF PoolAgent
<1>4. /\ clear_pool'[i] = a /\ \A j \in Ids \ {i} : clear_pool'[j] = clear_pool[j]
      /\ gclose'[a].pc = "none" /\ \A b \in Agents \ {a} : gclose'[b] = gclose[b]
  BY <1>2 DEF PoolAgent, NoGclose, Typed, TypeOK, LoginTypes, TaskTypes
<1>5. status[a] = "live" /\ clear_pool[i] # a /\ fwd[a].pc = "none"
      /\ aopen[a].pc = "none"
      /\ \A c \in Coroutines : ~(fwd[c].pc = "open" /\ fwd[c].agent = a)
  BY <1>1 DEF LifeAt, PStatus, PPooled, POpening, Good, Forwards, ForwardClose, OpenRuns
<1>6. /\ ~Has(aq[a], "ret_gamed_close", None) /\ ~Has(aq[a], "self_exit", None)
      /\ \A c \in Coroutines : ~Has(aq[a], "cmd_agent_open", c)
  BY <1>1, <1>5 DEF LifeAt, PAnswered, PExiting, Good, Forwards, OpenSent
<1>7. /\ \A cmd, x : Has(aq'[a], cmd, x)
                       <=> Has(aq[a], cmd, x) \/ (cmd = "ret_gamed_close" /\ x = None)
      /\ \A cmd, x : Once(aq[a], cmd, x) => Once(aq'[a], cmd, x)
      /\ Follows(aq'[a])
  BY <1>5, <1>6, AnswerSent DEF PoolAgent
<1>8. ASSUME NEW b \in Agents \ {a}
      PROVE  Expelled(b) /\ (b # clear_pool[i] => aq'[b] = aq[b])
  BY <1>2, <1>8, ExpelSent DEF PoolAgent
<1>9. /\ AqKeeps({"cmd_agent_close"}) /\ AqKeeps({"cmd_agent_open"})
      /\ \A b \in Agents, cmd \in AgentWaits : \A x : Has(aq'[b], cmd, x) => Has(aq[b], cmd, x)
  <2> SUFFICES ASSUME NEW b \in Agents, NEW cmd, cmd \notin {"ret_gamed_close", "self_exit"}
               PROVE  \A x : /\ Has(aq'[b], cmd, x) <=> Has(aq[b], cmd, x)
                             /\ Once(aq[b], cmd, x) => Once(aq'[b], cmd, x)
    BY DEF AqKeeps, AgentWaits
  <2> QED
    BY <1>7, <1>8 DEF Expelled
<1>10. \A b \in Agents \ {a} : Has(aq'[b], "ret_gamed_close", None) <=> Has(aq[b], "ret_gamed_close", None)
  BY <1>8 DEF Expelled
<1>11. Sockets' /\ Counted'
  BY <1>3, <1>9, MailKept, SocketsSame, CountedSame DEF Good
<1>12. Logins'
  BY <1>3, <1>9, LoginsSame DEF Good, LoginsQuiet
<1>13. Forwards'
  <2>1. ForwardOne' /\ ForwardClose'
    BY <1>3, <1>4, <1>5 DEF Good, Forwards, ForwardOne, ForwardClose
  <2>2. OpenSent'
    BY <1>3, <1>9 DEF Good, Forwards, OpenSent, AqKeeps
  <2>3. OpenRuns'
    BY <1>3, <1>5, <1>10 DEF Good, Forwards, OpenRuns
  <2>4. OpenAnswered'
    BY <1>3, <1>5, <1>10 DEF Good, Forwards, OpenAnswered, ForwardOne
  <2> QED
    BY <2>1, <2>2, <2>3, <2>4 DEF Forwards
<1>14. Lifecycle'
  <2>1. Reports' /\ LoggedOut'
    BY <1>3 DEF Good, Lifecycle, Reports, LoggedOut
  <2>2. Answers'
    BY <1>7, <1>8 DEF Good, Lifecycle, Answers, Expelled
  <2>3. LifeAt(a, "pooled")'
    <3>1. PStatus(a, "pooled")' /\ PSaving(a, "pooled")' /\ PReported(a, "pooled")'
          /\ PPooling(a, "pooled")' /\ PUser(a, "pooled")'
      BY <1>1, <1>3, <1>4, <1>5 DEF LifeAt, PStatus, PSaving, PReported, PPooling, PUser
    <3>2. POpening(a, "pooled")' /\ PServed(a, "pooled")' /\ PPooled(a, "pooled")' /\ POnline(a, "pooled")'
      BY <1>1, <1>3, <1>5 DEF LifeAt, POpening, PServed, Serves, PPooled, POnline
    <3>3. PAsked(a, "pooled")' /\ PExiting(a, "pooled")'
      BY <1>1, <1>7 DEF LifeAt, PAsked, PExiting
    <3>4. PGamed(a, "pooled")' /\ PAnswered(a, "pooled")'
      BY <1>1, <1>3, <1>7 DEF LifeAt, PPooling, PGamed, PAnswered
    <3> QED
      BY <3>1, <3>2, <3>3, <3>4 DEF LifeAt
  <2>4. ASSUME NEW b \in Agents \ {a}
        PROVE  \E p \in Phases : LifeAt(b, p)'
    <3>1. CASE clear_pool[i] = b
      <4>1. LifeAt(b, "pooled") /\ \A j \in Ids : clear_pool[j] = b => j = i
        BY <3>1, PooledAlone
      <4>2. \A j \in Ids : clear_pool'[j] # b
        BY <1>4, <4>1
      <4>3. LifeAt(b, "exiting")'
        BY <1>3, <1>4, <1>8, <4>1, <4>2, ExpelLife
      <4> QED
        BY <4>3 DEF Phases
    <3>2. CASE clear_pool[i] # b
      <4>1. SameLife(b)
        BY <1>3, <1>4, <1>8, <3>2 DEF SameLife, Serves
      <4> QED
        BY <4>1, SameLifeFact DEF Good, Lifecycle, Lives
    <3> QED
      BY <3>1, <3>2
  <2> QED
    BY <2>1, <2>2, <2>3, <2>4 DEF Lifecycle, Lives, Phases
<1> QED
  BY <1>11, <1>12, <1>13, <1>14 DEF Good

-----------------------------------------------------------------------------
(* The theorems.                                                           *)

LEMMA StutterGood == Good /\ UNCHANGED vars => Good'
BY DEF vars, sockVars, gateVars, loginVars, taskVars, agentVars, Good, Sockets, SockOpens, SockCloses,
       SockHeld, CallAsked, CallRuns, CallAnswered, Counted, Held, Logins, LoginIds, LoginFresh,
       LoginBound, LoginForwards, LoginParked, LoginWaitsG, LoginWaitsA, LoginWaitsK, Forwards,
       ForwardOne, ForwardClose, OpenSent, OpenRuns, OpenAnswered, Lifecycle, Reports, Answers,
       LoggedOut, Lives, LifeAt, PStatus, POpening, PServed, Serves, PAsked, PSaving, PReported,
       PPooling, PPooled, PExiting, PGamed, PAnswered, PUser, POnline

LEMMA NextGood == ASSUME Typed, Typed', Keeps, Good, [Next]_vars PROVE Good'
<1>1. CASE UNCHANGED vars
  BY <1>1, StutterGood
<1>2. ASSUME NEW f \in Fds, Client(f) \/ Resume(f)
      PROVE  Good'
  <2>1. ASSUME CloseFd(f) PROVE Good'
    BY <2>1, CloseFdDropsGood, CloseFdCallsGood
  <2> QED
    BY <1>2, <2>1, ConnectGood, ClientSendGood, ClosesGood, LoginFailedGood, CallErrorGood,
       LoginHandlerGood DEF Client, Resume
<1>3. ASSUME Gamed
      PROVE  Good'
  BY <1>3, MsgOpenGood, MsgDataGood, MsgCloseGood, RetCloseGood, RetOtherGood, RetKickGood,
     RetOpenGood, GamedKickGood, GamedCloseGood DEF Gamed
<1>4. ASSUME NEW k \in kicks, CloseClient(k)
      PROVE  Good'
  BY <1>4, CloseClientGood
<1>5. ASSUME NEW a \in Agents, Agent(a)
      PROVE  Good'
  BY <1>5, AgentOpenGood, OpenLoadedGood, OpenRegisteredGood, OpenLoggedInGood,
     AgentOtherLoginGood, AgentKickGood, AgentKickedGood, KickGood, AgentCloseGood,
     CloseSavedGood, CloseReportedGood, AgentClosedGood, AgentDispatchGood, SelfExitGood,
     PoolAgentGood, CreateAgentGood DEF Agent
<1>6. ASSUME NEW S \in SUBSET Ids, FiveSecTick(S)
      PROVE  Good'
  BY <1>6, FiveSecTickGood
<1> QED
  BY <1>1, <1>2, <1>3, <1>4, <1>5, <1>6 DEF Next

\* The invariant that the theorems below rest on: every socket, every login
\* and every agent of the gate is in one place of its life at a time.
THEOREM GateGood == Spec => [](Typed /\ Keeps /\ Good)
<1>1. Init => Typed /\ Keeps /\ Good
  BY InitTyped, InitKeeps, InitGood
<1>2. Typed /\ Keeps /\ Good /\ [Next]_vars => (Typed /\ Keeps /\ Good)'
  BY NextTyped, NextKeeps, NextGood
<1> QED
  BY <1>1, <1>2, PTL DEF Spec

\* gateserver counts its clients exactly and never holds more than maxclient,
\* whichever of close and kick ends a connection.
THEOREM GateNclientExact == Spec => []NclientExact
<1>1. Good => NclientExact
  BY DEF Good, Counted, Held, NclientExact
<1> QED
  BY <1>1, GateGood, PTL

\* What a client sends after its login reaches the agent of the account its
\* own login was verified for.
THEOREM GateAccountIsolation == Spec => []AccountIsolation
<1>1. Typed /\ Keeps /\ Good => AccountIsolation
  <2> SUFFICES ASSUME Typed, Keeps, Good, NEW f \in Fds, cagent[f] # None
               PROVE  ses[f].id = acct[cagent[f]] /\ user_id[cagent[f]] \in {None, ses[f].id}
    BY DEF AccountIsolation
  <2>1. cagent[f] \in Agents
    BY DEF Typed, TypeOK, GateTypes
  <2> QED
    BY <2>1 DEF Good, Logins, LoginBound, Keeps, KeepsUser
<1> QED
  BY <1>1, GateGood, PTL

\* An agent in the pool is alive and idle: no user, no open in progress, not
\* online, and no open socket forwards to it.
THEOREM GatePoolIdle == Spec => []PoolIdle
<1>1. Typed /\ Keeps /\ Good => PoolIdle
  <2> SUFFICES ASSUME Typed, Keeps, Good, NEW i \in Ids, clear_pool[i] # None
               PROVE  /\ status[clear_pool[i]] = "live" /\ user_id[clear_pool[i]] = None
                      /\ aopen[clear_pool[i]].pc = "none"
                      /\ \A j \in Ids : online_account[j].agent # clear_pool[i]
                      /\ \A f \in Fds : sock[f] = "open" => cagent[f] # clear_pool[i]
    BY DEF PoolIdle
  <2>1. PICK a \in Agents : clear_pool[i] = a
    BY DEF Typed, TypeOK, LoginTypes
  <2>2. LifeAt(a, "pooled")
    BY <2>1, PooledAlone
  <2>3. aopen[a].pc = "none"
    BY <2>2, FreshAlone
  <2>4. status[a] = "live" /\ user_id[a] = None /\ \A j \in Ids : online_account[j].agent # a
    BY <2>2 DEF LifeAt, PStatus, PUser, POnline
  <2>5. ASSUME NEW f \in Fds, sock[f] = "open"
        PROVE  cagent[f] # a
    <3>1. closes[f] = "none"
      BY <2>5 DEF Good, Sockets, SockCloses
    <3> QED
      BY <2>2, <3>1 DEF LifeAt, PServed, Serves
  <2> QED
    BY <2>1, <2>3, <2>4, <2>5
<1> QED
  BY <1>1, GateGood, PTL

\* Two open sockets are never forwarded to the same agent.
THEOREM GateNoSharedAgent == Spec => []NoSharedAgent
<1>1. Typed /\ Good => NoSharedAgent
  <2> SUFFICES ASSUME Typed, Good, NEW f \in Fds, NEW g \in Fds, cagent[f] # None,
                      sock[f] = "open", sock[g] = "open", cagent[f] = cagent[g]
               PROVE  f = g
    BY DEF NoSharedAgent
  <2>1. PICK a \in Agents : cagent[f] = a
    BY DEF Typed, TypeOK, GateTypes
  <2>2. closes[f] = "none" /\ closes[g] = "none"
    BY DEF Good, Sockets, SockCloses
  <2>3. PICK p \in Phases : LifeAt(a, p)
    BY DEF Good, Lifecycle, Lives
  <2> QED
    BY <2>1, <2>2, <2>3 DEF LifeAt, PServed, Serves
<1> QED
  BY <1>1, GateGood, PTL

\* cmd_agent_open finds the agent without a user and without the handlers of
\* an earlier one.
THEOREM GateReopenSafe == Spec => []ReopenSafe
<1>1. Good => ReopenSafe
  BY DEF Good, Forwards, OpenRuns, ReopenSafe
<1> QED
  BY <1>1, GateGood, PTL

\* The services gamed is about to call or to forward to have not exited.
THEOREM GateCalleesLive == Spec => []CalleesLive
<1>1. Typed /\ Good => CalleesLive
  <2> SUFFICES ASSUME Typed, Good PROVE CalleesLive
    OBVIOUS
  <2>1. ASSUME NEW a \in Agents
        PROVE  /\ \A i \in Ids : online_account[i].agent = a => status[a] = "live"
               /\ \A c \in Coroutines : fwd[c].pc = "open" /\ fwd[c].agent = a => status[a] = "live"
               /\ \A f \in Fds : Serves(f, a) => status[a] = "live"
    <3>1. PICK p \in Phases : LifeAt(a, p)
      BY DEF Good, Lifecycle, Lives
    <3> QED
      BY <3>1 DEF LifeAt, PStatus, POnline, POpening, PServed
  <2>2. /\ \A i \in Ids : online_account[i].agent \in Agents \cup {None}
        /\ \A f \in Fds : cagent[f] \in Agents \cup {None}
        /\ \A c \in Coroutines : fwd[c].pc = "open" => fwd[c].agent \in Agents
    BY DEF Typed, TypeOK, LoginTypes, AccountRec, GateTypes, Good, Forwards, ForwardOne
  <2> QED
    BY <2>1, <2>2 DEF CalleesLive, Serves
<1> QED
  BY <1>1, GateGood, PTL

\* An agent exits only after its user has been saved and forgotten and its
\* cmd_agent_close has been answered.
THEOREM GateExitsClosed == Spec => ExitsClosed
<1> DEFINE Exits ==
      \A a \in Agents : status[a] = "live" /\ status'[a] = "dead" =>
        /\ user_id[a] = None /\ aopen[a].pc = "none" /\ aclose[a].pc = "none"
        /\ \A i \in Ids : clear_pool[i] # a
<1>1. Typed /\ Keeps /\ Good /\ [Next]_vars => [Exits]_vars
  <2> SUFFICES ASSUME Typed, Good, Next, NEW a \in Agents, status[a] = "live", status'[a] = "dead"
               PROVE  /\ user_id[a] = None /\ aopen[a].pc = "none" /\ aclose[a].pc = "none"
                      /\ \A i \in Ids : clear_pool[i] # a
    OBVIOUS
  <2>1. SelfExit(a)
    <3>1. \A b \in Agents : SelfExit(b) => b = a
      BY DEF SelfExit, Typed, TypeOK, AgentTypes
    <3>2. \A c \in Coroutines, b \in Agents : ~CreateAgent(c, b)
      BY DEF CreateAgent, Typed, TypeOK, AgentTypes
    <3>3. status' # status
      OBVIOUS
    <3>4. \A f \in Fds : ~Client(f)
      BY <3>3 DEF Client, Connect, ClientSend, ClientClose, agentVars
    <3>5. \A f \in Fds : ~Resume(f)
      BY <3>3 DEF Resume, SocketClosed, CloseFd, LoginFailed, CallError, LoginHandler, agentVars
    <3>6. ~Gamed
      BY <3>3 DEF Gamed, MsgOpen, MsgData, MsgClose, RetClose, RetOther, RetKick, RetOpen,
         GamedKick, GamedClose, agentVars
    <3>7. ~\E k \in kicks : CloseClient(k)
      BY <3>3 DEF CloseClient, agentVars
    <3>8. ~\E S \in SUBSET Ids : FiveSecTick(S)
      BY <3>3 DEF FiveSecTick, agentVars
    <3>9. \A b \in Agents : Agent(b) => SelfExit(b)
      BY <3>2, <3>3
      DEF Agent, AgentOpen, OpenLoaded, OpenRegistered, OpenLoggedIn, AgentOtherLogin, AgentKick,
          AgentKicked, KickSave, KickSelf, AgentClose, CloseSaved, CloseReported, AgentClosed,
          AgentDispatch, PoolAgent, agentVars
    <3> QED
      BY <3>1, <3>4, <3>5, <3>6, <3>7, <3>8, <3>9 DEF Next
  <2>2. /\ LifeAt(a, "exiting") /\ aclose[a].pc = "none"
        /\ \A c \in Coroutines : ~(fwd[c].pc = "open" /\ fwd[c].agent = a)
    BY <2>1, ExitingAlone DEF SelfExit
  <2>3. user_id[a] = None /\ \A i \in Ids : clear_pool[i] # a
    BY <2>2 DEF LifeAt, PUser, PPooled
  <2>4. aopen[a].pc = "none"
    BY <2>2 DEF Good, Forwards, OpenRuns
  <2> QED
    BY <2>2, <2>3, <2>4
<1> QED
  BY <1>1, GateGood, PTL DEF Spec, ExitsClosed
=============================================================================
