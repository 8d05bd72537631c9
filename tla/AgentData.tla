----------------------------- MODULE AgentData ------------------------------
(***************************************************************************)
(* The data of one account: study records (record.lua) and paid courses    *)
(* (pay_handler.lua, role_handler.lua), which the agent loads when it      *)
(* opens, keeps in memory and writes back through the database service     *)
(* (resultInfo.lua, account.lua).  Client requests run one at a time       *)
(* (the queue cs of agent.lua); open, kicks and close do not wait for them *)
(* nor for each other.  The tables of record.lua and role_handler.lua are  *)
(* the agent's: until a session has loaded its own, a pooled agent holds   *)
(* those of its earlier session.                                           *)
(*                                                                         *)
(* An exercise is named by grade, term, unit and module, a course by grade *)
(* and term.  What matters is that a name has several fields and that a    *)
(* query tests each field on its own: names here have two.  The database   *)
(* uses one connection for an account, which executes operations in the    *)
(* order they were sent; each operation is one step.                       *)
(***************************************************************************)
EXTENDS Naturals, Sequences, SequencesExt, FiniteSetsExt

CONSTANTS Keys,      \* names of exercises and of courses: pairs
          Orders,    \* positions of a score in its record
          Scores,    \* scores
          Pooled,    \* what another agent of the account may hold as info
          Kickers,   \* coroutines of cmd_agent_kick
          None,      \* nil
          MaxRpc,    \* bound: requests of the client
          MaxOpen,   \* bound: sessions
          MaxKick,   \* bound: kicks
          MaxError   \* bound: database errors

ASSUME KeysAssumption  == \A k \in Keys : k = <<k[1], k[2]>>
ASSUME OrderAssumption == 1 \in Orders /\ Orders \subseteq Nat
ASSUME NoneAssumption  == None \notin Scores
ASSUME KickAssumption  == Kickers \cap {"open", "close", "pay"} = {}

VARIABLES
  agent,     \* "none", "loadpay", "loadrec", "online", "closing", or
             \* "stuck": cmd_agent_close raised an error, user stays
  info,      \* record.lua: the records, nil if they could not be loaded
  payInfo,   \* role_handler.lua: the courses paid for, or nil
  cs,        \* requests that run or wait in the queue of agent.lua
  paying,    \* the first of them waits for SavePayInfo
  jobs,      \* coroutines of the database service, by who called
  mq,        \* callers whose operation is on its way to MongoDB, in order
  recDoc,    \* the array Record of the account's ResultInfo document
  payDoc,    \* the array PayInfo of its PayInfo document
  rpcs, opens, kicks, dberrors, \* counters for the bounds
  kept,      \* auxiliary: info when the client was last told it is stored
  paid,      \* auxiliary: courses the client was told it has paid, in order
  mixed,     \* auxiliary: arrays in which $ replaced an element of another name
  overlap,   \* auxiliary: a save began while another one, an open or the close
             \* was under way
  failed     \* auxiliary: the save of a close failed

avars == <<agent, info, payInfo>>
cvars == <<cs, paying>>
dvars == <<jobs, mq, recDoc, payDoc>>
bvars == <<rpcs, opens, kicks, dberrors>>
gvars == <<kept, paid, mixed, overlap, failed>>
vars  == <<avars, cvars, dvars, bvars, gvars>>

Callers == {"open", "close", "pay"} \cup Kickers
NoScores == [o \in Orders |-> None]
Element == [key : Keys, order : Orders \cup {None}, score : [Orders -> Scores \cup {None}]]

ASSUME PooledAssumption == \A l \in Pooled : l = None \/ l \in Seq(Element)

Request == [type : {"learn"}, key : Keys, order : Orders, score : Scores]
             \cup [type : {"pay"}, key : Keys]

(***************************************************************************)
(* Arrays of a document.  A query names the fields of a key one by one.    *)
(***************************************************************************)
HasKey(doc, k) == \E i \in DOMAIN doc : doc[i].key = k

\* findOne: every field of k is found, not necessarily in one element.
Matches(doc, k) == \A f \in 1..2 : \E i \in DOMAIN doc : doc[i].key[f] = k[f]

\* The element that $ stands for: the first that satisfies one of the
\* conditions; which one, MongoDB does not say.
Positions(doc, k) == {Min({i \in DOMAIN doc : doc[i].key[f] = k[f]}) : f \in 1..2}

(***************************************************************************)
(* Calls of the database service.  A caller has one coroutine there, which *)
(* has one operation under way: op is the operation, todo what is left to  *)
(* write (a copy of what the agent sent).                                  *)
(***************************************************************************)
Idle(c) == jobs[c] = None

Start(c, op, todo) ==
  /\ jobs' = [jobs EXCEPT ![c] = [op |-> op, todo |-> todo]]
  /\ mq' = Append(mq, c)

\* The array that caller c writes.
Doc(c) == IF c = "pay" THEN payDoc ELSE recDoc

SetDoc(c, doc) ==
  IF c = "pay" THEN payDoc' = doc /\ UNCHANGED recDoc
               ELSE recDoc' = doc /\ UNCHANGED payDoc

GoOn_bug(c, op, todo) ==
  /\ jobs' = [jobs EXCEPT ![c] = [op |-> op, todo |-> todo]]
  /\ mq' = Append(mq, c)

\* The coroutine goes on with its next operation.
GoOn(c, op, todo) ==
  /\ jobs' = [jobs EXCEPT ![c] = [op |-> op, todo |-> todo]]
  /\ mq' = Append(Tail(mq), c)

\* It ends and answers its caller: what it loaded or wrote.
End(c, result) ==
  /\ jobs' = [jobs EXCEPT ![c] = [op |-> "done", todo |-> result]]
  /\ mq' = Tail(mq)

AfterWrite_bug(c) == End(c, jobs[c].todo)

\* After a write: the loop of saveResultInfo over the records, or the end.
AfterWrite(c) ==
  IF Len(jobs[c].todo) > 1 THEN GoOn(c, "find", Tail(jobs[c].todo))
                           ELSE End(c, jobs[c].todo)

\* MongoDB executes the next operation, which is op, and the coroutine runs on.
Executes(c, op) == mq # <<>> /\ c = Head(mq) /\ jobs[c].op = op

GetPayInfo(c) ==
  /\ Executes(c, "GetPayInfo")
  /\ End(c, payDoc)
  /\ UNCHANGED <<avars, cvars, recDoc, payDoc, bvars, gvars>>

getResultInfo(c) ==
  /\ Executes(c, "getResultInfo")
  /\ End(c, recDoc)
  /\ UNCHANGED <<avars, cvars, recDoc, payDoc, bvars, gvars>>

\* What follows findOne.
NextOp(doc, k) == IF Matches(doc, k) THEN "set" ELSE "push"

Find(c) ==
  /\ Executes(c, "find")
  /\ GoOn(c, NextOp(Doc(c), jobs[c].todo[1].key), jobs[c].todo)
  /\ UNCHANGED <<avars, cvars, recDoc, payDoc, bvars, gvars>>

Push(c) ==
  /\ Executes(c, "push")
  /\ SetDoc(c, Append(Doc(c), jobs[c].todo[1]))
  /\ AfterWrite(c)
  /\ UNCHANGED <<avars, cvars, bvars, gvars>>

\* The query of the update is evaluated anew; when nothing matches any more,
\* $ has no meaning and the update is refused, which nobody looks at.
Set(c) ==
  LET e == jobs[c].todo[1] IN
  /\ Executes(c, "set")
  /\ \/ /\ Matches(Doc(c), e.key)
        /\ \E i \in Positions(Doc(c), e.key) :
             /\ SetDoc(c, [Doc(c) EXCEPT ![i] = e])
             /\ mixed' = IF Doc(c)[i].key = e.key THEN mixed
                         ELSE mixed \cup {IF c = "pay" THEN "PayInfo" ELSE "ResultInfo"}
     \/ /\ ~Matches(Doc(c), e.key)
        /\ UNCHANGED <<recDoc, payDoc, mixed>>
  /\ AfterWrite(c)
  /\ UNCHANGED <<avars, cvars, bvars, kept, paid, overlap, failed>>

DbError_bug(c) ==
  /\ dberrors < MaxError
  /\ \E op \in {"GetPayInfo", "getResultInfo", "find", "push", "set"} : Executes(c, op)
  /\ End(c, IF c = "open" THEN None ELSE jobs[c].todo)
  /\ dberrors' = dberrors + 1
  /\ failed' = (failed \/ c = "close")
  /\ UNCHANGED <<avars, cvars, recDoc, payDoc, rpcs, opens, kicks,
                 kept, paid, mixed, overlap>>

\* An operation fails: the coroutine ends and its caller gets nil, which a load
\* keeps and for a save says that nothing more was written.
DbError(c) ==
  /\ dberrors < MaxError
  /\ \E op \in {"GetPayInfo", "getResultInfo", "find", "push", "set"} : Executes(c, op)
  /\ End(c, IF c = "open" THEN None ELSE <<>>)
  /\ dberrors' = dberrors + 1
  /\ failed' = (failed \/ c = "close")
  /\ UNCHANGED <<avars, cvars, recDoc, payDoc, rpcs, opens, kicks,
                 kept, paid, mixed, overlap>>

(***************************************************************************)
(* The agent: cmd_agent_open, requests, cmd_agent_kick, cmd_agent_close.   *)
(***************************************************************************)
Init ==
  /\ agent = "none" /\ info \in Pooled /\ payInfo = None
  /\ cs = <<>> /\ paying = FALSE
  /\ jobs = [c \in Callers |-> None] /\ mq = <<>>
  /\ recDoc = <<>> /\ payDoc = <<>>
  /\ rpcs = 0 /\ opens = 0 /\ kicks = 0 /\ dberrors = 0
  /\ kept = <<>> /\ paid = <<>> /\ mixed = {}
  /\ overlap = FALSE /\ failed = FALSE

Done(c) == ~Idle(c) /\ jobs[c].op = "done"

\* cmd_agent_open from the registration of the handlers: in the agent of the
\* last session, or in another one once that has no request left.
Open ==
  /\ agent = "none" /\ opens < MaxOpen
  /\ agent' = "loadpay"
  /\ info' = info \/ (cs = <<>> /\ info' \in Pooled)
  /\ opens' = opens + 1
  /\ Start("open", "GetPayInfo", <<>>)
  /\ UNCHANGED <<payInfo, cvars, recDoc, payDoc, rpcs, kicks, dberrors, gvars>>

\* login of role_handler, then login of record.
PayLoaded ==
  /\ agent = "loadpay" /\ Done("open")
  /\ agent' = "loadrec"
  /\ payInfo' = jobs["open"].todo
  /\ Start("open", "getResultInfo", <<>>)
  /\ UNCHANGED <<info, cvars, recDoc, payDoc, bvars, gvars>>

RecordsLoaded ==
  /\ agent = "loadrec" /\ Done("open")
  /\ agent' = "online"
  /\ info' = jobs["open"].todo
  /\ jobs' = [jobs EXCEPT !["open"] = None]
  /\ UNCHANGED <<payInfo, cvars, mq, recDoc, payDoc, bvars, gvars>>

\* test_dispatch: a request of the client joins the queue.
Client(r) ==
  /\ agent = "online" /\ rpcs < MaxRpc
  /\ rpcs' = rpcs + 1
  /\ cs' = Append(cs, r)
  /\ UNCHANGED <<avars, paying, dvars, opens, kicks, dberrors, gvars>>

\* The first request of the queue can run.
Runs(type) == cs # <<>> /\ ~paying /\ Head(cs).type = type

\* saveResultInfo of record.lua: every record of that name is changed; the
\* first score of a new record goes to position 1, whatever its order.
Stored(list, r) ==
  IF HasKey(list, r.key)
  THEN [i \in DOMAIN list |->
          IF list[i].key = r.key
          THEN [list[i] EXCEPT !.order = r.order, !.score[r.order] = r.score]
          ELSE list[i]]
  ELSE Append(list, [key |-> r.key, order |-> r.order,
                     score |-> [NoScores EXCEPT ![1] = r.score]])

\* SendLearnResultInfo.  The answer reaches the client while the socket is open;
\* without a list the request is an error.
Learn ==
  /\ Runs("learn") /\ agent # "none"
  /\ info' = IF info = None THEN None ELSE Stored(info, Head(cs))
  /\ kept' = IF agent = "online" /\ info # None THEN info' ELSE kept
  /\ cs' = Tail(cs)
  /\ UNCHANGED <<agent, payInfo, paying, dvars, bvars, paid, mixed, overlap, failed>>

\* PayCourse up to its call of the database, or refused by CheckPayInfo, which
\* fails without a list.
Pay ==
  /\ Runs("pay") /\ agent # "none"
  /\ IF payInfo = None \/ HasKey(payInfo, Head(cs).key)
     THEN cs' = Tail(cs) /\ UNCHANGED <<paying, jobs, mq>>
     ELSE /\ paying' = TRUE
          /\ Start("pay", "find", <<[key |-> Head(cs).key]>>)
          /\ UNCHANGED cs
  /\ UNCHANGED <<avars, recDoc, payDoc, bvars, gvars>>

\* SetPayInfo can be called and has a list to add to.
CanSet == agent # "none" /\ payInfo # None

PayDone_bug ==
  /\ paying /\ Done("pay")
  /\ paying' = FALSE
  /\ cs' = Tail(cs)
  /\ jobs' = [jobs EXCEPT !["pay"] = None]
  /\ payInfo' = payInfo
  /\ paid' = IF CanSet /\ agent = "online" THEN paid \o jobs["pay"].todo ELSE paid
  /\ UNCHANGED <<agent, info, mq, recDoc, payDoc, bvars, kept, mixed, overlap, failed>>

\* SavePayInfo has returned.  With the handlers unregistered SetPayInfo is nil
\* and the request ends in an error, as it does without a list.
PayDone ==
  /\ paying /\ Done("pay")
  /\ paying' = FALSE
  /\ cs' = Tail(cs)
  /\ jobs' = [jobs EXCEPT !["pay"] = None]
  /\ payInfo' = IF CanSet THEN payInfo \o jobs["pay"].todo ELSE payInfo
  /\ paid' = IF CanSet /\ agent = "online" THEN paid \o jobs["pay"].todo ELSE paid
  /\ UNCHANGED <<agent, info, mq, recDoc, payDoc, bvars, kept, mixed, overlap, failed>>

\* A request that starts after the handlers were unregistered is an error.
Unregistered ==
  /\ cs # <<>> /\ ~paying /\ agent = "none"
  /\ cs' = Tail(cs)
  /\ UNCHANGED <<avars, paying, dvars, bvars, gvars>>

\* SaveResultInfo, called by c, sends the list if it has a record; without a
\* list it is an error.
Saves == info \notin {None, <<>>}
SaveResultInfo(c) == IF Saves THEN Start(c, "find", info) ELSE UNCHANGED <<jobs, mq>>

\* A save of c is under way.
Saving(c) == ~Idle(c) /\ ~Done(c)

\* cmd_agent_kick, which every relogin calls, from the moment the agent has a
\* user; the close of the socket that it asks gamed for is Close.
Kick(c) ==
  /\ agent # "none" /\ Idle(c) /\ kicks < MaxKick
  /\ kicks' = kicks + 1
  /\ SaveResultInfo(c)
  /\ overlap' = (overlap \/ (Saves /\ (agent # "online" \/ \E k \in Kickers : Saving(k))))
  /\ UNCHANGED <<avars, cvars, recDoc, payDoc, rpcs, opens, dberrors,
                 kept, paid, mixed, failed>>

KickDone(c) ==
  /\ Done(c)
  /\ jobs' = [jobs EXCEPT ![c] = None]
  /\ UNCHANGED <<avars, cvars, mq, recDoc, payDoc, bvars, gvars>>

\* cmd_agent_close: the socket is gone.
Close ==
  /\ agent = "online"
  /\ agent' = IF info = None THEN "stuck" ELSE "closing"
  /\ SaveResultInfo("close")
  /\ overlap' = (overlap \/ \E k \in Kickers : Saving(k))
  /\ UNCHANGED <<info, payInfo, cvars, recDoc, payDoc, bvars, kept, paid, mixed, failed>>

\* Its save has returned, or there was nothing to save: unregister_handler.
CloseDone ==
  /\ agent = "closing" /\ (Idle("close") \/ Done("close"))
  /\ agent' = "none"
  /\ jobs' = [jobs EXCEPT !["close"] = None]
  /\ UNCHANGED <<info, payInfo, cvars, mq, recDoc, payDoc, bvars, gvars>>

Database ==
  \E c \in Callers : \/ GetPayInfo(c) \/ getResultInfo(c)
                     \/ Find(c) \/ Push(c) \/ Set(c) \/ DbError(c)

Next ==
  \/ Open \/ PayLoaded \/ RecordsLoaded
  \/ \E r \in Request : Client(r)
  \/ Learn \/ Pay \/ PayDone \/ Unregistered
  \/ \E c \in Kickers : Kick(c) \/ KickDone(c)
  \/ Close \/ CloseDone
  \/ Database

Spec == Init /\ [][Next]_vars

-----------------------------------------------------------------------------
Job == [op : {"GetPayInfo", "getResultInfo", "find", "push", "set", "done"},
        todo : Seq(Element) \cup Seq([key : Keys]) \cup {None}]

ASSUME JobAssumption == None \notin Job   \* nil is not a coroutine

\* The types of the variables; a coroutine of the database has one operation
\* under way exactly while it runs.
TypeOK ==
  /\ agent \in {"none", "loadpay", "loadrec", "online", "closing", "stuck"}
  /\ info = None \/ info \in Seq(Element)
  /\ kept \in Seq(Element) /\ recDoc \in Seq(Element)
  /\ payInfo = None \/ payInfo \in Seq([key : Keys])
  /\ payDoc \in Seq([key : Keys]) /\ paid \in Seq([key : Keys])
  /\ cs \in Seq(Request) /\ paying \in BOOLEAN
  /\ \A c \in Callers : Idle(c) \/ jobs[c] \in Job
  /\ \A c \in Callers : Saving(c) <=> c \in ToSet(mq)
  /\ IsInjective(mq)
  /\ mixed \subseteq {"ResultInfo", "PayInfo"}
  /\ overlap \in BOOLEAN /\ failed \in BOOLEAN

\* What GetResultInfo shows of a list of records: the first of each name.
Shown(list) ==
  [k \in {e.key : e \in ToSet(list)} |->
     list[Min({i \in DOMAIN list : list[i].key = k})]]

\* The client finds, at its next login, every exercise it was told is stored,
\* whatever kicks came, late, early or several at once, unless the save of the
\* close failed or $ took a wrong element.  If moreover no save overlapped
\* another one, an open or the close, it finds what it was told and nothing else:
\* a kick that comes before an agent has loaded the records of the account saves
\* those of the agent's earlier session.
RecordsKept ==
  agent = "none" /\ ~failed /\ "ResultInfo" \notin mixed
    => /\ \A e \in ToSet(kept) : HasKey(recDoc, e.key)
       /\ ~overlap => Shown(recDoc) = Shown(kept)

\* A course the client was told it has paid for is in the database, whatever
\* fails, and at any time, unless $ took a wrong element.
PaymentsKept ==
  "PayInfo" \notin mixed => \A e \in ToSet(paid) : HasKey(payDoc, e.key)

\* No course is sold twice to one account, not even across a close that comes
\* while SavePayInfo is under way.
PaidOnce == "PayInfo" \notin mixed => IsInjective(paid)
=============================================================================
