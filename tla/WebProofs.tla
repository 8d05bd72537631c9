------------------------------ MODULE WebProofs ------------------------------
(***************************************************************************)
(* Proofs about WebAccount, for any number of connections and accounts:    *)
(* types, the books of webclient, and the truth of the answers.            *)
(***************************************************************************)
EXTENDS WebAccount, SequenceTheorems, TLAPS

Inv1 == TypeOK /\ QueryRuns

-----------------------------------------------------------------------------
(* Types, and the tables of webclient.                                     *)

LEMMA WebInit == Init => Inv1
<1> SUFFICES ASSUME Init PROVE Inv1
  OBVIOUS
<1>1. NoWeb \in WebRec
  BY DEF NoWeb, WebRec, Pcs, Serving
<1>2. TypeOK
  <2>1. <<>> \in Seq(AccountDoc)
    OBVIOUS
  <2>2. accounts \in [Numbers -> Seq(AccountDoc)]
    BY <2>1 DEF Init
  <2>3. requests \in BOOLEAN
    BY DEF Init
  <2>4. web \in [Reqs -> WebRec]
    BY <1>1 DEF Init
  <2>5. QED BY <2>2, <2>3, <2>4 DEF Init, TypeOK
<1>3. \A r \in Reqs : web[r].pc = "none"
  BY DEF Init, NoWeb
<1>4. QueryRuns
  BY <1>3 DEF Init, QueryRuns
<1>5. QED BY <1>2, <1>4 DEF Inv1

\* The handler of a request goes on, or answers.
LEMMA RecGoto ==
  ASSUME NEW x \in WebRec, NEW pc \in Pcs, x.pc \in Serving \/ pc \notin Serving
  PROVE  [x EXCEPT !.pc = pc] \in WebRec
BY DEF WebRec, Pcs, Serving

LEMMA RecAnswer ==
  ASSUME NEW x \in WebRec, NEW ret \in -4..0
  PROVE  [x EXCEPT !.pc = "respond", !.ret = ret] \in WebRec
BY DEF WebRec, Pcs, Serving

\* A step of a handler that is not about webclient.
LEMMA HandlerStep ==
  ASSUME Inv1, NEW r \in Reqs, NEW x \in WebRec, web' = [web EXCEPT ![r] = x],
         web[r].pc # "wait", x.pc # "wait", UNCHANGED clientVars,
         accounts' \in [Numbers -> Seq(AccountDoc)]
  PROVE  Inv1'
<1>1. TypeOK'
  BY DEF Inv1, TypeOK, clientVars
<1>2. \A q \in Reqs : web'[q].pc = "wait" <=> web[q].pc = "wait"
  BY DEF Inv1, TypeOK
<1>3. QueryRuns'
  BY <1>2 DEF Inv1, QueryRuns, clientVars
<1>4. QED BY <1>1, <1>3 DEF Inv1

LEMMA GotoStep ==
  ASSUME Inv1, NEW r \in Reqs, NEW pc \in Pcs, Goto(r, pc), UNCHANGED clientVars,
         web[r].pc \in Serving \/ pc \notin Serving, web[r].pc # "wait", pc # "wait",
         accounts' \in [Numbers -> Seq(AccountDoc)]
  PROVE  Inv1'
<1>1. web[r] \in WebRec /\ [web[r] EXCEPT !.pc = pc] \in WebRec
  BY RecGoto DEF Inv1, TypeOK
<1>2. web' = [web EXCEPT ![r] = [web[r] EXCEPT !.pc = pc]]
  BY DEF Goto
<1>3. [web[r] EXCEPT !.pc = pc].pc = pc
  BY <1>1 DEF WebRec
<1>4. QED BY <1>1, <1>2, <1>3, HandlerStep

LEMMA AnswerStep ==
  ASSUME Inv1, NEW r \in Reqs, NEW ret \in -4..0, Answer(r, ret), UNCHANGED clientVars,
         web[r].pc # "wait", accounts' \in [Numbers -> Seq(AccountDoc)]
  PROVE  Inv1'
<1> DEFINE x == [web[r] EXCEPT !.pc = "respond", !.ret = ret]
<1>1. web[r] \in WebRec /\ x \in WebRec
  BY RecAnswer DEF Inv1, TypeOK
<1>2. web' = [web EXCEPT ![r] = x]
  BY DEF Answer
<1>3. x.pc = "respond"
  BY <1>1 DEF WebRec
<1>4. QED BY <1>1, <1>2, <1>3, HandlerStep

LEMMA WebArrives ==
  ASSUME Inv1, NEW r \in Reqs, NEW op \in Ops, NEW n \in Numbers, Web(r, op, n)
  PROVE  Inv1'
<1>0. /\ web[r].pc = "none" /\ UNCHANGED clientVars
      /\ accounts' \in [Numbers -> Seq(AccountDoc)]
  BY DEF Web, Inv1, TypeOK
<1>1. CASE web' = [web EXCEPT ![r] = Accepted(op, n)]
  <2>1. Accepted(op, n) \in WebRec /\ Accepted(op, n).pc = "find"
    BY DEF Accepted, WebRec, Serving
  <2>2. QED BY <1>0, <1>1, <2>1, HandlerStep
<1>2. CASE \E ret \in {-1, -2} : Answer(r, ret)
  BY <1>0, <1>2, AnswerStep
<1>3. CASE Goto(r, "done")
  BY <1>0, <1>3, GotoStep DEF Pcs, Serving
<1>4. QED BY <1>1, <1>2, <1>3 DEF Web

LEMMA FindStep ==
  ASSUME Inv1, NEW r \in Reqs, Find(r) \/ Count(r) \/ FindFails(r) PROVE Inv1'
<1>1. /\ Goto(r, "count") \/ Goto(r, "sms") \/ Answer(r, -3)
      /\ web[r].pc \in {"find", "count"}
      /\ UNCHANGED <<clientVars, accounts>>
  BY DEF Find, Count, FindFails, Known
<1>2. accounts' \in [Numbers -> Seq(AccountDoc)]
  BY <1>1 DEF Inv1, TypeOK
<1>3. CASE Goto(r, "count") \/ Goto(r, "sms")
  BY <1>1, <1>2, <1>3, GotoStep DEF Pcs, Serving
<1>4. CASE Answer(r, -3)
  BY <1>1, <1>2, <1>4, AnswerStep
<1>5. QED BY <1>1, <1>3, <1>4

LEMMA RequestStep == ASSUME Inv1, NEW r \in Reqs, Request(r) PROVE Inv1'
<1>0. web[r].pc = "sms" /\ UNCHANGED accounts /\ accounts' \in [Numbers -> Seq(AccountDoc)]
  BY DEF Request, Inv1, TypeOK
<1>1. CASE Goto(r, "store") /\ UNCHANGED clientVars
  BY <1>0, <1>1, GotoStep DEF Pcs, Serving
<1>2. CASE /\ handle' = [handle EXCEPT ![r] = "run"]
           /\ query' = StartQuery
           /\ requests' = TRUE
           /\ pending' = pending \cup {r}
           /\ Goto(r, "wait")
  <2>1. web[r] \in WebRec /\ [web[r] EXCEPT !.pc = "wait"] \in WebRec
    BY <1>0, RecGoto DEF Inv1, TypeOK, Pcs, Serving
  <2>2. web' = [web EXCEPT ![r] = [web[r] EXCEPT !.pc = "wait"]]
    BY <1>2 DEF Goto
  <2>3. [web[r] EXCEPT !.pc = "wait"].pc = "wait"
    BY <2>1 DEF WebRec
  <2>4. query' \in {"run", "dead"}
    BY <1>2 DEF StartQuery, Inv1, TypeOK, QueryRuns
  <2>5. TypeOK'
    BY <1>0, <1>2, <2>1, <2>2, <2>4 DEF Inv1, TypeOK
  <2>6. \A q \in Reqs : web'[q].pc = "wait" <=> q = r \/ web[q].pc = "wait"
    BY <2>2, <2>3 DEF Inv1, TypeOK
  <2>7. QueryRuns'
    BY <1>2, <2>4, <2>6 DEF Inv1, TypeOK, QueryRuns
  <2>8. QED BY <2>5, <2>7 DEF Inv1
<1>3. QED BY <1>1, <1>2 DEF Request

LEMMA TransferStep == ASSUME Inv1, NEW r \in Reqs, Transfer(r) PROVE Inv1'
BY DEF Transfer, Inv1, TypeOK, QueryRuns, WebRec, Pcs, Serving

LEMMA QueryStep == ASSUME Inv1, Query PROVE Inv1'
<1> DEFINE left == pending \ Finished
<1>1. /\ web' = [r \in Reqs |-> IF r \in Finished THEN [web[r] EXCEPT !.pc = "store"]
                                ELSE web[r]]
      /\ handle' = Removed(Finished)
      /\ pending' = left
      /\ requests' = (left # {})
      /\ query' \in IF left = {} THEN {"none"} ELSE {"run", "dead"}
      /\ UNCHANGED accounts
  BY DEF Query
<1>2. \A r \in Finished : web[r].pc = "wait"
  BY DEF Inv1, QueryRuns, TypeOK, Finished
<1>3. \A r \in Reqs : web'[r] = IF r \in Finished THEN [web[r] EXCEPT !.pc = "store"] ELSE web[r]
  BY <1>1
<1>4. ASSUME NEW r \in Reqs PROVE web'[r] \in WebRec
  <2>1. web[r] \in WebRec
    BY DEF Inv1, TypeOK
  <2>2. ASSUME r \in Finished PROVE [web[r] EXCEPT !.pc = "store"] \in WebRec
    BY <1>2, <2>1, <2>2, RecGoto DEF Pcs, Serving
  <2>3. QED BY <1>3, <2>1, <2>2
<1>5. TypeOK'
  BY <1>1, <1>4 DEF Inv1, TypeOK, Removed
<1>6. QueryRuns'
  <2>1. ASSUME NEW r \in Reqs
        PROVE  /\ r \in pending' <=> web'[r].pc = "wait"
               /\ r \in pending' <=> handle'[r] # "none"
    BY <1>1, <1>2, <1>3 DEF Inv1, TypeOK, QueryRuns, Finished, Removed, WebRec
  <2>2. QED BY <1>1, <2>1 DEF QueryRuns
<1>7. QED BY <1>5, <1>6 DEF Inv1

LEMMA DocWritten ==
  ASSUME NEW d \in AccountDoc
  PROVE  /\ [d EXCEPT !.role = TRUE] \in AccountDoc
         /\ \A r \in Reqs : [d EXCEPT !.password = r] \in AccountDoc
BY DEF AccountDoc

\* The insertion of the account and of the role, the update of the password.
LEMMA StoreTypes ==
  ASSUME Inv1, NEW r \in Reqs, web[r].pc \in {"store", "role"},
         Create(r) \/ CreateRole(r) \/ Change(r)
  PROVE  accounts' \in [Numbers -> Seq(AccountDoc)]
<1> DEFINE n == web[r].number
<1>1. n \in Numbers /\ accounts[n] \in Seq(AccountDoc)
  BY DEF Inv1, TypeOK, WebRec, Serving, Pcs
<1>2. SUFFICES ASSUME NEW q \in Seq(AccountDoc), accounts' = [accounts EXCEPT ![n] = q]
               PROVE  accounts' \in [Numbers -> Seq(AccountDoc)]
  <2>1. CASE UNCHANGED accounts
    BY <2>1 DEF Inv1, TypeOK
  <2>2. CASE accounts' = [accounts EXCEPT ![n] =
                            Append(@, [by |-> r, password |-> r, role |-> FALSE])]
    <3>1. [by |-> r, password |-> r, role |-> FALSE] \in AccountDoc
      BY DEF AccountDoc
    <3>2. Append(accounts[n], [by |-> r, password |-> r, role |-> FALSE]) \in Seq(AccountDoc)
      BY <1>1, <3>1
    <3>3. QED BY <1>2, <2>2, <3>2
  <2>3. CASE accounts' = [accounts EXCEPT ![n] =
                            [k \in DOMAIN @ |-> IF @[k].by = r THEN [@[k] EXCEPT !.role = TRUE]
                                                ELSE @[k]]]
    <3> DEFINE f == [k \in DOMAIN accounts[n] |->
                       IF accounts[n][k].by = r THEN [accounts[n][k] EXCEPT !.role = TRUE]
                       ELSE accounts[n][k]]
    <3>1. \A k \in 1..Len(accounts[n]) : accounts[n][k] \in AccountDoc
      BY <1>1
    <3>2. ASSUME NEW k \in 1..Len(accounts[n]) PROVE f[k] \in AccountDoc
      <4>1. f[k] = accounts[n][k] \/ f[k] = [accounts[n][k] EXCEPT !.role = TRUE]
        BY <1>1
      <4>2. [accounts[n][k] EXCEPT !.role = TRUE] \in AccountDoc
        BY <3>1, DocWritten
      <4>3. QED BY <3>1, <4>1, <4>2
    <3>3. DOMAIN accounts[n] = 1..Len(accounts[n]) /\ Len(accounts[n]) \in Nat
      BY <1>1
    <3>4. f \in Seq(AccountDoc)
      <4>1. f = [k \in 1..Len(accounts[n]) |-> f[k]]
        BY <3>3
      <4> HIDE DEF f
      <4>2. f \in [1..Len(accounts[n]) -> AccountDoc]
        BY <3>2, <4>1
      <4>3. QED BY <3>3, <4>2
    <3>5. QED BY <1>2, <2>3, <3>4 DEF f
  <2>4. CASE accounts' = [accounts EXCEPT ![n] =
                            IF @ = <<>> THEN @ ELSE [@ EXCEPT ![1].password = r]]
    <3>1. ASSUME accounts[n] # <<>>
          PROVE  [accounts[n] EXCEPT ![1].password = r] \in Seq(AccountDoc)
      <4>1. 1 \in 1..Len(accounts[n]) /\ accounts[n][1] \in AccountDoc
        BY <1>1, <3>1
      <4>2. [accounts[n][1] EXCEPT !.password = r] \in AccountDoc
        BY <4>1, DocWritten
      <4>3. QED BY <1>1, <4>1, <4>2, ExceptSeq
    <3>2. QED BY <1>1, <1>2, <2>4, <3>1
  <2>5. QED BY <2>1, <2>2, <2>3, <2>4 DEF Create, CreateRole, Change
<1>3. QED BY <1>1, <1>2 DEF Inv1, TypeOK

LEMMA StoreStep ==
  ASSUME Inv1, NEW r \in Reqs, Create(r) \/ CreateRole(r) \/ Change(r) PROVE Inv1'
<1>1. /\ Goto(r, "role") \/ Answer(r, 0) \/ Answer(r, -4)
      /\ web[r].pc \in {"store", "role"}
      /\ UNCHANGED clientVars
  BY DEF Create, CreateRole, Change, RoleFailed
<1>2. accounts' \in [Numbers -> Seq(AccountDoc)]
  BY <1>1, StoreTypes
<1>3. CASE Goto(r, "role")
  BY <1>1, <1>2, <1>3, GotoStep DEF Pcs, Serving
<1>4. CASE Answer(r, 0) \/ Answer(r, -4)
  BY <1>1, <1>2, <1>4, AnswerStep
<1>5. QED BY <1>1, <1>3, <1>4

LEMMA RespondStep == ASSUME Inv1, NEW r \in Reqs, Respond(r) PROVE Inv1'
<1>1. accounts' \in [Numbers -> Seq(AccountDoc)]
  BY DEF Respond, Inv1, TypeOK
<1>2. QED BY <1>1, GotoStep DEF Respond, Pcs, Serving

LEMMA WebStep == Inv1 /\ [Next]_vars => Inv1'
<1> SUFFICES ASSUME Inv1, [Next]_vars PROVE Inv1'
  OBVIOUS
<1>1. CASE \E r \in Reqs, op \in Ops, n \in Numbers : Web(r, op, n)
  BY <1>1, WebArrives
<1>2. ASSUME NEW r \in Reqs, Slave(r) PROVE Inv1'
  BY <1>2, FindStep, RequestStep, StoreStep, RespondStep DEF Slave
<1>3. CASE \E r \in Reqs : Transfer(r)
  BY <1>3, TransferStep
<1>4. CASE Query
  BY <1>4, QueryStep
<1>5. CASE UNCHANGED vars
  BY <1>5 DEF vars, clientVars, Inv1, TypeOK, QueryRuns
<1>6. QED BY <1>1, <1>2, <1>3, <1>4, <1>5 DEF Next

LEMMA WebInvariant == Spec => []Inv1
<1>1. QED BY WebInit, WebStep, PTL DEF Spec

\* Every state of the web account service is well typed; in particular, a
\* request that is being served has its arguments.
THEOREM WebTypeCorrect == Spec => []TypeOK
<1>1. Inv1 => TypeOK
  BY DEF Inv1
<1>2. QED BY <1>1, WebInvariant, PTL

\* The tables of webclient agree with curl and with the callers that wait, and
\* the query coroutine runs exactly while the table is there, until an error of
\* curl ends it with callers left, for any number of callers of webclient.lua.
THEOREM WebQueryRuns == Spec => []QueryRuns
<1>1. Inv1 => QueryRuns
  BY DEF Inv1
<1>2. QED BY <1>1, WebInvariant, PTL

-----------------------------------------------------------------------------
(* The documents behind the answers.                                       *)

Answered == {"respond", "done"}

Fresh == \A r \in Reqs : web[r].pc = "none" => web[r].op = None

\* A document was inserted by a registration of its number that has got to
\* the role, or was answered 0 or -4.
Inserted ==
  \A n \in Numbers : \A k \in DOMAIN accounts[n] :
    LET w == web[accounts[n][k].by] IN
    /\ w.op = "create" /\ w.number = n
    /\ w.pc = "role" \/ (w.pc \in Answered /\ w.ret \in {0, -4})

\* A registration that has got to the role has its account.
RolePending ==
  \A r \in Reqs : web[r].pc = "role" =>
    \E k \in DOMAIN accounts[web[r].number] : accounts[web[r].number][k].by = r

\* A registration that was answered 0 has its account and its role.
RoleWritten ==
  \A r \in Reqs : web[r].pc \in Answered /\ web[r].op = "create" /\ web[r].ret = 0 =>
    \E n \in Numbers : \E k \in DOMAIN accounts[n] :
      accounts[n][k].by = r /\ accounts[n][k].role

Inv2 == Fresh /\ Inserted /\ RolePending /\ RoleWritten

\* What a step does that inserts no account: documents stay where they are,
\* and get a role but do not lose it; a request that had got to the role is
\* answered 0 only with the role; the others do not come near it.
SameDocs ==
  \A n \in Numbers :
    /\ DOMAIN accounts'[n] = DOMAIN accounts[n]
    /\ \A k \in DOMAIN accounts[n] :
         /\ accounts'[n][k].by = accounts[n][k].by
         /\ accounts[n][k].role => accounts'[n][k].role

Stays(r) ==
  /\ web'[r].op = web[r].op /\ web'[r].number = web[r].number
  /\ \/ web'[r].pc = web[r].pc /\ web'[r].ret = web[r].ret
     \/ web[r].pc = "respond" /\ web'[r].pc = "done" /\ web'[r].ret = web[r].ret
     \/ /\ web[r].pc = "role" /\ web'[r].pc = "respond" /\ web'[r].ret \in {0, -4}
        /\ web'[r].ret = 0 => \E n \in Numbers : \E k \in DOMAIN accounts'[n] :
                                 accounts'[n][k].by = r /\ accounts'[n][k].role

Quiet(r) ==
  /\ web'[r].pc # "role"
  /\ web'[r].pc = "none" => web'[r].op = None
  /\ ~(web'[r].pc \in Answered /\ web'[r].op = "create" /\ web'[r].ret = 0)

LEMMA DocTyped ==
  ASSUME Inv1, NEW n \in Numbers, NEW k \in DOMAIN accounts[n]
  PROVE  accounts[n][k] \in AccountDoc /\ accounts[n][k].by \in Reqs
<1>1. accounts[n] \in Seq(AccountDoc)
  BY DEF Inv1, TypeOK
<1>2. accounts[n][k] \in AccountDoc
  BY <1>1
<1>3. QED BY <1>2 DEF AccountDoc

LEMMA QuietStep ==
  ASSUME Inv1, Inv2, SameDocs,
         \A r \in Reqs : IF web[r].pc \in {"role", "respond", "done"} THEN Stays(r) ELSE Quiet(r)
  PROVE  Inv2'
<1>1. Fresh'
  BY DEF Inv2, Fresh, Stays, Quiet
<1>2. Inserted'
  <2> SUFFICES ASSUME NEW n \in Numbers, NEW k \in DOMAIN accounts'[n]
               PROVE  LET w == web'[accounts'[n][k].by] IN
                      /\ w.op = "create" /\ w.number = n
                      /\ w.pc = "role" \/ (w.pc \in Answered /\ w.ret \in {0, -4})
    BY DEF Inserted
  <2> DEFINE b == accounts[n][k].by
  <2>1. k \in DOMAIN accounts[n] /\ accounts'[n][k].by = b
    BY DEF SameDocs
  <2>2. b \in Reqs
    BY <2>1, DocTyped
  <2>3. /\ web[b].op = "create" /\ web[b].number = n
        /\ web[b].pc = "role" \/ (web[b].pc \in Answered /\ web[b].ret \in {0, -4})
    BY <2>1 DEF Inv2, Inserted
  <2>4. Stays(b)
    BY <2>2, <2>3 DEF Answered
  <2>5. QED BY <2>1, <2>3, <2>4 DEF Stays, Answered
<1>3. RolePending'
  <2> SUFFICES ASSUME NEW r \in Reqs, web'[r].pc = "role"
               PROVE  \E k \in DOMAIN accounts'[web'[r].number] :
                        accounts'[web'[r].number][k].by = r
    BY DEF RolePending
  <2>1. web[r].pc = "role" /\ web'[r].number = web[r].number
    BY DEF Stays, Quiet
  <2>2. web[r].number \in Numbers
    BY <2>1 DEF Inv1, TypeOK, WebRec, Serving, Pcs
  <2>3. PICK k \in DOMAIN accounts[web[r].number] : accounts[web[r].number][k].by = r
    BY <2>1 DEF Inv2, RolePending
  <2>4. QED BY <2>1, <2>2, <2>3 DEF SameDocs
<1>4. RoleWritten'
  <2> SUFFICES ASSUME NEW r \in Reqs, web'[r].pc \in Answered, web'[r].op = "create",
                      web'[r].ret = 0
               PROVE  \E n \in Numbers : \E k \in DOMAIN accounts'[n] :
                        accounts'[n][k].by = r /\ accounts'[n][k].role
    BY DEF RoleWritten
  <2>1. Stays(r)
    BY DEF Quiet
  <2>2. CASE web[r].pc = "role"
    BY <2>1, <2>2 DEF Stays, Answered
  <2>3. CASE web[r].pc # "role"
    <3>1. web[r].pc \in Answered /\ web[r].op = "create" /\ web[r].ret = 0
      BY <2>1, <2>3 DEF Stays, Answered
    <3>2. PICK n \in Numbers : \E k \in DOMAIN accounts[n] :
                 accounts[n][k].by = r /\ accounts[n][k].role
      BY <3>1 DEF Inv2, RoleWritten
    <3>3. QED BY <3>2 DEF SameDocs
  <2>4. QED BY <2>2, <2>3
<1>5. QED BY <1>1, <1>2, <1>3, <1>4 DEF Inv2

\* The usual case of a quiet step: one request moves, the documents stay.
LEMMA OneQuiet ==
  ASSUME Inv1, Inv2, UNCHANGED accounts, NEW r \in Reqs, NEW x, web' = [web EXCEPT ![r] = x],
         IF web[r].pc \in {"role", "respond", "done"} THEN Stays(r) ELSE Quiet(r)
  PROVE  Inv2'
<1>1. SameDocs
  BY DEF SameDocs
<1>2. ASSUME NEW q \in Reqs, q # r
      PROVE  IF web[q].pc \in {"role", "respond", "done"} THEN Stays(q) ELSE Quiet(q)
  <2>1. web'[q] = web[q]
    BY <1>2 DEF Inv1, TypeOK
  <2>2. QED BY <2>1 DEF Stays, Quiet, Inv2, Fresh, Answered
<1>3. QED BY <1>1, <1>2, QuietStep

LEMMA DocsArrive ==
  ASSUME Inv1, Inv2, NEW r \in Reqs, NEW op \in Ops, NEW n \in Numbers, Web(r, op, n)
  PROVE  Inv2'
<1>0. web[r].pc = "none" /\ web[r].op = None /\ web[r] \in WebRec /\ UNCHANGED accounts
  BY DEF Web, Inv1, TypeOK, Inv2, Fresh
<1>1. CASE web' = [web EXCEPT ![r] = Accepted(op, n)]
  <2>1. Quiet(r)
    BY <1>1 DEF Accepted, Quiet, Answered, Inv1, TypeOK
  <2>2. QED BY <1>0, <1>1, <2>1, OneQuiet
<1>2. ASSUME NEW ret \in {-1, -2}, Answer(r, ret) PROVE Inv2'
  <2>1. web' = [web EXCEPT ![r] = [web[r] EXCEPT !.pc = "respond", !.ret = ret]]
    BY <1>2 DEF Answer
  <2>2. web'[r].ret = ret /\ web'[r].pc = "respond"
    BY <1>0, <2>1 DEF Inv1, TypeOK, WebRec
  <2>3. Quiet(r)
    BY <2>2 DEF Quiet, Answered
  <2>4. QED BY <1>0, <2>1, <2>3, OneQuiet
<1>3. CASE Goto(r, "done")
  <2>1. web' = [web EXCEPT ![r] = [web[r] EXCEPT !.pc = "done"]]
    BY <1>3 DEF Goto
  <2>2. web'[r].op = None /\ web'[r].pc = "done"
    BY <1>0, <2>1 DEF Inv1, TypeOK, WebRec
  <2>3. None # "create"
    BY NoneAssumption DEF Ops
  <2>4. Quiet(r)
    BY <2>2, <2>3 DEF Quiet, Answered
  <2>5. QED BY <1>0, <2>1, <2>4, OneQuiet
<1>4. QED BY <1>1, <1>2, <1>3 DEF Web

\* Checks, requests to webclient and failed inserts.
LEMMA DocsGoto ==
  ASSUME Inv1, Inv2, NEW r \in Reqs, NEW pc \in Serving \ {"role"}, Goto(r, pc),
         UNCHANGED accounts, web[r].pc \notin {"role", "respond", "done"}
  PROVE  Inv2'
<1>1. web' = [web EXCEPT ![r] = [web[r] EXCEPT !.pc = pc]]
  BY DEF Goto
<1>2. web'[r].pc = pc
  BY <1>1 DEF Inv1, TypeOK, WebRec
<1>3. Quiet(r)
  BY <1>2 DEF Quiet, Answered, Serving
<1>4. QED BY <1>1, <1>3, OneQuiet

LEMMA DocsRefuse ==
  ASSUME Inv1, Inv2, NEW r \in Reqs, NEW ret \in -4..0, Answer(r, ret), UNCHANGED accounts,
         web[r].pc \in Serving, ret \in {-3, -4} \/ web[r].op = "change",
         web[r].pc = "role" => ret = -4
  PROVE  Inv2'
<1>1. web' = [web EXCEPT ![r] = [web[r] EXCEPT !.pc = "respond", !.ret = ret]]
  BY DEF Answer
<1>2. /\ web'[r].pc = "respond" /\ web'[r].ret = ret
      /\ web'[r].op = web[r].op /\ web'[r].number = web[r].number
  BY <1>1 DEF Inv1, TypeOK, WebRec
<1>3. CASE web[r].pc = "role"
  <2>1. Stays(r)
    BY <1>2, <1>3 DEF Stays
  <2>2. QED BY <1>1, <1>3, <2>1, OneQuiet
<1>4. CASE web[r].pc # "role"
  <2>1. Quiet(r)
    BY <1>2 DEF Quiet, Answered
  <2>2. QED BY <1>1, <1>4, <2>1, OneQuiet DEF Serving
<1>5. QED BY <1>3, <1>4

LEMMA DocsFind ==
  ASSUME Inv1, Inv2, NEW r \in Reqs, Find(r) \/ Count(r) \/ FindFails(r) PROVE Inv2'
<1>1. /\ Goto(r, "count") \/ Goto(r, "sms") \/ Answer(r, -3)
      /\ web[r].pc \in {"find", "count"}
      /\ UNCHANGED accounts
  BY DEF Find, Count, FindFails, Known
<1>2. CASE Goto(r, "count") \/ Goto(r, "sms")
  BY <1>1, <1>2, DocsGoto DEF Serving
<1>3. CASE Answer(r, -3)
  BY <1>1, <1>3, DocsRefuse DEF Serving
<1>4. QED BY <1>1, <1>2, <1>3

LEMMA DocsRequest == ASSUME Inv1, Inv2, NEW r \in Reqs, Request(r) PROVE Inv2'
<1>1. (Goto(r, "wait") \/ Goto(r, "store")) /\ web[r].pc = "sms" /\ UNCHANGED accounts
  BY DEF Request
<1>2. QED BY <1>1, DocsGoto DEF Serving

LEMMA DocsQuery == ASSUME Inv1, Inv2, Query PROVE Inv2'
<1>1. /\ web' = [r \in Reqs |-> IF r \in Finished THEN [web[r] EXCEPT !.pc = "store"]
                                ELSE web[r]]
      /\ UNCHANGED accounts
  BY DEF Query
<1>2. SameDocs
  BY <1>1 DEF SameDocs
<1>3. ASSUME NEW r \in Reqs
      PROVE  IF web[r].pc \in {"role", "respond", "done"} THEN Stays(r) ELSE Quiet(r)
  <2>1. CASE r \in Finished
    <3>1. web[r].pc = "wait" /\ web[r] \in WebRec
      BY <2>1 DEF Finished, Inv1, TypeOK, QueryRuns
    <3>2. web'[r].pc = "store"
      BY <1>1, <2>1, <3>1 DEF WebRec
    <3>3. QED BY <3>1, <3>2 DEF Quiet, Answered
  <2>2. CASE r \notin Finished
    <3>1. web'[r] = web[r]
      BY <1>1, <2>2
    <3>2. QED BY <3>1 DEF Stays, Quiet, Inv2, Fresh, Answered
  <2>3. QED BY <2>1, <2>2
<1>4. QED BY <1>2, <1>3, QuietStep

LEMMA DocsRespond == ASSUME Inv1, Inv2, NEW r \in Reqs, Respond(r) PROVE Inv2'
<1>1. /\ web' = [web EXCEPT ![r] = [web[r] EXCEPT !.pc = "done"]]
      /\ web[r].pc = "respond" /\ UNCHANGED accounts
  BY DEF Respond, Goto
<1>2. Stays(r)
  BY <1>1 DEF Stays, Inv1, TypeOK, WebRec
<1>3. QED BY <1>1, <1>2, OneQuiet

\* The account is inserted: a new document at the end of its number.
LEMMA DocsCreate == ASSUME Inv1, Inv2, NEW r \in Reqs, Create(r) PROVE Inv2'
<1> DEFINE n == web[r].number
           doc == [by |-> r, password |-> r, role |-> FALSE]
<1>1. web[r].pc = "store" /\ web[r].op = "create"
  BY DEF Create
<1>2. n \in Numbers /\ accounts[n] \in Seq(AccountDoc) /\ doc \in AccountDoc
  BY <1>1 DEF Inv1, TypeOK, WebRec, Serving, Pcs, AccountDoc
<1>3. CASE RoleFailed(r) /\ UNCHANGED accounts
  BY <1>1, <1>3, DocsRefuse DEF RoleFailed, Serving
<1>4. CASE accounts' = [accounts EXCEPT ![n] = Append(@, doc)] /\ Goto(r, "role")
  <2>1. web' = [web EXCEPT ![r] = [web[r] EXCEPT !.pc = "role"]]
    BY <1>4 DEF Goto
  <2>2. /\ web'[r].pc = "role" /\ web'[r].op = "create" /\ web'[r].number = n
        /\ \A q \in Reqs \ {r} : web'[q] = web[q]
    BY <1>1, <2>1 DEF Inv1, TypeOK, WebRec
  <2>3. \A m \in Numbers \ {n} : accounts'[m] = accounts[m]
    BY <1>2, <1>4 DEF Inv1, TypeOK
  <2>4. accounts'[n] = Append(accounts[n], doc)
    BY <1>2, <1>4 DEF Inv1, TypeOK
  <2>5. /\ Len(accounts[n]) \in Nat /\ DOMAIN accounts[n] = 1..Len(accounts[n])
        /\ DOMAIN accounts'[n] = 1..(Len(accounts[n]) + 1)
        /\ \A k \in DOMAIN accounts[n] : accounts'[n][k] = accounts[n][k]
        /\ accounts'[n][Len(accounts[n]) + 1] = doc
    <3> HIDE DEF n, doc
    <3>1. QED BY <1>2, <2>4
  <2>6. Fresh'
    BY <2>2 DEF Fresh, Inv2
  <2>7. ASSUME NEW m \in Numbers, NEW k \in DOMAIN accounts[m]
        PROVE  /\ k \in DOMAIN accounts'[m] /\ accounts'[m][k] = accounts[m][k]
               /\ accounts[m][k].by \in Reqs \ {r}
    <3>1. k \in DOMAIN accounts'[m] /\ accounts'[m][k] = accounts[m][k]
      <4>1. CASE m = n
        <5>1. k \in DOMAIN accounts[n]
          BY <2>7, <4>1
        <5>2. k \in DOMAIN accounts'[n] /\ accounts'[n][k] = accounts[n][k]
          <6> HIDE DEF n, doc
          <6>1. QED BY <5>1, <2>5
        <5>3. QED BY <4>1, <5>2
      <4>2. CASE m # n
        BY <2>3, <4>2
      <4>3. QED BY <4>1, <4>2
    <3>2. accounts[m][k].by # r
      BY <1>1 DEF Inv2, Inserted, Answered
    <3>3. QED BY <3>1, <3>2, DocTyped
  <2>8. Inserted'
    <3> SUFFICES ASSUME NEW m \in Numbers, NEW k \in DOMAIN accounts'[m]
                 PROVE  LET w == web'[accounts'[m][k].by] IN
                        /\ w.op = "create" /\ w.number = m
                        /\ w.pc = "role" \/ (w.pc \in Answered /\ w.ret \in {0, -4})
      BY DEF Inserted
    <3>1. CASE k \in DOMAIN accounts[m]
      <4>1. web'[accounts'[m][k].by] = web[accounts[m][k].by]
        BY <2>2, <2>7, <3>1
      <4>2. QED BY <3>1, <4>1 DEF Inv2, Inserted
    <3>2. CASE k \notin DOMAIN accounts[m]
      <4>1. m = n
        BY <2>3, <3>2
      <4>2. k = Len(accounts[n]) + 1
        <5>1. k \in DOMAIN accounts'[n] /\ k \notin DOMAIN accounts[n]
          BY <3>2, <4>1
        <5> HIDE DEF n, doc
        <5>2. QED BY <2>5, <5>1
      <4>3. accounts'[m][k].by = r
        BY <2>5, <4>1, <4>2
      <4>4. QED BY <2>2, <4>1, <4>3
    <3>3. QED BY <3>1, <3>2
  <2>9. RolePending'
    <3> SUFFICES ASSUME NEW q \in Reqs, web'[q].pc = "role"
                 PROVE  \E k \in DOMAIN accounts'[web'[q].number] :
                          accounts'[web'[q].number][k].by = q
      BY DEF RolePending
    <3>1. CASE q = r
      <4>1. Len(accounts[n]) + 1 \in DOMAIN accounts'[n]
            /\ accounts'[n][Len(accounts[n]) + 1].by = r
        BY <2>5
      <4>2. QED BY <2>2, <3>1, <4>1
    <3>2. CASE q # r
      <4>1. web'[q] = web[q] /\ web[q].number \in Numbers
        BY <2>2, <3>2 DEF Inv1, TypeOK, WebRec, Serving, Pcs
      <4>2. PICK k \in DOMAIN accounts[web[q].number] : accounts[web[q].number][k].by = q
        BY <4>1 DEF Inv2, RolePending
      <4>3. QED BY <2>7, <4>1, <4>2
    <3>3. QED BY <3>1, <3>2
  <2>10. RoleWritten'
    <3> SUFFICES ASSUME NEW q \in Reqs, web'[q].pc \in Answered, web'[q].op = "create",
                        web'[q].ret = 0
                 PROVE  \E m \in Numbers : \E k \in DOMAIN accounts'[m] :
                          accounts'[m][k].by = q /\ accounts'[m][k].role
      BY DEF RoleWritten
    <3>1. web'[q] = web[q]
      BY <2>2 DEF Answered
    <3>2. PICK m \in Numbers : \E k \in DOMAIN accounts[m] :
                 accounts[m][k].by = q /\ accounts[m][k].role
      BY <3>1 DEF Inv2, RoleWritten
    <3>3. QED BY <2>7, <3>2
  <2>11. QED BY <2>6, <2>8, <2>9, <2>10 DEF Inv2
<1>5. QED BY <1>3, <1>4 DEF Create

\* A write to the documents of one number that keeps their registrations and
\* their roles.
LEMMA SameDocsAt ==
  ASSUME Inv1, NEW n \in Numbers, NEW q, accounts' = [accounts EXCEPT ![n] = q],
         DOMAIN q = DOMAIN accounts[n],
         \A k \in DOMAIN accounts[n] : /\ q[k].by = accounts[n][k].by
                                       /\ accounts[n][k].role => q[k].role
  PROVE  SameDocs /\ accounts'[n] = q
<1>1. accounts'[n] = q /\ \A m \in Numbers \ {n} : accounts'[m] = accounts[m]
  BY DEF Inv1, TypeOK
<1>2. QED BY <1>1 DEF SameDocs

LEMMA DocsRole == ASSUME Inv1, Inv2, NEW r \in Reqs, CreateRole(r) PROVE Inv2'
<1> DEFINE n == web[r].number
           q == [k \in DOMAIN accounts[n] |->
                   IF accounts[n][k].by = r THEN [accounts[n][k] EXCEPT !.role = TRUE]
                   ELSE accounts[n][k]]
<1>1. web[r].pc = "role" /\ web[r] \in WebRec /\ n \in Numbers
  BY DEF CreateRole, Inv1, TypeOK, WebRec, Serving, Pcs
<1>2. CASE RoleFailed(r) /\ UNCHANGED accounts
  BY <1>1, <1>2, DocsRefuse DEF RoleFailed, Serving
<1>3. CASE accounts' = [accounts EXCEPT ![n] = q] /\ Answer(r, 0)
  <2>1. ASSUME NEW k \in DOMAIN accounts[n]
        PROVE  /\ q[k].by = accounts[n][k].by
               /\ accounts[n][k].role => q[k].role
               /\ accounts[n][k].by = r => q[k].role
    <3>1. accounts[n][k] \in AccountDoc
      BY <1>1, <2>1, DocTyped
    <3>2. /\ [accounts[n][k] EXCEPT !.role = TRUE].by = accounts[n][k].by
          /\ [accounts[n][k] EXCEPT !.role = TRUE].role = TRUE
      BY <3>1 DEF AccountDoc
    <3>3. QED BY <2>1, <3>2
  <2>2. DOMAIN q = DOMAIN accounts[n]
    OBVIOUS
  <2>3. SameDocs /\ accounts'[n] = q
    <3>1. \A k \in DOMAIN accounts[n] : /\ q[k].by = accounts[n][k].by
                                        /\ accounts[n][k].role => q[k].role
      BY <2>1
    <3>2. n \in Numbers /\ accounts' = [accounts EXCEPT ![n] = q]
      BY <1>1, <1>3
    <3> HIDE DEF q, n
    <3>3. QED BY <2>2, <3>1, <3>2, SameDocsAt
  <2>4. web' = [web EXCEPT ![r] = [web[r] EXCEPT !.pc = "respond", !.ret = 0]]
    BY <1>3 DEF Answer
  <2>5. /\ web'[r].pc = "respond" /\ web'[r].ret = 0
        /\ web'[r].op = web[r].op /\ web'[r].number = web[r].number
        /\ \A p \in Reqs \ {r} : web'[p] = web[p]
    BY <1>1, <2>4 DEF Inv1, TypeOK, WebRec
  <2>6. PICK k \in DOMAIN accounts[n] : accounts[n][k].by = r
    BY <1>1 DEF Inv2, RolePending
  <2>7. k \in DOMAIN accounts'[n] /\ accounts'[n][k].by = r /\ accounts'[n][k].role
    <3> HIDE DEF q, n
    <3>1. QED BY <2>1, <2>2, <2>3, <2>6
  <2>8. Stays(r)
    BY <1>1, <2>5, <2>7 DEF Stays
  <2>9. ASSUME NEW p \in Reqs
        PROVE  IF web[p].pc \in {"role", "respond", "done"} THEN Stays(p) ELSE Quiet(p)
    <3>1. CASE p = r
      BY <1>1, <2>8, <3>1
    <3>2. CASE p # r
      BY <2>5, <3>2 DEF Stays, Quiet, Inv2, Fresh, Answered
    <3>3. QED BY <3>1, <3>2
  <2>10. QED BY <2>3, <2>9, QuietStep
<1>4. QED BY <1>2, <1>3 DEF CreateRole

LEMMA DocsChange == ASSUME Inv1, Inv2, NEW r \in Reqs, Change(r) PROVE Inv2'
<1> DEFINE n == web[r].number
           q == IF accounts[n] = <<>> THEN accounts[n]
                ELSE [accounts[n] EXCEPT ![1].password = r]
<1>1. /\ web[r].pc = "store" /\ web[r].op = "change" /\ web[r] \in WebRec
      /\ n \in Numbers /\ accounts[n] \in Seq(AccountDoc)
  BY DEF Change, Inv1, TypeOK, WebRec, Serving, Pcs
<1>2. CASE Answer(r, -4) /\ UNCHANGED accounts
  BY <1>1, <1>2, DocsRefuse DEF Serving
<1>3. CASE accounts' = [accounts EXCEPT ![n] = q] /\ Answer(r, 0)
  <2>1. ASSUME NEW k \in DOMAIN accounts[n]
        PROVE  q[k].by = accounts[n][k].by /\ (accounts[n][k].role => q[k].role)
    <3>1. accounts[n][k] \in AccountDoc
      BY <1>1, <2>1, DocTyped
    <3>2. /\ [accounts[n][k] EXCEPT !.password = r].by = accounts[n][k].by
          /\ [accounts[n][k] EXCEPT !.password = r].role = accounts[n][k].role
      BY <3>1 DEF AccountDoc
    <3>3. q[k] = accounts[n][k] \/ q[k] = [accounts[n][k] EXCEPT !.password = r]
      BY <1>1, <2>1
    <3>4. QED BY <3>2, <3>3
  <2>2. DOMAIN q = DOMAIN accounts[n]
    BY <1>1
  <2>3. SameDocs
    <3> HIDE DEF q, n
    <3>1. QED BY <1>1, <1>3, <2>1, <2>2, SameDocsAt
  <2>4. web' = [web EXCEPT ![r] = [web[r] EXCEPT !.pc = "respond", !.ret = 0]]
    BY <1>3 DEF Answer
  <2>5. /\ web'[r].pc = "respond" /\ web'[r].op = "change"
        /\ \A p \in Reqs \ {r} : web'[p] = web[p]
    BY <1>1, <2>4 DEF Inv1, TypeOK, WebRec
  <2>6. ASSUME NEW p \in Reqs
        PROVE  IF web[p].pc \in {"role", "respond", "done"} THEN Stays(p) ELSE Quiet(p)
    <3>1. CASE p = r
      BY <1>1, <2>5, <3>1 DEF Quiet
    <3>2. CASE p # r
      BY <2>5, <3>2 DEF Stays, Quiet, Inv2, Fresh, Answered
    <3>3. QED BY <3>1, <3>2
  <2>7. QED BY <2>3, <2>6, QuietStep
<1>4. QED BY <1>2, <1>3 DEF Change

LEMMA DocsStep == Inv1 /\ Inv2 /\ [Next]_vars => Inv2'
<1> SUFFICES ASSUME Inv1, Inv2, [Next]_vars PROVE Inv2'
  OBVIOUS
<1>1. CASE \E r \in Reqs, op \in Ops, n \in Numbers : Web(r, op, n)
  BY <1>1, DocsArrive
<1>2. ASSUME NEW r \in Reqs, Slave(r) PROVE Inv2'
  BY <1>2, DocsFind, DocsRequest, DocsCreate, DocsRole, DocsChange, DocsRespond DEF Slave
<1>3. CASE \E r \in Reqs : Transfer(r)
  BY <1>3 DEF Transfer, Inv2, Fresh, Inserted, RolePending, RoleWritten
<1>4. CASE Query
  BY <1>4, DocsQuery
<1>5. CASE UNCHANGED vars
  BY <1>5 DEF vars, Inv2, Fresh, Inserted, RolePending, RoleWritten
<1>6. QED BY <1>1, <1>2, <1>3, <1>4, <1>5 DEF Next

LEMMA DocsInit == Init => Inv2
<1> SUFFICES ASSUME Init PROVE Inv2
  OBVIOUS
<1>1. \A r \in Reqs : web[r].pc = "none" /\ web[r].op = None
  BY DEF Init, NoWeb
<1>2. \A n \in Numbers : DOMAIN accounts[n] = {}
  BY DEF Init
<1>3. QED BY <1>1, <1>2 DEF Inv2, Fresh, Inserted, RolePending, RoleWritten, Answered

\* What web_slave.lua answers to a registration is true of the database: 0
\* means that the account and its role were inserted, -1 to -3 that nothing
\* was, for any number of registrations that interleave.
THEOREM WebAnswersTrue == Spec => []AnswersTrue
<1>1. Inv1 /\ Inv2 => AnswersTrue
  <2> SUFFICES ASSUME Inv1, Inv2, NEW r \in Reqs,
                      web[r].pc \in {"respond", "done"}, web[r].op = "create"
               PROVE  /\ web[r].ret = 0 => \E d \in Docs : d.by = r /\ d.role
                      /\ web[r].ret \in {-3, -2, -1} => \A d \in Docs : d.by # r
    BY DEF AnswersTrue
  <2>1. ASSUME web[r].ret = 0 PROVE \E d \in Docs : d.by = r /\ d.role
    <3>1. PICK n \in Numbers : \E k \in DOMAIN accounts[n] :
                 accounts[n][k].by = r /\ accounts[n][k].role
      BY <2>1 DEF Inv2, RoleWritten, Answered
    <3>2. PICK k \in DOMAIN accounts[n] : accounts[n][k].by = r /\ accounts[n][k].role
      BY <3>1
    <3>3. accounts[n][k] \in Docs
      BY <3>2 DEF Docs
    <3>4. QED BY <3>2, <3>3
  <2>2. ASSUME web[r].ret \in {-3, -2, -1}, NEW d \in Docs PROVE d.by # r
    <3>1. PICK n \in Numbers : \E k \in DOMAIN accounts[n] : d = accounts[n][k]
      BY DEF Docs
    <3>2. PICK k \in DOMAIN accounts[n] : d = accounts[n][k]
      BY <3>1
    <3>3. d.by = r => web[r].pc = "role" \/ web[r].ret \in {0, -4}
      BY <3>2 DEF Inv2, Inserted
    <3>4. QED BY <2>2, <3>3
  <2>3. QED BY <2>1, <2>2
<1>2. QED BY <1>1, WebInvariant, DocsInit, DocsStep, PTL DEF Spec
=============================================================================
