----------------------------- MODULE WebAccount -----------------------------
(***************************************************************************)
(* Registration and change of password over HTTP: web_slave.lua, the       *)
(* webclient service (webclient.lua over the curl binding lua-webclient.c) *)
(* that it asks to verify an SMS code, and the account documents behind    *)
(* db/account.lua.  Every query of the database and the call of webclient  *)
(* yield; an action is what a coroutine does between two yields.           *)
(*                                                                         *)
(* A request brings a password of its own, so a password is named by the   *)
(* request.  openSDKAuth is false in web_slave.lua: the answer of the SMS  *)
(* service is waited for and not looked at.                                *)
(***************************************************************************)
EXTENDS Integers, Sequences, FiniteSets

CONSTANTS Reqs,      \* HTTP connections
          Numbers,   \* phone numbers, the accounts
          None,      \* Lua's nil
          DbFails    \* a query of GetUserId may fail

Ops == {"create", "change"}

ASSUME NoneAssumption == None \notin Ops
ASSUME FailAssumption == DbFails \in BOOLEAN

VARIABLES
  web,       \* coroutine of CMD.web for a connection
  requests,  \* webclient.lua: requests is not nil
  pending,   \* webclient.lua: the keys of requests
  query,     \* webclient.lua: the query coroutine: none, run, dead
  handle,    \* lua-webclient.c: curl handle of a request: none, run, done
  accounts   \* MongoDB: the Account documents of a number, oldest first

clientVars == <<requests, pending, query, handle>>
vars == <<web, clientVars, accounts>>

Pcs == {"none", "find", "count", "sms", "wait", "store", "role", "respond", "done"}

\* While a request is being served, its arguments are there.
Serving == {"find", "count", "sms", "wait", "store", "role"}
WebRec  == [pc : Serving, op : Ops, number : Numbers, ret : {0}]
             \cup [pc : Pcs \ Serving, op : Ops \cup {None},
                   number : Numbers \cup {None}, ret : -4..0]
NoWeb  == [pc |-> "none", op |-> None, number |-> None, ret |-> 0]

AccountDoc == [by : Reqs, password : Reqs, role : BOOLEAN]

TypeOK ==
  /\ web \in [Reqs -> WebRec]
  /\ requests \in BOOLEAN
  /\ pending \subseteq Reqs
  /\ query \in {"none", "run", "dead"}
  /\ handle \in [Reqs -> {"none", "run", "done"}]
  /\ accounts \in [Numbers -> Seq(AccountDoc)]

Init ==
  /\ web = [r \in Reqs |-> NoWeb]
  /\ requests = FALSE
  /\ pending = {}
  /\ query = "none"
  /\ handle = [r \in Reqs |-> "none"]
  /\ accounts = [n \in Numbers |-> <<>>]

Goto(r, pc) == web' = [web EXCEPT ![r].pc = pc]

\* The answer is written when the handler gets to it.
Answer(r, ret) == web' = [web EXCEPT ![r] = [@ EXCEPT !.pc = "respond", !.ret = ret]]

-----------------------------------------------------------------------------
(* web_slave.lua                                                           *)

Accepted_bug(op, n) == [pc |-> "find", op |-> op, number |-> None, ret |-> 0]

\* creatAccount or changePassward with all its arguments.
Accepted(op, n) == [pc |-> "find", op |-> op, number |-> n, ret |-> 0]

\* A connection with a well-formed request, or one that is answered at once
\* (an HTTP error, -1 for an unknown path, -2 for bad arguments), or closed on
\* a read error.
Web(r, op, n) ==
  /\ web[r].pc = "none"
  /\ \/ web' = [web EXCEPT ![r] = Accepted(op, n)]
     \/ \E ret \in {-1, -2} : Answer(r, ret)
     \/ Goto(r, "done")
  /\ UNCHANGED <<clientVars, accounts>>

\* What creatAccount and changePassward make of the answer of GetUserId.
Known(r, exists) ==
  IF exists = (web[r].op = "create") THEN Answer(r, -3) ELSE Goto(r, "sms")

\* GetUserId, its query.
Find(r) ==
  /\ web[r].pc = "find"
  /\ IF accounts[web[r].number] = <<>> THEN Known(r, FALSE) ELSE Goto(r, "count")
  /\ UNCHANGED <<clientVars, accounts>>

\* GetUserId, its count: the assertion that it is 1 fails otherwise, and the
\* database service answers nil.
Count(r) ==
  /\ web[r].pc = "count"
  /\ Known(r, Len(accounts[web[r].number]) = 1)
  /\ UNCHANGED <<clientVars, accounts>>

\* Either query fails: the database service answers nil, as for no account.
FindFails(r) ==
  /\ DbFails /\ web[r].pc \in {"find", "count"}
  /\ Known(r, FALSE)
  /\ UNCHANGED <<clientVars, accounts>>

-----------------------------------------------------------------------------
(* webclient.lua                                                           *)

StartQuery_bug == query

\* The query coroutine is forked when there is none.
StartQuery == IF requests THEN query ELSE "run"

\* request: curl takes the transfer, or not; then the caller is answered
\* without a value and goes on, because json.decode turns nil into nil.
Request(r) ==
  /\ web[r].pc = "sms"
  /\ \/ /\ handle' = [handle EXCEPT ![r] = "run"]
        /\ query' = StartQuery
        /\ requests' = TRUE
        /\ pending' = pending \cup {r}
        /\ Goto(r, "wait")
     \/ Goto(r, "store") /\ UNCHANGED clientVars
  /\ UNCHANGED accounts

\* curl: the transfer of r ends, well or not.
Transfer(r) ==
  /\ handle[r] = "run"
  /\ handle' = [handle EXCEPT ![r] = "done"]
  /\ UNCHANGED <<web, requests, pending, query, accounts>>

Finished == {r \in pending : handle[r] = "done"}

Removed_bug(D) == handle

\* remove_request frees the handles.
Removed(D) == [r \in Reqs |-> IF r \in D THEN "none" ELSE handle[r]]

\* The loop of query up to its sleep: answer and remove every finished
\* request; end when none is left, else let curl work, which may fail: the
\* error ends the coroutine and leaves requests as it is.
Query ==
  /\ query = "run"
  /\ LET left == pending \ Finished IN
     /\ web' = [r \in Reqs |-> IF r \in Finished THEN [web[r] EXCEPT !.pc = "store"] ELSE web[r]]
     /\ handle' = Removed(Finished)
     /\ pending' = left
     /\ requests' = (left # {})
     /\ query' \in IF left = {} THEN {"none"} ELSE {"run", "dead"}
  /\ UNCHANGED accounts

-----------------------------------------------------------------------------
(* The change itself.                                                      *)

RoleFailed_bug(r) == Answer(r, 0)

\* An assertion of cmd_account_create fails: the caller gets nil.
RoleFailed(r) == Answer(r, -4)

\* cmd_account_create, the Account document; the insert may fail.
Create(r) ==
  /\ web[r].pc = "store" /\ web[r].op = "create"
  /\ \/ /\ accounts' = [accounts EXCEPT ![web[r].number] =
                          Append(@, [by |-> r, password |-> r, role |-> FALSE])]
        /\ Goto(r, "role")
     \/ RoleFailed(r) /\ UNCHANGED accounts
  /\ UNCHANGED clientVars

\* cmd_account_create, the RoleInfo document.
CreateRole(r) ==
  /\ web[r].pc = "role"
  /\ \/ /\ accounts' = [accounts EXCEPT ![web[r].number] =
                          [k \in DOMAIN @ |-> IF @[k].by = r THEN [@[k] EXCEPT !.role = TRUE]
                                              ELSE @[k]]]
        /\ Answer(r, 0)
     \/ RoleFailed(r) /\ UNCHANGED accounts
  /\ UNCHANGED clientVars

\* ChangePassward updates the first document of the number; the update of
\* none succeeds as well.
Change(r) ==
  /\ web[r].pc = "store" /\ web[r].op = "change"
  /\ \/ /\ accounts' = [accounts EXCEPT ![web[r].number] =
                          IF @ = <<>> THEN @ ELSE [@ EXCEPT ![1].password = r]]
        /\ Answer(r, 0)
     \/ Answer(r, -4) /\ UNCHANGED accounts
  /\ UNCHANGED clientVars

\* Write the answer, close the socket.
Respond(r) ==
  /\ web[r].pc = "respond"
  /\ Goto(r, "done")
  /\ UNCHANGED <<clientVars, accounts>>

-----------------------------------------------------------------------------
Slave(r) ==
  \/ Find(r) \/ Count(r) \/ FindFails(r) \/ Request(r)
  \/ Create(r) \/ CreateRole(r) \/ Change(r) \/ Respond(r)

Next ==
  \/ \E r \in Reqs : \/ \E op \in Ops, n \in Numbers : Web(r, op, n)
                     \/ Slave(r) \/ Transfer(r)
  \/ Query

Spec == Init /\ [][Next]_vars

\* The services and the database go on; the SMS service need not answer.
FairSpec == Spec /\ WF_vars(Query) /\ \A r \in Reqs : WF_vars(Slave(r))

-----------------------------------------------------------------------------
(* Properties.                                                             *)

Docs == UNION {{accounts[n][k] : k \in DOMAIN accounts[n]} : n \in Numbers}

\* webclient keeps its books together: a request is in the table exactly while
\* its caller waits and its curl handle exists, and the query coroutine runs
\* exactly while the table is not nil, so a request that arrives while the loop
\* ends is not left behind.  Only an error of curl breaks this: the coroutine
\* is dead, its table stays, and somebody waits in it for ever.
QueryRuns ==
  /\ \A r \in Reqs : /\ r \in pending <=> web[r].pc = "wait"
                     /\ r \in pending <=> handle[r] # "none"
  /\ query # "dead" => (requests <=> query = "run")
  /\ query = "dead" => requests /\ pending # {}
  /\ pending # {} => requests

\* The answers say what was done: a registration that is answered 0 has its
\* account and its role, one that is refused has left nothing behind, although
\* checks, SMS verification and inserts of several requests interleave.
AnswersTrue ==
  \A r \in Reqs : web[r].pc \in {"respond", "done"} /\ web[r].op = "create" =>
    /\ web[r].ret = 0 => \E d \in Docs : d.by = r /\ d.role
    /\ web[r].ret \in {-3, -2, -1} => \A d \in Docs : d.by # r

\* Every request is answered, unless its transfer never ends or curl has
\* failed: also one whose caller asked webclient just as the loop was ending.
WebAnswered ==
  \A r \in Reqs : web[r].pc # "none" ~>
    web[r].pc = "done" \/ handle[r] = "run" \/ query = "dead"

\* The assertion in GetUserId and AuthPassword: a number has one account.
OneAccountPerNumber == \A n \in Numbers : Len(accounts[n]) <= 1
=============================================================================
