# skynetServer: TLA+ models and proofs

A TLA+ development kept beside the game server in `src/`. It models the parts of
the server in which several services, timers and clients overlap, checks small
instances with TLC and proves the central facts for every size with TLAPS.

    tlc -workers 2 -config GateSafe.cfg MCGate            # a run
    tlapm GateProofs.tla                                  # a proof

`PROJECT.json` lists the components, the runs, the source lines behind every
definition (`map`), a mutation for every property (`mutants`), the hazards of the
code and the theorems.

## 1. The system

skynet runs one Lua state per *service*. A service handles the messages of its
mailbox in order, one at a time, but a handler that waits for an answer
(`skynet.call`, `newservice`, `socket.read`, and `syslog.debugf`, which calls the
logger) *yields*: other messages of the same service are handled before it goes
on. Everything hard in this code comes from what may happen during a yield. The
models follow that rule: **one action is what one coroutine does between two
yields**, and the locals a coroutine keeps across a yield are state.

| Component | State | Operations | Hard part |
|---|---|---|---|
| gate: `gamed.lua`, `gameserver.lua`, `gateserver.lua` (one service) | `connection`, `nclient`, `pending_msg`, `online_account`, `clear_pool` | socket open / data / close, login, relogin, kick, close, pool expiry | stale locals across calls, mutual calls with agents, slots and pool entries counted once |
| agent: `agent.lua`, `handler.lua` (one service per account) | `user`, `user_fd`, registered handlers | open, close, kick, other login, dispatch, exit | reuse by a later login, failing saves, exit with callers waiting |
| login server: `login_server.lua`, `login_slave.lua` | `session_id`, `balance`; `connection`, `saved_session` | accept, authenticate, number, store, verify, expire | timers against late answers, single use, routing by number |
| agent data: `record.lua`, `pay_handler.lua`, `role_handler.lua`, `db/*.lua` | study records, payments, role | client requests, save | saves during requests, check-then-insert |
| web account service: `web_server.lua`, `web_slave.lua` | MongoDB `Account` | create account, change password | check, verify and create are three calls |
| webclient: `webclient.lua`, `lua-webclient.c` | `requests` | request, query loop | the loop's end against a new request |
| package service: `service_package.c` | rings of requests and of packages, parser (`uncomplete`, `header_sz`), `recv`, `heartbeat` | socket data / close, request, timer, kick, exit, release | headers and packages cut by reads, ring growth while wrapped, a close between request and package |
| websocket framing: `lua-websocketnetpack.c` | hash of unfinished frames, ring of packages | filter, pop, clear | frames of several sockets in one bucket, masks, frames cut anywhere |
| sorted set: `skiplist.c`, `zset.lua` | skip list with spans | insert, delete, rank, range | spans at every level |
| area of interest: `aoi.lua`, `quadtree.lua` | tree, neighbour lists | insert, update, remove | lists on both sides, points on split lines, failed reinsertion |
| timer, moniter | last tick, `serTab` | five-second tick, heartbeat | iteration with yields |
| uuid | `timestamp`, `sequence` | gen, split | bit fields, one-second window |
| chat, world | table of online players; none | chat, `getOnline`; registration at `moniter`, heartbeat | started (`world` by `gamed.lua`, `chat_server` by `timer_server.lua`), but the table stays empty: the calls in `agent.lua` are commented out |
| friends, mail, names, bag, shop | tables of friends, mails, items | see the services | sequential; not started, or not registered by `agent.lua` |

How they interact: a client logs in at the login server, is sent a session number
and token, and connects to the gate. The gate asks the login server to verify the
session (`cmd_server_verify`), then finds, reopens or creates the agent of the
account, and forwards later packages to it. Agents call the gate back
(`cmd_gamed_kick`, `cmd_gamed_close`) while the gate may be waiting for them.
The timer service sends `five_sec_tick` to the gate, which lets pooled agents exit.

What makes the core correct: an account's data is never served to another
account; a connection is counted in and out once; an agent is reused only when
idle and exits only when closed; nobody waits for ever; a session is good for one
login of its owner, before it expires; what a client was told is stored is there at
its next login; a byte stream is turned into the same packages however it is cut.

## 2. Modules

| Module | Models | Extends / instantiates |
|---|---|---|
| `Gate` | gate and agent life cycle, composed through mailboxes | |
| `MCGate` | instances for TLC | `Gate` |
| `GateProofs` | types of `Gate`; an agent keeps its account | `Gate`, `TLAPS` |
| `GateLifeProofs` | the other safety properties of `Gate`: clients counted, agents idle in the pool, never shared, alive when called | `GateProofs` |
| `Tickets` | abstract: one-time session tickets | |
| `LoginSession` | login server, master and slaves | `INSTANCE Tickets` |
| `MCLoginSession` | instances for TLC | `LoginSession` |
| `LoginProofs` | types, single use, usable sessions, refinement of `Tickets` | `LoginSession`, `TLAPS` |
| `WebAccount` | registration over HTTP and the webclient service | |
| `MCWebAccount` | instances for TLC | `WebAccount` |
| `WebProofs` | types, the tables of webclient, the truth of the answers | `WebAccount`, `TLAPS` |
| `AgentData` | study records and payments of one account, with the database operations | |
| `MCAgentData` | an instance for TLC | `AgentData` |
| `DataProofs` | types, payments and records are kept | `AgentData`, `TLAPS` |
| `RingQueue` | the ring queue both C files use | |
| `RingProofs` | a ring is a FIFO queue, also while it grows | `RingQueue`, `TLAPS` |
| `PackageChannel` | abstract: the n-th request gets the n-th package | |
| `Package` | `service_package.c` | `RingQueue`, `INSTANCE PackageChannel` |
| `MCPackage` | an instance for TLC | `Package` |
| `PackageProofs` | types, queues, buffers, refinement of `PackageChannel` | `Package`, `RingProofs` |
| `Websocket` | `filter`, `pop` and `clear` of `lua-websocketnetpack.c` | `RingQueue` |
| `MCWebsocket` | an instance for TLC | `Websocket` |
| `WebsocketProofs` | types, struct uncompletes and buffers accounted for, packages exactly the data frames that have come | `Websocket`, `RingProofs` |
| `SortedSet` | abstract: members with scores, cut at either end | |
| `SkipList` | `skiplist.c`, `lua-skiplist.c` and `zset.lua` | `INSTANCE SortedSet` |
| `MCSkipList` | an instance for TLC | `SkipList` |

### Gate

`gq` is the mailbox of gamed, `aq[a]` that of agent `a`; both are FIFO. Answers
travel through the same mailboxes (`ret_open`, `ret_kick`, ...), because skynet
delivers them as messages, and `from` names the coroutine to resume.

* Sockets: `sock` goes idle, accepted, open, then `shut` (the server closed it) and
  `closed` (reported). The socket layer is external: it reports one close per
  socket, after the data.
* `ses[f]` is the coroutine of `handler.message` on socket `f`: `auth` (waiting for
  `cmd_server_verify`), `other` and `kick` (waiting for the earlier agent), `parked`
  (marked in `online_account` to be served when that agent closes), `forward`, `done`,
  `failed`, `dead` (an error ended it). `ses[f].info` says whether its local `info` is
  still the table in `online_account`; `Detach` clears it when that table is replaced.
* `fwd[c]` is `forward_agent` running in coroutine `c`: the login of a socket, or
  `cmd_gamed_close` of an agent.
* `closes`, `kicks`, `gclose` are the suspended halves of `close_fd`, `close_client`
  and `cmd_gamed_close`; `aopen`, `akick`, `aclose` those of the agent's commands.
* Failures: the database may answer nothing in `cmd_agent_open` (an error, answered
  with nil by the dispatcher) and nothing for the study records (`loaded`), which
  makes every later `save_data` fail (`CanSave`). A call of an agent that exits is
  an error in the caller (`errs`, `CallError`).
* `acct` is auxiliary: the account an agent was created for.
* An agent whose open failed is bound to the socket all the same, without a user, as
  in the code; `LoginServed` says what is left: the call returns, the login ends, and
  the socket, if it is still there, is bound to an agent of its own account.

Abstracted: the contents of packages (one request logs in, later ones run an RPC or
make the agent kick its client), what RPCs do with the account's data (see `AgentData`), the logger,
and time (`five_sec_tick` may find any pooled agents expired).

### LoginSession

`auth[c]` is `cmd_slave_auth` for connection `c`, by the call it waits for; `ver[g]`
is one `cmd_server_verify` of the game server. Requests and answers between the
services are the program counters of the waiting coroutines: a master or slave
serves them in any order, which includes every order its mailbox can produce.
`balance` is kept; which slave serves a connection is not, because a slave's tables
are keyed by the socket. Sessions are stored per slave, at the index computed by
`SaveSlave`, and looked up at the one computed by `VerifySlave`. `atimer` and `etimer`
are the two timers; `closing` is the wait inside `socket.close`. `owner` is auxiliary.
The `login_user_center` branch ends in an error whenever the user center agrees,
because `db/account.lua` has no `cmd_user_center_loadInfo`; the model says so
(`UserCenter`). `Travelers` are the ids made by `uuid.gen`, assumed new each time.

`Tickets` is what the game server may rely on: a ticket is issued once, redeemed at
most once and before it expires, by the account it was issued for. The refinement
mapping reads a ticket off the timer and the stored token.

### WebAccount

`web[r]` is `CMD.web` of `web_slave.lua` for connection `r`, by the call it waits for:
`find` and `count` (the two queries of `GetUserId`), `sms` and `wait` (the call of
webclient), `store` and `role` (the writes), `respond`, `done`. `accounts[n]` is the
sequence of the `Account` documents of a number, each with the request that inserted
it, the request whose password it has, and whether its `RoleInfo` exists. webclient is
`requests` (nil or not), `pending` (its keys), `query` (the coroutine: none, running, or
ended by an error) and the curl `handle` of each request. One `Query` step is the loop
up to its `sleep`, which includes the end of the coroutine: webclient does not yield
between the loop's last test and `requests = nil`. Failures: curl refuses a request,
`curl_multi_perform` fails, an insert or update fails, and a query of `GetUserId` fails
(`FindFails`: `database.lua` answers nil, and `creatAccount` goes on as if there were no
account). The constant `DbFails` allows the last: it is TRUE in `web_account` and FALSE in
`web_duplicate`, whose counterexample must not need an error. `QueryRuns` says that the
coroutine runs exactly while the table is not nil, and names the exception: after an error
of curl the coroutine is dead, the table stays and somebody waits in it. The answer of the SMS service is
not looked at, because `openSDKAuth` is false and `json.decode` never raises an error.

### AgentData

`info` and `payInfo` are the tables in memory, or nil when their load failed; `recDoc` and
`payDoc` the arrays of the documents. `jobs[c]` is the coroutine of the database service
that the open, one of the kicks, the close or the payment waits for: the operation it is at
and the elements it has left. `mq` is the order in which MongoDB executes the operations;
every `findOne`, `$push` and `$set` is a step of its own, so requests, kicks and the close
come between them. `cs` is the queue of `agent.lua`; open, kicks and close do not go
through it.

* Kicks: `gamed.lua` makes an agent known before it calls `cmd_agent_open`, and every
  relogin kicks, so a kick comes at any time at which the agent has a user, and several run
  at once (`Kickers`). During an open it saves what `info` then holds: the list of the
  agent's earlier session.
* An account may meet another agent at its next login: one of an earlier session that
  was in the pool, or a new one. `Pooled` is what such an agent may hold as `info`. Another
  agent is taken only when the last one has no request left, so that one queue is enough.
* Errors: any database operation may fail. The coroutine ends, and the dispatcher answers
  nil. A load that failed leaves nil in `info` or `payInfo`: requests that need the list then
  raise an error, and so does `SaveResultInfo`, also that of the close: `user` is never
  cleared and the agent stays as it is ("stuck").

A name has several fields (grade, term, unit, module) and a query states one condition per
field; names in the model are pairs, which is enough for conditions that different
elements satisfy. How MongoDB matches them and which element `$` stands for is external:
`Matches` asks for each field somewhere in the array, `$` may be any element that
satisfies a condition. Auxiliary: `kept` and `paid` are what the client was told;
`mixed`, `overlap` and `failed` name what may take it away (see `RecordsKept`).

### RingQueue, Package, PackageChannel

A ring is a record of capacity, head, tail and slots, as `struct queue` is; a slot that was
never written, or is read through a stale index, holds `Garbage`. `Package` never copies
the stream: `msg` is a position in it. `new_message`, `response` and `service_exit` loop,
so they run in steps (`pc`) during which no other handler starts; `Freed` and `heap` follow
the buffers. `heartbeat` is `Beat`: a connection from which nothing came since the last
beat is shut, and the socket layer reports that close later. `PackageChannel` is the
promise: requests and packages are numbered, and the n-th answer is the n-th package sent,
unaltered. The radix of the header is a constant (256 in the code), so that a small one
makes lengths of two digits.

### Websocket

A byte is named by its frame and its place there, with the set of mask bytes it is XORed
with at the moment: decoding twice, or with the wrong key byte, is visible, and contents
do not matter. A call of `filter` runs in steps: `header` (a header that an earlier read cut),
`fill` (a frame that waits), `frame` (the first frame of the read) and `more`
(`push_more`). As `dispatch_queue` of `gateserver.lua` does, the caller empties the ring
before the next read. `hash` has the chains of `struct uncomplete` by bucket. The three
lengths of a header are kept, with smaller numbers. `structs`, `bufs` and `lost` count what
is allocated. `datas` is a history variable, the numbers of the data frames sent on each
socket: no action but the client's reads or writes it, and `FramesExact` is stated with
it.

A client may send any frame, masked or not, of any length up to `MaxPack`: data (text,
binary and ping are the same to `read_size`), a frame of which `filter` drops two bytes
("skip": a fragment, or one with a reserved bit), or a close. `read_size` does not look at
the mask or the length of the last two, and `push_more` drops two bytes of a close frame
that follows another frame in its read, as `filter` does of every fragment. For an unmasked
empty frame that is the whole of it; of a masked one, which is what browsers send, four
bytes and the contents remain, and are read as headers. `Seen` is what a byte in that place
says: the constant `Look` gives any byte a header it looks like, so that a package nobody
sent can be made, as in the code. `astray` (auxiliary) has the sockets on which this
happened; other sockets of the bucket are not affected, and `FramesExact` says so.

Left out: the HTTP handshake, data frames longer than `MAX_PACKSIZE` (`read_size` cuts their
length), 64-bit lengths that overflow an `int`, and the test client's blocking functions.

### SkipList

A list is a record of nodes, tail, length and level, a node a record of score, backward
link and one forward link with span per level: the fields of `skiplist.h`. Members are
numbers in the order of `compareslObj`. The height of a new node is any level: the model
has all outcomes of `slRandomLevel`. `Walk` and `Descend` are the two nested loops that
all operations share, with the test of each as a parameter. `Unsigned` is the conversion
of a Lua integer to `unsigned int` (`UInt` values) on the way into C. `SortedSet` is the promise:
a function from members to scores, with `Limit` and `RevLimit` by rank; the refinement
mapping forgets the links.

## 3. Runs

| Run | Instance | Checks |
|---|---|---|
| `gate_safe` | 3 sockets, 2 accounts, 3 agents, 2 client slots | `TypeOK`, `AgentKeepsAccount`, `AccountIsolation`, `NclientExact`, `PoolIdle`, `NoSharedAgent`, `ReopenSafe`, `CalleesLive`, `ExitsClosed` |
| `gate_live` | 2 sockets, 1 account, 2 agents, fairness | `SlotReleased`, `CallsReturn`, `LoginServed` |
| `gate_one_session` | as above | `OneSessionPerAccount`: **violated** |
| `gate_relogin_served` | as above, fairness | `ReloginServed`: **violated** |
| `login_safe` | 2 connections, 2 slaves, 2 sessions, 2 verifications, good and wrong token | `TypeOK`, `UsableSession`, `AdmitsOwnerOnce`, `ImplementsTickets` |
| `login_live` | the same without verifications, fairness | `ConnectionReleased`, `SessionForgotten`, `SessionDelivered` |
| `skiplist` | 4 members, 2 scores, 3 levels | `TypeOK`, `RankExact`, `RangeExact`, `LimitExact`, `ImplementsSortedSet` |
| `web_account` | 3 requests, 1 number, fairness | `TypeOK`, `QueryRuns`, `AnswersTrue`, `WebAnswered` |
| `web_duplicate` | 2 requests, 1 number | `OneAccountPerNumber`: **violated** |
| `agent_data` | 2 names that share a field, 2 requests, 2 sessions, 2 kicks, a database error | `TypeOK`, `RecordsKept`, `PaymentsKept`, `PaidOnce` |
| `package` | 3 packages, 3 requests, radix 2, rings of 2, fairness | `TypeOK`, `OneQueueEmpty`, `HeapExact`, `ImplementsChannel`, `RequestResolved` |
| `websocket` | 3 frames of 6 kinds, 2 sockets of one bucket | `TypeOK`, `FramesExact`, `HeapExact` |

Bounds.

* `Gate`: `MaxData` limits the packages of a socket: two are a login and one more.
  Sockets log in once and skynet does not reuse their ids, so the number of sockets
  bounds the logins: two of one account show login against relogin, the third lets a
  login arrive while one is parked and one is served, or another account interfere.
  `FewPackages` lets two sockets send two packages each, or three one each. There are as
  many agents as logins, so `newservice` never fails for want of one. `MaxClient` is 2
  with three sockets, so the limit is reached.
* `LoginSession`: as many session numbers as connections, so the bound never blocks a
  login; two sessions and two slaves use both routes.
* `WebAccount`: three requests let one arrive while the query coroutine serves the other
  two; requests of different numbers do not meet except in webclient, which does not know
  the number.
* `SkipList`: four members give a node two neighbours on either side, two scores give
  ties and a gap, and three levels a level that goes out of use and comes back; the
  operations on a level do not depend on how many there are.
* `AgentData`: the second session loads what the first one saved, or did not; two kicks
  (`MaxKick`) let saves overlap each other, an open or the close, and one error
  (`MaxError`) may hit any operation, loads included. Two names that share a field are
  enough for `$` to select the wrong element; two requests (`MaxRpc`) leave two records,
  change one, or pay while a record is saved. An agent is new or holds one old record.
* `Package`: with header bytes that are bits, packages of 0 and 3 bytes use both bytes
  and one of 4 is too long to be sent; rings of two slots hold one element, so three
  requests or packages make them wrap and grow.
* `Websocket`: two sockets in one bucket share a chain; the three lengths use the three
  forms of a header; masks of two bytes have a phase that a cut can shift. Three frames
  make the ring, which has two slots, grow while it wraps. Among the frames are a masked
  fragment and a masked close frame, the mask of each left over; out of step, a byte looks like a masked
  header, a close, an empty package or one longer than `MaxPack` (`Look6`).
* `SkipList` converts negative counts nowhere in `Next`; `UInt` only has to be larger than
  the list.

Symmetry is used in safety runs only, on sets whose members no definition tells apart: the
sockets, accounts and agents of `Gate`, the connections, ids and verifications of
`LoginSession`, kick coroutines, the websockets of one bucket (the mutant `Pooled_bug`
apart, no definition chooses). Deadlock is checked for the skip list; elsewhere, when all clients have come and gone, the servers are idle.

Fairness. skynet schedules every service whose mailbox is not empty and resumes every
coroutine whose answer arrived, so the services (`Gamed`, `Agent(a)`, the resumed
coroutines) are weakly fair, and so are `skynet.timeout` timers. The database and the
logger are assumed to answer (possibly with nil). Clients are not fair: they may stop
at any time; nor is the SMS service, so `WebAnswered` excepts a transfer that never ends.
The 60 seconds of the pool need not pass. In `Package` a handler that has begun ends, the
timer fires, the socket layer reports the close it was asked for, and a service that
called EXIT is released; nothing is assumed of the other end, so `RequestResolved` rests
on the heartbeat.

### What the violations show

* `OneSessionPerAccount`: `forward_agent` enters the account in `online_account` only
  after `newservice` returned. A second login of the account in that window is
  forwarded too; two agents serve the account and nobody is kicked.
* `ReloginServed`: `login_handler` marks the `info` it read before two calls. If the
  earlier agent closed meanwhile, the record is gone, and the new login waits for ever
  on an open socket.
* `OneAccountPerNumber`: `creatAccount` checks, waits for the SMS service and inserts.
  Two registrations of a number in that window leave two documents, and `GetUserId`
  and `AuthPassword` fail their `count() == 1` assertion from then on.

### What the exceptions in the properties say

Some properties hold only outside cases that the code does not handle, and name them:

* `RecordsKept` has two parts. After a session the database has every exercise the client
  was told is stored, whatever kicks came, unless the save of the close failed (`failed`:
  the agent does not look at the answer) or `$` replaced a record of another name
  (`mixed`: the conditions of a query are not tied to one element of the array by
  `$elemMatch`). It has exactly the scores the client was told, and no record more, if
  moreover no save overlapped another one, an open or the close (`overlap`): two saves may
  both find no record and push it, the first copy, which is the one shown later, may be
  the older, and a kick that comes while an agent opens writes the list of the agent's
  earlier session over what another agent stored since.
* `PaymentsKept` and `PaidOnce` need that `$` replaced no other course, and nothing else.
* `HeapExact` of `Websocket` counts as `lost` the `struct uncomplete` of a close frame
  whose header came in two reads: it is out of its chain when `close_uncomplete` looks
  for it. That is the only leak.
* `FramesExact` is exact for every socket on which no frame was left half read, whatever
  happens on the others. `push_more` drops two bytes of a close frame and `filter` two of a
  fragment; unmasked and empty they are gone, but the mask and the contents of others are
  then read as headers (`astray`). On such a socket only the packages sent before some
  fragment or close frame of more than two bytes are right (`LedAstray`). A close frame is
  reported when it begins a read or its header was cut; otherwise it is thrown away,
  so `reported` follows the closes of the clients only in part.
* `RangeExact` says what a first rank past the end gets: nothing from `range`, but
  `rev_range` takes it for the rank of the last member, because `reverse_rank` goes below 1
  and `range` of `zset.lua` clamps it.
* `QueryRuns` and `WebAnswered` except a query coroutine that an error of curl has ended.

## 4. Proofs

Every theorem holds for all values of the constants that satisfy the named
assumptions: nil is no socket, account, agent, session, token or coroutine; sockets and agents
are different names; there is at least one slave; the name of no mask is not the name of a
mask (a pair of numbers); frames are at most `MaxPack` long, and `Look` names headers; names of
exercises are pairs; the kick coroutines are not those of open, close and payment, and what a pooled
agent holds is a list of records or nil; `DbFails` is a truth value; a header byte has at
least two values and a new ring at least one slot.

* `TypeCorrect` (`Spec => []TypeOK` of `Gate`). `TypeOK` is not inductive: a handler
  that resumes uses the fields its coroutine stored. `Coherent` says which are set at
  which program counter (`CohOpen`, `CohClose`, `CohForward`, `CohKick`), and
  `Typed == TypeOK /\ Coherent` is inductive. Lemmas about sending and receiving keep
  mailboxes out of the 35 step lemmas.
* `AgentAccountKept` (`Spec => []AgentKeepsAccount`). The account of an agent travels
  through messages and suspended coroutines, so the invariant `Keeps` follows it: in
  the mailbox of the agent (`KeepsAq`: an open is for the agent's account), in the
  coroutines of open and close (`KeepsOpen`, `KeepsClose`), in the mailbox of gamed
  (`KeepsGq`: a close report names the agent's account), in `cmd_gamed_close`
  (`KeepsGclose`) and from there in the pool. `KeepsBorn` makes creation harmless.
* `GateNclientExact`, `GateAccountIsolation`, `GatePoolIdle`, `GateNoSharedAgent`,
  `GateReopenSafe`, `GateCalleesLive` and the action property `GateExitsClosed`. None of
  them is inductive, because each depends on messages that are still on their way: an
  agent is idle in the pool only if no `open` for it is in a mailbox, and that holds only
  if nobody else was given it. `Good == Sockets /\ Counted /\ Logins /\ Forwards /\
  Lifecycle` says so, on top of `Typed` and `Keeps`. `Sockets` and `Counted` relate the
  state of a socket to the coroutines that close it and to `nclient`; `Logins` and
  `Forwards` say at which program counter a login or a `forward_agent` holds which
  account, socket and agent. `Lifecycle` is the core: every agent is in exactly one phase
  of unborn, opening, served, asked, saving, reported, pooling, pooled, exiting and dead,
  and `LifeAt` says for each phase where the agent is known (`online_account`, the pool, a
  forward, a close), which coroutines of its own run, and which of the messages about it
  are in which mailbox, once each. A step moves an agent to the next phase or leaves all
  agents where they are; the mailbox lemmas say that a message that is taken or sent
  changes the counts of that message only. The properties are then read off the phases.
* `LoginTypeCorrect`, `LoginAdmitsOwnerOnce`, `LoginUsableSession`, `LoginImplementsTickets`. The invariant is
  `Inv == TypeOK /\ Numbered /\ Stored /\ Owned /\ Consumed`: numbers are given once and
  only to connections that passed authentication; a session is stored exactly while
  its timer is set, for its owner; a login that was let in has consumed it. `UsableSession`
  needs `Delivered` besides: the number a connection was told is its own, and its session
  was stored, expired, or is with the one verification that took it. The
  refinement proof maps `SlaveSaveSession` to `Issue`, `SlaveVerify` to `Redeem` or a
  stutter, `SessionExpire` to `Expire`, and every other action to a stutter.

* `WebTypeCorrect`, `WebQueryRuns`: `TypeOK /\ QueryRuns` is inductive as it stands, the
  case of the dead coroutine included.
  `WebAnswersTrue` needs to know where documents come from: `Inserted` (a document was
  inserted by a registration of its number that has got to the role or was answered 0
  or -4), `RolePending` (a registration at the role has its account), `RoleWritten` and
  `Fresh`. `QuietStep` covers every step that inserts no account; only `Create` is apart.

* `PackageTypeCorrect`, `PackageOneQueueEmpty`, `PackageImplementsChannel`. The invariant
  is `Inv == TypeOK /\ Life /\ Requests /\ Queued /\ Encoded /\ Parsed /\ Idle`. `Encoded`
  says that the stream is the sent packages one after the other, each with its header;
  `Parsed` that the packages handed over or queued are the first ones sent (`Completed`)
  and that the parser stands inside the next one, in its header or its contents, with the
  bytes it has copied (`Position`). `Life` relates socket, phase and handler, `Requests`
  the numbers of the requests to those answered. A ring is reduced to a FIFO once
  (`RingPop`, `RingPush`, `RingClear`: what each slot counted from the head holds), also
  when it grows while it wraps; the rest of the proof reads rings through `At` and
  `queue_size` only. Every action then maps to a step of `PackageChannel` or a stutter.
* `PackageHeapExact`. `Owned == Fresh /\ HeapExact`: buffers are numbered in the order of
  their allocation and none is in two places, so that handing one over or freeing it
  takes exactly that one.
* `DataTypeOK`, `DataPaymentsKept`, `DataPaidOnce`, `DataRecordsKept`. The invariant is
  `Kept == Shape /\ Money /\ Names /\ Records`. `Shape` says which job the coroutine of each caller
  can have in which state of the agent and that `mq` names the callers that wait, once
  each. `Money`: a payment whose write has ended is in `payDoc`; a `$set` still finds what
  `findOne` found, because one request runs at a time; whatever the client was told it has
  paid is in `payInfo`, unless that is nil, and in the copy that a login is about to put in its
  place. `Names` holds while no close failed and nothing was mixed (`Sane`), with any number
  of saves at once: it says where the names of the exercises the client was told of are, and
  that a name a save has found is still there (`Found`). `Records` holds while there was no
  overlap either (`Sound`): no list has
  a name twice, only one save is under way, and the records the client was told of are in
  the database (no session), in the agent (online), or in the database or among what the
  close has still to write (closing). `SameShown` ends the argument: two lists with the
  same elements, one for each name, show the same. That a set of numbers which is not
  empty has a minimum (`MinIn`) comes from the well-foundedness of `<`.
* `WebsocketTypeOK`, `WebsocketHeapExact`. The invariant is `Sound == Streams /\ Marks /\
  Packages /\ Chained /\ Call /\ Heap`. Neither property is inductive: that a chain never
  has two struct uncompletes of a socket, and that linking one adds one to the table, both
  need that the socket of the running call has none there (`Absent` in `Call`), which holds
  because `find_uncomplete` takes it out first. `Call` also has the limits that keep `filter`
  inside its read (a header step has a byte left) and inside its buffer (`read` is at most
  `size`). `Heap` adds that the table is finite; the counting lemmas then follow from the
  library's theorems on cardinality. A frame sent widens the types, which all other steps
  leave alone. `RingProofs` serves here and for `Package`: a full ring is copied into one of
  any larger size.
* `WebsocketFramesExact`: between two calls of `filter` the caller has got, or finds in the
  ring, every data frame of which all bytes have come, once, unmasked and in the order of
  its socket, unless the socket went astray. The property says nothing inside a call and
  nothing of a frame that has come in part. The invariant is `Exact == Encoded /\ Numbered /\
  (running => Returns /\ \A fd : Tracked(fd))`, on top of `Sound`, where `Tracked` is
  `Followed` of a socket that is not astray. `Encoded`: the stream of a socket is its frames
  one after the other, without gaps, with the close frame last. `Numbered`: `datas` names
  the data frames, in order. `Returns`: the ring holds packages of one socket and is empty until
  a call has made its first package. `Followed` is the core: each socket is between two
  frames (`Passed`) or in the frame whose first bytes its `struct uncomplete` holds
  (`Begun`), in the header (`HeaderRead`) or in the contents, decoded as far as they are
  read (`ContentsRead`). Three lemmas carry the steps: `HeadRead` (the bytes that `filter`
  takes for a header are the header of that frame), `Unmasked` (the XOR is undone with the
  phase that an earlier read left behind) and `Settled` (no data frame ends between the
  begin of a frame and what was read of it, so that the count of packages stands). There is
  one lemma for each step of `filter` and each operation of the caller.
* `WebsocketLed` is the other half of that theorem: what was made before a socket went
  astray stays right. `GoesAstray`: a step that leaves the beginning of a frame behind stands
  in a frame that is no data and is longer than two bytes, and all data frames before it have
  been made. `LedGrows`: later steps only add packages after those (`LedStep`), however the
  bytes are misread.

Only model-checked: all liveness properties (the prover handles neither fairness nor
`ENABLED`), and the skip list with its refinement of `SortedSet`. Its operations are
recursive functions over the list: what they compute for every list needs induction, which
the prover cannot do.

## 5. Plan

What is left is `GateLogin`: `Gate` and `LoginSession` composed, `LoginHandler` of the one
fed by `SlaveVerify` of the other.

## 6. Not modelled

* Chat and world: `gamed.lua` starts `world`, which registers at `moniter` and has an empty
  heartbeat; `timer_server.lua` starts `chat_server`, but the calls of `cmd_online` and
  `cmd_offline` in `agent.lua` are commented out, so that its table of players, for which
  the timer asks at midnight, stays empty. Friends, mail, bag, shop, character and names: sequential updates of tables; the
  services are not started and `agent.lua` does not register the handlers. The area of interest (`aoi.lua`) is not loaded by any service.
* uuid: whether two ids can repeat depends on when skynet's timer fires inside a second,
  which is outside the repository; the models assume ids that do not repeat. timer and
  moniter: the tick is an action of `Gate`; the heartbeat changes no state.
* The HTTP handshake of websockets, data frames longer than `MAX_PACKSIZE`, and lengths that
  overflow an `int`. What follows a fragment or a masked close frame is modelled, but only
  as far as it must not affect packages sent before it, other sockets and the buffers.
* MongoDB beyond the operations of `AgentData`, cryptography (SRP, AES, hashes), the user
  center request, logging, configuration and protocol tables, the test client.
* The vendored libraries (lua-cjson with its dtoa, luafilesystem, LuaPbIntf, the headers
  of OpenSSL), which are most of the repository's lines. The server's own logic is the
  Lua under `src/server/service` and `src/server/lualib` and a few C files.

`PROJECT.json` gives the reason for each.
