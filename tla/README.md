# StatusServer in TLA+

StatusServer is the directory service of a chat system. Chat servers register
themselves and send heartbeats, clients ask (through other servers) which chat
server to use and get a login token for it, and the gate server is told when a
user comes or goes. All state that matters is in Redis; the server itself is a
gRPC front end whose handler threads run short sequences of Redis commands.

The modules here model that program from its source (`src/src/...`, called
`src/...` below, and abbreviated R = `application/impl/RedisNodeRegistryImpl.cpp`,
S = `application/impl/StatusServiceImpl.cpp`, M = `infra/redis/RedisMgr.cpp`).

## 1. Inventory

| Component | State it keeps | Operations | What makes it correct |
|---|---|---|---|
| Redis client (`RedisMgr`, M) | none; a pool of 5 connections, 3 s socket timeout | one method per command | one command is atomic; every error becomes the answer of a miss, and a failed write may have been executed |
| Node registry (R) | `registered_nodes` (name -> JSON with instance id and `expire_at`) | `registerNode`, `heartbeat`, `unregisterNode`, `cleanupExpiredNodes`, `getNode`, `listNodes` | one live owner per name; a lease is only renewed by its owner; what stops renewing is forgotten |
| User routes (R) | `user_node_<uid>` (TTL 30 s), `node_users_<name>` (set, no TTL) | `bindUser`, `unbindUser`, `getNodeForUser`, third EXPIRE of `refreshTokenTTL` | every route is indexed by the set of its node, so that unregister finds it; the set's size is the node's load |
| Login tokens (R) | `utoken:<token>` (hash, TTL 300 s), `utoken_<uid>` (index, TTL 300 s) | `saveToken`, `deleteToken`, `refreshTokenTTL`, `clearUserLoginData`, `validateToken`, `resolveToken` | a token is indexed, so that it can be revoked; it has a TTL; revoked is revoked |
| File tokens (`RedisFileTokenRepositoryImpl.cpp`) | `ftoken_<uid>` (TTL 60 s) | save, delete; `validateToken` accepts them too | dies within its TTL |
| Handlers (S) | none of their own | one per RPC; `GetChatServer`, `Logout`, `UnbindUser` combine the above and notify | the reply says what happened; the gate learns of it |
| Node selection (R:362-385, 574-627) | none | `selectLeastLoadedNode` | a live chat server with the fewest users |
| Thread pools (`infra/base`) | queue, stop flag, 2 workers each | construct, `enqueue`, destroy | tasks start once and in order; no wake-up lost; destruction drains and returns |
| Gate client | a stub | `notifyUserOffline/Online` (no deadline) | failure never blocks a login; what was accepted is sent before the process ends |
| Chat client | `_stubs`, a stub per endpoint | `notifyKickUser` (2 s), `getOrCreateStub` | channels stay few, however often users are kicked |
| Log | map of module loggers, `_inited` | `init`, `logger`, `shutdown` | one logger per file, so that none erases another's lines; a logger in use is not destroyed |
| Process (`app/StatusServer.cpp`) | `g_server`, `g_quit` | start, poll, shut down | a signal ends it; nothing used after it is gone |
| ConfigMgr | constant after start | lookups | a missing section reads as empty |
| utils | none | uuid, clock, a URL codec that nothing calls | a uuid is fresh |
| Registry of the tests (`tests/MemoryNodeRegistryImpl.h`) | maps of nodes, users, counts | the same interface | it keeps the promises it stands for in the tests |

**Interactions.** gRPC runs handlers on many threads at once. Handlers share no
memory; they meet in Redis, where only single commands are atomic and nothing
uses MULTI, scripts or conditional writes. Notifications to the gate are tasks
of the two-thread `grpcClientPool`. The constructor of the service runs
`cleanupExpiredNodes` before the server listens (S:22, `StatusServer.cpp:71-83`).

**What is hard.** Check-then-act across two commands; several keys that must
agree and are written one by one; failures that look like misses; crashes
between commands; expiry by wall clock, by Redis TTL, and by nothing at all
(the sets have no TTL); late refreshes; lost wake-ups and calls without a
deadline. `PROJECT.json` lists each of these hazards at its line, with the
properties that watch it, and a note where these cover it in part.

## 2. Modules

| Module | Models | Depends on |
|---|---|---|
| `RedisMgr` | M: what a command does to its key, what its caller is answered, and how it may fail | - |
| `NodeRegistry` | R: registry and routes, one action per Redis command | `RedisMgr`, `NodeLease`, `Routing` |
| `NodeLease` | abstract: what the registry promises about one name | - |
| `Routing` | abstract: what the registry promises about users and nodes (`NodeRegistry.h`), one action per method | - |
| `MCNodeRegistry`, `MCTokenQueries`, `MCStatusService` | symmetry sets for the runs | `NodeRegistry`, `TokenQueries`, `StatusService` |
| `LoginTokens` | R, file token repository and the handlers that use them, one action per Redis command | `RedisMgr` |
| `TokenQueries` | `validateToken` and `resolveToken`, beside everything in `LoginTokens` | `LoginTokens` |
| `StatusService` | S on the registry: login, logout, unbind, online and the handlers that are one method of `NodeRegistry`, in as many threads as one likes, one action per Redis command, with node selection and the gRPC client pool | `NodeRegistry` |
| `ThreadPool` | `infra/base/ThreadPool.cpp`, one action per critical section | `TaskQueue` |
| `TaskQueue` | abstract: what a pool promises | - |
| `StubCache` | the stubs of `ChatNotifyClientImpl.cpp`, one action per critical section | - |
| `Log` | `infra/log/Log.cpp`: a log call as two lookups and a write through a bare reference | - |
| `Process` | `app/StatusServer.cpp`: the main thread from start to the destructors after main, with handlers that kick and notify, workers and signals; what ConfigMgr finds | `Log`, `StubCache` |
| `NodeRegistryProofs`, `RoutingProofs`, `LoginTokenProofs`, `TokenQueryProofs`, `ServiceProofs`, `ThreadPoolProofs`, `StubCacheProofs`, `ProcessProofs` | theorems and proofs | the module proved about, TLAPS |

Definitions keep the names of the source where TLA+ allows it; the labels of
`pc` begin with the method (`bd` bindUser, `ub` unbindUser, `un`
unregisterNode, `hb` heartbeat, `sv` saveToken, `dt` deleteToken, `rt`
refreshTokenTTL, `fi` file tokens). `PROJECT.json` maps each definition to its
lines. Definitions marked *slip* are not part of the model: each is a plausible
mistake in one definition, kept to show that a property notices it.

### How code becomes actions

* A handler thread is a sequential process: an idle thread takes a request
  (`RegisterNode`, `BindUser`, ...) and then does one action per Redis command.
  `Return` ends the method at every early return of the code.
* `Outcomes(cmd)` is what may become of a command: executed and answered,
  thrown without being executed (`refused`), or executed with its answer lost
  (`lost`). `Fallible` names the commands that may throw in a run and
  `MaxFaults` bounds how often. A throwing read is a miss, as in the code.
* **Time.** A node record stores `expire_at`; the model stores
  `lease = expire_at - now`, saturated at -1, and `Tick` decrements it in Redis
  and in every copy a thread holds, so a record that a thread computed and
  stores late has aged. Redis keys carry their TTL and vanish when it ends.
* A record with an empty endpoint field is stored but does not parse
  (`complete`, R:54); `Endpoints = {TRUE, FALSE}` lets both be registered.
* **Crash** ends every method between any two commands and leaves Redis as it
  is; the server then runs the cleanup of its constructor before it serves.
* `NodeStops` is a chat server that dies: it sends nothing any more, but a
  method in flight for it still runs on.
* The keys of the registry and of the tokens are disjoint, and no method
  decides about the one by what it read from the other except
  `refreshTokenTTL`, which reaches its third EXPIRE only if it found a token.
  So `clearUserLoginData` is `unbind` in `NodeRegistry` followed by `clear` in
  `LoginTokens`, and `RefreshTokenTTL` in `NodeRegistry` stands for a refresh
  that found a token. It may come for any user at any time, whatever node the
  route names: the code does not look (R:502).
* `StatusService` is `NodeRegistry` with handlers that combine its methods. A
  thread in a handler takes the commands of the handler itself and, where the
  code calls `unbindUser` or `bindUser`, those of `NodeRegistry`; every command
  interleaves with those of every other thread, may fail, and time passes
  between any two. What a read of a login token's key finds is left open, since
  `LoginTokens` models those keys: `deleteToken` may find a token or not, and
  its DEL may remove it or not, so that `UnbindUser` returns early (S:321) in
  each of these cases and `Logout` and `GetChatServer` go on. A login is answered
  only after both parts of `saveToken` were. `bindUser` asks for no token, so a
  bind may come for any user. A pool task is a notification in `queue`, then in
  `work[w]`, taken in order as `TaskQueue` promises.
  Each call has a number: `given` holds the logins that were answered with a
  token, a bind is made with one of these (or 0, a token from before), `session`
  is the login whose client was bound last, and an offline notification carries
  the last login it is meant to end. None of these numbers is in the code, whose
  messages carry the uid alone; they are what `OfflineEndsOldOnly` compares.
  `drift` is history too. The instance starts with nodes registered and users
  bound, and the server does not crash in it; start-up and crashes are in
  `NodeRegistry`.
* `ThreadPool`: what happens under `_mutex` is one action; `notify_one` and
  `notify_all` are actions of their own after the unlock; waits may wake up
  spuriously. A task in `MayHang` need not return (the calls to the gate have
  no deadline).
* **Contracts.** `Routing` is what `NodeRegistry.h` says of routes: bind, unbind
  and unregister are one step each, and a route may end by itself. In
  `NodeRegistry` a bind or unbind counts as done once the old route is read,
  and an unregister once the set is read: from there nothing but these commands
  follows. The contract is kept by one thread's commands and not by those of
  several (see the options below); `RouteIndexed` is what several keep.
* `adrift` in `LoginTokens` (history) collects the tokens whose index lapsed
  while a refresh was between its EXPIRE of the hash (R:499) and that of the
  index (R:500): the second EXPIRE then finds nothing to renew, and the token
  lives on without an index, with no command having failed. Time may pass
  between any two commands, so this happens however short a call is.
* `TokenQueries` keeps for each query in flight the answers that would have been
  right at each moment since it began (`truth`, history). A query's own reads
  are two commands; its answer must be one of these.
* A log call in `Log` is: find (first critical section), create (second), write
  (outside both). Loggers are numbered per module; a reference is destroyed
  when the map no longer holds that number. `written` is whether the file holds
  lines of this process, which opening it anew erases.
* The main thread logs while it wires the service: the constructor of the
  service and its cleanup write for the modules that handlers and workers log
  for later. What the main thread itself logs after that is left out: it is
  between its own steps, and for a module of its own or one whose logger is there.
  A handler logs when its call begins, when it has made a stub and when it has
  the answer of the chat server; a worker logs what became of its call twice,
  in the client of the gate and in the task that called it (S:37-44).
* In `Process` a label of `main` is a stage of `runServer`, of `main`'s handler
  or of the destruction of singletons after it. The sections that `config.json`
  lacks decide what fails: no `Redis` and `std::stoi` throws in the constructor
  of the service, no `StatusServer` and the server does not start, no
  `GateServer` and nothing is ever enqueued. A signal before the handlers are
  installed kills the process, also when `Log::init` has failed and `runServer`
  returns without ever installing them (`GiveUp`). Writing through a destroyed
  logger is undefined: the line is lost, or the process crashes.

## 3. Runs

| Run | Instance | Shows |
|---|---|---|
| `registry_serial` | 1 thread, 2 names, ids {i1, empty}, 2 users, TTL 2, complete and incomplete records, no failure, routes refreshed in time | types; `LoadExact`: the load node selection reads is exact between calls; `UnregisterLeavesNoRoute`; `RoutingSpec`: the commands of a method together are its one step of the contract |
| `registry_live` | 1 thread, 2 names, 2 ids, 1 user, TTL 1, one failing command, one crash, a node that may die | `LeaseSpec`: the methods of one thread, cut short by a crash or with a command that fails, implement `NodeLease`; `StoppedNodeForgotten`: what a node that died leaves behind goes away, but for a route whose user is refreshed without end |
| `tokens_serial` | 1 thread that logs in, out, refreshes and transfers, 1 that asks, 2 users, 2 tokens, TTLs 2 and 1, one failing command, one crash, time that passes between any two commands | `TokenIndexed`: one login token per user that logout finds; each failure or crash costs at most one orphan, and nothing else makes one but an index that lapses inside a refresh; `AnswersTrue`: what ValidateToken and ResolveToken answer was right at some moment of the query; `QueriesAgree`: the two know the same tokens, unless a crash came between the two HSETs |
| `tokens_concurrent` | 2 threads, 1 user, 2 tokens, one failing command, one crash | types; `MortalUntilCrash` (the rollback of saveToken), `NoRevival` (a late refresh), `TokensExpire` |
| `thread_pool` | 2 workers, 3 clients, 5 tasks, task 2 may hang | `QueueSpec`: the pool implements `TaskQueue`; `WakeUpsSuffice`: for each task that waits a worker is awake, or a notification still to come; `EveryTaskEnds`; `DestructorReturns` |
| `handlers` | 2 threads, 2 users, 2 calls of login, logout, unbind, online, bind and refresh, 2 nodes that expire, 1 worker, one GET, SREM, EXPIRE or SCARD that fails | types; `RouteIndexed`: no interleaving of the commands of two calls leaves a route that the set of its node does not index; `SelectionFresh`: the node chosen is off by no more than what moved, or could not be read, since the nodes were listed; `NoCallWaits`: whatever the other thread and the worker are in the middle of, a call can take its next step |
| `process` | 2 handlers, 2 workers of which one may hang, 3 calls, 1 chat server, 2 log modules; sections missing, the log directory or the port failing, a signal at any moment | types; `ConnectsOnce`: a handler connects to a chat server once, although two lookups may both miss; `ServiceOutlivesCalls`; `NothingDropped`; `LinesKept`: no logger erases the lines of another; `SignalEnds` |
| `register_race` (violated) | 2 threads, 2 instances, 1 name | `registerNode` does not refuse a live name under a race (`NodeRegistry.h:31` says it does) |
| `cleanup_load` (violated) | 1 thread, 1 user | cleanup leaves the login count (`NodeRegistry.h:67` says it removes it) |
| `token_crash` (violated) | 1 thread, 1 crash | a crash in `saveToken` leaves a token without TTL (R:64 says it gets a short one) |
| `offline_late` (violated) | 1 thread, 2 calls of login and bind, 1 user, 2 workers, 2 nodes | the offline of a login is about the session it made (S:106 says it is for the old one) |
| `log_after_shutdown` (violated) | 1 handler, 1 worker, 2 calls, nothing fails at start | `EndsCleanly`: `Log::shutdown` destroys a logger that a worker is about to write through, since the pool is joined after main only (`StatusServer.cpp:94` says the clean-up is graceful) |

### Bounds, and why they are enough

* `MaxFaults = 1`: every command fails at every point of every interleaving,
  alone (`registry_serial` allows none: its properties are about calls that
  succeed). Two failures in one call can defeat the rollback of `saveToken`
  (R:87): what is left then is the state `token_crash` shows.
* `MaxCrashes = 1`: Redis after a crash is again just a state of Redis; a
  second crash adds no new kind of state, and `TypeOK` is proved for any number.
* Two names and two instances are what a user can move between and what can
  compete for a name; two threads are the least that race. Users do not
  interact but through the sets, which the runs with two users cover.
* TTLs are 1 or 2 units instead of 30, 300 and 60 s: one unit is enough for a
  lease to be alive, in its last second and expired, and in `registry_serial`
  two leave room for a renewal in between.
* `Tokens` bounds how many uuids are generated: two in `tokens_concurrent` let a
  new token race a late refresh of the old one, and all its properties but
  `TokensExpire` are proved for any number; `MaxTasks` bounds the pool's
  queue, five tasks for two workers and three clients let the queue grow beyond
  the workers while one task hangs.
* `handlers`: one user must be bound when the other selects, and two calls for
  one user must race, so two calls, two threads and two users are the least; two
  nodes are the least to choose from and to move between. Every user is bound at
  the start, so that a first bind, a move, an unbind and a clear all meet a route
  (or its expiry) within two calls. One worker, which may be busy for ever, lets
  notifications wait. `unregister` is not called, and no SETEX, SADD or DEL fails,
  for what the options below say. The theorems have any number of each.
* `process`: two handlers and two workers let one be busy while another ends;
  three calls let a notification wait behind the worker that hangs. One chat
  server is what two handlers race for, two log modules what one thread can
  find made while it makes the other; the theorems are for any number.
* `tokens_serial`: one thread that changes tokens and one that asks are the
  least that interleave; two users and two tokens let a token be compared with
  the wrong user, or be asked for while another replaces it.

### Assumptions that are options

* `RefreshInTime` (only `registry_serial`): chat servers refresh each route
  before its TTL ends. It is the contract the 30 s TTL relies on. Without it a
  route expires, its member stays in `node_users_`, the load is wrong for ever,
  and a later unregister of that node deletes the route of a user who may be
  bound elsewhere by now: `LoadExact` is false then, and by design of the keys.
* `registry_live` leaves `hGet` out of `Fallible`: a failed HGET reads as "no
  such node", and `registerNode` then overwrites a live record. That is a
  hazard of the code, listed as such, and it breaks the lease at once.
* `LeaseSpec` is checked for one thread. Threads that bind, unbind and refresh
  do not disturb it; two methods on records that overlap do, as
  `register_race` shows. The theorem has just that as its hypothesis.
* `StoppedNodeForgotten` allows for a user whose refreshes never stop coming.
  `refreshTokenTTL` renews the route of a uid without a look at the node it names
  (R:502). If the SETEX of a move fails (R:444, its result is ignored), the route
  names the old node, the new one serves the user and has it refreshed; when the
  old node dies the route to it stays as long as this goes on.
* `RouteIndexed` is checked in `handlers` without `unregister` and with SETEX,
  SADD and DEL that do not fail. The snapshot of `unregister` races with a bind
  that found the node alive before, and a failed SADD leaves the route without an
  index: both last until the TTL of the route ends (listed as hazards).
* `RoutingSpec` and `UnregisterLeavesNoRoute` are checked, and proved, for one
  thread; commands of several threads break both.
* `TokenIndexed` is about one thread: two logins of one user at once leave two
  tokens and one index.

### Fairness

`NodeRegistry!FairSpec` and `LoginTokens!FairSpec` assume that time passes,
that the process is started again after a crash, and that a method in flight
goes on: each Redis command ends, by its answer or by the 3 s timeout.
No request is ever promised. `ThreadPool!Spec` assumes that a runnable thread
runs and that a task outside `MayHang` returns; no client is promised to
enqueue, nobody to destroy the pool, and no spurious wake-up to occur: so a
lost notification would show.

`StatusService` states no fairness. That a call does not wait is the safety
property `NoCallWaits`: at each moment the next step of every call in flight is
enabled, whatever the others and the workers do; a call has finitely many steps.

`Process!Spec` is fair to the main thread, to handlers and to workers, since
these are threads that can run. Nobody is promised a signal or a call, nor an
answer of the gate to a worker in `MayHang`: `SignalEnds` says that the process
ends unless such a call never returns. The other modules state no fairness:
they have safety properties only.

Deadlock is checked in every run but `thread_pool`, `process` and
`log_after_shutdown`, where the pool or the process really stops.

## 4. Proofs

Every theorem holds for all values of the constants that satisfy the stated
assumptions, which say no more than that bounds are numbers, that the sets of
threads, users and so on, and the records made of them, do not contain `None`,
and, where something is counted, that they are finite. A theorem that needs more
names it as its hypothesis, and the text below says why. Every safety property
that a passing run checks, but `NoCallWaits`, is stated by a theorem. `NodeRegistryProofs`:

* `RegistryTypeCorrect`: `Spec => []TypeOK`. `TypeOK` alone is not inductive:
  that `HDel` at `unNode` or `SetEx` at `bdSet` writes a well-typed key depends
  on which request a thread at that label serves and, at `ubRem`, on `old` being
  a node. `TypeInv` adds `RequestsOK`, which ties each label to its request.
* `RoutesStayIndexed`: `RoutesSafe /\ Spec => []RouteIndexed`, and
* `UnregisterIsComplete`: `RoutesSafe /\ Spec => []UnregisterLeavesNoRoute`.
  `RoutesSafe` says what the two need: no crash between SETEX and SADD; the
  commands that write routes and sets, and SMEMBERS, do not throw; and
  unregister does not run beside another method (one thread, or unregister not
  called). Every conjunct is needed: each names a hazard of the list. The
  inductive invariant `RouteInv` adds `UnregisterClears`: from SMEMBERS on, the
  routes to the node are among those still to delete, and once the loop has
  ended there are none. The time bound, the failure of the other commands, the
  number of threads and the expiry of routes are arbitrary.
* `RegistryKeepsContract`: `OneAtATime /\ Spec => RoutingSpec`, the refinement
  of `Routing` by single commands. `OneAtATime` says that there is one thread,
  that it does not crash, and that the commands on routes and sets do not fail;
  HGET, HSET and HDEL may, and routes may expire at any moment. The contract
  sees the method in flight as done from its read of the old route (or of the
  set) on, so the proof must know what is still to come: `Held` says that only
  unregister has a list, that the old node still to be left is another than the
  new one and, once left, does not count the user, and that the route `bindUser`
  wrote is there until it ends by itself. `SerialInv` is that with `TypeInv`.
  A lemma gives `RouteSeen` and `UsersSeen` as functions of the one thread's
  label, request, list and old node (`RouteBy`, `UsersBy`): most steps are then a
  stutter of these functions.
* `LoadsAreExact`: `OneAtATime /\ RefreshInTime /\ Spec => []LoadExact`. It is
  proved of the contract (`ContractExact`: each step of `Routing` moves a route
  and its count together, when no route expires by itself) and carried over by
  the refinement: between calls `RouteSeen` and `UsersSeen` are the keys
  themselves. The hypothesis is the option described above, without which the
  property is false.
* `NamesAreLeased`: `LeaseSafe /\ Spec /\ []OneInLease => LeaseSpec`, the
  refinement of `NodeLease`, for any number of threads and any TTL, with any
  crashes, stops and failures of the commands other than HGET. There are three
  hypotheses. `OneInLease`: no two threads are in a registration (with its
  cleanup), a heartbeat or an unregister at the same time; the gRPC server does
  not see to that, and `register_race` shows what becomes of it otherwise.
  `LeaseSafe`: HGET is answered (a failed one reads as "no such node"), and every
  registration names an endpoint: one without is stored, does not parse, and so
  hides the record it has replaced, whose owner nobody sees any more. `Owns` is
  what a method in flight knows: the cleanup's snapshot is still true, a
  registration about to be stored either has found nobody alive or renews the
  owner's lease to no less than is left of it. Any other thread leaves the records
  alone.
* `NoTakeoverAlone`: `LeaseSafe /\ Spec /\ []OneInLease => NoTakeover`, from the
  same invariant. So the takeover that `register_race` shows needs an overlap, a
  failed HGET or an incomplete record.

`RoutingProofs` and `ServiceProofs`:

* `RoutesAreCounted`: in `Routing`, `Spec => []Counted` if `None` is not a node;
  `Counted` is inductive with the types.
* `ServiceTypeCorrect`: `ServiceSpec => []ServiceTypeOK`, for any number of
  threads, workers, users, nodes, calls and faults. The inductive invariant adds
  the registry's own (`TypeInv`), which each step of the service keeps because it
  is a step of `NodeRegistry` or changes none of its variables but the faults.
* `HandlersKeepRoutes`: `RoutesSafe /\ ServiceSpec => []RouteIndexed`, with
  `RoutesSafe` of `NodeRegistryProofs`: no crash, SETEX, SADD, DEL and SMEMBERS
  that do not fail, and unregister not called or one thread. For the same
  reason the inductive step of `RoutesStayIndexed` carries over; what is new is
  that the service starts from nodes and routes that are there. It says nothing of
  `Routing`, which the commands of several threads do not implement.
* `SelectionStaysFresh`: `ServiceSpec => []SelectionFresh`. A selection keeps only its
  best node and that node's count; `Chosen` says that the count is no more than
  the present load of any node counted, and the present load of the best node no
  more than the count, each but for the drift. Any step of another thread moves
  a load by at most the drift it adds (the moves in and out of two nodes are
  disjoint sets of users).

`LoginTokenProofs`:

* `TokenTypeCorrect`: `Spec => []TypeOK`. That the second HSET of `saveToken`
  writes to a hash that is there needs to know that nobody else can have
  deleted it: a token that is being saved is in no index and in no other
  thread's hands (`Owned`), because uuids are fresh (`Issued`) and the hash has
  no TTL yet (`Written`). `TokenInv` is their conjunction with the types.
* `RevokedIsRevoked`: `Spec => NoRevival`, from `TokenInv`, for any faults and
  crashes.
* `TokensAreMortal`: `OneFault /\ Spec => []MortalUntilCrash`. `OneFault` says
  that at most one command fails, since the rollback may fail too; `token_crash`
  shows why it ends with a crash.
  `UndoFailed` ties them: a thread that rolls back has spent the fault.
* `TokensAreIndexed`: `OneThread /\ Spec => []TokenIndexed`, for any faults and
  crashes and with time that passes between any two commands. Two logins at once
  leave two tokens and one index, hence the hypothesis. The property speaks of the
  moments between calls; its invariant counts the tokens that are orphans or will
  be when the method in flight goes on as it should (`Doomed`), the one in its
  hands apart and the ones that are adrift left out, and says that failures and
  crashes have paid for all of them (`Paid`). `IndexOwn` and `InHandOwn` say that
  an index names a token of its own user, and that the token in a method's hands
  is the one its user's index names, or is about to. Each step then either dooms
  no token, or one and pays for it (`Pays`). A step of the clock dooms none: a
  token that is no orphan has no more time left than its index, so that it is gone
  when the index is, and the one that a refresh has in its hands goes adrift.

`TokenQueryProofs`:

* `TokensIndexedBesideQueries`: queries change no key, and the faults they meet
  only pay, so `TokenIndexed` holds beside them, as `tokens_serial` checks it.
* `QueriesAlwaysAgree`: `OneFault /\ QSpec => []QueriesAgree`, for any number of
  threads. A token that has its user field and not the other is being saved, or
  rolled back by a thread that has spent the fault.
* `AnswersAreTrue`: `QSpec => []AnswersTrue`, without any hypothesis. `Asked`
  says that the answers that are right at present are among those recorded, and
  that `validateToken`, when it turns to the file token, has failed, has seen the
  token refused, or asks for a token that was never a login token. The last
  case needs `FileOnly`: a uuid is issued once, so a file token is no login
  token and never becomes one, and a refusal by the hash stays true while the
  second key is read.

`ThreadPoolProofs`, `StubCacheProofs` and `ProcessProofs`:

* `PoolIsQueue`: `Spec => QueueSpec`. `PoolInv` says that the queue holds the
  last tasks submitted in their order (`QueueInOrder`), that a task that was
  started is finished or run by exactly one worker (`EachOnce`), and that a
  worker quits only after the stop with nothing queued (`Drained`).
* `NoLostWakeUp`: `Spec => []WakeUpsSuffice`, the safety core of
  `EveryTaskEnds` and `DestructorReturns`: notifying after the unlock loses
  nothing, since a wake-up that meets no sleeper was not needed, and one that
  meets a sleeper makes an awake worker. `WakeInv` adds only that the clients
  about to notify are finitely many.
* `ConnectsAtMostOnce`: whoever has connected finds a stub in the cache or is
  about to put its own there (`MakersCached`).
* `LinesStay`: `LogSpec => LinesKept`, for any number of threads that use the
  log by itself, before any shutdown, and may race to make a logger: what has
  lines has a logger (`LinesHaveLogger`), and the second lookup of `Log::logger`
  finds it.
* `ProcessTypeCorrect`: `Spec => []TypeOK` for the whole process. That no more is
  enqueued than calls came needs `Owed`: a call not served yet may still enqueue
  one notification, so these are counted in.
* `ProcessLinesStay`, `ServiceOutlives` and `ShutdownIsGraceful`:
  `Spec => LinesKept`, `Spec => []ServiceOutlivesCalls` and
  `Spec => []NothingDropped` for the process, for any handlers, workers,
  modules, calls, and whatever fails at start. `ProcessInv`
  ties the threads to the stage of the main thread: calls are served only while
  it polls or waits for them (`Served`), workers are there before the server and
  quit after the stop with nothing queued (`Pooled`), only the main thread makes
  loggers (`Callers`), and while the log is open every logger is there and
  stays (`Logged`). After the shutdown nothing of the log is promised, and
  `log_after_shutdown` shows why. `Accounted` counts what was accepted:
  waiting, being carried out, or carried out.
* `ProcessConnectsOnce`: `Spec => []ConnectsOnce`: each step of the process is a
  step of `StubCache`, or leaves the cache alone.

Only model-checked: liveness (`StoppedNodeForgotten`, `TokensExpire`,
`EveryTaskEnds`, `DestructorReturns`, `SignalEnds`) and `NoCallWaits`, since
liveness under fairness and ENABLED are outside the prover's reach; what safety
there is in the first is proved (`NoLostWakeUp`, `TokensAreMortal`). The violated properties are
shown by their runs alone.

## 5. Not modelled, and the plan

Not modelled: the Redis server, gRPC and the chat, gate and file servers, which
appear only through what they answer or send; the wording, levels and layout of
log lines; the values in the configuration file and their lookup; the utilities
(`parseLevel` is a table, and nothing in the server calls the URL codec); the
registry of the tests, which the server never runs; `GetUserNode` and
`ListNodes` (one query, without state); the commands of `RedisMgr` that nothing
in the server calls (SET, EXISTS, HINCRBY, lists, PUBLISH); what a crash drops of
the pool's queue, since no notification is promised to survive one.

What is known of the code and has no run of its own:

* a failed HGET reads as "no such node": `registerNode` then overwrites a live
  record (R:344), the outcome that `register_race` shows for two threads;
* when the port is taken, `BuildAndStart` returns null and the main thread calls
  `Wait` on it (`StatusServer.cpp:103`): `Process` takes the step (`MayFail`),
  and ends crashed;
* a node that dies keeps the users whose move away from it failed at SETEX, as
  long as their new node refreshes them (R:444, 502): `StoppedNodeForgotten`
  is stated around it;
* an index that lapses between the two EXPIREs of a refresh (R:499, 500) leaves
  its token valid, for one more TTL, and out of reach of a logout: `adrift`;
* `UnbindUser` of a user whose token has expired unbinds and returns before it
  tells the gate (S:321): `StatusService` takes the same early return.

What is left to do:

1. **Replies**: that `unregisterNode` answers true after a failed HGET, or a
   login whose index was lost, is a hazard that the state shows but no
   property states of the reply.
2. **Contracts under concurrency**: what two threads of single commands still
   keep of `Routing` is `RouteIndexed`; a contract between the two, with routes
   that are in doubt, is not written.
3. **Proofs**: the safety properties of all runs but one are proved. What could be
   weakened are hypotheses: `LoadsAreExact` for several threads that serve
   different users, and `NamesAreLeased` with failing reads for the steps that
   do not depend on one (heartbeat, cleanup).
