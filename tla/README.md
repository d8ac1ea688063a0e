# ancfl and its game server: TLA+ models, model checking and proofs

The repository holds `src/ancfl`, a C++ framework for network servers (fibers
over worker threads, epoll, timers, hooked system calls, an RPC protocol), and
`src/game_server`, the processes of a game (login, account, database, center,
proxy, logic, log and monitor servers) written on top of it. This directory
models the parts of it in which several actors meet, checks them with TLC and
proves their invariants, and the safety part of one refinement, with TLAPS.

- [Inventory](#inventory): the components and what makes each of them correct
- [Plan](#plan): which modules come in which order
- [The modules](#the-modules): state, actions and their source, abstractions
- [The runs](#the-runs): what each checks, bounds, fairness, findings
- [The proofs](#the-proofs)
- [What is not covered](#what-is-not-covered)

`PROJECT.json` maps each definition to the lines it models, lists the runs, the
mutants that show each property can fail, the theorems and the hazards.

## Inventory

### The framework, `src/ancfl`

| Component | State | Operations | Interaction | What makes it correct |
|---|---|---|---|---|
| Fiber scheduler (`fiber`, `scheduler`, `mutex`) | queue of entries pinned to a thread or not, state of each fiber, active and idle counters, stop flags; permits and waiters of a semaphore | `schedule`, `run`, `stop`, `switchTo`, the yields, `FiberSemaphore::wait/notify` | worker threads share the queue under `m_mutex`; a fiber's state is written without a lock, by itself and by its worker | a fiber runs on one thread at a time; a suspended fiber is in one place from which it can be resumed; the active count is exact; `stop` returns and leaves nothing behind |
| IOManager (`iomanager`, `hook`, `timer`) | vector of per-descriptor contexts with the waiter of each event, the kernel's epoll table, pending count, set of timers | `addEvent`, `cancelEvent`, `cancelAll`, `idle`; `do_io`, `close`; timers added, cancelled and expired | `idle` runs on every worker; a timer's callback, a close and a ready event compete for one waiter | a waiter is resumed exactly once; context and kernel agree; a timeout ends the call; workers leave only when nothing is outstanding |
| Client streams (`async_socket_stream`, `rock_stream`) | socket, queue of requests to send, map of requests that await a response, permits that pair generations of coroutines, result of each request | `start` (connect), `doRead`, `doWrite`, `request` with its timer, `innerClose`, `close` | fibers of one IOManager; response, timeout and loss of the connection compete for a request | one answer per request, also final; one reader and writer per socket; reconnects do not multiply; a request always ends |
| Load balance, service discovery | providers last read; a balancer per service, made on demand, with a stream per provider and statistics in a ring of seconds | `getChildren`, `onServiceChange`, `get`, `update`, `request` | callers and discovery callbacks on all threads | the balancer follows discovery; no stream is forgotten, none that is closed is chosen; the statistics, which decide the weights, are exact |
| Name server (`ns`) | domain → command → nodes; sessions and what they registered | register, query, disconnect (notification is commented out) | several lock scopes per request | a query finds what is registered; no node of a dead session stays |
| Descriptor table, sockets, addresses, streams, byte arrays | flags and timeouts of a descriptor; buffers | wrappers of system calls and conversions | used by the hooks | conversions invert each other |
| TCP and Rock servers, HTTP | accept loop; dispatch to modules; servlets; a connection pool | `start`, `stop`, handle a client | one fiber per connection | `stop` ends the accept loop; the pool does not hand out a connection twice |
| FoxThread, worker groups | libevent threads; a semaphore that bounds parallel jobs | dispatch, `schedule`, `waitAll` | callbacks posted between threads | a group ends when its jobs have |
| Database clients, ORM, containers, e-mail, utilities, configuration, log, application | sequential | | | unit tests reach them |

### The game server, `src/game_server`

| Component | State | Operations | Interaction | What makes it correct |
|---|---|---|---|---|
| Service base, dispatcher, TCP client | running flag, frame counter, timers, handlers by message id | `MainLoop`, `DispatchMessage`, blocking `send`/`recv` | the loop is a fiber that yields HOLD | the loop goes round: somebody schedules its fiber again |
| Login server | connection to the account server, a map from that connection to the client that waits | forwards requests and responses | one shared connection, one reader fiber and one fiber per client | an answer reaches the client that asked, at most one per request |
| Account server | cache of accounts, one connection to the database server | login, register, seal | request and response by blocking calls on the shared connection | a response belongs to the request; a login succeeds only with the right password |
| Database server | connection pool, account cache | statements | pool shared by handlers | a connection returns to the pool on every path |
| Center server | registered servers with heartbeats, connections, players that change servers, match queues | register, heartbeat, cross, match | handlers and timers over several mutexes | the limit of connections; a player is in one place; a match takes a player once |
| Proxy server | client connections and routes | forward | as the center server's connection table | a message reaches its route's end |
| Logic server (bag, shop, mail, guild, friend, role, task, activity, skill, buff, scene, equipment) | tables per role with a mutex each | buy, add and remove items, send and claim mail, join and leave | modules call each other while they hold a mutex | no deadlock; items are conserved; limits hold; attachments are claimed once |
| Shared memory | pages of blocks with status and time, segments of the system | allocate, free, clean, destroy | other processes under the same keys; crash and restart | a block in use is not handed out; memory of a page belongs to one manager; only a crash leaves memory behind |
| Configuration manager | cached tables | load, reload | readers | a reader sees a whole table |
| Log and monitor servers | queue of records, files by day; status table | write, flush; report | a writer loop that is not started at this commit | no record lost at the stop |

### The behaviours that are hard

The list, at its lines, is under `hazards` in `PROJECT.json`. In groups:

- **Handing a stack from one thread to another.** A fiber becomes visible to other
  workers (through the queue, a semaphore, an epoll context) before the worker has
  left its stack (`fiber.cc:185`, `scheduler.cc:192`).
- **Several claims on one waiter**: readiness, timeout, cancellation, close
  (`hook.cc:127-155`, `iomanager.cc:247-318`, `async_socket_stream.cc:13-31`).
- **State read in one lock scope and used in another** (`iomanager.cc:155-167`,
  `332-336`, `414-439`; `load_balance.cc:339`, `406`; `ns_protocol.cc:125`;
  `center_server.cc:131-150`).
- **Counters that decide the end of the program** (`m_activeThreadCount`,
  `m_pendingEventCount`, the permits of `m_waitSem`).
- **Reconnection** while the coroutines of the last connection still run.
- **One shared connection for many requests** (login → account → database), with a
  timeout whose late answer meets the next request (`account_service.cc:311`).
- **Keys that several processes share**, and segments that outlive a crash
  (`shared_memory.cc:303`).
- **Non-recursive mutexes taken twice** in the logic modules
  (`shop_module.cc:65`, `guild_module.cc:73`).

## Plan

Built, in this order:

1. `FiberScheduler`, `IOManager`, `AsyncSocketStream`: every process of the game
   server runs on them. `RequestService` is the abstract specification of what a
   caller of `RockStream::request` is promised; `AsyncSocketStream` refines it.
2. `AccountServer` (with the account operations of the database server) and
   `LoginServer`, which extends it: the composition of the three processes.
3. `NameServer`; `LoadBalance`.
4. `SharedMemory`.

Each `X` has `MCX`, which instantiates it, and cfgs `X_run.cfg`; `XProofs` holds
theorems about it.

Every safety property a passing run checks is also proved; what the prover cannot do stays with
TLC. The rest of the system has no module, for the reasons given at the [end](#what-is-not-covered).

## The modules

A step of a model is the code between two accesses to state that others can
change: a section under one lock, one atomic read or write, or a call. Data are
small sets of model values; message contents and wording are left out.

### FiberScheduler

`scheduler.{h,cc}`, `fiber.cc` and `FiberSemaphore` of `mutex.cc`.

| Variables | Code |
|---|---|
| `queue` | `m_fibers`, entries with a fiber and the thread they are pinned to |
| `fstate` | `Fiber::m_state` |
| `pc`, `cur`, `idleTerm` | where a worker is in `run()`, `ft.fiber` or `cb_fiber`, the state of its idle fiber |
| `active`, `stopReq` | `m_activeThreadCount`; `m_autoStop && m_stopping` |
| `permits`, `waiters` | `m_concurrency`, `m_waiters` |

`Take`, `TakeNone`, `DropEntry`, `SwapIn`, `Return`, `CheckReady`, `CheckOver`,
`CheckOther`, `SetHold` and `Idle` are the pieces of the loop in `run()`. `WaitTakes`,
`WaitBlocks`, `Notify`, `SwitchTo`, `Spawn`, `Wake`, `YieldToReady` and `Finish` are
the calls code on a fiber makes; `YieldToHold` and `SwapOut` are the two halves
of leaving a fiber: the state is written first, the stack is left afterwards.
`Submit`, `Stop`, `StopCall` and `Stopped` are the program around it.

Abstractions: a callback entry is a fiber in state INIT (the worker builds or resets
a fiber for it and goes on in the same way); notified waiters are scheduled for any
thread. When two workers execute one stack (`Torn`) what follows is undefined, and
when an assertion of `swapIn` or of a yield fails the program aborts: the model
stops at either. `Ops` says which calls the fibers make, so that a run can describe
clients that never hold.

### IOManager

`iomanager.cc`, `do_io` and `close` of `hook.cc`, one-shot timers of `timer.cc`.

| Variables | Code |
|---|---|
| `size`, `slot`, `made` | `m_fdContexts`: its size, which context is in each slot, contexts made so far |
| `waiter` | `FdContext::read` and `write`; `events` is the set with a waiter |
| `pending`, `epoll` | `m_pendingEventCount`; the kernel's entry, `data.ptr` and events |
| `ready`, `open` | what a descriptor is ready for; whether it is open |
| `timer`, `cancelled`, `call` | the timer of a task's call, `timer_info::cancelled`, the number of the call (which `timer_info` the callback holds) |
| `tpc`, `found` | where the task is in `do_io` or `close`, `fd_ctx` of `addEvent` |
| `queue`, `wpc`, `cur`, `got` | the scheduler's queue, the worker's place in `run`/`idle`, its entry, events reported and not processed |

`Take`, `EnterIdle`, `Stopping`, `EpollWait`, `ListExpired`, `Process` and `SwapOut`
are the worker; `TrySucceeds`, `TryAgain`, `LookUp`, `Resize`, `Register`,
`RegisterFails`, `Yield`, `ResumeTimedOut` and `ResumeRetries` are `do_io` with
`addEvent`; `TimerFires` and `CancelEvent` the timer's callback; `CancelAll` and
`Close` the hooked `close`. `Trigger` is the part that `idle`, `cancelEvent` and
`cancelAll` share.

Abstractions, and why they lose nothing the properties speak of:

- Readiness is a level. epoll is used edge-triggered, but every registration is an
  `EPOLL_CTL_ADD` or `MOD`, which reports readiness that is already there.
- A worker counts as active from `Take` until it leaves its entry. The moment
  between the decrement and the re-scheduling of a READY fiber belongs to
  `FiberScheduler`; `do_io` never yields READY.
- The pipe that wakes an idle worker is left out: `epoll_wait` has a bounded timeout
  and returns without it.
- `cancelEvent` looks the context up under one lock and cancels under another; the
  model does both in a step. Contexts taken out of the vector are not freed.
- A descriptor number is not reused after its close, and no two tasks wait for the
  same event of a descriptor (`OneTaskPerEvent`). `addEvent` asserts the latter
  (`iomanager.cc:173`); for a stream, `OneReaderWriter` shows it.

### AsyncSocketStream

`async_socket_stream.{h,cc}` with `request` and `doRecv` of `rock_stream.cc`.

| Variables | Code |
|---|---|
| `connected`, `connects`, `autoConnect` | the socket, `m_autoConnect` |
| `retry`, `soon` | `m_timer`; the ten-millisecond timers of `doRead` |
| `waitSem`, `sem` | `m_waitSem`, `m_sem` |
| `queue`, `ctxs` | `m_queue`, `m_ctxs` |
| `sp`, `rp`, `wp`, `batch`, `hand` | per session (one call of `start`): places of `start`, `doRead`, `doWrite`, the swapped queue, the context in hand |
| `ic`, `closing` | per actor: its `innerClose`, the contexts it still has to fail |
| `rq`, `open`, `timed`, `result`, `response`, `timer`, `tp`, `woken` | per request: place in `request()`, fields of `Ctx`, place in `onTimeOut`, how often the fiber was scheduled |
| `srv`, `wire`, `up` | the server's requests, responses under way, the caller of `close()` |

With `OneThread` the IOManager has one thread, and a fiber runs from yield to yield
(`MayRun`): this is how the clients in the repository run it. Without, each fiber
may be interleaved with each other one. Responses may arrive in any order, be lost
with the connection, or never come. The swap of `Ctx::scheduler` in `doRsp` and what
its winner does are one step: nobody else acts on those fields once the swap is lost. With
`OneThread`, a timer that has been collected as expired when the response cancels it is left
out: its callback then only sets `timed` of a context that is answered.
Reading `m_autoConnect` and arming the timer are two steps (`StartGivesUp` and `StartArms`,
`ReadRestarts` and `ReadArms`): `close()` may come between.

### LoginServer and AccountServer

`AccountServer` is `account_service.cc` with the account operations of
`db_service.cc`; `LoginServer` extends it with `login_service.cc`.

| Variables | Code |
|---|---|
| `inbox`, `outbox` | the one connection between login and account server, each way |
| `hpc`, `hreq`, `asked` | where `handleClient` is in a request, the request, what `SendDBRequest` waits for |
| `dbIn`, `dbOut`, `late` | the connection to the database server; receive timeouts so far |
| `nameToId`, `byId`, `table` | `name_to_id_`, `account_cache_`; the rows of the account table |
| `clientMap`, `sending` | the entry of `client_map_`; the request of the handler that is between its store and its send |
| `online`, `asks`, `got`, `restarts` | clients, what they asked and were sent; restarts of all servers |

`AskMaps` and `AskSends`/`AskFails` are the two halves of a handler of the login server,
between which its reader (`Forward`) may run; `TakeRequest`, `Receive` and `RecvTimeout`
the account server's fiber; `ServeDB` the database server with any statement failing.
Passwords are hashed by free constructors, because the number of times `Md5` is applied
decides what the comparison in the database finds: an account made by registration is
stored as `Sha1(Md5(p))`, the seeds as `Md5(p)`, and `VerifyAccount` compares with
`Md5(Md5(p))`. So `VerifyAccount` accepts no login at all; logins succeed from
the cache, for accounts registered since the start. `AnswersTrue` says that those that
succeed are right. A `SendDBRequest` whose send fails (`account_service.cc:294-303`) asks nothing and
leaves no lag; it is not modelled apart from the statement that fails.

### NameServer

| Variables | Code |
|---|---|
| `index`, `domains`, `sets` | `NSDomainSet`, the `NSDomain` and `NSNodeSet` objects, which a handler may hold after they were replaced |
| `info`, `connected` | `m_sessions`, `isConnected()` |
| `handlers` | the calls of `set()` in progress: a registration and a disconnect per session |
| `workers` | one or two workers: both instances are behaviours of the specification |

`Register`, `Refuse` and `PeerCloses` begin; `NextItem`, `NextCmd`, `GetDomain`,
`AddDomain`, `GetSet`, `AddSet`, `AddNode`, `DelNode`, `TestSize`, `DelSet` and `Finish`
are one lock scope each. Two exceptions are stated in the properties. A session whose
request was refused is closed by the server; `onDisconnect` is not called for it, and its
nodes stay listed (`expelled`). A registration that overtakes the disconnect of its own
session may register again what the disconnect removes (`overlapped`). `Finish` takes the erase
from `m_sessions` and the later close of the stream as one step (`name_server_module.cc:282-287`), and
a registration between them counts as overlapped; `Register` leaves out the registration of nothing
(`infos_size() == 0`) and requests still queued when the server closes the session, and takes
`isConnected()` and `get()` as one step.

### LoadBalance

| Variables | Code |
|---|---|
| `children`, `datas` | what ZooKeeper holds; `IServiceDiscovery::m_datas` |
| `current`, `balancers`, `items`, `closing` | `SDLoadBalance::m_datas`, `LoadBalance` and `LoadBalanceItem` objects, items whose `close()` is scheduled |
| `callback` | `getChildren()` in progress: read, swap, get or create the balancer, update |
| `caller`, `time` | `RockSDLoadBalance::request()` in progress; the second |

Of the statistics only `m_doing` is kept, with its width: it is the one counter that is
decremented. `ClearSlots`, `Stamp` and `Count` take `HolderStatsSet::init` apart, which
has no lock. ZooKeeper is external; `ZKClient` is a stub in this repository.

### SharedMemory

| Variables | Code |
|---|---|
| `running`, `pages`, `inUse`, `used` | managers that exist; `pages_`, `in_use` of the blocks, `used_blocks_` |
| `call` | what a manager does between two system calls, with `mutex_` held |
| `segments` | System V segments: key, creator, processes attached |
| `held`, `expired`, `crashed` | who was given which block; managers that have expired a block; crashes |

`AllocateBlock` is the `Allocate` that finds a block; the other one is `AllocatePage`,
`FindOld`, `RemoveOld`, `Create`, `Attach`. `Destroy`, `DestroyPage`, `Destroyed` are the
destructor. `DestroyPage` is two system calls, `UnmapShareMemory` and then `DestroyShareMemory`
(`shared_memory.cc:110-117`), taken as one step: the segment that nobody maps and that has its key
between them is about to be removed by the destructor that unmapped it. A crash
between the two leaves what a crash before both leaves, an unmapped segment with its key. `Create`
leaves out a `shmget` that fails for another reason than the key (`shared_memory.cc:322-337`), which
ends in the same failed allocation. A status of a block (LOCK and the others) is set by its users and read by
nothing here; `CleanExpiredData` frees locked blocks too, so a block may be old whatever
its status.

## The runs

`tlc -config C.cfg MCX.tla`. The numbers are the distinct states TLC reports.

| Run | States | What it checks | Instance |
|---|---|---|---|
| `FiberScheduler_threads` | 623 576 | the active counter and the semaphore are exact, up to the point where the program is undefined or aborts | two workers, fibers that wait, notify, `switchTo`, spawn, wake others, throw |
| `FiberScheduler_pool` | 5 386 | a stack is executed once at a time, a fiber has one home, each scheduled fiber is executed, `stop()` returns and leaves nothing | two workers, one of them the caller of `stop()`, pinned entries, fibers that never hold |
| `FiberScheduler_torn` | violation | `SingleExecution` fails | two workers and a semaphore |
| `IOManager_one` | 218 864 | no assertion fails, calls with a timeout end | one worker, two calls per task; reader and writer of descriptor 50, which a third task closes; a reader of descriptor 32 |
| `IOManager_threads` | 3 604 298 | exact pending count, each waiter resumed once, contexts and kernel agree, the last worker leaves nothing | two workers; reader with a timeout and writer on 50, reader on 32 |
| `AsyncSocketStream_threads` | 1 758 370 | one answer per request, permits conserved, one reader and writer, one restart, no lost wake-up of the writer | two requests, two sessions, a fiber may meet each other one |
| `AsyncSocketStream_onethread` | 179 466 | the stream implements `RequestService`, with its liveness; the writer notices a closed connection; after `close()` the connection is opened once more at most | two requests on one thread, `close()` at any time |
| `LoginServer_two` | 5 094 144 | answers are bounded by requests; the database connection is behind by the requests given up and no more; without any, answers are true; a client alone gets its own answers | two clients, three requests, two names and passwords, a timeout, a restart |
| `LoginServer_own` | violation | `AnswerIsOwn` fails | two clients, one request each |
| `NameServer_two` | 651 099 | on one worker a query finds what is registered; on two nothing stays that should have gone | two sessions, one domain, two commands, two weights |
| `LoadBalance_two` | 1 628 032 | on one worker the balancer follows discovery, no stream is forgotten and statistics are exact; on two what is closed is not listed | two providers, two callbacks, two callers |
| `SharedMemory_two` | 1 740 230 | the count of blocks is exact, a block has one holder, a page its own memory; only a crash leaves a segment behind | two managers with colliding keys, three users, a crash, restarts |

### Bounds

- `FiberScheduler`: two workers and two fibers. All the hazards named above are
  races of two workers over one fiber, with a second fiber that notifies or wakes.
  `MaxPermits = 1` bounds what `notify` may store; with one permit both branches of
  `wait` and of `notify` occur in every order.
- `IOManager`: `InitSize = 32` is the constructor's value. Descriptors 32 and 50 lie
  above it, so both force a resize: 32 to 48 slots, too few for 50, and 50 to 75. Both
  growing and shrinking occur. With one worker each task makes two calls (`MaxCalls = 2`),
  so a timer's callback may still be queued when the next call of its task waits; with two
  workers it makes one, for the size of the state space, and the callback meets the end of
  its call instead, which it tells by the same test. `MaxMade = 2` contexts per descriptor
  allow one to be cut off and replaced.
- `AsyncSocketStream`: two requests, so that the queue is empty for one and not for the
  other; two sessions, since a third `start()` is excluded by `OneRestart` and an id is
  reused when its coroutines have ended; `MaxConnect = 1` reconnection; `MaxSem = 2`
  saturates `m_sem`, where a further permit only makes `doWrite` swap an empty queue.
- `LoginServer`: three requests of two clients: one client can be replaced in the map by
  another and answer each other's requests, and a third request finds what the first two
  left in the caches. One timeout puts the connection behind for all that follow; one
  restart empties the caches and keeps the table.
- `NameServer`: three registrations on one worker (a session can register, change and
  withdraw), two on two, where they overlap; two commands, so that a domain outlives the node set of one.
- `LoadBalance`: `Bounds` lists the instances, each a triple of workers, changes of the
  providers and requests: (1,4,0), (2,2,0), (1,1,4), (1,2,3), (2,1,1). `Size = 2` slots
  and `Width = 2` bits make the ring wrap and a counter fall below zero within
  `MaxTime = 4` seconds.
- `SharedMemory`: `Stride = 1` and `Projects = 3` make the keys of two modules collide, and
  those of pages 0 and 1 of module 0 (both get 1), as happens with 10 and 255 from module 1
  page 10 on and for module 0. One block per page and two pages: every second allocation
  needs a page. `Retries = 2`, five segments and one crash: a restarted manager meets the
  segments of its predecessor while the other one runs.
- Symmetry: workers of `IOManager`, requests and sessions of `AsyncSocketStream`, callbacks
  and callers of `LoadBalance`, users of `SharedMemory` are interchangeable; symmetry is
  used in runs with invariants only.

### Deadlock

`FiberScheduler_pool` and `AsyncSocketStream_threads` check for deadlock: with fibers that
may always finish, the only end is `Stopped`, and a stream that nobody closes keeps trying
to connect. The other runs do not, because the system may really stop there: in
`FiberScheduler_threads` and `_torn` at an abort or in an undefined state, in `IOManager`
when all workers have left `run()` or an assertion has failed, in
`AsyncSocketStream_onethread` when the stream is closed; in the others when the clients,
sessions, providers or segments that the bounds allow are used up.

### Fairness

- `FiberScheduler`: each worker's loop and each departure from a fiber is weakly fair:
  the operating system runs every thread. `Finish` is strongly fair: a callback ends at
  some time, however long it notifies and yields before.
- `IOManager`: each worker is weakly fair, and so is the passing of a timer's time.
  Nothing is assumed of the peers. `idle()` does not block for ever because its
  `epoll_wait` has a timeout of at most three seconds.
- `AsyncSocketStream`: the coroutines, `innerClose` and the timers of `start()` are weakly
  fair. Each request and its timeout is strongly fair: on one thread it is ready and not
  ready by turns, as other fibers run, and the IOManager serves its queue in order.
  `Serve` (the server), `Receive`'s data and the success of a connection are not assumed:
  a server that never answers is a behaviour of `FairSpec`.

The other modules state no liveness: whether a client gets an answer depends on messages
that their servers may lose.

### Refinement

`ImplementsService` says that `AsyncSocketStream` on one thread implements
`RequestService!Spec`, with its fairness: a request is refused or accepted; an accepted one
is ended once, its outcome is final from then on, OK comes with a response, and its caller
returns. The mapping takes a request as ended from the moment its fiber is scheduled
(`woken[r] > 0`), not from when the fiber runs: what the context holds then is what
`request()` returns. On several threads the refinement does not hold: `onTimeOut` marks the
context and schedules the caller in two steps, and the caller may return OK without a
response (`async_socket_stream.cc:22`).

### Findings

- `FiberScheduler_torn`: `YieldToHold` stores HOLD (`fiber.cc:185`) before the stack is
  left. A notify on a second worker makes that worker resume the fiber while the first
  still executes it, against the precondition of `swapIn` (`fiber.h:75-76`).
- `LoginServer_own`: `client_map_` is keyed by the connection to the account server
  (`login_service.cc:700`), of which there is one: the second request replaces the client
  of the first, and the first answer goes to the second client
  (`login_service.cc:415-430`).

Interleavings seen with TLC that have no run of their own; the properties say where they
stop short of them:

- `IOManager`, two workers: `idle()` tests that one of the reported events is registered
  (`iomanager.cc:414`) and triggers all of them (`439`); a timeout on another worker takes
  one away in between and the assertion of `triggerEvent` (`81-82`) fails. `do_io` arms
  the timer (`hook.cc:127`) before `addEvent` (`hook.cc:139`): if it fires in between there
  is nothing to cancel and the call waits without its timeout. `contextResize` can shrink
  the vector that another worker has just enlarged (`iomanager.cc:155-165`), and a waiter
  registered between `cancelAll` and the system call of `close` stays on a closed
  descriptor (`hook.cc:400-417`). So `AssertionsHold` and `IoEnds` are checked, and
  `AssertionsHold` and `WaitsEndable` proved, for one worker.
- `FiberScheduler`: a late HOLD (`scheduler.cc:192`) can overwrite EXEC when fibers hold,
  which is why `OneHome` and `SingleExecution` are checked with fibers that never hold. A
  worker that sees the active counter at zero between `Return` and `CheckReady`
  (`scheduler.cc:182`) may leave; if the READY fiber then schedules an entry pinned to it,
  the entry stays in the queue.
- `AsyncSocketStream`: `close()` (`async_socket_stream.cc:226-233`) stops neither a `start()`
  that is under way nor the ten-millisecond timer of `doRead`; the stream can be connected
  again after it was closed, once (`ReopenedOnce`). On several threads the timer of a `start()`
  that read `m_autoConnect` before `close()` may be armed after it.
- `NameServer`, two workers: two sessions that find a node set missing make one each, or one
  removes the set it found empty when the other has just added to it (`ns_protocol.cc:111`,
  `125`): entries are lost, which `NoGhost` allows and `ListedExact` (one worker) excludes.
- `LoadBalance`, two workers: callbacks that overtake each other apply their differences in
  another order than they read them, and the balancer stays different from discovery for good;
  two balancers may be made for one service (`load_balance.cc:339`), and the streams of the
  one that is replaced are never closed. On any number of workers a provider whose stream
  could not be made is not tried again (`load_balance.cc:432`), and a request that lasts as
  long as the ring of statistics (five seconds) takes `m_doing` of a cleared slot to 2^32 - 1,
  which makes the weight of its provider useless (`rock_stream.cc:256`).
- `SharedMemory`: the comment "使用模块ID和页索引生成唯一的键值" (unique keys from module and page)
  does not hold (module 1 page 10 and module 2 page 0). `OwnPages` shows that pages stay apart
  all the same, because a key is taken away and created anew; but a manager can lose its
  segment to another before it has attached, and `Allocate` then returns `nullptr`.

## The proofs

`tlapm FiberSchedulerProofs.tla`, and the same for `IOManagerProofs`, `AsyncSocketStreamProofs`,
`RequestServiceProofs`, `LoginServerProofs`, `NameServerProofs`, `LoadBalanceProofs` and
`SharedMemoryProofs`. The theorems hold for all values of the constants that satisfy the named
assumptions: finitely many workers (at least one; the constructor asserts it), descriptors, tasks,
sessions, domains, providers, callbacks and callers, a ring of at least one slot and counters of any
width, null values outside the sets they complete, `Ops` among the modelled calls.
Where a theorem needs more, it is a hypothesis of the theorem: `HoldFree` and that fibers schedule
nothing (`OneExecutes`, `OneHomeEach`, `Drains`), one worker (`OneWorkerAsserts`, `OneWorkerEnds`), `OwnNodes`
(`NameServerProofs`). Two assumptions are of the callers, not of the code: no password is itself the MD5 of a password
(`HashAssumption`), and one fiber at most waits for an event of a descriptor (`OneTaskPerEvent`).

**FiberScheduler**: `TypeCorrect`, `ActiveCountExact`, `SemaphoreNoIdlePermit`. The
inductive invariant is the conjunction of the three properties. None is inductive alone:
that `active` stays a natural number when a worker decrements it follows from its being
the number of busy workers, one of which is the decrementing one; and that worker's entry
is a fiber, which `Return` and the calls need, by the part of `TypeOK` that ties `cur` to
`pc`. `NoIdlePermit` is carried through `WaitBlocks` (no permit is left when the waiter is
filed) and `NotifyBody` (a permit is added only without waiters). The lemmas `BusyEnter`,
`BusyLeave` and `BusySame` say how the set of busy workers changes with one `pc`;
`LoopInv`, `CallInv` and `LeaveInv` treat the actions, one step each.

**FiberScheduler as a pool**: `OneExecutes`, `OneHomeEach` and, if fibers
schedule nothing, `Drains`, for any number of threads, fibers and pinned entries. They need
`HoldFree`, that no fiber waits, switches or wakes another, which is how `FiberScheduler_pool`
is instantiated and without which `FiberScheduler_torn` refutes the first. `PoolInv` says
that a fiber is in the queue once at most (`Distinct`) and suspended there (`QueuedInv`), that
two workers never hold the same fiber and none a queued one (`ApartInv`), that the state of a
fiber agrees with the place of the worker that holds it (`WorkerInv`), and that a fiber that
has begun and not ended is queued or with a worker (`KeptInv`). A fiber's state is therefore
written by one worker at a time, which a HOLD that arrives late would break. `DrainInv` adds
that once a worker has seen `stopping()` nothing pinned is queued, so that whoever leaves last
could have taken what is left; a fiber that schedules breaks it, if a worker looks between
`Return` and `CheckReady` of another (see [Findings](#findings)).

**IOManager**: `IOTypeCorrect`, `PendingCountExact`, `KernelTableAgrees`. The inductive
invariant has four parts: `RegInv` (registrations: `PendingExact` and `KernelAgrees` with
their types), `CtxOK`, `CallOK` and `RunOK` (types of the rest). Counter and table need
each other: `pending` stays natural under `Trigger` because the triggered events are among
those it counts, and it is exact afterwards because they are removed from one context
only; that the kernel's entry still names that context follows from `KernelAgrees`, which
by `OneContext` allows one context with waiters for each open descriptor. This holds across
`Resize`, which may cut a context with waiters out of the vector, and across `Close`, which
leaves the registration in the context and takes it out of the kernel. `PairsWithout` counts
what `Trigger` removes; `TriggerInv` and `RegisterInv` treat the shared operations once, and
`WorkerInv`, `IoInv` and `CancelInv` the actions.

`FibersResumedOnce` is about where a task is. `StackInv` says that a running task is on exactly one
stack, `OnceInv` that a task that has yielded, or is about to, waits for one event of one context
(`WaitInv`) or is queued once (`QueueInv`), never both, and not neither (`DueInv`). Trigger,
cancellation and timer take a task out of its context and queue it in one step under the context's
lock; whichever of them comes late finds the context empty. `NothingLeftAtExit` rests on
`DrainInv`: what `stopping()` has read may be out of date, but only through another worker that has
to read in its turn. While events are registered, some worker is before its test of `pending`;
while the queue is not empty, some worker has not tested it last; while a timer is armed, some
worker has not left. It needs that there is a worker at all.

`OneWorkerAsserts` (`AssertionsHold`) and `OneWorkerEnds` (`WaitsEndable`, proved, in no run) are the
two safety properties that hold on one worker only. With two, TLC finds counterexamples to both in
the instance of `IOManager_threads`, with the properties it checks exchanged for these (see
[Findings](#findings)); no run of this project repeats that. `LinkInv` is the converse of `KernelAgrees`: what the kernel's
table holds is registered, for a descriptor that is open and in the context's own shape. `OneInv`
adds what is lost on two: the vector reaches exactly as far as its slots are filled (`SlotInv`), so
no context is cut out of it or replaced (`EndInv`), what a task has looked up is still there when it
registers (`TaskInv`), and what `epoll_wait` has reported is still registered when `idle()` comes to
it (`GotInv`): between the two no task runs, and the expired timers are only queued.

**AsyncSocketStream**: `Types`, `Answers`, `Permits`, `ReadersWriters`, `Restarts`, `Announcements`,
`LastOpening`, with `OneThread` or without. `OneReaderWriter` rests on `PermitsConserved`: a `start` that starts
coroutines holds both permits, so none is left for a coroutine of an earlier connection. That
such a `start` finds its `doRead` ended, which its permits do not say (`doRead` releases its permit
before it arms the timer), follows from `OneRestart`. `Counts` restates the three as sums of sessions at
places, `BeyondMoves` says how such a number changes with one session, and `StartCounts`,
`ReadCounts` and `WriteCounts` add up each action. `AnsweredOnce` needs to know who holds a context: `AnswerInv` says that a context in the map is open and in
nobody's hands (`Held`: to be failed by an `innerClose`, with a `doRead`, or with its timeout),
and that before `addCtx` nobody knows the request. It does not say that one actor at most
holds a context: on several threads a timeout and a response may both, and the swap in `doRsp`
decides (`OneAnswered`). `Announcements` is that of `QueuedIsAnnounced`, inductive with the types:
`enqueue` is silent when the queue is not empty, and whoever empties it takes all of it. `LastOpening` is an action property: `Openers`, the timers, starts and
fibers about to arm a timer that may still open the connection, are among what `OneRestart` counts,
so a `start()` that connects is the only one (`StartOpened`); with `m_autoConnect` cleared each
other step moves one of them from one place to the next at most (`NoMore`). The run checks
`ReopenedOnce` on one thread; the proof covers several, where `close()` may come between reading
`m_autoConnect` and arming the timer.

**RequestService**: `Serves`, that `AsyncSocketStream` on one thread implements it, without
the fairness. The invariant adds to the one above that one fiber at most is between two yields
(`Single`), that therefore a context somebody holds is open (`OpenInv`), and that what it holds
agrees with how far the request is (`ResultInv`). `Alone` says what `MayRun` gives a step;
`StepsServe` maps the actions: `doRsp`, by whom ever, is `End` (`DoRspEnds`), and filling in
result and response is unseen, since the context is open. `Single` and `OpenInv` fail on
several threads, and so does the refinement.

**LoginServer**: `Types`, `Lag`, `Bounded`, for any number of clients, names, requests,
timeouts and restarts. `LagExact` is inductive with the part of `TypeOK` that ties `hpc` to
`asked`; `AInv` adds `LogKnown`: while the handler waits for the login log, the name of its
request has an id in the cache, which the answer sends. `AnswersBounded` is inductive by
itself: `AskMaps` adds a request and takes the entry of the map, `Forward` turns the entry into
an answer. The composition shows in the proof: `AccountNext` leaves the login server's
variables alone, so the steps of each server are treated in lemmas of their own
(`ServeKeeps`, `TakeKeeps`, `ReceiveKeeps`, `TimeoutKeeps`; `LoginKeeps`).

`Truth` is proved with `TrueInv`. As long as nothing is late, `LagExact` leaves one message on the
connection to the database at most, so the response that comes is to the request asked last
(`LineTrue`, `AskedFor`); rows are never changed once made, so what a response said of the table
stays true of it, in the cache (`CacheTrue`), at the login log (`LogTrue`) and in the answers on
their way (`OutTrue`). By `NeverVerified` no login succeeds through the database: the account server
sends a hash and the database server hashes it again, which matches no row. `SoloOwn` is an action
property. Its invariant is `MapUnderway`: a client in `client_map_` has a request under way, so if
all requests under way are of one client, the entry that `Forward` reads is that client's.

**NameServer**: `Types` for any number of sessions, domains, commands, nodes, weights and workers;
`NothingLeft`, `ListedIsRegistered` for sessions with a node each (`OwnNodes`, as in
`NameServer_two`; sessions that share an address overwrite each other, the hazard at
`name_server_module.cc:57`). `RegistryInv` says of the handlers that what they hold fits where they
are (`HandInv`), of the objects that a domain object is in the index once and a node set in one
domain once (`ObjInv`), and of both that a handler holds an object looked up or made for the very
domain and command it is at, and alone if it has not installed it yet (`HoldInv`): the races of
`set()` replace objects, they never mix them up. All actions of `set()` fall under twelve kinds of
step of a handler (`ActionSteps`), and the invariants are proved over those.

`NothingLeft` follows from two facts. A step of one handler leaves what is listed for the node of
another session as it is or at 0 (`StepFades`). And what a handler's own node is listed for is 0, or
as before, or, for the commands it has done with, as registered now (`OwnAt`): a deletion that finds
its domain object replaced misses nothing, since what replaced it lists nothing for its node.
`GhostInv` says this for the sessions whose two calls have not met; `NoGhost` leaves out those whose
have, and the proof shows nothing about them. `ListedIsRegistered` is sharper and needs one worker:
what the one handler has looked up is still installed (`SoleAt`), nothing changes for the other nodes
(`StepSame`), and the commands no longer in its list are listed exactly as registered. That the
worker is free when no call is in progress, and only then, is `OneFree`. `TodoOK` ties the list of a
call to the difference of the registrations: what is not in it has the same weight before and after.

**LoadBalance**: `Types`, `Unlisted`, `Followed`, `Exact`, for any number of providers, callbacks
and requests, any number of slots and any width of the counters. The one-worker properties carry
`bound.workers = 1` in their statements; the first two theorems hold for any number of workers.
`Sorts` gives the sort of each variable, `Pointers` says that whoever holds a balancer or an item
holds one that exists, and `Lists` what makes `ClosedIsUnlisted` inductive: a balancer offers only
what it lists, lists an item under its own node, no closed one, and none that another balancer
lists. The last is what overlapping callbacks could break: two may make a balancer each for the one
service (`load_balance.cc:339`), and an update then closes items of one of them. It closes only
what it takes off its own list, and no other list has that. The lemmas from `ToggleStep` to
`UpdateStep` say of each action which object it changes and how; `UpdateStep` covers the loop over
the new providers, the erased items and the refresh of weights at once.

`Follows` speaks of the moments between callbacks; `FollowInv` says what holds in one. After the
swap, discovery knows the new list and the balancer follows the old, which the callback holds;
`Alone` says that on one worker nobody else is inside a callback or a request meanwhile, so the
difference it applies is still the difference. On two workers the step fails where callbacks
overtake each other (see [Findings](#findings)).

`DoingExact` needs to know why clearing slots without a lock loses no count. `Seconds` orders the
seconds: an item was last cleared no later than the request now being counted began and no earlier
than those counted, which are all younger than the ring. So the slots between the two, which
`ClearSlots` zeroes, count nobody (`Vacated`, from `ApartSlots`: seconds less than `Size` apart have
different slots), and `Tally`, every counter is its number of waiting requests modulo its width,
survives. A request as old as the ring makes `late` true, and the statement ends there. `Wraps`
says that adding and subtracting modulo the width commute with counting; `Remainder` and `Shift`
are what the provers do not know of `%`.

**SharedMemory**: `Types` (proved, in no run), `UsedIsExact`, `PagesAreOwn`, for any number of managers, users,
pages and crashes, and for any keys, colliding or not. That pages are disjoint rests on who
is attached: `OwnInv` says that a page's manager alone is attached to its segment, and
`CallInv` that a manager attaches only to a segment it has made itself and nobody is attached
to. So a new page (`OwnAttach`) has a segment no page had, and no two managers can be about to
attach to the same one (`CallKept`); a manager that takes another's key away changes neither
(`UnkeyedKeeps`). Keys play no part in it. The segments of a process that has crashed have
lost their key or keep it, but a new manager only ever removes them. `UsedExact` needs of
`CallInv` that a manager being destroyed has no block in use, since its pages go one by one;
`BlockSteps` reduces all actions to four kinds of change of blocks and pages.

`HoldersAreSole` and `OnlyCrashesLeave` stand on this invariant. A block has one holder because
`Allocate` hands out blocks not in use only, and is in use as long as it is held because nothing but
`Free` by its holder and the expiry takes a block out of use. `AttachedInv` says that only its
creator maps a segment. So a segment nobody maps and that still has its key has just been created or
lost its one process in a crash: the destructor unmaps a segment and removes it, which `DestroyPage`
takes as one step (see [SharedMemory](#sharedmemory)), and an attach fails only if the segment is gone
altogether.

## What is not covered

*Only model-checked*: all liveness (`ScheduledRuns`, `StopReturns`, `IoEnds`, `WriterWakes` and
that of `ImplementsService`), which with fairness and ENABLED is out of the prover's reach. What recursive definitions compute for every
input could not be proved either, since it needs induction over data.

*Parts of the modelled files that are left out*: `Fiber::reset` as an operation of its own,
`use_caller` with its root fiber beyond `StopCall`, `tryWait`; `delEvent`, `addEvent` with a
callback, recurring timers, `refresh`, `reset`, clock rollover, the hooked `sleep`, `connect`
and `fcntl`; notifications and requests from the peer, the codec; the random choice among
weighted items; seals of accounts and role operations, which no server requests
(`IsAccountSealed` and the role operations also never give their pool connection back);
`VerifyLoginCode`, `logic_servers_` (never filled); the status of shared blocks.
Messages between the servers are sent and received whole; the poll of the login server's
reader tests a stale `errno` after `recv` returned 0 (`login_service.cc:272-273`), and a
connection the peer has closed still counts as connected, so a lost connection is
only noticed by a failed send.

*Modelled from their use*: `epoll_ctl` and `epoll_wait` (`CanAdd`, `CanChange`, `EpollWait`), the
network (`BecomesReady`), the RPC server (`Serve`), ZooKeeper (`Provide`), System V
segments (`Exists`, `Unkeyed`, `Crash`).

*Components not modelled*, each with its reason in `PROJECT.json`. In short:

- The service base, and with it every timer and heartbeat of the game servers, stops after
  one pass: `MainLoop` yields with `YieldToHold` (`game_service_base.cc:57`) and nothing
  schedules it again.
- Center and proxy server: the proxy sends the length of a message byte-swapped and the
  center reads it as it is; what the center would do with servers, players and matches has
  no caller but tests. Its connection limit can be exceeded by the number of workers less
  one (`center_server.cc:136`).
- The log server's writer is never started. Shop and guild lock a `std::mutex` they hold
  (`shop_module.cc:65`, `guild_module.cc:73`): their main operations never return. Mail, bag
  and the other modules of the logic server are sequential under a mutex each.
- Sequential code, parsers, generated code and wrappers of client libraries are left to
  unit tests.
