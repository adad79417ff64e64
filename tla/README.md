# A TLA+ model of asio-ipfs

asio-ipfs wraps go-ipfs in a C++ class, `asio_ipfs::node`, for programs that run a
Boost.Asio `io_service`. This directory models the parts of it where threads,
callbacks and manual memory management meet, checks them with TLC, and proves their
safety for every size with TLAPS. Paths below are relative to the repository.

## 1. The system

### Threads

* **The asio thread**: the one thread that runs `io_service::run` (README: "The
  `asio::io_service` can run in only one thread"). User code, completion callbacks,
  cancel functions, the constructor and `node::free` all run here.
* **Goroutines**: one per operation (`ipfs_bindings.go`, `ipfs_gc.go`); one per
  asynchronous start; one state monitor per node; one or more per service (GC, HTTP
  API, gateway). They call back into C++ from Go threads.

### Components

| Component | State | Operations | Interaction |
|---|---|---|---|
| Handles (`src/node.cpp` 26-183, 259-275) | the Handle objects (`job_count`, `cb`, `cancel_fn`, signal id, `work`), the list `node_impl::handles`, the queue of the `io_service` | `call_ipfs`, `Handle::call`, the canceller, `Handle::cb`, the loop of `free` | calls Go functions; Go threads post to the `io_service` |
| Operations and cancellation (`ipfs_bindings.go`, `ipfs_cancel.go`, `ipfs_gc.go`) | `next_cancel_signal_id`, `cancel_signals`, a context per operation | allocate, register, cancel, free a signal; the goroutine of each operation | calls `Handle::call` once |
| Node life cycle (`src/node.cpp` 241-324, `ipfs_node.go` 382-469) | `g_node`, the `g_*` flags, `node_impl`, the node object's `_impl` | constructor, `build`, `free`, destructor, move assignment; `allocate_node`, `start_node`, `go_asio_ipfs_free` | the Go Node keeps a raw pointer to `node_impl` |
| State monitor and services (`ipfs_node.go` 248-310, `ipfs_api.go`, `ipfs_gc.go`) | `lasterr`, the error channels, the goroutines that send on them | report peers, receive an error or a nil, stop; close a channel | cancels the node; calls the user's `StateCB` through `node_impl` |
| Repository and configuration (`ipfs_repo.go`, `ipfs_config.go`) | the files `config`, `swarm.key`, `config.lock`; fsrepo's lock | init, open, update, adjust ports | part of `start_node`; shared with other processes and an administrator |
| Logging (`ipfs_log.go`, `node::redirect_logs`) | the C++ callback, Go's writer, its mutex | redirect, write | any goroutine logs; the user's thread redirects |
| Completion tokens, error tables, build files | none of their own | | |

### What is hard here

* A Handle is reference counted by hand by two tasks that are posted by different
  threads in either order; results race with cancels.
* `node::free` loops until the list of Handles is empty, which it is only if every
  canceller is armed; it may be called from inside a completion callback.
* Go is told about a cancel through an integer that is looked up in *the current*
  node; nodes come and go, and the integers restart at 0.
* `g_node` and the flags are unlocked globals used from the C thread and from the
  goroutine of an asynchronous start.
* A start can fail at any of a dozen stages, or be cancelled while Go carries on.
* The monitor calls into an object that C++ may have deleted.
* Services send on unbuffered channels to a monitor that may have left; a `select`
  takes any of the cases that are ready.
* The configuration and the swarm key are written in several steps, any of which may be
  the last one before a crash, and not all of them under fsrepo's lock.
* `redirect_logs` changes a callback that other threads are calling.

What makes each part correct: Handles: no use after free, each callback heard exactly
once, aborted iff cancelled, everything released in the end. Cancellation: a cancel
reaches its own operation and no other. Life cycle: a node object always stands for
`g_node`, starts do not overlap, no `node_impl` is leaked or used when deleted, a
start can always be repeated. Monitor: errors are reported, nothing is reported to a
deleted object; an error is never reported as an orderly shutdown. Repository: what runs
is what was asked for and what is on disk, whatever earlier starts left there. Logging:
no line is lost to, or crashes on, a callback that is being replaced. `PROJECT.json` lists the hazards line by line with the properties that
watch over them.

## 2. Modules

| Module | What it is |
|---|---|
| `AsyncOp` | abstract specification: an asynchronous operation as its caller sees it |
| `Handles` | the Handles, the `io_service`, the operations and their cancellation; refines `AsyncOp` |
| `MCHandles` | instances of `Handles` for TLC |
| `HandlesProofs`, `CancelProofs` | theorems about `Handles`, with proofs: the Handles and their callbacks; the cancel signals |
| `NodeLifecycle` | starting, freeing, moving; `start_node` by stages; the monitor |
| `MCNodeLifecycle` | instances of `NodeLifecycle` for TLC |
| `NodeSlot` | abstract specification: the one place for a node that a process has; refined by `NodeLifecycle` |
| `LifecycleProofs`, `SlotProofs` | theorems about `NodeLifecycle`, with proofs: its invariants; its refinements of `NodeSlot` and `StateReports` |
| `StateReports` | abstract specification: the calls of a node's state callback; refined by `StateMonitor` and, for each start, by `NodeLifecycle` |
| `StateMonitor`, `MCStateMonitor`, `MonitorProofs` | the services of a node, their channels and the monitor's `select` |
| `RepoConfig`, `MCRepoConfig`, `RepoProofs` | what a start writes to the repository, write by write |
| `SwarmPorts`, `MCSwarmPorts`, `PortsProofs` | `replacePorts` against its reference |
| `Logging`, `MCLogging`, `LoggingProofs` | `redirect_logs` and the goroutines that log |

### Handles

The state is divided as the code is: the Handle objects, the asio thread, Go. Handles
are numbered in the order of creation, so the front of the list is its least number.
`live` is the set of allocated Handles; `job_count` is what the code counts, *not*
defined from anything else: that the two agree is what the invariant says. `moved`
holds the Handles whose `cb` the canceller has moved out. A *slot* is a
`std::function` that can hold a canceller: the user's `Cancel` objects and each
Handle's own `destructor_cancel_fn`; `slot[s]` is the Handle it cancels, 0 for the
no-op `[]{}`. `signals` is `cancel_signals`, and `ctx` the operations whose Go context
is done.

| Code | Action |
|---|---|
| `allocate_node`, on success | `StartNode` |
| `call_ipfs`, `Handle::Handle`, the Go function up to its `go func` | `CallIpfs` = `NewHandle`, `GoCall` |
| the end of the goroutine: `Handle::call` posts | `GoReturn` |
| a `Cancel` called by the user | `UserCancel` = `CancelHandle` |
| `node::free` / `~node`: entry, one round, `n.cancel()`, `Close` and `g_node = nil` | `FreeBegin`, `FreeLoop`, `FreeCancelCtx`, `FreeClose` |
| the monitor's `n.cancel()` | `ServiceFailure` |
| a task with a callback: up to the user's code / its return | `RunCallback` / `CallbackReturns` |
| a result task whose `cb` is empty | `DropResult` |
| `run()` without work | `RunReturns` |

User code inside a callback may do anything user code may do, `node::free` included:
`CallbackReturns` is a separate action. The seven working operations have one shape
and are the kind `"op"`; `resolve`, whose Go body is commented out, is the kind
`"resolve"`. Of an operation's outcome only "a result" or "aborted" is kept. The paths
for `IPFS_NO_NODE` are left out of `CallIpfs`: an operation is called on a node object,
and `NodeLifecycle!ObjectIsCurrent` shows that `g_node` is then set.

Three constants describe the user. `ReuseCancel`: does the user pass a `Cancel` that a
pending operation uses? `HotRestart`: is a node started while callbacks of the previous
one are still queued? `Kinds`: is `resolve` used? Each is off where a property needs it
off; section 3 says what happens when it is on.

### NodeLifecycle

A start's number also names its `node_impl` and its Go `Node` (whose `state_cb_arg` is
that `node_impl`). `stage` is the place in `start_node`; a start ends `ok`, `failed` or
`exists`. The completion handler of `build` is not modelled again: it is an operation
of `AsyncOp` (`pending`, `cancelling`, `completed`, `aborted`), which `Handles` is
shown to implement. Its Handle has no signal id, so a cancel does not reach Go.

| Code | Action |
|---|---|
| `node::node` / its end | `Ctor` / `CtorReturns` (the asio thread is blocked in between) |
| `node::build_`; its throw; its cancel; its handler | `Build`, `BuildThrows`, `BuildCancel`, `BuildAborts`, `BuildCompletes` |
| `start_node` | `ParseConfig` ... `StartMonitor`, and `StartFails` wherever the code returns an error |
| `free`: entry, `n.cancel()`, `Close`, `_impl.reset()` | `Free`, `GoFree`, `GoClose`, `Reset` |
| `operator=(node&&)` with an empty right side | `MoveAssign` |
| the monitor | `MonitorLaunches`, `PeersChange`, `ServiceError`, `MonitorStops` |

A state callback into a `node_impl` that is not allocated is undefined behaviour; the
model records it in `wild`. `OpenRepo` stands for the repository code, which is a
success or a failure here. The abstract `NodeSlot` says what the user may count on, and
what not: its phase `lost`, entered when a start fails or is cancelled or a node is
moved over, has no way out.

### StateMonitor

One node. A goroutine (the collector's, or one per listener) is `serving`, then `sending`
what `PeriodicGC` or `corehttp.Serve` returned, then `done`; `Launched` says how many
listeners a service may have: the API at least one, the gateway any number. The channels
are unbuffered, so the end of a send is the monitor's `Receive`. `watched` are the monitor's channel
variables that are not nil. `NodeLifecycle` has the same monitor with all this collapsed
into `ServiceError`, and both implement `StateReports`.

| Code | Action |
|---|---|
| `maybeRunGC`, `maybeServeHTTPApi`, `maybeServeHTTPGateway` | `Serve`, or `StartFails` |
| the launch of the monitor, its first report | `StartMonitor`, `MonitorLaunches` |
| `errc <- ...` begins / is received | `Returns` / `Receive` |
| `close(errc)` | `CloseErrc` |
| the cases of the `select` | `Receive`, `ReceiveClosed`, `Timeout` and `CountPeers`, `MonitorStops` |
| `if lasterr != nil { n.cancel() }` | `Check` |
| `go_asio_ipfs_free` | `Free` |

`Timeout` needs that no other case is ready: the timer is made anew in each round, so a
case that is ready on entry always comes first. External, from the use made of them:
`Serve` returns an error at any time and nil only once the node is closing, which it is
when its context is done; `PeriodicGC` returns nil then, or at once when it is disabled.

### RepoConfig

`config`, `swarmkey`, `lockfile` are the files, `complete` says that those are there which
`fsrepo.Init` writes last (`datastore_spec`, `version`), `repolock` is the process that has
the repository open. A request has four parts, which are the four ways in which
`updateConfig` and `updateRepo` treat a field: always overwritten (`base`: water marks,
routing, ports and so on), kept if empty (`peering`, which stands for the lists of
bootstrap and of peering nodes), written as an empty
list if empty (`api`), and in a file of its own (`key`). `want` is what the caller asks
for, `conf` the configuration in memory, `node` what the node was made from.

| Code | Action |
|---|---|
| `IsInitialized` in `start_node` | `CheckInitialized` |
| `initRepo`: identity, second `IsInitialized`, `updateConfig` | `InitRepo` |
| `fsrepo.Init`: looks for `config`; writes it; writes `datastore_spec` and `version` | `FsInit`, `FsInitConfig`, `FsInitVersion` |
| `updateRepo`: `os.Create`, `WriteString` | `CreateKey`, `WriteKey` (for `initRepo` and for `openRepo`) |
| `openRepo`: `fsrepo.Open`; `configUnlocked` and `updateConfig`; `SetConfig` | `Open`, `OpenNoVersion` or `OpenBusy`, `LockCheck`, `SetConfig` |
| `makeBuildCfg`, `core.NewNode` | `NewNode`, or `UnknownRouting`, which panics |
| `maybeServeHTTPApi` | `ServeApi`, or `NoListener`, which panics |
| an error return; the end of the process at any point, or `free` | `StartFails`; `Exit` |
| by hand: `config.lock` appears and goes, a locked configuration is edited | `ToggleLock`, `EditConfig` |

A failed start cannot be repeated in its process (run `LifecycleStuck`), so it is
followed by `Exit`, as is a panic. `initRepo` writes without fsrepo's lock: `raced` is the
set of processes whose present start has met another one there, i.e. of two starts one
looked at the repository while the other was initialising it. It ends with the process, so
that a later start is held to the properties again.

fsrepo is external. `IsInitialized` looks for `config` alone. `Init` looks for it as well
and then writes the files one by one; its mutex belongs to the process, so that of two
processes both may find no configuration and the second to write replaces what the first
has written, identity included. A crash between two of its files leaves a repository that
counts as initialised and that `Open` refuses (`OpenNoVersion`), for ever. Each file is
written atomically. `Open` takes a lock that ends with the process. `NewNode` fails on an
empty `swarm.key` and joins the public network when there is none. The administrator is
assumed to edit the configuration only under `config.lock` and while nobody has the
repository open.

### SwarmPorts

Digits matter here, because `strings.Replace` finds `/tcp/40` in `/tcp/4001` and
`comp.Value()` has lost the leading zeros that the text has: a port is the sequence of
its digits. The state is the list of addresses on disk, a step is a start with some
port. A port is in range if it has at most `MaxDigits` digits: 65536 to 99999, which have as
many digits as 65535, are not told from it. `Adjusted` is the reference, `Plain` the addresses for which the code meets it.

### Logging

`log_cb` is `torn` while `redirect_logs` assigns it. A goroutine that logs takes the
mutex of Go's logger (`Lock`), and writes to stderr or enters the callback
(`WriteCustom`), which returns (`CallReturns`). It runs under the mutex, and so need not
return: one of `Reentrant` logs (it calls a function of the node that does), and waits for
the mutex that its own goroutine holds; one of `Waits` waits for the thread that calls
`redirect_logs`, which may itself be waiting for the mutex. `Stuck` are these two
deadlocks. A callback that calls `redirect_logs` itself replaces the function that is
running, which `Redirect` counts as a race. The two `SetOutput` of
`go_asio_ipfs_redirect_logs` take the same mutex. A panic, a failed assertion or a race
is recorded in `broken` and ends the process. `expect` is where a line must go if no
redirect is running.

## 3. Runs

| Run | Instance | Shows |
|---|---|---|
| `HandlesOps` | 2 operations of either kind, 2 nodes, 2 `Cancel`s, hot restarts | `NoDangling`, `HeardOnce`, `CancellerArmed`, `NoLatePost`, `CancelIsPrecise`, the inductive invariant `IInv`, the refinement `ImplementsAsyncOpSafety`, and under fairness `FreedIsReleased` |
| `HandlesLive` | 3 operations, 2 nodes, 1 `Cancel`, no hot restart, no `resolve` | `CancelReachesGo`, `RegistryExact`, no deadlock, and under fairness `FreeTerminates` and the refinement `ImplementsAsyncOp` |
| `Lifecycle` | 2 starts | `ObjectIsCurrent`, `StartsDoNotCollide`, `ImplOwned`, the inductive invariant `LInv`, no deadlock, and under fairness `StartAnswered`, `MonitorEnds` and the refinements `SlotAsPromised` (of `NodeSlot`) and `ReportsAsPromised` (of `StateReports`, twice) |
| `Monitor` | every set of services, up to 2 API listeners and 1 of the gateway | `NoSendOnClosed`, `LastReportIsTrue`, no deadlock but the known one, and under fairness `FailureEndsNode`, `ClosedIsRetired`, `ReportsAsPromised` |
| `Repo` | 2 processes, 3 starts, 4 requests, a new or an old repository | `RunsOwnConfig`, `RunsWhatIsWritten`, `HalfWrittenIsRepaired`, `IdentityStable`, `LockedUntouched` |
| `Ports` | all lists of up to two addresses of four shapes | `PortsAdjusted`, `StaysParsable` |
| `Log` | 3 redirects, 2 goroutines, 2 lines each; callbacks that return, wait, log or are empty | `RedirectIsSafe`, `RedirectTakesEffect`, and under fairness `LoggerAnswers` |

**Bounds.** Two operations suffice for every pairwise interaction (two tasks of one
Handle, two Handles in one slot, an id reused by the next node); where a restart has to
wait, a third lets another party be in flight meanwhile. Two nodes are needed for a stale
id. A single `Cancel` next to the Handles' own slots covers "own slot" and "the user's
slot", and its reuse after completion; `HandlesOps` has two. Two starts cover: refused
next to a running one, and started again after a failure, a cancel or a free; the proofs
cover any number. `MaxHandle`, `MaxNode` and `MaxStart` are the only bounds; the queue is
bounded by two tasks per Handle. `HandlesOps` checks no deadlock, since a pending
`resolve` blocks `run()` for good. Two listeners of one service are the least for a
channel with several senders. Three starts are: one that leaves something behind, one
that is cut short repairing it, one that must succeed; the four requests differ in every
field, have it empty and have a bad routing. Two processes are the least for a race, and
are interchangeable (`Symmetry`). The ports include one that begins with another, one
with a leading zero and one out of range (`MaxDigits` stands for 65535); `Ports` checks
no deadlock, since a list of UDP addresses that has got a port out of range lets no start
succeed. Three redirects: set, replaced, replaced again or emptied. `Log` checks no
deadlock either: a broken process and a callback that is `Stuck` are ends, and
`LoggerAnswers` says that nothing else waits for ever.

**Fairness.** The asio thread runs posted tasks, finishes `free()` and a constructor,
and user callbacks return: weak fairness on each. A goroutine is relied on to return
only when its context is done (`GoReturn` is fair only for `h \in ctx`): go-ipfs takes
the context everywhere, but a `cat` of an absent object may otherwise wait for ever.
Nothing obliges the user to start, cancel or free anything. In `NodeLifecycle`, `start_node` goes on (to success or to an
error), and the monitor's select takes `Done` at some point, as Go chooses among ready
cases at random. In `StateMonitor` the monitor as a whole is weakly fair: whichever case
it takes, each can be taken only so often. `Serve` and `PeriodicGC` return once the
context is done (`Serve` gives open requests a limited time). In `Logging` those who
wait for the mutex are strongly fair, since Go's mutex hands itself over to one who has
waited long, and a callback that has what it waits for returns.

**Disagreements between the code and what it says.** Each of these is a run that must
fail:

| Run | What the repository says | What happens |
|---|---|---|
| `HandlesHotRestartLost` | node.cpp:111 "This function is always called, in a go thread." | an old abort frees the new operation's signal; its cancel is lost |
| `LifecycleStuck` | ipfs_error.h:33 "node aleady exists" | answered after a failed start, when none exists: `_ = go_asio_ipfs_free` calls nothing |
| `LifecycleStop` | ipfs_node.go:466 "IPFS node gracefully stopped" | the monitor still calls into the deleted `node_impl` |
| `MonitorGCThread` | ipfs_gc.go:52 "IPFS GC thread is closed" | the goroutine blocks for ever in its send when the monitor has left |
| `RepoLockedApi` | ipfs_repo.go:99 "Config would be read from repository" | the caller decides whether there is an API; `listeners[0]` can panic |

Others have no run of their own; the passing properties state the condition under which
the code does what it says:

| What the repository says | What happens | The condition |
|---|---|---|
| node.cpp:111, as above | never for `resolve`; its Handle and `work` stay for ever | `FreedIsReleased` excepts `"never"`; `HandlesLive` has `Kinds = {"op"}` |
| node.cpp:261 "Make sure all handlers get completed." | when one `Cancel` is given to two pending operations, `free()` spins | `ReuseCancel = FALSE` in the runs and in theorem `FreeLoopArmed` |
| ipfs_node.go:50 "vars below can be accessed only from C thread" | `start_async`'s goroutine writes them | harmless between starts: `StartsDoNotCollide` |
| ipfs_repo.go:85 "Ensure that config passed from outside is written into the IPFS repository" | an empty swarm key or peering leaves the old one in force | `RunsOwnConfig`: in what the caller did ask for |
| ipfs_config.go:152 "empty bootstrap peers in config. Default IPFS bootstrap peers would be used." | those that an earlier start has written are used | as above |
| ipfs_repo.go:35 "Repo already exists at %s" | the answer to a second start that comes late enough; one that comes earlier writes its configuration, with another identity, over the first one's, which may be running | `raced` in `IdentityStable`, `RunsOwnConfig`, `RunsWhatIsWritten` |
| ipfs_repo.go:66 "Write swarm.key to new repository" | likewise the swarm key | as above |
| ipfs_log.go:16 panic "CustomLog.Write called while logcb is nil" | reached after `redirect_logs` with an empty callback: the branch that restores stderr has no `return` | `arg # Empty` in `RedirectIsSafe` |
| node.cpp:223 `assert(log_cb)` | races with the assignment in a second `redirect_logs` | `redirects <= 1` in `RedirectIsSafe` |

README.md:17 ("at the moment they can't be cancelled individually") is out of date: the
overloads with a `Cancel&` exist.

## 4. Proofs

Every invariant that a passing run checks is proved, for all values of the constants
that satisfy the assumption named in its module, as are the action properties
`IdentityStable` and `LockedUntouched` and the safety half of each refinement.

### Handles

`HandlesProofs` proves, for all values of the constants that satisfy
`HandlesAssumption` (in particular any number of operations, nodes and Cancels, with
`resolve`, hot restarts and, but for `FreeLoopArmed`, reused Cancels):

| Theorem | |
|---|---|
| `Inductive` | `Spec => []IInv` |
| `TypeCorrect` | `Spec => []TypeOK` |
| `MemorySafe` | `Spec => []NoDangling` |
| `CallbackOnce` | `Spec => []HeardOnce` |
| `FreeLoopArmed` | `Spec => []CancellerArmed`, assuming `~ReuseCancel` |
| `PostsInTime` | `Spec => []NoLatePost` |
| `Refinement` | `Spec => ImplementsAsyncOpSafety` |

None of the properties is inductive. `NoDangling` needs to know that a Handle is
deleted at the right time, i.e. that `job_count` *is* the number of tasks that exist or
will exist (`JobInv`), which needs that no task exists twice (`QueueInv`). `HeardOnce`
needs that what was heard is determined by which task has left the queue (`HeardInv`).
`CancellerArmed` needs that linked is the same as neither cancelled nor heard
(`ListInv`) and that no two unheard Handles share a slot (`SlotInv`). `CountInv` and
`IosInv` bound the ids and tie `run()`'s return to the absence of Handles. `IInv` is
their conjunction; the proof has one lemma per action, two lemmas (`InAppend`,
`TakeHead`) on what posting to and taking from a duplicate-free queue do, and
`DropJobIInv` for the two actions that end a task. The refinement maps `CallIpfs` to
`Start`, `CancelHandle` to `RequestCancel`, `RunCallback` to `Complete` or `Abort`, the
last `DropJob` to `Release`, and everything else to a stutter.

`CancelProofs` adds to `IInv` the invariant `CInv` of the cancel signals:

| Theorem | |
|---|---|
| `CancelInductive` | `Spec => []CInv` |
| `ExactRegistry` | `Spec => []RegistryExact` |
| `PreciseCancel` | `Spec => []CancelIsPrecise` |
| `ReachingCancel` | `Spec => []CancelReachesGo`, assuming `~HotRestart` |

A cancel looks an id up in the table of *the current* node. That it finds its own
operation needs that the ids of a node's operations are distinct and below the counter
(`IdInv`), that whoever is in the list belongs to the current node and that
`go_asio_ipfs_free` is called with an empty list (`OwnerInv`), and that an operation not
yet heard of is still registered (`ReachInv`). The last holds only without hot restarts:
an abort that is still queued when the next node starts frees the entry of a new operation
with the same id, which is what the run `HandlesHotRestartLost` shows. The first two
theorems do not need that assumption: such an abort takes an entry away, and never leaves
a wrong one.

### Node life cycle

`LifecycleProofs` proves, for any number of starts and any configurations
(`NodeLifecycleAssumption`):

| Theorem | |
|---|---|
| `LifecycleInductive` | `Spec => []LInv` |
| `NeverAsserts` | `Spec => []TypeOK`: the `assert(false)` of `~node` is out of reach |
| `CurrentObject` | `Spec => []ObjectIsCurrent` |
| `NoCollision` | `Spec => []StartsDoNotCollide` |
| `OneOwner` | `Spec => []ImplOwned` |

`ObjectIsCurrent` is not inductive: a node object appears when a start is *answered*,
possibly long after `start_node` has set its node up, and other starts may come and go
in between. `ClaimInv` closes the gap: a start that is executing, or has succeeded
without its caller having been told, or whose node object exists, *claims* the node,
and only the start that `g_node` stands for can do so. Hence `g_node = nil` implies
that there are no claims, which is why `allocate_node` may give the node away, and why
`go_asio_ipfs_free` may forget it. `WayInv` says which parts of a start exist,
`ObjectInv` that a node object is never also a build in progress (so that no two owners
delete one `node_impl`), `CollectorInv` that only `g_node`'s collector is registered.
One lemma per action or group of alike actions; the twelve steps of `start_node` share
`AdvanceLInv`.

`SlotProofs` proves the refinements, for any number of starts:

| Theorem | |
|---|---|
| `ResetInductive`, `StartMonitorInductive` | `Spec => []ResetInv`, `Spec => []MonitorInv` |
| `SlotRefined` | `Spec => SlotAsPromisedSafety` |
| `StartReports` | `Spec => ReportsAsPromisedSafety`: for every start, `Reports(i)!Safety` |

Given `LInv`, each step is a step of `NodeSlot` or a stutter: only a start that claims the
slot can move it, so `AllocateNode` maps to `Claim`, the end of a start to `Succeed` or
`Fail`, a cancel after `start_node` has succeeded to `Fail`, `MoveAssign` to `Drop`, and
`GoClose` to `Destroy`. `ResetInv` (nothing brings `g_node` back between `GoClose` and
`Reset`) makes `Reset` a stutter. The reports need `MonitorInv`, which says of every start
what its monitor has told so far; it holds because the stage `ok`, which launches the
monitor, is reached once.

### State monitor

`MonitorProofs` proves, for any number of listeners (`StateMonitorAssumption`):

| Theorem | |
|---|---|
| `MonitorInductive` | `Spec => []MInv` |
| `MonitorTypeCorrect` | `Spec => []TypeOK` |
| `TruthTold` | `Spec => []LastReportIsTrue` |
| `NoPanicOnSend` | `Spec => []NoSendOnClosed` |
| `ReportsRefined` | `Spec => ReportsAsPromisedSafety` |

`LastReportIsTrue` is about the last report only; that it is true follows from why the
context is done: it was freed, or `lasterr` is set, and then a goroutine has sent an error
and ended (`CauseInv`). What was told is determined by where the monitor is (`ToldInv`).
`ErrcInv` says which services have channels. `NoSendOnClosed` is inductive by itself.

### Repository

`RepoProofs` proves, for any number of processes, starts and requests, any failures and
crashes (`RepoConfigAssumption`):

| Theorem | |
|---|---|
| `RepoTypeCorrect`, `RepoInductive` | `Spec => []TypeOK`, `Spec => []RInv` |
| `OwnConfig` | `Spec => []RunsOwnConfig` |
| `WhatIsWritten` | `Spec => []RunsWhatIsWritten` |
| `Repaired` | `Spec => []HalfWrittenIsRepaired` |
| `IdentityKept` | `Spec => IdentityStable` |
| `LockRespected` | `Spec => LockedUntouched` |

From `fsrepo.Open` on a start has `repolock`, and its `conf` is the file's except just
before `SetConfig` (`HolderInv`); hence no two starts are there, and no one changes what
another has read, except from inside `initRepo`, which writes without that lock. `RaceInv`
says of a start that has met no other there (`p \notin raced`) that nobody else is in
`initRepo` once it has looked at the repository, that a configuration it has not found is
still missing when `fsrepo.Init` writes, and that a version file it has missed stays missing.
It holds because `initRepo` is entered only when there is no configuration, and a
configuration never goes away (`BaseInv`). From it follow that neither `config` nor
`swarm.key` changes under such a start, and `IdentityKept`: the writes that replace an
identity, of `fsrepo.Init` over another configuration or of `SetConfig` over one that was
replaced since it was read, are made by starts in `raced`. `AskedInv` and `NodeInv` follow
what the caller asked for from `updateConfig` through `NewNode` to `maybeServeHTTPApi`, and
`FailedInv` keeps the reason of a failure.

### Swarm ports

`PortsProofs` proves, for every list of addresses, every sequence of starts and every
range (`SwarmPortsAssumption`: the port of the caller is unsigned and formatted
without leading zeros):

| Theorem | |
|---|---|
| `PortsInductive` | `Spec => []PInv` |
| `EveryPortAdjusted` | `Spec => []PortsAdjusted` |
| `AlwaysParsable` | `Spec => []StaysParsable` |

The loop over the components of an address is a recursive function, and its value is found
without an induction theorem: `AdjustedTo` gives, for a plain address, the text after each
component; it satisfies the equation of the loop (`AdjustedToLoop`), and the equation has
one solution (`LoopUnique`, by the least-number principle `LeastNatural`, which the library
states for sets in `WFMin`). What an address that is not plain becomes is not stated: `Replace`
may find one port at the beginning of another.
`SwarmInv` says that a plain address is the original one with the last port; a port
without leading zeros makes it plain again for the next start. `RangeInv` says that a port
given to a TCP component was parsed by the second pass.

### Logging

`LoggingProofs` proves, for any number of goroutines, lines, redirects and callbacks
(`LoggingAssumption`):

| Theorem | |
|---|---|
| `LoggingInductive`, `LoggingTypeCorrect` | `Spec => []LogInv`, `Spec => []TypeOK` |
| `FirstRedirectSafe` | `Spec => []RedirectIsSafe` |
| `RedirectEffective` | `Spec => []RedirectTakesEffect` |

`FirstInv` is the reason why the unlocked assignment of `log_cb` does no harm the first
time: Go's writer is stderr until after it, so no goroutine is inside `log_cb`, neither
while it is assigned nor while `redirect_logs` waits for the logger; that is why the first
callback may wait for the thread that redirects.
`EffectInv` says that between two redirects the writer and the callback are those of the
last one, `ExpectInv` that a line has a known destination only then.

### Only model-checked

* Every property under fairness: `FreeTerminates`, `FreedIsReleased`, `StartAnswered`,
  `MonitorEnds`, `FailureEndsNode`, `ClosedIsRetired`, `LoggerAnswers`, and the fair halves
  of `ImplementsAsyncOp`, `SlotAsPromised` and `ReportsAsPromised`. Liveness, and the
  `ENABLED` that weak fairness is defined by, are out of the prover's reach.
* The absence of deadlock, for the same reason.
* The five disagreements of section 3, which are counterexamples.

## 5. Not modelled

* The work of go-ipfs itself, the data, error codes and messages.
* The completion token templates of `ipfs_node.h` (no state), MFS (a stub).
* A `Cancel` destroyed before its operation ends: the caller's contract.
* `io_service::stop`, and user code that starts operations on other threads: the
  README excludes the latter.
* A move assignment over a node that has pending operations (`MoveAssign` is in
  `NodeLifecycle`, which has no operations).
* A state callback of the user that calls back into the library.
* That a start may be answered by an old version of the repository, which would need a
  migration (ipfs_repo.go:80): a failure like others.
* Listeners that stay open when a later one of the same service cannot be opened: the
  start fails, and its process has no way to go on (`LifecycleStuck`).
* `DefaultProfile`, the flags of Go's logger, `SetAPIAddr`'s file.

## 6. Plan

Done: all components that have state, their runs, the abstract specifications `AsyncOp`,
`NodeSlot` and `StateReports`; the proofs of all invariants and action properties of the
passing runs, and of the safety half of each refinement.

Next: what the properties leave unsaid and the invariants allow to prove, e.g. that every
round of `free()` shortens the list (the ranking behind `FreeTerminates`), which operations
are left when a Cancel is reused, and what becomes of swarm addresses that are not plain.
