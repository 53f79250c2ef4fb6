# A TLA+ model of turbopack-wasi

turbopack-wasi builds Next's `next-swc` binding for `wasm32-wasip1-threads` and ships it as the
npm package `next-swc-wasi`.  The parts of next-swc that need a real operating system - worker
threads with their own engines, child processes, sockets, `fetch` - are reached through bridges
between the guest (Rust inside the wasm module, in `src/patches*` and `src/vendor-crates`) and the
host (JavaScript in `src/pkg`).  Two crates are vendored because they had to change: `napi`, through
which Rust and JavaScript meet, and `swc`, the front of the compiler.  This directory models the bridges,
the stateful parts of the napi crate and the control of the swc crate, checks the models with TLC
and proves the main safety results with TLAPS.

Paths below are relative to `src/`; "0026" is `patches/0026-turbopack-wasi-run-SWC-wasm-plugins-...`,
"0016" is `patches-16.1/0016-turbopack-node-host-process-net-bridge-...`, "0011" is
`patches/0011-next-napi-bindings-wasi-runtime-install-...`; `napi/` and `swc/` are
`vendor-crates/napi/src/` and `vendor-crates/swc/src/`, `bindgen/` is `napi/bindgen_runtime/`.

## 1. The system

| Component | State it keeps | Operations | Talks to |
|---|---|---|---|
| **SWC plugin host bridge** (0026; `pkg/swc-plugin-worker.mjs`; `pkg/loader.cjs:340-380`) | a `Channel` per plugin instance in shared linear memory (turn, op, arguments); the worker's wait loop; two signal queues | `Runtime::init`, `Instance::transform`, `serve`, `Caller` requests, `Drop`; `serveChannel`, `makeForwarder`, `serviceCaller` | guest thread and driver worker through atomics; the signal goes guest -> event loop (threadsafe function) -> worker (message port) |
| **Host process bridge, processes** (0016; `loader.cjs:381-450`) | guest: `PROCS`, `STREAMS`, `ExitState`; host: `procs` | spawn, kill, wait, drop; data, EOF, exit | threadsafe functions one way, exported entry points the other |
| **Host process bridge, sockets** (0016; `loader.cjs:438-495`) | guest: `LISTENERS`, `STREAMS`, accept queue; host: `servers`, `conns` | bind, accept, read, write, shutdown, drop | the same |
| **Loader boot and engagement** (`loader.cjs`, `auto.cjs`, `binding.cjs`, `jest-transformer.cjs`) | the process-wide record `G`; per module registry `ready` and `initPromise`; `NEXT_DISABLE_SWC_WASM` | `ensureInit`, the `loadBindings` and `createTransformer` wraps, the require of `binding.cjs` | emnapi, next |
| **Pool-worker RPC** (`loader.cjs:60-110, 507-550`) | `poolWorkers`; on a worker `pending`; Rust's table of workers | create, terminate, `rpc`, `handleRpc`, reply | worker message ports |
| **napi: threadsafe functions** (`napi/threadsafe_function.rs`) | the handle its clones share, the `aborted` lock, Node's queue | create, clone, call, call_async, refer, abort, drop, finalise | any thread and the event loop |
| **napi: tasks on libuv** (`napi/async_work.rs`, `bindgen/js_values/task.rs`) | the work, its status, its deferred | run, execute, complete, abort, cancel | the pool, AbortSignals |
| **napi: promises and tokio futures** (`napi/tokio_runtime.rs`, `bindgen/js_values/promise.rs`, `napi/js_values/deferred.rs`; 0011) | `RT`, its reference count, oneshot channels, `JsDeferred` | install, start and shutdown, spawn, then and catch callbacks, settle | tokio, environments |
| **napi: buffers and their collection** (`bindgen/module_register.rs`, `js_values/buffer.rs`, `arraybuffer.rs`) | `Arc`s around references and data, `CUSTOM_GC_TSFN` and its flags, `IS_FIRST_MODULE` | register, clone, drop on any thread, finalise | the garbage collector, a threadsafe function |
| **napi: classes and references** (`bindgen/mod.rs`, `callback_info.rs`, `js_values/value_ref.rs`) | `REFERENCE_MAP`, reference counts, `___CALL_FROM_FACTORY` | wrap, construct, factory, Reference, WeakReference, SharedReference, finalise | the garbage collector |
| **napi: Env** (`napi/env.rs`, `error.rs`, `async_cleanup_hook.rs`, `js_values/`) | boxed values behind wraps, externals, closures and hooks; instance data; references | wrap, unwrap, drop_wrapped, externals, hooks, `Ref`, errors | the environment's end |
| **napi: iteration, big integers** (`bindgen/iterator.rs`; two `bigint.rs`) | generator state; none | next, return, throw; conversions | - |
| **swc: options and `.swcrc`** (`swc/lib.rs`, `config/mod.rs`) | the search, the `Rc`, the merged config | read_config, matching, merging | the file system |
| **swc: the compilation** (`swc/lib.rs`, `config/mod.rs`, `builder.rs`, `plugin.rs`) | the program, the chain of passes, the handler | process_js_file, process_js, minify, print | the passes |
| **swc: comments of dropped nodes** (`swc/dropped_comments_preserver.rs`) | known spans, comments left | visit, collect, shift | - |
| **swc: process-wide caches** (`config/mod.rs`, `plugin.rs`, `wasm_analysis.rs`) | globals, resolvers, plugin modules | look up, make, insert | compilations on other threads |
| **Host fetch bridge**, **turbo-persistence on wasi**, **small wasi patches**, **link sections and import-section parser**, **build, patch and publish scripts**, **fixtures** | see section 6 | | |

What is hard in it:

* *Concurrency.*  Guest threads are real threads on one memory; a hand-off is a store and a notify,
  a park is a load and a wait, and each of the four is a separate step.  The guest's registries are
  read by JS callbacks while guest threads change them.  napi's handles are cloned, called and dropped
  on any thread while the environment that owns what is behind them closes.
* *Ordering.*  Every threadsafe function has a queue of its own.  A kill and a spawn, or a write and
  a close, go through different ones.  Replies of a pool worker's calls come in another order than calls.
* *Lifetime.*  A channel's address is freed and allocated again while the worker may still look
  at it; a connection may arrive for a listener that is being dropped; an object's finaliser may come
  before or after the Rust values that refer to it.
* *Failure.*  A plugin may trap at any point, also while it is inside an import; the worker may
  die; a boot may fail half way; a process may fail to start synchronously, asynchronously, or die
  of a signal; every Node-API call may fail; a pass may fail in the middle of the chain.
* *Blocking.*  A guest thread parks without a timeout, a Blocking call waits for room in a queue; if
  that is the event loop, nothing moves.

`PROJECT.json` lists the hazards line by line with the properties that cover them.

What makes each component correct: the parties of a channel alternate and every success a plugin
caller sees was earned; every park ends; output comes before end of file and exit, no `wait()` sleeps
through the exit, and a kill misses only the spawn it overtook; inbound bytes precede end of file, an
outbound byte is lost only to a close that overtook it, and no socket is forgotten; there is one boot, a caller that is told "ok"
has its binding, a failed boot leaves next's own fallback open, and a live binding never runs on the
single-threaded fallback runtime; a pool worker's calls are settled once, by their own answers; nothing
reaches a threadsafe function, a reference or a boxed value that is gone, each is released once, and each
promise is concluded once; a number means in JavaScript what it meant in Rust; what a file is compiled
with fits it, no statement or comment is lost untold, and what one compilation caches fits the next.

## 2. Modules

| Module | Models | Composes |
|---|---|---|
| `PluginBridge` | both sides of the plugin bridge, step by step | - |
| `PluginCall` | the abstract specification: what `Runtime::init` and `Instance::transform` promise swc | - |
| `PluginBridgeImpl` | the refinement mapping from `PluginBridge` to `PluginCall` | both |
| `HostProcess` | processes: `Command::spawn`, `Child`, `proc_exit`, the host's callbacks | - |
| `HostSocket` | listeners, connections and streams | - |
| `HostBridge` | the host process bridge | the two above, by `side` |
| `LoaderInit` | boot, module registries, runtime install | - |
| `PoolRpc` | workers of the pool and their calls | - |
| `Loader` | the main thread of `loader.cjs`: pool workers are created through the overrides that the boot grafts onto a live binding | `LoaderInit`, `PoolRpc` |
| `ThreadsafeFunction` | one threadsafe function, its clones and its finaliser | - |
| `AsyncTask` | tasks on libuv's pool, aborts and cancels | - |
| `TokioFuture` | the shared runtime, futures on it, the promises they await and settle | - |
| `AddonCalls` | the three ways in which work leaves the main thread and comes back | the three above, by `stage` |
| `BufferGc` | buffers and typed arrays across threads, the custom GC, registration | - |
| `ClassReference` | instances at one address, References to them, the factory flag | - |
| `EnvObjects` | what Env boxes, and references to JS objects | - |
| `Iteration` | generator objects on one native value | - |
| `BigInts` | conversions of integers | - |
| `AddonObjects` | what the addon shares with JavaScript | the five above, by `part` |
| `SwcConfig` | from the call to the merged config | - |
| `SwcCompile` | from the config to the printed program | extends `SwcConfig` |
| `DroppedComments` | the pass that saves comments | - |
| `SwcCaches` | what compilations on several threads share | - |
| `SwcCompiler` | the vendored swc | the four above, by `view` |
| `SwcPlugins` | swc and the bridge over which its plugins run | `PluginBridgeImpl`, `SwcCompiler`, by `view` |
| `*Proofs` | theorems about `PluginBridge`, `HostProcess` and `HostSocket` (as parts of `HostBridge`), `Loader`, `PoolRpc`, `AddonCalls`, `AddonObjects`, `SwcCompiler` | each its subject |
| `MC*` | instances for TLC; `MCSwcPlugins` says which configurations and sources are compiled | |

Definitions marked `(Mutant)` are plausible bugs of the code: no specification uses them, they
exist to show that each property can be broken by a change of a single definition.

Five modules put parts side by side that share no state beyond the one thread they run on
(`HostBridge`, `AddonCalls`, `AddonObjects`, `SwcCompiler`, `SwcPlugins`).  There a variable chosen initially says which part a behaviour is about: the
product of the parts would multiply their states and could not show anything more, since no
action of one reads or writes a variable of another.

### PluginBridge

A thread's `tpc` is its place in `host_bridge.rs`, `tctx` the frame it is in (`serve`, a `closure`
that runs for an import, or `top`: the executor between its calls), `tstage` how far the instance is.
The worker's `ppc` is its place in `swc-plugin-worker.mjs`; `pctx` says whether it waits at the top of
`serveChannel` or inside an import of the plugin.  `turn`, `op` and `mod` are the fields of
the `Channel` at each address.  Arguments and return values are left out, except which module a
channel names.

| Code | Actions |
|---|---|
| `Runtime::init`, `Channel::new`, `start` | `AllocChannel`, `Start` |
| `hand_off` (store, notify) | `HandOff`, `Notify` |
| `park_until` (load; load and wait) | `ParkCheck`, `ParkWait` |
| `serve` | `ServeDone`, `ServeBail`, `ServeImport`, `ClosureReturn` |
| `HostBridgeCaller` | `CallerRequest`, `RequestDone`, `RequestBail` |
| `transform`, end of the call, `Drop`, release of the box | `Transform`, `Finish`, `Drop`, `Free` |
| the event loop's handler, the worker's end | `ForwardSignal`, `WorkerDies` |
| `on('message')`, `waitForP`, `handToT` | `Accept`, `WaitCheck`, `WaitPark`, `HandToT`, `NotifyT` |
| `serveChannel` | `ReadOp`, `ActInit`, `ActTransform`, `ServiceCaller`, `CallerTrap`, `ActClose`, `ActUnexpected` |
| the plugin and `makeForwarder` | `PluginImport`, `ImportReturn`, `PluginReturn`, `PluginTrap` |

`park_until` reads `turn` in its loop condition and once more for the expected value of the wait.  The
second read and the wait are one step: if the two differ the wait returns at once and the loop condition
is evaluated again, which is the `ParkCheck` the thread would otherwise make.  What the allocator leaves in a
freed channel is a nondeterministic choice (`junk`, or the fields of the next owner); `Recycle` says
whether addresses are reused.  A signal carries the address only; its field `live`, and `ran`, are
history variables that the actions' guards never read.

### HostProcess and HostSocket

JS callbacks run one at a time, but a callback that calls an exported entry point changes the guest's
registries step by step while guest threads run; `main` holds the callback that is in the middle of
that, and every other callback waits for it (`offered` is the same for a connection).  `calls` and `asked`
are the host calls that were made and have not run: one queue for each threadsafe function, of which any may be
served next, which is all that `napi_threadsafe_function` promises.  Kills go through the action function and spawns
through their own; writes through the write function, and `closeWrite`, `dropConn` and `closeListener` through
the action function.  The history variable `cutOff` remembers the connections that the host closed while writes
of theirs were queued.  The operating
system, Node's `child_process` and `net`, and emnapi's queues are external and marked so in the map: a
process may write, exit or be killed at any time, `'close'` comes when the process is gone and its pipes are
drained, a peer may send, finish or reset.

`Child::wait` is six actions (`WaitArm`, `WaitLook`, `WaitReturn`, `WaitPark`, `WaitWake`, `WaitCancel`): creating
the `Notified`, reading the code and awaiting are separate, and the pool cancels the future at any of them.
`turbopack_pool_proc_exit` is three (`ExitLookup`, `ExitStore`, `ExitNotify`).  `Drop for Child` and `Drop
for TcpListener` are two each, since a callback may run between the host call and the change of the registry.
After an `'error'` Node reports a negative errno as the code of `'close'`, so what the guest is told of a failed
asynchronous spawn is `"errno"` and not the 127 that the callback keeps for a missing code (`loader.cjs:432-436`).

### LoaderInit, PoolRpc and Loader

One instance per evaluation of `loader.cjs` (jest gives every sandbox a module registry).  Promise reactions
are steps of their own; `beforeInit` (the raw install and the registrations) is one step because nothing else
runs on that thread during it.  `EagerCall` is a napi call before the
install, against the contract of 0011; the history variable `early` remembers it.

In `PoolRpc` a step is one turn of the event loop of the main thread or of a worker.  `rpc` on the worker is `Call` and
`TakeReply`; `handleRpc` is `HandleRpc` up to its await and `FinishRpc` or `FailRpc` after it, except that
`workerCreated` gives no promise and is answered in the same step.  `Stop` and `Exit` are apart: what a worker
had posted is delivered before `'exit'`, when `worker.threadId` is already -1 and the table entry stays.  The Rust side
of the calls is external.

### The napi crate

`ThreadsafeFunction`: `pc` is where an actor is in an operation.  The read lock of `aborted` is held across the
napi call (`readers`), a Blocking call that finds the queue full waits there with the lock, and `abort` and the finaliser
want it for writing.  `call_async` goes on to await its answer.  `Return` is the end of a JS call with any outcome,
and what the per-call callback does with it.

`AsyncTask`: `complete` is four steps (`CompleteValue`, `CompleteCheck`, `CompleteSettle`, `CompleteEnd`) because the
task's `resolve` and `reject`, the conversion of what they give and its `finally` run JavaScript, which may abort the
task's own signal.  `TokioFuture`: an environment goes through
`absent`, `open`, `closing`, `taking`, `dropped`, `closed`, where `drop_runtime` is two steps (the count, then the
runtime); the awaited promise settles through a sender in a box that two callbacks share; `call_tsfn` is two steps.

`BufferGc`: dropping a handle is several steps (`dpc`): the count is read, the reference deleted or handed to
the custom GC, then the `Arc` goes.  `lent` is the data that JavaScript has through a clone, whose finaliser notifies
nobody; `DataCopied` is a conversion that copies (empty data, or a host without external buffers).  `ClassReference` puts successive instances at one address, the allocator's worst
choice.  In `EnvObjects` a call that may fail has an `ok` parameter and whoever owns the value then is in
`attached`, `instance`, `hooks` or `lost`, the last with the name of the way it was lost; `returned` are the values that an
`External` taken from JavaScript gave it once more, which has two finalisers then, and `copies` counts the clones of an
`Error`, which share one reference.  In `BigInts`
a word has `Base` values in place of 2^64, and the conversions are written with the wrap-around, sign and panics of the code's width.

### The swc crate

A matcher is the set of its patterns, a pattern the set of the extensions it matches; directories are numbered
from the top.  A program is its kind and a set of items; of an item the model keeps what decides whether it exists at run time.
A pass is modelled by what it may do to items and names, the chain by `queue` and `applied`, in the order `build_as_input` and
`JsCompiler` put it together.  `DroppedComments` is the pass in full.  In `SwcCaches` a `get` and the `insert` after it
are two steps, and a cached value is written as the options it was computed from; `environ` is `process.env`, which may change
between them.

## 3. Runs

Every bound is a constant of the configuration.

| Run | Bounds | Distinct states | Shows |
|---|---|---|---|
| `swc_plugins` | bridge: 2 threads, 2 reusable addresses, `MaxSignals = 2` (no new plugin instance while that many signals are queued), threads and addresses symmetric; compiler: 3 directories, the configurations and sources of `MCSwcPlugins`; 3 positions, 3 spans, 3 comments; 2 compilations at once, 2 environments | 1.89 M | `TypeOK`, `StrictAlternation`, `AnswersAreEarned`, `WorkerSeesEveryHandOff`; `ImplementsCall`: the bridge implements `PluginCall`; `ConfigFits`, `ScriptStaysScript`, `PassesFit`, `LossIsTold`, `CommentsKept`, `SharedFits` |
| `bridge_liveness` | 3 threads, one of them the event loop's, 2 addresses used once, the worker may die | 352 k | `ParksEnd`: threads queue for the worker and every park ends, unless the bridge is for good in one of the five situations `Wedged` names |
| `host_bridge_calls` | 2 processes, `WaitedFor` one of them, `MaxOut = 1` chunk of output; 1 listener, 1 connection, `MaxChunks = 2` either way; any order of the queues | 516 k | `RegistriesAgree`, `OutputPrecedesExit`, `WaitSeesExit`, `KillsMissOnlySpawns`, `SocketTypeOK`, `InboundComplete`, `LostWritesWereOvertaken`, `NoForgottenSocket`; `WaitReturns`, `DropReleases` |
| `loader` | 2 module registries, 1 pool worker, `MaxCalls = 3`, `MaxMessages = 1`, napi calls before the install possible | 326 k | `BootSound`, `GrantedFindsBinding`, `FallbackStaysOpen`, `LiveOnMultiThreaded`, `PoolSound`; `CallersAreAnswered` |
| `addon_calls` | 1 thread beside the main thread, a queue of 1, 1 call in flight each, 2 tasks, 2 environments, 1 future; wasm and native builds | 86.8 k | `TsfnSound`, `TasksSound`, `FuturesSound`; `NoCallbackAfterAbort`, `AnswersArrive` |
| `addon_objects` | 2 environments, 1 worker, 1 buffer made twice with 2 references; 2 objects, 2 natives of 2 types and 1 reference counted to 2, of these `MaxThings = 3` at once; factories nested 3 deep; 2 generators of 2 items; words of 4 values, magnitudes to 80 | 272 k | `BuffersSound`, `NothingForgotten`, `InstancesSound`, `EnvObjectsSound`, `NumbersSurvive`; `CollectionGoesOn`, `LaterCallsAgree` |

Why the bounds are enough.

* Bridge: two threads give every contention for the one worker; two addresses let one instance be freed, its
  address be reused, and the other party still be busy; two signals let a stale and a fresh one be queued
  together.  A thread of the event loop's comes on top for liveness.  Threads and addresses are interchangeable in
  `swc_plugins`, whose properties are all of safety.
* Processes and sockets: one process exercises all of its own protocol; the second lets host calls of different
  processes interleave in the queues and share `main`, and need not be waited for.  One chunk distinguishes "delivered"
  from "lost"; two are used where the order of writes and a close matters.  What more processes, listeners and connections
  could add to the safety properties is proved away in section 4.
* Loader: two registries are the one that boots and one that joins, or is evaluated after the end; three calls of a worker
  are enough for a call of each method to be outstanding while another is answered.
* `addon_calls`: one thread and the main thread already race for the lock, the last handle and the one place in
  the queue.  Two tasks: one may abort the other from its own callback.  Two environments share the runtime, one closing
  while the other opens.
* `addon_objects`: one object with two natives is what a second wrap, a stale map entry or a wrong type needs, and one
  native with two objects what an `External` that comes back needs, so three things of any kind are enough; an instance made at
  the address of a finalised one needs two in succession.  With words of four values, 80 lies beyond
  the least 128-bit number (two words: sixteen magnitudes) and beyond a third word, so each limit of the conversions is crossed.
* `swc_plugins`, the compiler: three directories give a root above, on and below the file.  A source of three items holds what
  decides whether a file is a module plus what may vanish.  Three comments and three spans allow one comment before,
  between and after what survives.  An environment with and one without the variable of a list show a stale entry.

Six runs expect a violation.  Each confronts a sentence of the repository with what the code does:

| Run | Property | The counterexample |
|---|---|---|
| `bridge_lost_wakeup` | `ThreadSeesEveryHandOff` | the worker's store and notify fall between `park_until`'s two loads (0026:371, 374); the thread then waits on the value it was waiting for, for good.  The worker's `waitForP` passes a constant and has no such gap |
| `bridge_freed_channel` | `ServesLiveChannelsOnly` | `Drop` frees the channel right after a fire-and-forget OP_CLOSE; the worker still has to read turn and op |
| `bridge_nested_trap` | `NobodyDeserted` | a trap in a memory operation nested in an import ends `serveChannel`, while the closure on the guest goes on and hands the turn to a worker that has left |
| `process_orphan` | `NoOrphans` | the kill of a dropped `Child` overtakes the spawn |
| `socket_overtaken` | `WritesPrecedeClose` | a `closeWrite` or `dropConn` overtakes the write made before it: the action function's queue is served first (0016:373-383, 741-756) |
| `bigint_signed` | `SignedArrives` | a negative i64 arrives as -(2^64 + number): its word is two's complement and has a sign as well (`bigint.rs:208`) |

They check safety only, so no fairness is involved.  The findings in `PROJECT.json` quote the sentences.  The
fifth situation of `Wedged`, `EventLoopWaitsForItself`, is a transform on the event-loop thread, which parks the thread
before its own signal can be forwarded.

Deadlock checking is off in all runs: callers may stop asking, processes, addresses and tasks
run out, and the wedged states above are terminal.  What must not stop is stated by the liveness properties.

### Fairness

* `PluginBridge`: weak fairness of each thread's steps, of the event loop's forwarding and of the worker's
  steps - they are operating-system threads and an event loop that run while they can.  Strong fairness that a
  closure, an executor and a plugin export come to their end: wasm code that makes import after import for
  ever is not the bridge's fault.  No fairness for starting a call, failing or dying.
* `HostProcess`: weak fairness of the main thread (its event sources are served one after the other) and of a
  `wait()` that can make progress.  None for the guest's decisions, output or exit.
* `HostSocket`: weak fairness of the main thread, of `bind` after its promise settles and of the second half
  of `Drop`.  None for peers, accepts, reads or writes.
* `LoaderInit`: weak fairness of the boot (instantiation settles) and of each instance's promise reactions.
* `PoolRpc`: weak fairness of the message handlers, of the end of a thread that was told to end, and of the
  answer to `sendTaskMessage`, which Rust can always give.  None for `recvTaskMessageInWorker`, which waits for work, nor
  for a worker that ends by itself.
* `ThreadsafeFunction`: threads run; one that waits for the lock or for room in the queue is not overtaken for ever
  (strong fairness: both come and go).  The event loop serves its queue and leaves each callback.  None for starting an operation, aborting
  or closing the environment.
* `AsyncTask`: libuv's pool runs what is queued and the main thread completes it.  Nobody has to abort.
* `TokioFuture`: the runtime polls what is ready, the event loop runs promise reactions and queued calls.  Nothing makes JavaScript
  settle the promise a future awaits.
* `BufferGc`: a registration that has begun and a drop that has begun are carried through, and an environment that is
  open runs the callbacks queued for it.  The garbage collector is free never to run.

The swc modules have no liveness property: a compilation is one call, whose steps end with its input.

## 4. Proofs

Every invariant that a passing run checks is proved, and so are the three action properties and the refinement; only
liveness is left to TLC.  Each theorem holds for every value of the constants that satisfies the modules' assumptions: null
values are not members, bounds are natural numbers, there is a buffer, environments are finitely many (`TokioFuture` counts
them), a word has an even number of values (`BigInts`), configurations and compilations have the types of the structs they
stand for, and the options of the minify entry have a value for `isModule`.

**PluginBridgeProofs**, for any threads and addresses, reuse, worker death and synchronous callers:

* `TypeCorrect`: `Spec => []TypeOK`.  `TypeOK` alone is not inductive: a step writes the channel of the thread that
  takes it, so the thread must have one.  `Wiring` adds that a thread in a call owns its channel and
  that a worker inside `serveChannel` has a message; `StepWired` proves the two inductive.
* `Alternation`: `Spec => []StrictAlternation`.  Inductive together with `Wiring`: the only stores of `turn`
  are the two hand-offs, by whoever holds it, and a party starts to act only on finding its own value;
  `OwnChannel` (two threads in a call never share a channel) keeps other threads out.  Before
  the first hand-off of an instance a left-over `serveChannel` may be at its address, so the property starts there.
* `WorkerWakes`: `Spec => []WorkerSeesEveryHandOff`.  A worker that sleeps read "T"; only `HandOff` writes "P"
  in that word and its thread then stands at the notify; only `Free` takes the word away, and it marks the message.
* `AnswersEarned`: `Spec => []AnswersAreEarned`.  The invariant `EarnInv` follows a request through both sides.
  `ThreadInv`: how a thread's frame, progress and control point go together, and that one that gave up without a
  hand-off still holds the turn.  `RequestInv`: an operation in a channel that only the thread stores is its own
  (`Own`), a caller request that finds OP_DONE was answered, and the worker acts on what the thread asks (`Heard`).
  `AnswerInv`: an export of the plugin runs for the thread at the channel (`Serves`), and what that thread
  is handed is an import while the export is in one and OP_DONE only when it ran to its end (`Earned`).
* `BridgeImplementsCall`: `Spec => ImplementsCall`.  `StepImplements` takes the actions one by one: some are a step of
  `PluginCall` (`CallMoves`), the others stutter (`CallStutters`); a success is allowed there because of `AnswersAreEarned`.

**HostProcessProofs**, for any number of processes and any amount of output:

* `HostForgets`: `Spec => []RegistriesAgree`: the types, among them that the stored exit code is a code and never Node's null, and
  `NothingLeft`, what the two sides still keep of a process whose report is over.
* `WaitNeverMissesExit`: `Spec => []WaitSeesExit`.  The strengthening `WaitGuarded` extends the property to a
  `wait()` that has looked and not yet parked: the `Notified` was created before the look.
* `OutputFirst`: `Spec => []OutputPrecedesExit`, in whatever order host calls run.  The invariant `Lives`
  follows a process through its life: `SpawnsOnce` (at most one spawn is queued), `Unborn` (before the host
  has run it, nothing has happened to the process), `Ending` (once an exit report is under way the
  process is gone and drained, and the streams end in order).
* `KillsMissNothingElse`: `Spec => KillsMissOnlySpawns`, an action property.  `Known` says that the host has every running
  process in its table, so a kill that runs finds it (`StepKnown`); `StepMisses` takes the actions by which a process could come
  to run unwanted without a kill under way, and finds the spawn alone.  That the promise "always killed on drop" itself fails is
  the run `process_orphan`.

**HostSocketProofs**, for any number of listeners and connections and any amount of data:

* `TypeCorrect`, `InboundIsComplete` (`InboundComplete`), `NothingForgotten` (`NoForgottenSocket`), in whatever order host
  calls run.  The invariant `Connection` follows a connection from the callback that brings it to its drop; `Waiting` ties what
  listeners hold in front of `accept()` to it.
* `LostOnlyIfOvertaken`: `Spec => []LostWritesWereOvertaken`.  `Kept` says that until the host ends or destroys a socket the
  writes still queued for it are as many as it lacks, and that afterwards none is left or comes, unless the connection is in
  `cutOff`; the queue lemmas (`Adding`, `Taking`) count the writes.

**LoaderProofs**, for any number of module registries.  `BootInv` (`SharedBoot`: how the boot, its shared promise, the
global surface and the runtime that got into `RT` go together; `InstanceKnows`: an instance is ready, or was told ok, only with the surface there) gives
`BootsOnce`, `GrantedIsReady`, `FailureLeavesFallback` and `LiveIsMultiThreaded`.

**PoolRpcProofs**, for any number of workers, calls and messages, and together with the boot that engages them:
`PoolIsSound`: `LoaderSpec => []PoolSound`.  `Flow` says that a waiting call is in one place at a time - on its way up,
with Rust, or on its way down; `Introduced` that a worker's first call is `workerCreated`, so that Rust has heard of it before it is asked
for its messages; `Kept` that what was handed to a worker that lives has arrived there or is on its way down.

**AddonCallsProofs**, for any threads, queue, tasks, futures and finitely many environments.  A step of one part leaves the
others' variables alone, so each part has its own invariant.

* Threadsafe functions: `TsfnIsSound`: `Spec => []TsfnSound`, and `AbortIsFinal`: no JS call starts once `aborted` is set.
  `Uses` (who is inside an operation holds a clone, and who is inside the napi call holds the lock), `Lifetime`
  (how the flag, the finaliser and the function itself go together), `OneAnswer` (who awaits an answer has one call
  under way, in the queue or in the frame), `Unused` (before creation nobody uses it) and `Closed` (while the environment is
  open, only an abort or the end of the last handle closes it).
* Tasks: `TasksAreSound`.  `InStep` ties the work's state to the phase of the completion, `Status` the status that `abort`
  reads to what has concluded the promise.
* Futures: `FuturesAreSound`.  `Counts`: the reference count is the number of environments that count themselves (finite-set
  lemmas); `Senders`: whether the box a callback finds still holds the sender; `OnShared`, `LatesShared`: a future that
  outlives its environment's share of the runtime runs on one that somebody else keeps.

**AddonObjectsProofs**, for any environments, threads, buffers, objects, types, references, depth of calls and generators:

* `BuffersAreSound` and `NothingIsForgotten`.  `RegInv`: how far an environment is with its registration or end goes with its
  custom GC, its queue and its entry in the map.  `DropInv`: a thread inside a drop still has its handle, one that read
  a count of 1 is alone with the buffer, one that leaves has settled it or leaves it to another handle.  `DropsDiffer`:
  two drops at once mark the buffer, which is how the leak of the observations below is told from every other.  `BufInv`: a
  buffer that is released or queued has only handles whose drop is about to end.
* `LaterCallsAlwaysAgree`: `Spec => LaterCallsAgree`, an action property.  `FlagInv`: a call inside which nothing was made finds
  the factory flag as its own kind of call left it.  `IterationInv`: a generator that said it is over is completed.
* `InstancesAreSound`.  `InstanceInv`: the map's share of an instance goes with its napi reference and equal counts; one whose
  reference is gone has only References from before its finalisation at exit or from a failed finalize.
* `EnvObjectsAreSound`.  `OwnInv`: a boxed value that lives is attached, instance data, hooked or lost, exactly one
  of them, and one that was returned in an `External` has finalisers only; `CopyInv`: the reference of an `Error` that
  was never cloned is live while the `Error` is there; `ViewInv`: what Rust holds is borrowed from a live value of that type; `PinInv`: the two counts of a reference agree.  That
  `OneOwner` counts owners takes the cardinality lemmas of `OwnersCounted`.
* `NumbersAlwaysSurvive`, for every even `Base` and every number JavaScript can have.  `NumbersInv` says what arrived and what the
  getter gave; the work is arithmetic: `Casts` (what the wrap-around of a cast is), `TwoWordsAre`, `SentIs` (what each
  conversion sends), `Received` (what a getter reads).  `WordsOf` is recursive: `WordsExist` shows by descent that
  there is a function with its equations, `WordsOfUnrolls` that it is that function, and `FirstWords` reads two of its words.

**SwcCompilerProofs**, for any depth of directories, `.swcrc` files, compilations, comments, spans and threads.
Induction is by descent: a set of counterexamples in the naturals would have a least element (`LeastOfNaturals`).

* `CommentsAreKept`.  The model says what the library's `sort_by_key` and `partition_point` return by their contracts;
  `OrderExists` and `CutPoints` show that such results exist.  `CommentsInv` splits the comments at one number: those before it
  have moved, near where they were and in order (`LeadsInv`), those after it are left, and the known spans still to come are sorted and
  not passed (`TodoInv`); at the end the last span is the one that ends last (`TrailInv`).
* `ConfigAlwaysFits`.  `SearchInv`: no directory below the search has a `.swcrc`; `PickInv`: the picked config
  is the first that matches; `MergeInv`: what the extension and the options made of it.
* `ScriptsStayScripts`, `PassesAlwaysFit`, `LossIsAlwaysTold`.  `PassesInOrder` proves of the list of passes itself, for all
  options, what comes before what (`HeadFits`, `TailFits`).  `PassInv` says that what ran and what is left make up that list, so the order
  carries over to every run; `ScriptInv` and `LossInv` follow the program through parsing, the passes and the downgrade.
* `SharedAlwaysFits`.  `CachesInv`: an entry under its own key is what is made of it in an environment that was there, and a compilation has what is its own of every
  static it is through with.

Only model-checked: liveness (`ParksEnd`, `WaitReturns`, `DropReleases`, `CallersAreAnswered`, `AnswersArrive`,
`CollectionGoesOn`), since the installed provers reach neither fairness nor ENABLED.

## 5. Observations

The properties say what holds.  Where the code has an exception, the definition names it, so that everything else
is still checked.  In short:

**Bridges and loader.**  `NoOrphans` and `WritesPrecedeClose` fail because nothing orders two threadsafe functions (runs
`process_orphan`, `socket_overtaken`); `KillsMissOnlySpawns` and `LostWritesWereOvertaken` say that this is the only way.
A dead plugin worker, a nested trap, the lost wake-up and a synchronous transform on the event loop leave threads parked for good;
`ParksEnd` names each of them (`Wedged`).  Connections queued for `accept()` when their listener goes keep their host socket.
`LiveOnMultiThreaded` excepts hosts that make a napi call before the raw install: the fallback runtime is then in `RT` for good, and
`initTurbopackWasiRuntime`, which looks at `WASI_RUNTIME_INSTALLED` only, still says Ok.  A failed boot is cached as false for the life
of the process (`loader.cjs:556`); an instance evaluated after a boot began and never initialised is not live (569); `servers` keeps
its entry when listen fails (492).  `worker.threadId` is -1 in `'exit'`, so the entry of a pool worker that ended by itself stays; messages handed
to a worker that stops are lost; a `recvTaskMessageInWorker` outstanding at a termination is answered to nobody.
`wasi-bindings-shim.cjs` repeats the protocol.  Thread ids are taken to be never reused.

**Threadsafe functions.**  When creation fails, the drop releases a null pointer and its assertion fails.  A last handle dropped after
the environment's end releases into a closing function.  A Blocking call from the thread that serves the queue, or an
abort while a Blocking call waits for room, blocks for good (`Jam`).  A `call_async` swept away by the environment is never answered.

**Tasks.**  A cancelled work is completed with an output that is still zeroed.  An abort from the conversion of the task's own value or from its
`finally` concludes the promise a second time.  `AsyncWorkPromise::cancel` leaves the promise pending, and cancels a work that may already be deleted.
An abort before the work is queued is never settled.

**Promises and futures.**  `drop_runtime` counts and takes in two steps, so an environment that opens in between may lose its runtime.
The two reactions of a promise share a sender, which each takes.  A future on the shared runtime, or on wasm, may call the
threadsafe function of an environment that has gone.  The trace of a deferred keeps its reference.  On wasm a panic settles nothing.

**Buffers.**  Two clones dropped at once may each read a count of two, and the reference leaks.  A thread whose map entry is false counts as
one that may delete.  The collector deletes references of another environment.  A drop while the collecting function is gone or
closing panics.  External data that is handed over as `&mut` leaks when JavaScript has it last, and so does a typed array that was
copied, being empty or on a host without external buffers (unreleased for "vm" in `NothingForgotten`).  Two first modules make two collectors; a panic in the first module's exports leaves the others spinning.

**Classes, Env, errors.**  In a chain of `share_with` the inner value is dropped after the outer.  A finaliser
that returns Err leaves its entry in the map; at exit a second `Reference` unrefs what the first deleted.  A nested factory call clears the
flag of the outer.  An `External` taken as an argument and returned gets a second finaliser, so its value is freed twice (`returned` and `twice`:
`EnvObjectsSound` excepts such values and no others); one that is never given to JavaScript leaks.
`drop_wrapped` with the wrong type takes the wrap off and leaks.  A failed copy of array-buffer data returns memory that was
forgotten; failed borrowed data never sees its finaliser.  A removed hook leaks its data, its `Copy` token goes stale.  `unref` after zero gives an Err.  Both copies of a cloned `Error` delete its one reference (`cloned`,
`redeleted`: excepted likewise); one that is dropped, or thrown with an exception pending, leaks it.  `define_properties` calls
`property.raw()` twice (`napi/js_values/mod.rs:565-595`).  `adjust_external_memory` does nothing on wasm.

**Iteration and integers.**  A native `None` is not remembered, so a generator may go on after `done`; a conversion error still takes an item;
a generator object does not keep its native alive.  `From<i64>` and the `to_napi_value` of `i128` write a negative number
with its two's complement in place of its magnitude (run `bigint_signed`; `NumbersSurvive` excepts these numbers); `0_i128` gets a sign; `get_i64` ignores the sign when it says "lossless",
`get_i128` for one word; the flags of `get_i128` and `get_u128` mean loss though documented as "lossless"
(`bigint.rs:101-104, 119-122`), so no property reads them; negating the
least i128 panics where overflow is checked.  `JsBigInt::get_i128` is wrong for two-word magnitudes from 2^127 and reports loss for exactly -2^127.

**swc.**  The default `Rc`'s entry for `.cts` and `.mts` is never reached; rootMode "root" climbs past a root that is not
on the path; `configFile: false` counts as none.  With `disable_builtin_transforms` the custom pass before is not called.
A program given to `process_js` ignores `isModule: false`.  A Flow re-parse may collect comments twice; a
type-only Flow module with an imported helper cannot be turned back.  `GlobalInliningPassEnvs::Map` is cached under the key of the
variables, and a `List` under its names alone, though its entry holds what `process.env` had then.  `minify()` ignores `keep_classnames` and an explicit `toplevel: false` for modules, and its default for compress and mangle is the opposite of `jsc.minify`'s.
A failed plugin yields an empty program, an error in the handler and an Ok result; one that returns another kind of program panics.
Comments with no known span are lost.  A source map that is given and bad fails the compilation, one that is named by the file is dropped silently.

## 6. What is left out

Within what is modelled:

* Bytes: plugin arguments, programs, output and socket data are counted or named, never represented;
  `ByteRx` buffering and partial reads are abstracted with them.  The WASI shim of the plugin is left out.
* `poll_write` after `poll_shutdown`: `AsyncWrite` forbids it to the caller, `Write` is guarded accordingly.
* An `External` that Rust code keeps beyond the callback it came to.
* A `bind` future dropped before it resumes: the pool never does so.
* `Module._load` matching in `auto.cjs` and the log filter: no state that another part reads.
* `get_i128` reads an `i128` through a pointer to 64-bit words; the model takes the value an aligned read gives.
* Of swc: what each pass does to the tree (the passes are other crates), isolated `.d.ts` emission, the React compiler and
  lints.  Flow's types are taken to be stripped by the typescript pass.

Not modelled:

* *napi value conversions and property glue* (`bindgen/js_values/` apart from the files named above, most of `js_values/`): each calls
  Node-API and checks a status; no state lives between calls.
* *Host fetch bridge*: one call per request; the redirect limit is a plain loop and there is no timeout to race.
* *turbo-persistence on wasi*, *small wasi patches*: they replace single calls; the store and the
  protocols around them are not in the repository.  The same holds for turbopack itself.
* *Link sections*, *import-section parser*: stateless, at build time or over a file that the package ships.
* *Build, patch and publish scripts*: sequential; `publish.sh:62` takes the build number from a version list that may lag, which only the registry can catch.
* *Fixtures and end-to-end tests*: no state of the product.

## 7. Plan

1. Further abstract specifications with proved refinements: a child process and a socket as the pool sees them, and the
   ways to an answer that `AddonCalls` puts side by side as one promise.
2. `PoolRpc` with a refinement of an abstract pool that knows only outstanding calls and their answers.
3. `HostFetch`: redirects and their limit, a request that never answers.
4. Passes of swc whose source is in the repository but whose effect on a program is abstracted to a set of outcomes.
