---------------------------- MODULE PluginBridge ----------------------------
(***************************************************************************)
(* The SWC-plugin host bridge: guest transform threads (T) inside the wasm *)
(* binding (patches/0026, crate swc-plugin-host-bridge) and the one plugin *)
(* driver worker (P, pkg/swc-plugin-worker.mjs) rendezvous through a       *)
(* Channel in shared linear memory.  Every atomic access that the other    *)
(* party can interleave with is a step of its own: the load that decides   *)
(* to park, the wait, the read of op, the store of turn, the notify.       *)
(*                                                                         *)
(* Channel addresses are reused after free, and a signal message carries   *)
(* nothing but an address.  The field "live" of a message is history: it   *)
(* says whether the instance the message was sent for still exists.        *)
(***************************************************************************)
EXTENDS Naturals, Sequences

CONSTANTS
    Threads,       \* guest threads that run swc transforms
    SyncCallers,   \* those of them that are the JS event-loop thread (transformSync)
    Addrs,         \* addresses the allocator can give a Channel
    Recycle,       \* whether the allocator gives a freed address to a later Channel
    MaxSignals,    \* bound: no new instance while this many signals are queued
    WorkerMayDie,  \* whether the driver worker may fail to load or crash
    NoThread, NoAddr

ASSUME BridgeAssumption ==
    /\ SyncCallers \subseteq Threads
    /\ NoThread \notin Threads
    /\ NoAddr \notin Addrs
    /\ MaxSignals \in Nat
    /\ Recycle \in BOOLEAN /\ WorkerMayDie \in BOOLEAN

VARIABLES
    turn, op, mod,              \* Channel fields, by address (mod: whose module_ptr it holds)
    owner,                      \* allocator: who holds the address
    tpc, tch, tctx, tstage,     \* a transform thread: control point, channel, frame, progress
    ran,                        \* history: exports P completed for the thread's instance
    tsfn, inbox, worker,        \* signal queues (napi tsfn, worker port) and worker state
    ppc, pmsg, pctx, pop, prun, pplugin, pret   \* the driver worker

memory == <<turn, op, mod>>
thread == <<tpc, tch, tctx, tstage>>
host   == <<tsfn, inbox, worker>>
driver == <<ppc, pmsg, pctx, pop, prun, pplugin, pret>>
vars   == <<memory, owner, thread, ran, host, driver>>

Turns == {"P", "T", "junk"}
Ops == {"none", "INIT", "TRANSFORM", "CLOSE", "IMPORT", "CALLER", "DONE", "ERROR", "junk"}
ThreadPCs == {"idle", "start", "hand", "notify", "check", "wait", "asleep", "read",
              "closure", "top", "drop", "free", "crashed"}
Frames == {"serve", "closure", "top"}
Stages == {"new", "init", "ready", "transform", "done", "closing"}
DriverPCs == {"idle", "check", "wait", "asleep", "read", "act", "plugin", "hand", "notify", "dead"}
Signals == [addr : Addrs, live : BOOLEAN]
NoSignal == [addr |-> NoAddr, live |-> FALSE]

TypeOK ==
    /\ turn \in [Addrs -> Turns] /\ op \in [Addrs -> Ops]
    /\ mod \in [Addrs -> Threads \union {NoThread}]
    /\ owner \in [Addrs -> Threads \union {NoThread}]
    /\ tpc \in [Threads -> ThreadPCs] /\ tch \in [Threads -> Addrs \union {NoAddr}]
    /\ tctx \in [Threads -> Frames] /\ tstage \in [Threads -> Stages]
    /\ ran \in [Threads -> SUBSET {"INIT", "TRANSFORM"}]
    /\ tsfn \in Seq(Signals) /\ inbox \in Seq(Signals)
    /\ worker \in {"none", "up", "dead"}
    /\ ppc \in DriverPCs /\ pmsg \in Signals \union {NoSignal}
    /\ pctx \in {"top", "fwd"} /\ pop \in Ops /\ prun \in {"INIT", "TRANSFORM"}
    /\ pplugin \in Threads \union {NoThread} /\ pret \in {"wait", "idle"}

Init ==
    /\ turn = [a \in Addrs |-> "junk"] /\ op = [a \in Addrs |-> "junk"]
    /\ mod = [a \in Addrs |-> NoThread] /\ owner = [a \in Addrs |-> NoThread]
    /\ tpc = [t \in Threads |-> "idle"] /\ tch = [t \in Threads |-> NoAddr]
    /\ tctx = [t \in Threads |-> "serve"] /\ tstage = [t \in Threads |-> "new"]
    /\ ran = [t \in Threads |-> {}]
    /\ tsfn = <<>> /\ inbox = <<>> /\ worker = "none"
    /\ ppc = "idle" /\ pmsg = NoSignal /\ pctx = "top" /\ pop = "none"
    /\ prun = "INIT" /\ pplugin = NoThread /\ pret = "wait"

-----------------------------------------------------------------------------
(* The transform thread T.                                                  *)

Goto(t, l) == tpc' = [tpc EXCEPT ![t] = l]

\* Store op, then enter hand_off; the thread will come back from park_until in frame c.
Request(t, o, c) ==
    /\ op' = [op EXCEPT ![tch[t]] = o]
    /\ tctx' = [tctx EXCEPT ![t] = c]
    /\ Goto(t, "hand")

\* HostBridgeRuntime::init: a fresh Channel, turn = TURN_T, op = 0.
AllocChannel(t) ==
    /\ tpc[t] = "idle"
    /\ Len(tsfn) + Len(inbox) < MaxSignals
    /\ \E a \in Addrs :
        /\ owner[a] = NoThread
        /\ owner' = [owner EXCEPT ![a] = t]
        /\ turn' = [turn EXCEPT ![a] = "T"]
        /\ op' = [op EXCEPT ![a] = "none"]
        /\ tch' = [tch EXCEPT ![t] = a]
    /\ Goto(t, "start")
    /\ UNCHANGED <<mod, tctx, tstage, ran, host, driver>>

\* HostBridgeInstance::start: publish the module, op = OP_INIT, signal the host.
Start(t) ==
    /\ tpc[t] = "start"
    /\ mod' = [mod EXCEPT ![tch[t]] = t]
    /\ tsfn' = Append(tsfn, [addr |-> tch[t], live |-> TRUE])
    /\ Request(t, "INIT", "serve")
    /\ UNCHANGED <<turn, owner, tch, tstage, ran, inbox, worker, driver>>

\* hand_off, first half: the release store of turn.
HandOff(t) ==
    /\ tpc[t] = "hand"
    /\ turn' = [turn EXCEPT ![tch[t]] = "P"]
    /\ tstage' = [tstage EXCEPT ![t] = IF @ = "new" THEN "init" ELSE @]
    /\ Goto(t, "notify")
    /\ UNCHANGED <<op, mod, owner, tch, tctx, ran, host, driver>>

\* (Mutant) hand_off stores turn but forgets the notify.
NotifyForgotten(t) ==
    /\ tpc[t] = "notify"
    /\ Goto(t, IF tstage[t] = "closing" THEN "free" ELSE "check")
    /\ UNCHANGED <<memory, owner, tch, tctx, tstage, ran, host, driver>>

\* hand_off, second half: memory_atomic_notify wakes the worker if it is parked
\* on this word.  Drop does not park afterwards.
Notify(t) ==
    /\ tpc[t] = "notify"
    /\ ppc' = IF ppc = "asleep" /\ pmsg.addr = tch[t] THEN "check" ELSE ppc
    /\ Goto(t, IF tstage[t] = "closing" THEN "free" ELSE "check")
    /\ UNCHANGED <<memory, owner, tch, tctx, tstage, ran, host,
                   pmsg, pctx, pop, prun, pplugin, pret>>

\* park_until, the load that decides whether to park.
ParkCheck(t) ==
    /\ tpc[t] = "check"
    /\ Goto(t, IF turn[tch[t]] = "T" THEN "read" ELSE "wait")
    /\ UNCHANGED <<memory, owner, tch, tctx, tstage, ran, host, driver>>

\* park_until, memory_atomic_wait32: the expected value is loaded afresh, so the
\* wait finds what it expects whatever the word holds by now.
ParkWait(t) ==
    /\ tpc[t] = "wait"
    /\ Goto(t, "asleep")
    /\ UNCHANGED <<memory, owner, tch, tctx, tstage, ran, host, driver>>

\* (Mutant) serve takes whatever comes first for its answer.
ServeDoneUnchecked(t) ==
    /\ tpc[t] = "read" /\ tctx[t] = "serve"
    /\ tstage' = [tstage EXCEPT ![t] = IF @ = "init" THEN "ready" ELSE "done"]
    /\ Goto(t, "top")
    /\ UNCHANGED <<memory, owner, tch, tctx, ran, host, driver>>

\* serve: OP_DONE ends start or transform.
ServeDone(t) ==
    /\ tpc[t] = "read" /\ tctx[t] = "serve" /\ op[tch[t]] = "DONE"
    /\ tstage' = [tstage EXCEPT ![t] = IF @ = "init" THEN "ready" ELSE "done"]
    /\ Goto(t, "top")
    /\ UNCHANGED <<memory, owner, tch, tctx, ran, host, driver>>

\* serve: OP_ERROR or an unexpected op; the caller drops the instance.
ServeBail(t) ==
    /\ tpc[t] = "read" /\ tctx[t] = "serve" /\ op[tch[t]] \notin {"DONE", "IMPORT"}
    /\ Goto(t, "drop")
    /\ UNCHANGED <<memory, owner, tch, tctx, tstage, ran, host, driver>>

\* serve: OP_IMPORT runs the guest closure.
ServeImport(t) ==
    /\ tpc[t] = "read" /\ tctx[t] = "serve" /\ op[tch[t]] = "IMPORT"
    /\ Goto(t, "closure")
    /\ UNCHANGED <<memory, owner, tch, tctx, tstage, ran, host, driver>>

\* (Mutant) request and serve confuse their frames.
RequestDoneAnyFrame(t) ==
    /\ tpc[t] = "read" /\ op[tch[t]] = "DONE"
    /\ Goto(t, tctx[t])
    /\ UNCHANGED <<memory, owner, tch, tctx, tstage, ran, host, driver>>

\* request: OP_DONE answers an OP_CALLER_* request, in a closure or at top level.
RequestDone(t) ==
    /\ tpc[t] = "read" /\ tctx[t] # "serve" /\ op[tch[t]] = "DONE"
    /\ Goto(t, tctx[t])
    /\ UNCHANGED <<memory, owner, tch, tctx, tstage, ran, host, driver>>

\* request: any other op is an Err.  At top level it ends the transform.  A closure
\* has no error result: it carries on, or unwraps the Err and aborts its thread.
RequestBail(t) ==
    /\ tpc[t] = "read" /\ tctx[t] # "serve" /\ op[tch[t]] # "DONE"
    /\ \E l \in IF tctx[t] = "top" THEN {"drop"} ELSE {"closure", "crashed"} : Goto(t, l)
    /\ UNCHANGED <<memory, owner, tch, tctx, tstage, ran, host, driver>>

\* Caller::{alloc, free, read_buf, write_buf}.
CallerRequest(t) ==
    /\ tpc[t] \in {"closure", "top"}
    /\ Request(t, "CALLER", tpc[t])
    /\ UNCHANGED <<turn, mod, owner, tch, tstage, ran, host, driver>>

\* serve: the closure returned; answer the import.
ClosureReturn(t) ==
    /\ tpc[t] = "closure"
    /\ Request(t, "DONE", "serve")
    /\ UNCHANGED <<turn, mod, owner, tch, tstage, ran, host, driver>>

\* Instance::transform.
Transform(t) ==
    /\ tpc[t] = "top" /\ tstage[t] = "ready"
    /\ tstage' = [tstage EXCEPT ![t] = "transform"]
    /\ Request(t, "TRANSFORM", "serve")
    /\ UNCHANGED <<turn, mod, owner, tch, ran, host, driver>>

\* apply_inner drops the executor, after the transform or on an error before it.
Finish(t) ==
    /\ tpc[t] = "top"
    /\ Goto(t, "drop")
    /\ UNCHANGED <<memory, owner, tch, tctx, tstage, ran, host, driver>>

\* Drop for HostBridgeInstance: OP_CLOSE and hand_off if start had succeeded.
Drop(t) ==
    /\ tpc[t] = "drop"
    /\ IF tstage[t] = "init"
       THEN Goto(t, "free") /\ UNCHANGED <<op, tctx, tstage>>
       ELSE /\ Request(t, "CLOSE", "serve")
            /\ tstage' = [tstage EXCEPT ![t] = "closing"]
    /\ UNCHANGED <<turn, mod, owner, tch, ran, host, driver>>

Dangle(m, a) == IF m.addr = a THEN [m EXCEPT !.live = FALSE] ELSE m

\* The Box<Channel> is freed: the allocator owns its words again.
Free(t) ==
    /\ tpc[t] = "free"
    /\ LET a == tch[t] IN
        /\ owner' = IF Recycle THEN [owner EXCEPT ![a] = NoThread] ELSE owner
        /\ mod' = [mod EXCEPT ![a] = NoThread]
        /\ op' = [op EXCEPT ![a] = "junk"]
        /\ \E w \in Turns : turn' = [turn EXCEPT ![a] = w]
        /\ tsfn' = [i \in DOMAIN tsfn |-> Dangle(tsfn[i], a)]
        /\ inbox' = [i \in DOMAIN inbox |-> Dangle(inbox[i], a)]
        /\ pmsg' = Dangle(pmsg, a)
    /\ tch' = [tch EXCEPT ![t] = NoAddr] /\ tctx' = [tctx EXCEPT ![t] = "serve"]
    /\ tstage' = [tstage EXCEPT ![t] = "new"] /\ ran' = [ran EXCEPT ![t] = {}]
    /\ Goto(t, "idle")
    /\ UNCHANGED <<worker, ppc, pctx, pop, prun, pplugin, pret>>

-----------------------------------------------------------------------------
(* The JS event loop of the embedder.                                       *)

MainBlocked == \E t \in SyncCallers : tpc[t] # "idle"

\* initSwcPluginBridge's handler: spawn the worker on the first signal, then post
\* the address to it.  A dead worker is not replaced; what is posted to it is lost.
ForwardSignal ==
    /\ tsfn # <<>> /\ ~MainBlocked
    /\ tsfn' = Tail(tsfn)
    /\ worker' = IF worker = "none" THEN "up" ELSE worker
    /\ inbox' = IF worker = "dead" THEN inbox ELSE Append(inbox, Head(tsfn))
    /\ UNCHANGED <<memory, owner, thread, ran, driver>>

\* The worker's 'error' event: it is logged, nothing else happens.
WorkerDies ==
    /\ WorkerMayDie /\ worker = "up"
    /\ worker' = "dead" /\ inbox' = <<>> /\ ppc' = "dead"
    /\ UNCHANGED <<memory, owner, thread, ran, tsfn, pmsg, pctx, pop, prun, pplugin, pret>>

-----------------------------------------------------------------------------
(* The plugin driver worker P.                                              *)

PGoto(l) == ppc' = l

\* on('message'): enter serveChannel.
Accept ==
    /\ ppc = "idle" /\ inbox # <<>>
    /\ pmsg' = Head(inbox) /\ inbox' = Tail(inbox)
    /\ pctx' = "top" /\ pplugin' = NoThread
    /\ PGoto("check")
    /\ UNCHANGED <<memory, owner, thread, ran, tsfn, worker, pop, prun, pret>>

\* waitForP, the load.
WaitCheck ==
    /\ ppc = "check"
    /\ PGoto(IF turn[pmsg.addr] = "P" THEN "read" ELSE "wait")
    /\ UNCHANGED <<memory, owner, thread, ran, host, pmsg, pctx, pop, prun, pplugin, pret>>

\* (Mutant) the expected value is read back from the word, as park_until does.
WaitParkReloaded ==
    /\ ppc = "wait"
    /\ PGoto("asleep")
    /\ UNCHANGED <<memory, owner, thread, ran, host, pmsg, pctx, pop, prun, pplugin, pret>>

\* waitForP, Atomics.wait(turn, TURN_T): parks only if the word still holds TURN_T.
WaitPark ==
    /\ ppc = "wait"
    /\ PGoto(IF turn[pmsg.addr] = "T" THEN "asleep" ELSE "check")
    /\ UNCHANGED <<memory, owner, thread, ran, host, pmsg, pctx, pop, prun, pplugin, pret>>

ReadOp ==
    /\ ppc = "read"
    /\ pop' = op[pmsg.addr]
    /\ PGoto("act")
    /\ UNCHANGED <<memory, owner, thread, ran, host, pmsg, pctx, prun, pplugin, pret>>

\* Store op and enter handToT; afterwards wait again in frame c, or leave serveChannel.
Answer(o, c, r) ==
    /\ op' = [op EXCEPT ![pmsg.addr] = o]
    /\ pctx' = c /\ pret' = r /\ pop' = "none"
    /\ PGoto("hand")

\* (Mutant) an exception is reported like a result.
FailAsDone ==
    /\ Answer("DONE", "top", "idle")
    /\ prun' = "INIT"
    /\ UNCHANGED <<turn, mod, owner, thread, ran, host, pmsg, pplugin>>

\* serveChannel's catch, and its else branch: reportError, then return.
Fail ==
    /\ Answer("ERROR", "top", "idle")
    /\ prun' = "INIT"
    /\ UNCHANGED <<turn, mod, owner, thread, ran, host, pmsg, pplugin>>

\* OP_INIT: instantiatePlugin reads the module bytes the channel points at.
ActInit ==
    /\ ppc = "act" /\ pctx = "top" /\ pop = "INIT"
    /\ pplugin' = mod[pmsg.addr] /\ prun' = "INIT" /\ pop' = "none"
    /\ PGoto("plugin")
    /\ UNCHANGED <<memory, owner, thread, ran, host, pmsg, pctx, pret>>

\* OP_TRANSFORM: runTransform.
ActTransform ==
    /\ ppc = "act" /\ pctx = "top" /\ pop = "TRANSFORM"
    /\ prun' = "TRANSFORM" /\ pop' = "none"
    /\ PGoto("plugin")
    /\ UNCHANGED <<memory, owner, thread, ran, host, pmsg, pctx, pplugin, pret>>

\* serviceCaller, at top level or nested in a forwarded import.
ServiceCaller ==
    /\ ppc = "act" /\ pop = "CALLER" /\ pplugin # NoThread
    /\ Answer("DONE", pctx, "wait")
    /\ UNCHANGED <<turn, mod, owner, thread, ran, host, pmsg, prun, pplugin>>

\* serviceCaller: __alloc or __free traps, or a copy is out of bounds.
CallerTrap == ppc = "act" /\ pop = "CALLER" /\ Fail

\* OP_CLOSE: serveChannel returns.
ActClose ==
    /\ ppc = "act" /\ pctx = "top" /\ pop = "CLOSE"
    /\ PGoto("idle") /\ pmsg' = NoSignal /\ pplugin' = NoThread /\ pop' = "none"
    /\ UNCHANGED <<memory, owner, thread, ran, host, pctx, prun, pret>>

\* Any other op: reportError at top level, 'unknown caller op' in a forwarder.
ActUnexpected ==
    /\ ppc = "act"
    /\ pop \notin (IF pctx = "top" THEN {"INIT", "TRANSFORM", "CALLER", "CLOSE"}
                                   ELSE {"DONE", "CALLER"})
    /\ Fail

\* makeForwarder: the closure's OP_DONE resumes the plugin.
ImportReturn ==
    /\ ppc = "act" /\ pctx = "fwd" /\ pop = "DONE"
    /\ PGoto("plugin") /\ pop' = "none"
    /\ UNCHANGED <<memory, owner, thread, ran, host, pmsg, pctx, prun, pplugin, pret>>

\* The plugin calls env.<name>.
PluginImport ==
    /\ ppc = "plugin"
    /\ Answer("IMPORT", "fwd", "wait")
    /\ UNCHANGED <<turn, mod, owner, thread, ran, host, pmsg, prun, pplugin>>

\* The export returns: reportDone.
PluginReturn ==
    /\ ppc = "plugin" /\ pplugin # NoThread
    /\ ran' = [ran EXCEPT ![pplugin] = @ \union {prun}]
    /\ Answer("DONE", "top", "wait")
    /\ prun' = "INIT"
    /\ UNCHANGED <<turn, mod, owner, thread, host, pmsg, pplugin>>

\* The export (or the instantiation) throws.
PluginTrap == ppc = "plugin" /\ Fail

\* handToT, first half.
HandToT ==
    /\ ppc = "hand"
    /\ turn' = [turn EXCEPT ![pmsg.addr] = "T"]
    /\ PGoto("notify")
    /\ UNCHANGED <<op, mod, owner, thread, ran, host, pmsg, pctx, pop, prun, pplugin, pret>>

\* (Mutant) a woken thread does not look at turn again.
NotifyTStraight ==
    /\ ppc = "notify"
    /\ tpc' = [t \in Threads |-> IF tpc[t] = "asleep" /\ tch[t] = pmsg.addr
                                 THEN "read" ELSE tpc[t]]
    /\ IF pret = "wait" THEN PGoto("check") /\ UNCHANGED <<pmsg, pplugin>>
       ELSE PGoto("idle") /\ pmsg' = NoSignal /\ pplugin' = NoThread
    /\ pret' = "wait"
    /\ UNCHANGED <<memory, owner, tch, tctx, tstage, ran, host, pctx, pop, prun>>

\* handToT, second half: wake the thread parked on this word.
NotifyT ==
    /\ ppc = "notify"
    /\ tpc' = [t \in Threads |-> IF tpc[t] = "asleep" /\ tch[t] = pmsg.addr
                                 THEN "check" ELSE tpc[t]]
    /\ IF pret = "wait" THEN PGoto("check") /\ UNCHANGED <<pmsg, pplugin>>
       ELSE PGoto("idle") /\ pmsg' = NoSignal /\ pplugin' = NoThread
    /\ pret' = "wait"
    /\ UNCHANGED <<memory, owner, tch, tctx, tstage, ran, host, pctx, pop, prun>>

-----------------------------------------------------------------------------
ThreadStep(t) ==
    \/ Start(t) \/ HandOff(t) \/ Notify(t) \/ ParkCheck(t) \/ ParkWait(t)
    \/ ServeDone(t) \/ ServeBail(t) \/ ServeImport(t) \/ RequestDone(t) \/ RequestBail(t)
    \/ CallerRequest(t) \/ ClosureReturn(t) \/ Transform(t) \/ Finish(t) \/ Drop(t) \/ Free(t)

DriverStep ==
    \/ Accept \/ WaitCheck \/ WaitPark \/ ReadOp \/ ActInit \/ ActTransform
    \/ ServiceCaller \/ CallerTrap \/ ActClose \/ ActUnexpected \/ ImportReturn
    \/ PluginImport \/ PluginReturn \/ PluginTrap \/ HandToT \/ NotifyT

Next ==
    \/ \E t \in Threads : AllocChannel(t) \/ ThreadStep(t)
    \/ ForwardSignal \/ WorkerDies
    \/ DriverStep

Spec == Init /\ [][Next]_vars

\* Every thread, the event loop and the worker keep running; a plugin export ends
\* and so does what a closure or an executor does between two calls.  Nobody has
\* to start a transform, and nothing has to fail.
Fairness ==
    /\ \A t \in Threads : /\ WF_vars(ThreadStep(t))
                          /\ SF_vars(ClosureReturn(t) \/ Transform(t) \/ Finish(t))
    /\ WF_vars(ForwardSignal)
    /\ WF_vars(DriverStep) /\ SF_vars(PluginReturn \/ PluginTrap)

FairSpec == Spec /\ Fairness

-----------------------------------------------------------------------------
(* Safety.                                                                  *)

\* The thread is between two hand-offs: it owns the channel's fields.
ThreadActs(t) == tpc[t] \in {"start", "hand", "read", "closure", "top", "drop"}

\* The worker is between waitForP's return and handToT on the channel at a.
DriverActsOn(a) == pmsg.addr = a /\ ppc \in {"read", "act", "plugin", "hand"}

\* The two parties strictly alternate on a channel (patches/0026:482): whoever
\* acts holds the turn, and never both -- from the thread's first hand_off on.  Before
\* it, a serveChannel left over from a freed instance may be at the same address.
StrictAlternation ==
    \A t \in Threads : tstage[t] # "new" =>
        /\ ThreadActs(t) => turn[tch[t]] = "T"
        /\ DriverActsOn(tch[t]) => turn[tch[t]] = "P" /\ ~ThreadActs(t)

\* A thread that finds OP_DONE in serve() gets it for a request its own plugin has
\* executed: start succeeds only after its module was instantiated, transform only
\* after its export returned -- even when a left-over serveChannel is at work.
AnswersAreEarned ==
    \A t \in Threads : tpc[t] = "read" /\ tctx[t] = "serve" /\ op[tch[t]] = "DONE" =>
        (IF tstage[t] = "init" THEN "INIT" ELSE "TRANSFORM") \in ran[t]

\* "Check-then-wait so a notify delivered before we parked isn't missed"
\* (swc-plugin-worker.mjs:153), for the worker: it never sleeps on a live channel
\* that was handed to it unless the notify is still to come.
WorkerSeesEveryHandOff ==
    ppc = "asleep" /\ pmsg.live =>
        \/ turn[pmsg.addr] = "T"
        \/ \E t \in Threads : tch[t] = pmsg.addr /\ tpc[t] = "notify"

\* The same for the guest side: "Spurious/stale wakeups are handled by the loop"
\* (patches/0026:372).  A parked thread whose turn it is has a notify coming.
ThreadSeesEveryHandOff ==
    \A t \in Threads : tpc[t] = "asleep" =>
        turn[tch[t]] = "P" \/ (ppc = "notify" /\ pmsg.addr = tch[t])

\* "The channel is only touched by the owning transform thread and the worker,
\* strictly alternating via turn" (patches/0026:482): the worker never looks at a
\* channel whose box was freed.
ServesLiveChannelsOnly ==
    ppc \in {"check", "wait", "asleep", "read", "act", "plugin", "hand"} => pmsg.live

\* A parked thread is waiting for someone: the worker is at its channel, or its
\* signal is still queued.  This is what "OP_ERROR ... so the transform fails
\* cleanly" (docs/swc-plugin-host-bridge.md) needs of every failing plugin.
Deserted(t) ==
    /\ tpc[t] = "asleep" /\ turn[tch[t]] = "P" /\ worker # "dead"
    /\ pmsg.addr # tch[t]
    /\ \A i \in DOMAIN tsfn : tsfn[i].addr # tch[t]
    /\ \A i \in DOMAIN inbox : inbox[i].addr # tch[t]

NobodyDeserted == \A t \in Threads : ~Deserted(t)

\* "T never blocks the JS event-loop thread" (patches/0026:236), but nothing keeps a synchronous
\* caller out: it waits for a signal that only the event loop it is blocking can forward.
EventLoopWaitsForItself ==
    \E t \in SyncCallers : tpc[t] = "asleep" /\ \E i \in DOMAIN tsfn : tsfn[i].addr = tch[t]

-----------------------------------------------------------------------------
(* Liveness.                                                                *)

Parked(t) == tpc[t] \in {"check", "wait", "asleep"}

\* The ways the bridge can hang for good.
LostWakeup == \E t \in Threads : tpc[t] = "asleep" /\ turn[tch[t]] = "T"
StaleService == pmsg # NoSignal /\ ~pmsg.live
Abandoned == \E t \in Threads : tpc[t] = "crashed" \/ Deserted(t)
Wedged == LostWakeup \/ StaleService \/ Abandoned \/ EventLoopWaitsForItself \/ worker = "dead"

\* "That serializes plugin execution but never deadlocks"
\* (swc-plugin-worker.mjs:15).  What the code gives: every park ends, unless the
\* bridge is for good in one of the five situations Wedged names.
ParksEnd == \A t \in Threads : []<>~Parked(t) \/ <>[]Wedged

=============================================================================
