----------------------------- MODULE LoaderInit -----------------------------
(***************************************************************************)
(* Bringing the wasi binding up inside one node process (pkg/loader.cjs    *)
(* ensureInit, pkg/auto.cjs, pkg/binding.cjs, patches/0011).  loader.cjs   *)
(* may be evaluated several times in a process, once per module registry;  *)
(* all instances share one boot through a global record, and a caller that *)
(* awaited ensureInit goes on to require binding.cjs, synchronously.       *)
(*                                                                         *)
(* JS callbacks and promise reactions run one at a time; each is a step.   *)
(***************************************************************************)
CONSTANT Instances   \* evaluations of loader.cjs in this process

VARIABLES
    boots, boot,        \* G.initPromise: how often it was started, how far it is
    ginit, surface,     \* what it settled to, and G.surface
    cell, rt, installed,  \* USER_DEFINED_RT, RT, WASI_RUNTIME_INSTALLED
    early,              \* history: a napi call was made before the raw install
    ready, own,         \* of an instance: exports.ready, its initPromise
    phase,              \* of an instance: where its loadBindings or createTransformer caller is
    disableWasm         \* process.env.NEXT_DISABLE_SWC_WASM

shared  == <<boots, boot, ginit, surface>>
runtime == <<cell, rt, installed, early>>
vars    == <<shared, runtime, ready, own, phase, disableWasm>>

TypeOK ==
    /\ boots \in {"none", "one", "many"}
    /\ boot \in {"none", "instantiating", "beforeInit", "registered", "done"}
    /\ ginit \in {"none", "pending", "ok", "failed"} /\ surface \in BOOLEAN
    /\ cell \in {"empty", "multi", "taken"} /\ rt \in {"unset", "multi", "fallback"}
    /\ installed \in BOOLEAN /\ early \in BOOLEAN
    /\ ready \in [Instances -> BOOLEAN]
    /\ own \in [Instances -> {"none", "waiting", "ok", "failed"}]
    /\ phase \in [Instances -> {"unloaded", "idle", "awaiting", "transformer", "granted", "stock",
                             "live", "fallback"}]
    /\ disableWasm \in BOOLEAN

Init ==
    /\ boots = "none" /\ boot = "none" /\ ginit = "none" /\ surface = FALSE
    /\ cell = "empty" /\ rt = "unset" /\ installed = FALSE /\ early = FALSE
    /\ ready = [i \in Instances |-> FALSE] /\ own = [i \in Instances |-> "none"]
    /\ phase = [i \in Instances |-> "unloaded"] /\ disableWasm = FALSE

-----------------------------------------------------------------------------
(* The tokio runtime of the wasm instance.                                  *)

\* RT's initialiser takes the installed runtime, or makes a current-thread one: what
\* within_runtime_if_available around any napi call forces, once, given the cell c.
Forced(c) == IF rt # "unset" THEN rt ELSE IF c = "multi" THEN "multi" ELSE "fallback"

\* The cell after RT was initialised; the initialiser empties it, once.
Taken(c) == IF rt = "unset" THEN "taken" ELSE c

-----------------------------------------------------------------------------
(* The shared boot.                                                         *)

\* instantiateNapiModule has compiled the module and spawned its workers.
Instantiated ==
    /\ boot = "instantiating" /\ boot' = "beforeInit"
    /\ UNCHANGED <<boots, ginit, surface, runtime, ready, own, phase, disableWasm>>

\* A host that breaks the contract of patches/0011:57-62.
EagerCall ==
    /\ boot = "beforeInit"
    /\ rt' = Forced(cell) /\ cell' = Taken(cell) /\ early' = TRUE
    /\ UNCHANGED <<shared, installed, ready, own, phase, disableWasm>>

\* (Mutant) the registrations, which are napi calls, come first.
BeforeInitLate ==
    /\ boot = "beforeInit" /\ boot' = "registered"
    /\ \E built \in BOOLEAN :
        /\ rt' = Forced(cell)
        /\ installed' = (installed \/ built)
        /\ cell' = IF built THEN "multi" ELSE Taken(cell)
    /\ UNCHANGED <<boots, ginit, surface, early, ready, own, phase, disableWasm>>

\* beforeInit: the raw runtime install, then the napi registrations.  The return code
\* is only logged; a second runtime in the cell is dropped by get_or_init.
BeforeInit ==
    /\ boot = "beforeInit" /\ boot' = "registered"
    /\ \E built \in BOOLEAN :
        LET c == IF built /\ cell # "multi" THEN "multi" ELSE cell IN
        /\ rt' = Forced(c) /\ cell' = Taken(c)
        /\ installed' = (installed \/ built)
    /\ UNCHANGED <<boots, ginit, surface, early, ready, own, phase, disableWasm>>

\* The rest of the boot: initTurbopackWasiRuntime asserts the install, the bridges are
\* registered, the surface is published; or the assertion throws.
Publish ==
    /\ boot = "registered" /\ boot' = "done"
    /\ surface' = installed
    /\ ginit' = IF installed THEN "ok" ELSE "failed"
    /\ UNCHANGED <<boots, cell, rt, installed, early, ready, own, phase, disableWasm>>

\* (Mutant) nobody catches what the boot throws.
BootThrowsUncaught ==
    /\ boot \in {"instantiating", "beforeInit", "registered"} /\ boot' = "done"
    /\ UNCHANGED <<boots, ginit, surface, runtime, ready, own, phase, disableWasm>>

\* Anything before that throws: logged, and false for good -- the promise is kept.
BootThrows ==
    /\ boot \in {"instantiating", "beforeInit", "registered"} /\ boot' = "done"
    /\ ginit' = "failed"
    /\ UNCHANGED <<boots, surface, runtime, ready, own, phase, disableWasm>>

-----------------------------------------------------------------------------
(* An instance of loader.cjs and the loadBindings wrap that uses it.        *)

\* The module is evaluated; applyGraft makes it live if the surface is there already.
Evaluate(i) ==
    /\ phase[i] = "unloaded"
    /\ phase' = [phase EXCEPT ![i] = "idle"]
    /\ ready' = [ready EXCEPT ![i] = surface]
    /\ UNCHANGED <<shared, runtime, own, disableWasm>>

\* (Mutant) the boot is kept per module instance, as an ordinary module variable.
StartBootPerInstance(i) ==
    /\ boot' = "instantiating" /\ ginit' = "pending"
    /\ boots' = IF boots = "none" THEN "one" ELSE "many"
    /\ UNCHANGED surface

\* ensureInit, first call of an instance: join the boot under way, or start it.
StartBoot(i) ==
    /\ IF ginit = "none"
       THEN /\ boot' = "instantiating" /\ ginit' = "pending"
            /\ boots' = IF boots = "none" THEN "one" ELSE "many"
       ELSE UNCHANGED <<boot, ginit, boots>>
    /\ UNCHANGED surface

\* ensureInit from a caller that will wait at p: the instance's own promise, or a boot.
Await(i, p) ==
    /\ phase' = [phase EXCEPT ![i] = p]
    /\ IF own[i] = "none"
       THEN StartBoot(i) /\ own' = [own EXCEPT ![i] = "waiting"]
       ELSE UNCHANGED <<shared, own>>

Free(i) == phase[i] \in {"idle", "live", "fallback"}

\* The wrapped loadBindings: ready already, or await ensureInit.
LoadBindings(i) ==
    /\ Free(i)
    /\ IF ready[i]
       THEN /\ phase' = [phase EXCEPT ![i] = "granted"] /\ disableWasm' = TRUE
            /\ UNCHANGED <<shared, own>>
       ELSE Await(i, "awaiting") /\ UNCHANGED disableWasm
    /\ UNCHANGED <<runtime, ready>>

\* createTransformer of the jest transformer: it awaits ensureInit, too, but takes no
\* notice of the answer and leaves the environment alone.
CreateTransformer(i) ==
    /\ Free(i)
    /\ IF ready[i]
       THEN phase' = [phase EXCEPT ![i] = "granted"] /\ UNCHANGED <<shared, own>>
       ELSE Await(i, "transformer")
    /\ UNCHANGED <<runtime, ready, disableWasm>>

\* (Mutant) an instance that joined a boot is told ok without being grafted.
SettleUngrafted(i) ==
    /\ own[i] = "waiting" /\ ginit \in {"ok", "failed"}
    /\ own' = [own EXCEPT ![i] = ginit]
    /\ UNCHANGED <<shared, runtime, ready, phase, disableWasm>>

\* G.initPromise.then: graft the surface onto this instance's exports, pass ok on.
Settle(i) ==
    /\ own[i] = "waiting" /\ ginit \in {"ok", "failed"}
    /\ ready' = [ready EXCEPT ![i] = @ \/ (ginit = "ok" /\ surface)]
    /\ own' = [own EXCEPT ![i] = ginit]
    /\ UNCHANGED <<shared, runtime, phase, disableWasm>>

\* (Mutant) the wasm fallback is closed whatever the init returned.
ResumeAnyway(i) ==
    /\ phase[i] = "awaiting" /\ own[i] \in {"ok", "failed"}
    /\ phase' = [phase EXCEPT ![i] = IF own[i] = "ok" THEN "granted" ELSE "stock"]
    /\ disableWasm' = TRUE
    /\ UNCHANGED <<shared, runtime, ready, own>>

\* The await in the wrap ends; ok closes next's own wasm fallback.
Resume(i) ==
    /\ phase[i] = "awaiting" /\ own[i] \in {"ok", "failed"}
    /\ phase' = [phase EXCEPT ![i] = IF own[i] = "ok" THEN "granted" ELSE "stock"]
    /\ disableWasm' = (disableWasm \/ own[i] = "ok")
    /\ UNCHANGED <<shared, runtime, ready, own>>

\* The await in createTransformer ends; the first synchronous transform follows.
TransformerCreated(i) ==
    /\ phase[i] = "transformer" /\ own[i] \in {"ok", "failed"}
    /\ phase' = [phase EXCEPT ![i] = IF own[i] = "ok" THEN "granted" ELSE "stock"]
    /\ UNCHANGED <<shared, runtime, ready, own, disableWasm>>

\* next's loadNative requires binding.cjs, which throws unless the instance is ready;
\* a throwing module is evicted, so the next call tries again.
RequireBinding(i) ==
    /\ phase[i] \in {"granted", "stock"}
    /\ phase' = [phase EXCEPT ![i] = IF ready[i] THEN "live" ELSE "fallback"]
    /\ UNCHANGED <<shared, runtime, ready, own, disableWasm>>

-----------------------------------------------------------------------------
Boot == Instantiated \/ BeforeInit \/ Publish \/ BootThrows
Reaction(i) == Settle(i) \/ Resume(i) \/ TransformerCreated(i) \/ RequireBinding(i)

Next ==
    \/ Boot \/ EagerCall
    \/ \E i \in Instances : Evaluate(i) \/ LoadBindings(i) \/ CreateTransformer(i) \/ Reaction(i)

Spec == Init /\ [][Next]_vars

\* Instantiation settles one way or the other, and promise reactions run.
Fairness == WF_vars(Boot) /\ \A i \in Instances : WF_vars(Reaction(i))

FairSpec == Spec /\ Fairness

-----------------------------------------------------------------------------
\* "a per-module initPromise would mean a second 56MB wasm instantiation racing the
\* first" (loader.cjs:151): one boot per process, however many registries.
OneBoot == boots # "many"

\* "by which time auto.cjs's loadBindings wrap has awaited ensureInit() and the loader's
\* exports carry the live napi bindings" (binding.cjs:11), and "the await happens before the
\* first transform, every time" (jest-transformer.cjs:12): a caller that was told ok finds
\* its own instance ready when it requires binding.cjs, whoever ran the boot.
GrantedFindsBinding == \A i \in Instances : phase[i] = "granted" => ready[i]

\* "Failed init leaves every stock next path untouched" (auto.cjs:20): next's wasm
\* fallback is closed only once there is a binding to use instead.
FallbackStaysOpen == disableWasm => surface

\* Every live binding runs on the multi-threaded runtime, since with the fallback runtime
\* turbo-tasks' background work stalls (patches/0011:57) -- unless a napi call came before
\* the raw install: initTurbopackWasiRuntime only looks at WASI_RUNTIME_INSTALLED.
LiveOnMultiThreaded == (\E i \in Instances : ready[i]) => rt = "multi" \/ early

\* Whoever awaits ensureInit gets an answer and goes on to a live or a stock binding.
EveryCallSettles ==
    \A i \in Instances : phase[i] \in {"awaiting", "transformer"} ~> phase[i] \in {"live", "fallback"}
=============================================================================
