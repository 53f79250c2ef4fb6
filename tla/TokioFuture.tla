----------------------------- MODULE TokioFuture -----------------------------
(***************************************************************************)
(* napi's async functions: the process-wide tokio runtime that the         *)
(* environments of a process share by counting, a future spawned on it     *)
(* that awaits a JS promise given as argument, and the JsDeferred through  *)
(* which the future settles the promise its JS caller got.                 *)
(* Sources: tokio_runtime.rs, js_values/deferred.rs,                       *)
(* bindgen_runtime/js_values/promise.rs and, for the registration of an    *)
(* environment, bindgen_runtime/module_register.rs, all of                 *)
(* src/vendor-crates/napi/src.                                             *)
(*                                                                         *)
(* napi_threadsafe_function and tokio are external.  A threadsafe function *)
(* is gone when its environment has closed; hooks of a closing environment *)
(* run last in, first out, so its threadsafe functions close before its    *)
(* share of the runtime is dropped, and are freed after.                   *)
(***************************************************************************)
EXTENDS Naturals, FiniteSets

CONSTANTS Envs,
          Futures,
          WasmBuilds   \* the builds looked at: TRUE is wasm, FALSE native

ASSUME TokioAssumption == WasmBuilds \subseteq BOOLEAN /\ IsFiniteSet(Envs)

VARIABLES
  wasm,     \* the build: on wasm a thread per future, and no counting
  life,      \* the life of each environment, by the steps of its opening and closing
  runtime,  \* RT holds a runtime (it is created when first looked at)
  rtCount,  \* RT_REFERENCE_COUNT
  raced,    \* environments that counted themselves in before a runtime was taken away
  home,     \* the environment each future is started from
  arg,      \* the JS promise it awaits
  react,    \* the callback the engine runs next for that promise
  box,      \* the boxed sender that then_callback and catch_callback share; "threw": taken by
            \* a then_callback that left an exception pending
  chan,     \* the oneshot channel
  dropped,  \* Promise::aborted
  fut,      \* the future
  call,     \* progress of call_tsfn
  tsfn,     \* the deferred's threadsafe function
  queued,   \* what has been sent through it: the outcome of the future
  out,      \* the promise the JS caller got
  retaken,    \* futures whose sender was taken from its box twice
  late,     \* futures that called a threadsafe function that is gone
  shared    \* environments that left the count while another was in it

envVars == <<wasm, life, runtime, rtCount, raced, shared>>
argVars == <<arg, react, box, chan>>
futVars == <<home, dropped, fut, call, tsfn, queued, out, retaken, late>>
tokioVars == <<envVars, argVars, futVars>>

-----------------------------------------------------------------------------
(* Environments and the runtime                                            *)

\* (Mutant) an environment counts on the runtime it finds.
EnsureUnchecked(e) ==
  /\ life[e] = "absent"
  /\ life' = [life EXCEPT ![e] = "open"]
  /\ rtCount' = IF wasm THEN rtCount ELSE rtCount + 1
  /\ UNCHANGED <<wasm, runtime, raced, shared, argVars, futVars>>

\* ensure_runtime: one step, as it holds the write lock throughout.
EnsureRuntime(e) ==
  /\ life[e] = "absent"
  /\ life' = [life EXCEPT ![e] = "open"]
  /\ IF wasm THEN UNCHANGED <<runtime, rtCount>> ELSE runtime' = TRUE /\ rtCount' = rtCount + 1
  /\ UNCHANGED <<wasm, raced, shared, argVars, futVars>>

\* The environment closes: its threadsafe functions first.  What is queued in them is
\* handed to napi_resolve_deferred with a null env, which does not look: the resolver
\* runs, and both concluding calls fail.
EnvCleanup(e) ==
  /\ life[e] = "open"
  /\ life' = [life EXCEPT ![e] = "closing"]
  /\ tsfn' = [f \in Futures |-> IF home[f] = e /\ tsfn[f] = "live" THEN "closing" ELSE tsfn[f]]
  /\ queued' = [f \in Futures |-> IF home[f] = e THEN "no" ELSE queued[f]]
  /\ UNCHANGED <<wasm, runtime, rtCount, raced, shared, argVars, home, dropped, fut, call, out, retaken, late>>

\* drop_runtime, first half: the count.
DropRuntimeCount(e) ==
  /\ life[e] = "closing"
  /\ IF wasm
     THEN life' = [life EXCEPT ![e] = "dropped"] /\ UNCHANGED <<rtCount, shared>>
     ELSE /\ rtCount' = rtCount - 1
          /\ life' = [life EXCEPT ![e] = IF rtCount = 1 THEN "taking" ELSE "dropped"]
          /\ shared' = IF rtCount = 1 THEN shared ELSE shared \union {e}
  /\ UNCHANGED <<wasm, runtime, raced, argVars, futVars>>

\* A future is dropped with the runtime, and its Promise with it; one in the middle of
\* call_tsfn does not await, so the runtime waits for it.
Cancellable == {f \in Futures : fut[f] \in {"waiting", "running", "panicked"}}

\* drop_runtime, second half: the runtime, whoever has counted itself in by now.
DropRuntimeTake(e) ==
  /\ life[e] = "taking"
  /\ \A f \in Futures : fut[f] # "settling"
  /\ life' = [life EXCEPT ![e] = "dropped"]
  /\ runtime' = FALSE
  /\ raced' = raced \union {d \in Envs \ {e} : life[d] \in {"open", "closing"}}
  /\ fut' = [f \in Futures |-> IF f \in Cancellable THEN "cancelled" ELSE fut[f]]
  /\ dropped' = [f \in Futures |-> dropped[f] \/ f \in Cancellable]
  /\ UNCHANGED <<wasm, rtCount, shared, argVars, home, call, tsfn, queued, out, retaken, late>>

\* The handles of the environment are closed: its threadsafe functions are freed.
EnvClosed(e) ==
  /\ life[e] = "dropped"
  /\ life' = [life EXCEPT ![e] = "closed"]
  /\ tsfn' = [f \in Futures |-> IF home[f] = e /\ tsfn[f] # "none" THEN "freed" ELSE tsfn[f]]
  /\ UNCHANGED <<wasm, runtime, rtCount, raced, shared, argVars,
                 home, dropped, fut, call, queued, out, retaken, late>>

-----------------------------------------------------------------------------
(* Starting                                                                *)

\* Promise::from_napi_value, then execute_tokio_future.  JsDeferred::new may fail, and
\* the future, with its Promise, is dropped unstarted; without a runtime `spawn` panics
\* on the JS thread.
Start(f) ==
  /\ life[home[f]] = "open" /\ fut[f] = "none"
  /\ arg' = [arg EXCEPT ![f] = "pending"]
  /\ box' = [box EXCEPT ![f] = "boxed"]
  /\ \/ /\ dropped' = [dropped EXCEPT ![f] = TRUE]
        /\ fut' = [fut EXCEPT ![f] = "refused"]
        /\ UNCHANGED <<tsfn, out>>
     \/ /\ tsfn' = [tsfn EXCEPT ![f] = "live"]
        /\ out' = [out EXCEPT ![f] = "pending"]
        /\ fut' = [fut EXCEPT ![f] = IF runtime THEN "waiting" ELSE "unspawned"]
        /\ dropped' = [dropped EXCEPT ![f] = ~runtime]
  /\ UNCHANGED <<envVars, react, chan, home, call, queued, retaken, late>>

-----------------------------------------------------------------------------
(* The awaited promise                                                     *)

\* JS settles the argument; `catch` is attached to what `then` returned.
Settle(f, how) ==
  /\ arg[f] = "pending" /\ life[home[f]] = "open"
  /\ arg' = [arg EXCEPT ![f] = how]
  /\ react' = [react EXCEPT ![f] = IF how = "resolved" THEN "then" ELSE "catch"]
  /\ UNCHANGED <<envVars, box, chan, futVars>>

\* Both callbacks take the sender out of the box they were given.
TakeSender(f) ==
  /\ retaken' = IF box[f] # "boxed" THEN retaken \union {f} ELSE retaken
  /\ box' = [box EXCEPT ![f] = IF @ = "boxed" THEN "taken" ELSE @]

\* A sender that is dropped unused closes the channel.
Send(f, v) == chan' = [chan EXCEPT ![f] = IF dropped[f] THEN "closed" ELSE v]

\* then_callback.  A conversion that leaves an exception pending rejects the promise
\* `then` returned, so that catch_callback follows.
ThenCallback(f) ==
  /\ react[f] = "then" /\ life[home[f]] = "open"
  /\ retaken' = IF box[f] # "boxed" THEN retaken \union {f} ELSE retaken
  /\ \E v \in {"ok", "err", "threw"} :
       /\ v = "threw" => ~dropped[f]
       /\ Send(f, IF v = "ok" THEN "ok" ELSE "err")
       /\ box' = [box EXCEPT ![f] = IF v = "threw" THEN "threw" ELSE "taken"]
       /\ react' = [react EXCEPT ![f] = IF v = "threw" THEN "catch" ELSE "no"]
  /\ UNCHANGED <<envVars, arg, home, dropped, fut, call, tsfn, queued, out, late>>

CatchCallback(f) ==
  /\ react[f] = "catch" /\ life[home[f]] = "open"
  /\ TakeSender(f)
  /\ Send(f, "err")
  /\ react' = [react EXCEPT ![f] = "no"]
  /\ UNCHANGED <<envVars, arg, home, dropped, fut, call, tsfn, queued, out, late>>

-----------------------------------------------------------------------------
(* The future                                                              *)

\* Promise::poll is ready; the runtime (or, on wasm, the future's thread) runs on.
Poll(f) ==
  /\ fut[f] = "waiting" /\ chan[f] # "empty"
  /\ fut' = [fut EXCEPT ![f] = "running"]
  /\ UNCHANGED <<envVars, argVars, home, dropped, call, tsfn, queued, out, retaken, late>>

\* The future's own code returns, drops its Promise, and goes on to call_tsfn; or panics.
Complete(f, o) ==
  /\ fut[f] = "running"
  /\ dropped' = [dropped EXCEPT ![f] = TRUE]
  /\ fut' = [fut EXCEPT ![f] = IF o = "panic" THEN "panicked" ELSE "settling"]
  /\ call' = [call EXCEPT ![f] = IF o = "panic" THEN "no" ELSE o]
  /\ UNCHANGED <<envVars, argVars, home, tsfn, queued, out, retaken, late>>

\* The second task awaits the first; there is none on wasm.
Watch(f) ==
  /\ fut[f] = "panicked" /\ ~wasm
  /\ fut' = [fut EXCEPT ![f] = "settling"]
  /\ call' = [call EXCEPT ![f] = "err"]
  /\ UNCHANGED <<envVars, argVars, home, dropped, tsfn, queued, out, retaken, late>>

\* call_tsfn: napi_call_threadsafe_function.  Nothing tells the future that the
\* environment has closed; the data of a call that is refused is leaked.
CallTsfn(f) ==
  /\ fut[f] = "settling" /\ call[f] \in {"ok", "err"}
  /\ queued' = IF tsfn[f] = "live" THEN [queued EXCEPT ![f] = call[f]] ELSE queued
  /\ late' = IF tsfn[f] = "freed" THEN late \union {f} ELSE late
  /\ call' = [call EXCEPT ![f] = "release"]
  /\ UNCHANGED <<envVars, argVars, home, dropped, fut, tsfn, out, retaken>>

\* call_tsfn: napi_release_threadsafe_function.
ReleaseTsfn(f) ==
  /\ fut[f] = "settling" /\ call[f] = "release"
  /\ late' = IF tsfn[f] = "freed" THEN late \union {f} ELSE late
  /\ fut' = [fut EXCEPT ![f] = "finished"]
  /\ call' = [call EXCEPT ![f] = "no"]
  /\ UNCHANGED <<envVars, argVars, home, dropped, tsfn, queued, out, retaken>>

\* napi_resolve_deferred: an error of the future, of the resolver or of the conversion rejects.
ResolveDeferred(f) ==
  /\ queued[f] # "no" /\ life[home[f]] = "open"
  /\ queued' = [queued EXCEPT ![f] = "no"]
  /\ \E o \in {"resolved", "rejected"} :
       /\ queued[f] = "err" => o = "rejected"
       /\ out' = [out EXCEPT ![f] = o]
  /\ UNCHANGED <<envVars, argVars, home, dropped, fut, call, tsfn, retaken, late>>

-----------------------------------------------------------------------------
TokioInit ==
  /\ wasm \in WasmBuilds /\ life = [e \in Envs |-> "absent"] /\ runtime = TRUE /\ rtCount = 0
  /\ raced = {} /\ shared = {}
  /\ home \in [Futures -> Envs]
  /\ arg = [f \in Futures |-> "none"] /\ react = [f \in Futures |-> "no"]
  /\ box = [f \in Futures |-> "none"] /\ chan = [f \in Futures |-> "empty"]
  /\ dropped = [f \in Futures |-> FALSE] /\ fut = [f \in Futures |-> "none"]
  /\ call = [f \in Futures |-> "no"] /\ tsfn = [f \in Futures |-> "none"]
  /\ queued = [f \in Futures |-> "no"] /\ out = [f \in Futures |-> "none"]
  /\ retaken = {} /\ late = {}

React(f) == ThenCallback(f) \/ CatchCallback(f)

FutureProgress(f) ==
  Poll(f) \/ (\E o \in {"ok", "err", "panic"} : Complete(f, o)) \/ Watch(f)
    \/ CallTsfn(f) \/ ReleaseTsfn(f)

TokioNext ==
  \/ \E e \in Envs : EnsureRuntime(e) \/ EnvCleanup(e) \/ DropRuntimeCount(e)
                       \/ DropRuntimeTake(e) \/ EnvClosed(e)
  \/ \E f \in Futures :
       \/ Start(f)
       \/ \E how \in {"resolved", "rejected"} : Settle(f, how)
       \/ React(f) \/ FutureProgress(f) \/ ResolveDeferred(f)

TokioSpec == TokioInit /\ [][TokioNext]_tokioVars

\* The runtime polls what is ready, and the event loop of an environment runs its
\* callbacks; nothing makes JS settle the argument.
TokioFairness ==
  \A f \in Futures : WF_tokioVars(React(f)) /\ WF_tokioVars(FutureProgress(f))
                       /\ WF_tokioVars(ResolveDeferred(f))

-----------------------------------------------------------------------------
(* Properties                                                              *)

TokioTypeOK ==
  /\ wasm \in BOOLEAN /\ life \in [Envs -> {"absent", "open", "closing", "taking", "dropped", "closed"}]
  /\ runtime \in BOOLEAN /\ rtCount \in 0..Cardinality(Envs)
  /\ raced \subseteq Envs /\ shared \subseteq Envs /\ home \in [Futures -> Envs]
  /\ arg \in [Futures -> {"none", "pending", "resolved", "rejected"}]
  /\ react \in [Futures -> {"no", "then", "catch"}]
  /\ box \in [Futures -> {"none", "boxed", "taken", "threw"}]
  /\ chan \in [Futures -> {"empty", "ok", "err", "closed"}]
  /\ dropped \in [Futures -> BOOLEAN]
  /\ fut \in [Futures -> {"none", "refused", "unspawned", "waiting", "running", "panicked",
                          "settling", "finished", "cancelled"}]
  /\ call \in [Futures -> {"no", "ok", "err", "release"}]
  /\ tsfn \in [Futures -> {"none", "live", "closing", "freed"}]
  /\ queued \in [Futures -> {"no", "ok", "err"}]
  /\ out \in [Futures -> {"none", "pending", "resolved", "rejected"}]
  /\ retaken \subseteq Futures /\ late \subseteq Futures

\* "we need to ensure that the Tokio runtime is initialized when the Node env is created"
\* (tokio_runtime.rs:58): an open environment finds a runtime, unless it counted
\* itself in between the two halves of another's drop_runtime.
RuntimeForOpenEnv == \A e \in Envs : life[e] = "open" /\ ~runtime => e \in raced

\* The sender behind the raw pointer that two callbacks share is taken out once, unless
\* converting the resolved value left an exception pending: then catch_callback runs
\* after then_callback.
SenderTakenOnce == \A f \in retaken : box[f] = "threw"

\* A future calls the threadsafe function of a closed environment only while another
\* environment keeps the runtime (or on wasm, where nothing ends the futures): the
\* runtime goes, and the futures with it, before the handles are freed.
LateCallNeedsSharing ==
  \A f \in late : wasm \/ home[f] \in shared

\* What keeps the caller's promise pending for good.
Abandoned(f) ==
  \/ life[home[f]] # "open"                     \* its environment closes
  \/ arg[f] = "pending"                        \* JS never settles the argument
  \/ fut[f] \in {"unspawned", "cancelled"}     \* the runtime is gone (raced)
  \/ (wasm /\ fut[f] = "panicked")             \* nobody watches a panicking thread

\* The promise the JS caller got is settled once the argument is, whatever becomes of the
\* future: value, error, panic, failed conversion either way.
OutSettles ==
  \A f \in Futures : out[f] = "pending" ~> (out[f] \in {"resolved", "rejected"} \/ Abandoned(f))
=============================================================================
