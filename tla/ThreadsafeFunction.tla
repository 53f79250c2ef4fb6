------------------------- MODULE ThreadsafeFunction -------------------------
(***************************************************************************)
(* One threadsafe function of the vendored napi crate: the handle its      *)
(* clones share, the RwLock over `aborted` that every call, clone, abort   *)
(* and drop goes through, and the callbacks the event loop runs for it.    *)
(* Source: src/vendor-crates/napi/src/threadsafe_function.rs.              *)
(*                                                                         *)
(* napi_threadsafe_function itself (queue, thread count, closing flag,     *)
(* finalisation) is Node's or emnapi's and external: it is modelled as the *)
(* crate uses it.  Its memory is gone once its finaliser has run.          *)
(***************************************************************************)
EXTENDS Naturals, Sequences, FiniteSets

CONSTANTS Threads,        \* the threads that may be given a clone
          Main,           \* the event-loop thread
          NoCall,         \* no callback is running
          MaxQueue,       \* max_queue_size; 0 is unlimited
          MaxPending,     \* bound: no call is queued beyond it
          Strategy,       \* ErrorStrategy: "CalleeHandled" or "Fatal"
          CreateMayFail,  \* napi_create_threadsafe_function may fail
          EnvMayClose     \* the environment may be torn down

Actors == Threads \union {Main}

ASSUME TsfnAssumption ==
  /\ Main \notin Threads
  /\ MaxQueue \in Nat /\ MaxPending \in Nat
  /\ Strategy \in {"CalleeHandled", "Fatal"}
  /\ CreateMayFail \in BOOLEAN /\ EnvMayClose \in BOOLEAN

CallKinds == {"direct", "callback", "async"}  \* call, call_with_return_value, call_async

\* `bad`: the value is an Err, which only CalleeHandled lets through.
Calls == [from : Actors, kind : CallKinds, bad : BOOLEAN]

ASSUME NoCall \notin Calls

VARIABLES
  raw,      \* the napi_threadsafe_function: "none", "null", "live", "freed"
  count,    \* its thread count: create passes 1, clones do not acquire
  closing,  \* it has been aborted, or its environment is going
  queue,    \* calls made and not yet run
  boxed,    \* the boxed Rust callback, dropped by the finaliser
  aborted,  \* the flag in the handle
  readers,  \* actors that hold `aborted` for reading
  held,     \* actors that own a clone of the handle
  pc,       \* what each actor is doing
  op,       \* the call each actor is making, with its mode
  frame,    \* the call whose JS function is running
  fin,      \* progress of thread_finalize_cb
  env,      \* "open" or "closing"
  crashed,  \* napi_fatal_error has ended the process
  lost,     \* actors whose call_async was swept from the queue unanswered
  bad       \* uses of what no longer exists, and failed assertions

tsfnVars == <<raw, count, closing, queue, boxed, aborted, readers, held,
          pc, op, frame, fin, env, crashed, lost, bad>>

native == <<raw, count, closing, queue>>
handle == <<aborted, readers, held>>
loop   == <<boxed, frame, fin, env, crashed, lost>>

PCs == {"idle", "enter", "calling", "full", "await", "abort", "dropping"}
Ops == {[call |-> c, mode |-> m] : c \in Calls, m \in {"Blocking", "NonBlocking"}}
NoOp(a) == [call |-> [from |-> a, kind |-> "direct", bad |-> FALSE], mode |-> "NonBlocking"]

-----------------------------------------------------------------------------
(* The lock.  std's RwLock lets no new reader in while a writer waits.     *)

Writing == fin = "upgraded" \/ \E a \in Actors : pc[a] = "abort"
CanRead == ~Writing

\* (Mutant) the flag is set without waiting for the calls under way.
WritesAtOnce == TRUE

CanWrite == readers = {}

MainFree == pc[Main] \in {"idle", "await"} /\ frame = NoCall /\ fin \in {"no", "done"} /\ ~crashed

\* The actor can start something: it owns a clone, and main is not in a finaliser.
Ready(a) == a \in held /\ pc[a] = "idle" /\ ~crashed /\ (a = Main => fin \in {"no", "done"})

Full == MaxQueue > 0 /\ Len(queue) >= MaxQueue

\* The thread count after one release, or after one call that was told to stop.
Released(n) == IF n > 0 THEN n - 1 ELSE 0

-----------------------------------------------------------------------------
(* Creating, cloning, referring                                            *)

\* A failed creation returns early and drops the handle, whose raw is still null.
Create ==
  /\ raw = "none" /\ env = "open" /\ ~crashed
  /\ boxed' = TRUE
  /\ \/ /\ raw' = "live" /\ count' = 1 /\ held' = {Main} /\ pc' = pc
     \/ /\ CreateMayFail
        /\ raw' = "null" /\ pc' = [pc EXCEPT ![Main] = "dropping"] /\ UNCHANGED <<count, held>>
  /\ UNCHANGED <<closing, queue, aborted, readers, op, frame, fin, env, crashed, lost, bad>>

\* The clone of an aborted function panics: no clone is made.
Clone(a, b) ==
  /\ Ready(a) /\ b \notin held /\ pc[b] = "idle" /\ CanRead
  /\ ~aborted
  /\ held' = held \union {b}
  /\ UNCHANGED <<native, loop, aborted, readers, pc, op, bad>>

\* refer and unref, which need the Env and so run on the main thread; the flag
\* `referred`, which spares a second napi call, is left out.
SetReferred ==
  /\ Ready(Main) /\ CanRead
  /\ ~aborted
  /\ bad' = IF raw = "live" THEN bad ELSE bad \union {"refer"}
  /\ UNCHANGED <<native, handle, loop, pc, op>>

-----------------------------------------------------------------------------
(* Calling                                                                 *)

\* call_async is always NonBlocking; the main thread is taken never to block on its own queue.
Call(a, c, mode) ==
  /\ Ready(a)
  /\ c.from = a
  /\ c.bad => Strategy = "CalleeHandled"
  /\ mode = "Blocking" => a # Main /\ c.kind # "async"
  /\ pc' = [pc EXCEPT ![a] = "enter"]
  /\ op' = [op EXCEPT ![a] = [call |-> c, mode |-> mode]]
  /\ UNCHANGED <<native, handle, loop, bad>>

\* with_read_aborted: an aborted function answers Closing.
CallEnter(a) ==
  /\ pc[a] = "enter" /\ CanRead /\ ~crashed
  /\ IF aborted
     THEN /\ pc' = [pc EXCEPT ![a] = "idle"]
          /\ op' = [op EXCEPT ![a] = NoOp(a)]
          /\ UNCHANGED readers
     ELSE /\ pc' = [pc EXCEPT ![a] = "calling"]
          /\ readers' = readers \union {a}
          /\ UNCHANGED op
  /\ UNCHANGED <<native, loop, aborted, held, bad>>

\* (Mutant) the guard outlives the call.
LeaveLocked(a, sent) ==
  /\ readers' = readers
  /\ op' = [op EXCEPT ![a] = NoOp(a)]
  /\ pc' = [pc EXCEPT ![a] =
              IF sent /\ op[a].call.kind = "async" /\ ~op[a].call.bad THEN "await" ELSE "idle"]

\* The read guard goes when the closure returns; a call_async then awaits its
\* receiver, whose sender is gone already when the value was an Err.
Leave(a, sent) ==
  /\ readers' = readers \ {a}
  /\ op' = [op EXCEPT ![a] = NoOp(a)]
  /\ pc' = [pc EXCEPT ![a] =
              IF sent /\ op[a].call.kind = "async" /\ ~op[a].call.bad THEN "await" ELSE "idle"]

\* napi_call_threadsafe_function; a status other than ok leaks the boxed data.
CallNative(a) ==
  /\ pc[a] \in {"calling", "full"} /\ ~crashed
  /\ bad' = IF raw = "live" THEN bad ELSE bad \union {"call"}
  /\ \/ /\ closing
        /\ count' = Released(count)
        /\ Leave(a, FALSE)
        /\ UNCHANGED queue
     \/ /\ ~closing /\ Full
        /\ IF op[a].mode = "Blocking"
           THEN /\ pc[a] = "calling"
                /\ pc' = [pc EXCEPT ![a] = "full"]
                /\ UNCHANGED <<readers, op>>
           ELSE Leave(a, FALSE)
        /\ UNCHANGED <<count, queue>>
     \/ /\ ~closing /\ ~Full /\ Len(queue) < MaxPending
        /\ queue' = Append(queue, op[a].call)
        /\ Leave(a, TRUE)
        /\ UNCHANGED count
  /\ UNCHANGED <<raw, closing, loop, aborted, held>>

-----------------------------------------------------------------------------
(* Abort and drop                                                          *)

Abort(a) ==
  /\ Ready(a)
  /\ pc' = [pc EXCEPT ![a] = "abort"]
  /\ UNCHANGED <<native, handle, loop, op, bad>>

\* `abort` consumes its clone; when it was the last, Drop for the handle follows.
DropClone(a) ==
  /\ held' = held \ {a}
  /\ pc' = [pc EXCEPT ![a] = IF held = {a} /\ fin # "upgraded" THEN "dropping" ELSE "idle"]

\* (Mutant) abort releases its share and leaves the queue to be served.
AbortByRelease(a) ==
  /\ pc[a] = "abort" /\ CanWrite /\ ~crashed
  /\ IF aborted \/ count = 0
     THEN UNCHANGED <<aborted, count>>
     ELSE aborted' = TRUE /\ count' = Released(count)
  /\ DropClone(a)
  /\ UNCHANGED <<raw, closing, queue, loop, readers, op, bad>>

\* A release that fails is reported before the flag is set.
AbortLocked(a) ==
  /\ pc[a] = "abort" /\ CanWrite /\ ~crashed
  /\ bad' = IF aborted \/ raw = "live" THEN bad ELSE bad \union {"abort"}
  /\ IF aborted \/ count = 0
     THEN UNCHANGED <<aborted, count, closing>>
     ELSE aborted' = TRUE /\ count' = Released(count) /\ closing' = TRUE
  /\ DropClone(a)
  /\ UNCHANGED <<raw, queue, loop, readers, op>>

Drop(a) ==
  /\ Ready(a)
  /\ DropClone(a)
  /\ UNCHANGED <<native, loop, aborted, readers, op, bad>>

\* Drop for ThreadsafeFunctionHandle asserts that the release succeeds.
DropHandle(a) ==
  /\ pc[a] = "dropping" /\ CanRead /\ ~crashed
  /\ pc' = [pc EXCEPT ![a] = "idle"]
  /\ IF aborted
     THEN UNCHANGED <<count, bad>>
     ELSE /\ bad' = IF raw = "live" /\ count > 0 THEN bad ELSE bad \union {"release"}
          /\ count' = Released(count)
  /\ UNCHANGED <<raw, closing, queue, loop, handle, op>>

-----------------------------------------------------------------------------
(* The event loop                                                          *)

\* call_js_cb returns at once when env or callback is null.
TouchesCallback(envIsNull) == ~envIsNull

\* call_js_cb, up to the call of the JS function.
Dispatch ==
  /\ MainFree /\ raw = "live" /\ ~closing /\ queue # <<>>
  /\ frame' = Head(queue)
  /\ queue' = Tail(queue)
  /\ bad' = IF TouchesCallback(FALSE) /\ ~boxed THEN bad \union {"callback"} ELSE bad
  /\ UNCHANGED <<raw, count, closing, boxed, handle, pc, op, fin, env, crashed, lost>>

\* How the JS function may end; "badArgs" is an Err of the Rust callback.
Outcomes == {"returns", "throws", "unconvertible", "badArgs"}

\* The per-call Rust callback gave an Err, and there is nobody to tell but the process.
IsFatal(call, outcome) ==
  /\ outcome \in {"throws", "unconvertible"} /\ ~call.bad
  /\ call.kind = "callback" \/ (call.kind = "async" /\ Strategy = "Fatal")

\* call_js_cb from the JS function's return; an awaiting caller is answered, with
\* its value or by the sender being dropped.
Return(outcome) ==
  /\ frame # NoCall /\ pc[Main] \in {"idle", "await"} /\ ~crashed
  /\ frame' = NoCall
  /\ crashed' = IsFatal(frame, outcome)
  /\ pc' = IF frame.kind = "async" /\ ~frame.bad /\ ~IsFatal(frame, outcome)
           THEN [pc EXCEPT ![frame.from] = "idle"] ELSE pc
  /\ UNCHANGED <<native, handle, boxed, op, fin, env, lost, bad>>

\* The environment is torn down: the function closes whoever still holds it.
EnvClose ==
  /\ EnvMayClose /\ MainFree /\ env = "open"
  /\ env' = "closing"
  /\ closing' = (closing \/ raw = "live")
  /\ UNCHANGED <<raw, count, queue, handle, pc, op, boxed, frame, fin, crashed, lost, bad>>

\* thread_finalize_cb starts: it can mark the handle only while somebody owns it.
FinalizeUpgrade ==
  /\ MainFree /\ raw = "live" /\ fin = "no"
  /\ closing \/ (count = 0 /\ queue = <<>>)
  /\ closing' = TRUE
  /\ fin' = IF held # {} THEN "upgraded" ELSE "marked"
  /\ UNCHANGED <<raw, count, queue, handle, pc, op, boxed, frame, env, crashed, lost, bad>>

FinalizeMark ==
  /\ fin = "upgraded" /\ CanWrite
  /\ aborted' = TRUE
  /\ fin' = "marked"
  /\ UNCHANGED <<native, readers, held, pc, op, boxed, frame, env, crashed, lost, bad>>

\* The Rust callback is dropped; then what is queued gets call_js_cb with a null
\* env, which leaks the data with its sender; then the function itself goes.
FinalizeFree ==
  /\ fin = "marked"
  /\ boxed' = FALSE
  /\ bad' = IF queue # <<>> /\ TouchesCallback(TRUE) THEN bad \union {"callback"} ELSE bad
  /\ lost' = lost \union {queue[i].from : i \in {j \in DOMAIN queue :
                                queue[j].kind = "async" /\ ~queue[j].bad}}
  /\ queue' = <<>>
  /\ raw' = "freed"
  /\ fin' = "done"
  /\ UNCHANGED <<count, closing, handle, pc, op, frame, env, crashed>>

-----------------------------------------------------------------------------
TsfnInit ==
  /\ raw = "none" /\ count = 0 /\ closing = FALSE /\ queue = <<>> /\ boxed = FALSE
  /\ aborted = FALSE /\ readers = {} /\ held = {}
  /\ pc = [a \in Actors |-> "idle"]
  /\ op = [a \in Actors |-> NoOp(a)]
  /\ frame = NoCall /\ fin = "no" /\ env = "open" /\ crashed = FALSE
  /\ lost = {} /\ bad = {}

InOperation(a) == CallEnter(a) \/ CallNative(a) \/ AbortLocked(a) \/ DropHandle(a)

TsfnNext ==
  \/ Create
  \/ \E a \in Actors : InOperation(a) \/ Abort(a) \/ Drop(a)
  \/ \E a, b \in Actors : Clone(a, b)
  \/ SetReferred
  \/ \E a \in Actors, c \in Calls, mode \in {"Blocking", "NonBlocking"} : Call(a, c, mode)
  \/ Dispatch \/ \E o \in Outcomes : Return(o)
  \/ EnvClose \/ FinalizeUpgrade \/ FinalizeMark \/ FinalizeFree

TsfnSpec == TsfnInit /\ [][TsfnNext]_tsfnVars

\* Threads run, and one that waits for room or for the lock is not overtaken for
\* ever; the event loop serves its queue and leaves each callback, though the
\* callback may use the function again in between.
TsfnFairness ==
  /\ \A a \in Actors : SF_tsfnVars(InOperation(a))
  /\ SF_tsfnVars(Dispatch) /\ SF_tsfnVars(\E o \in Outcomes : Return(o))
  /\ SF_tsfnVars(FinalizeUpgrade) /\ WF_tsfnVars(FinalizeMark) /\ WF_tsfnVars(FinalizeFree)

-----------------------------------------------------------------------------
(* Properties                                                              *)

TsfnTypeOK ==
  /\ raw \in {"none", "null", "live", "freed"} /\ count \in 0..1
  /\ closing \in BOOLEAN /\ boxed \in BOOLEAN /\ aborted \in BOOLEAN
  /\ queue \in Seq(Calls) /\ frame \in Calls \union {NoCall}
  /\ readers \subseteq Actors /\ held \subseteq Actors /\ lost \subseteq Actors
  /\ pc \in [Actors -> PCs] /\ op \in [Actors -> Ops]
  /\ fin \in {"no", "upgraded", "marked", "done"} /\ env \in {"open", "closing"}
  /\ crashed \in BOOLEAN
  /\ bad \subseteq {"refer", "call", "abort", "release", "callback"}

\* No call, clone, refer, unref or abort reaches a threadsafe function that its
\* finaliser has ended, and no queued call the callback the finaliser dropped: who
\* reads aborted = false keeps the finaliser out until the napi call has returned.
\* (The release of the last clone is not covered by the lock: see ReleaseSucceeds.)
NothingAfterFinalize == bad \subseteq {"release"}

\* The assertion in Drop for ThreadsafeFunctionHandle (line 167), that the release of
\* the last handle succeeds, fails in two situations only: the function was never
\* created (its null pointer is released), or the environment is going and has
\* closed the function under the handle.
ReleaseSucceeds == "release" \in bad => raw = "null" \/ env = "closing"

\* An abort is final: whatever was queued before it, by whichever clone, no JS
\* call starts once the handle is marked.
NoCallbackAfterAbort == [][aborted /\ frame = NoCall => frame' = NoCall]_tsfnVars

\* A blocked writer or reader on the event loop and a caller that waits, with the
\* lock held, for the event loop to make room.
Jam == /\ \E a \in Threads : pc[a] = "full"
       /\ pc[Main] = "abort" \/ (pc[Main] = "enter" /\ Writing)

\* Every call, abort and drop comes to its end, except in the jam: an abort on the
\* main thread (or one elsewhere, with the main thread about to call) while a
\* Blocking call waits on a full queue.
OperationsEnd ==
  \A a \in Actors : pc[a] \notin {"idle", "await"} ~> (pc[a] \in {"idle", "await"} \/ Jam \/ crashed)

\* A call_async is answered, unless an abort or the end of the environment swept
\* its call from the queue (its sender is leaked, not dropped) or the loop is jammed.
AsyncCallsEnd ==
  \A a \in Actors : pc[a] = "await" ~> (pc[a] # "await" \/ a \in lost \/ Jam \/ crashed)
=============================================================================
