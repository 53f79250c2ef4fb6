------------------------------ MODULE AsyncTask ------------------------------
(***************************************************************************)
(* napi's tasks for the libuv thread pool, from the JS call that makes one *)
(* to the settling of its promise, with the AbortSignal of AsyncTask and   *)
(* the AsyncWorkPromise of Env::spawn as two ways to cancel.               *)
(* Sources: async_work.rs, task.rs and bindgen_runtime/js_values/task.rs   *)
(* of src/vendor-crates/napi/src.                                          *)
(*                                                                         *)
(* napi_async_work (queue, pool, cancellation) is external, and so is what *)
(* a task's own resolve, reject, conversion and finally do; they may run   *)
(* JavaScript, and that JavaScript may abort the signal.                   *)
(***************************************************************************)
EXTENDS Naturals

CONSTANTS Tasks,
          EarlyAbort,    \* JS may abort between the signal's conversion and the work's start
          CallbacksAbort \* JS run by a task's own callbacks may abort its signal

ASSUME AsyncTaskAssumption == EarlyAbort \in BOOLEAN /\ CallbacksAbort \in BOOLEAN

\* How a task is started: AsyncTask::new, AsyncTask::with_signal, Env::spawn.
TaskKinds == {"plain", "signal", "handle"}

VARIABLES
  kind,      \* how each task is started
  work,      \* its napi_async_work
  value,     \* AsyncWork::value
  status,    \* the status shared with the canceller: 0, 1 completed, 2 cancelled
  stored,    \* the signal knows the work and the deferred
  deferred,  \* the promise
  phase,     \* progress of `complete`
  abortAt,   \* where the abort or cancel came, "no" before
  twice,     \* tasks whose concluded deferred was concluded again
  stale      \* tasks whose deleted work was cancelled

taskVars == <<kind, work, value, status, stored, deferred, phase, abortAt, twice, stale>>

\* `complete` is running for some task: it has the main thread, but for what its callbacks do.
Completing == \E t \in Tasks : phase[t] \in {"resolving", "converting", "finally"}

-----------------------------------------------------------------------------
\* AbortSignal::from_napi_value: the argument is converted before the task is made.
ConvertSignal(t) ==
  /\ ~Completing /\ kind[t] = "none"
  /\ kind' = [kind EXCEPT ![t] = "signal"]
  /\ UNCHANGED <<work, value, status, stored, deferred, phase, abortAt, twice, stale>>

\* async_work::run, with to_napi_value's hand-over to the signal.
Run(t, k) ==
  /\ ~Completing /\ work[t] = "none"
  /\ IF k = "signal" THEN kind[t] = "signal" ELSE kind[t] = "none"
  /\ kind' = [kind EXCEPT ![t] = k]
  /\ work' = [work EXCEPT ![t] = "queued"]
  /\ deferred' = [deferred EXCEPT ![t] = "pending"]
  /\ stored' = [stored EXCEPT ![t] = (k = "signal")]
  /\ UNCHANGED <<value, status, phase, abortAt, twice, stale>>

\* A pool thread takes the work; from here it cannot be cancelled.
Take(t) ==
  /\ work[t] = "queued"
  /\ work' = [work EXCEPT ![t] = "running"]
  /\ UNCHANGED <<kind, value, status, stored, deferred, phase, abortAt, twice, stale>>

\* execute: what compute returned replaces the zeroed value.
Execute(t) ==
  /\ work[t] = "running"
  /\ \E v \in {"ok", "err"} : value' = [value EXCEPT ![t] = v]
  /\ work' = [work EXCEPT ![t] = "executed"]
  /\ UNCHANGED <<kind, status, stored, deferred, phase, abortAt, twice, stale>>

-----------------------------------------------------------------------------
(* complete, on the main thread                                            *)

\* The value is matched whatever the status: a work that was cancelled before it
\* ran still has the zeroed Ok, and goes to `resolve`.
CompleteValue(t) ==
  /\ ~Completing
  /\ work[t] \in {"executed", "cancelled"} /\ phase[t] = "no"
  /\ phase' = [phase EXCEPT ![t] = "resolving"]
  /\ UNCHANGED <<kind, work, value, status, stored, deferred, abortAt, twice, stale>>

\* Concluding a deferred that is concluded already is a use after free.
Concluded(t) == deferred[t] \in {"resolved", "rejected"}

\* (Mutant) only the engine's status is looked at.
SettlesOnStatus(t) == work[t] # "cancelled"

Settles(t) == work[t] # "cancelled" /\ status[t] # 2

\* The status is read after the task's resolve or reject has returned.
CompleteCheck(t) ==
  /\ phase[t] = "resolving"
  /\ phase' = [phase EXCEPT ![t] = IF Settles(t) THEN "converting" ELSE "finally"]
  /\ UNCHANGED <<kind, work, value, status, stored, deferred, abortAt, twice, stale>>

\* The conversion to_napi_value, which may run JavaScript, has returned a value or an Err.
CompleteSettle(t) ==
  /\ phase[t] = "converting"
  /\ \E o \in {"resolved", "rejected"} : deferred' = [deferred EXCEPT ![t] = o]
  /\ twice' = IF Concluded(t) THEN twice \union {t} ELSE twice
  /\ phase' = [phase EXCEPT ![t] = "finally"]
  /\ UNCHANGED <<kind, work, value, status, stored, abortAt, stale>>

\* After `finally` the work is deleted and the task marked as completed.
CompleteEnd(t) ==
  /\ phase[t] = "finally"
  /\ phase' = [phase EXCEPT ![t] = "done"]
  /\ work' = [work EXCEPT ![t] = "deleted"]
  /\ status' = [status EXCEPT ![t] = 1]
  /\ UNCHANGED <<kind, value, stored, deferred, abortAt, twice, stale>>

-----------------------------------------------------------------------------
(* Cancelling                                                              *)

\* Where the main thread stands when JS aborts.
AbortPoint(t) ==
  IF work[t] = "none" THEN "early"
  ELSE IF phase[t] \in {"no", "done"} THEN "outside" ELSE phase[t]

MayAbort(t) ==
  /\ abortAt[t] = "no"
  /\ IF Completing THEN CallbacksAbort /\ phase[t] \notin {"no", "done"} ELSE TRUE
  /\ work[t] = "none" => EarlyAbort

\* napi_cancel_async_work: only a work that nobody has taken yet.
CancelWork(t) == IF work[t] = "queued" THEN [work EXCEPT ![t] = "cancelled"] ELSE work

StaleAfterCancel(t) == IF work[t] = "deleted" THEN stale \union {t} ELSE stale

\* on_abort.  Before the work is known both pointers are null, and cancelling and
\* rejecting fail without an effect; the status is stored all the same.
OnAbort(t) ==
  /\ kind[t] = "signal" /\ MayAbort(t)
  /\ abortAt' = [abortAt EXCEPT ![t] = AbortPoint(t)]
  /\ IF status[t] = 1
     THEN UNCHANGED <<work, status, deferred, twice, stale>>
     ELSE /\ work' = IF stored[t] THEN CancelWork(t) ELSE work
          /\ status' = [status EXCEPT ![t] = 2]
          /\ deferred' = IF stored[t] THEN [deferred EXCEPT ![t] = "rejected"] ELSE deferred
          /\ stale' = StaleAfterCancel(t)
          /\ twice' = IF stored[t] /\ Concluded(t) THEN twice \union {t} ELSE twice
  /\ UNCHANGED <<kind, value, stored, phase>>

\* AsyncWorkPromise::cancel: the status is stored before the outcome of cancelling is
\* known, and nothing tells the holder that the task has completed and its work is
\* gone.  Env::spawn's caller holds it outside `complete`.
Cancel(t) ==
  /\ kind[t] = "handle" /\ ~Completing /\ abortAt[t] = "no"
  /\ abortAt' = [abortAt EXCEPT ![t] = AbortPoint(t)]
  /\ status' = [status EXCEPT ![t] = 2]
  /\ work' = CancelWork(t)
  /\ stale' = StaleAfterCancel(t)
  /\ UNCHANGED <<kind, value, stored, deferred, phase, twice>>

-----------------------------------------------------------------------------
TaskInit ==
  /\ kind = [t \in Tasks |-> "none"] /\ work = [t \in Tasks |-> "none"]
  /\ value = [t \in Tasks |-> "zeroed"] /\ status = [t \in Tasks |-> 0]
  /\ stored = [t \in Tasks |-> FALSE] /\ deferred = [t \in Tasks |-> "none"]
  /\ phase = [t \in Tasks |-> "no"] /\ abortAt = [t \in Tasks |-> "no"]
  /\ twice = {} /\ stale = {}

TaskProgress(t) ==
  \/ Take(t) \/ Execute(t)
  \/ CompleteValue(t) \/ CompleteCheck(t) \/ CompleteSettle(t) \/ CompleteEnd(t)

TaskNext ==
  \E t \in Tasks :
    \/ ConvertSignal(t) \/ \E k \in TaskKinds : Run(t, k)
    \/ TaskProgress(t)
    \/ OnAbort(t) \/ Cancel(t)

TaskSpec == TaskInit /\ [][TaskNext]_taskVars

\* The pool runs what is queued and the main thread completes what has run.
TaskFairness == \A t \in Tasks : WF_taskVars(TaskProgress(t))

-----------------------------------------------------------------------------
(* Properties                                                              *)

TaskTypeOK ==
  /\ kind \in [Tasks -> TaskKinds \union {"none"}]
  /\ work \in [Tasks -> {"none", "queued", "running", "executed", "cancelled", "deleted"}]
  /\ value \in [Tasks -> {"zeroed", "ok", "err"}]
  /\ status \in [Tasks -> 0..2]
  /\ stored \in [Tasks -> BOOLEAN]
  /\ deferred \in [Tasks -> {"none", "pending", "resolved", "rejected"}]
  /\ phase \in [Tasks -> {"no", "resolving", "converting", "finally", "done"}]
  /\ abortAt \in [Tasks -> {"no", "early", "outside", "resolving", "converting", "finally"}]
  /\ twice \subseteq Tasks /\ stale \subseteq Tasks

\* A task's deferred is concluded once, however its abort races its completion, but for two
\* aborts by JavaScript that `complete` itself calls: the status has been read, or the promise is
\* settled and the status not yet 1, and the conversion of the value, or the task's `finally`,
\* aborts the signal.
SettledOnce == \A t \in twice : abortAt[t] \in {"converting", "finally"}

\* An AbortSignal that outlives its task never cancels the deleted work: it reads the
\* status first.  An AsyncWorkPromise has no such check.
SignalsKnowTheEnd == \A t \in stale : kind[t] = "handle"

\* task.rs:14 says that `resolve` runs "if compute return Ok".  The only task whose
\* `resolve` gets an output that no compute produced is one cancelled while queued.
OutputsAreComputed ==
  \A t \in Tasks : phase[t] = "resolving" /\ value[t] = "zeroed" =>
                     work[t] = "cancelled" /\ abortAt[t] = "outside"

\* Every promise is settled: resolved, rejected by the task, or by the abort.  A cancel through
\* AsyncWorkPromise leaves its promise pending for good, and so does an abort that
\* comes before the work is known to the signal.
PromisesSettle ==
  \A t \in Tasks : deferred[t] = "pending" ~>
                     (Concluded(t) \/ abortAt[t] = "early" \/ (kind[t] = "handle" /\ abortAt[t] # "no"))
=============================================================================
