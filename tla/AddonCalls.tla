------------------------------ MODULE AddonCalls ------------------------------
(***************************************************************************)
(* The ways in which work of the addon leaves the main thread and comes    *)
(* back, side by side: threadsafe functions (ThreadsafeFunction), libuv    *)
(* tasks (AsyncTask) and tokio futures (TokioFuture).  They share the main *)
(* thread alone, which runs one callback at a time; `stage` lets a         *)
(* behaviour take one of them.                                             *)
(***************************************************************************)
EXTENDS ThreadsafeFunction, AsyncTask, TokioFuture

CONSTANT Stages   \* a subset of {"tsfn", "pool", "tokio"}

VARIABLE stage

callVars == <<stage, tsfnVars, taskVars, tokioVars>>

\* What tokio's initial state leaves open is open only where it matters.
Init ==
  /\ stage \in Stages
  /\ TsfnInit /\ TaskInit /\ TokioInit
  /\ stage # "tokio" => /\ wasm = CHOOSE w \in WasmBuilds : TRUE
                       /\ home = [f \in Futures |-> CHOOSE e \in Envs : TRUE]

Next ==
  \/ stage = "tsfn" /\ TsfnNext /\ UNCHANGED <<stage, taskVars, tokioVars>>
  \/ stage = "pool" /\ TaskNext /\ UNCHANGED <<stage, tsfnVars, tokioVars>>
  \/ stage = "tokio" /\ TokioNext /\ UNCHANGED <<stage, tsfnVars, taskVars>>

Spec == Init /\ [][Next]_callVars /\ TsfnFairness /\ TaskFairness /\ TokioFairness

-----------------------------------------------------------------------------
\* Threadsafe functions: nothing reaches one that its finaliser has ended, and the release of the
\* last handle fails only where nothing was created or the environment goes.
TsfnSound == TsfnTypeOK /\ NothingAfterFinalize /\ ReleaseSucceeds

\* libuv tasks: a promise is settled once, the canceller's signal knows how the work ended, and
\* what is resolved was computed.
TasksSound == TaskTypeOK /\ SettledOnce /\ SignalsKnowTheEnd /\ OutputsAreComputed

\* tokio: there is a runtime while an environment is open, the sender behind an awaited promise
\* is taken once, and a late call of a freed function takes a runtime that outlives it.
FuturesSound == TokioTypeOK /\ RuntimeForOpenEnv /\ SenderTakenOnce /\ LateCallNeedsSharing

\* Nobody waits for good, but for the named reasons: a call, an abort or a drop of a threadsafe
\* function ends, a call_async is answered, the promises of tasks and futures are settled.
AnswersArrive == OperationsEnd /\ AsyncCallsEnd /\ PromisesSettle /\ OutSettles
=============================================================================
