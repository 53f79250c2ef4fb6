-------------------------- MODULE PluginBridgeImpl --------------------------
(***************************************************************************)
(* PluginBridge implements PluginCall: the state of a thread's plugin call *)
(* is read off its control point and its progress, and what was executed   *)
(* for it is the history ran, while the call is pending.                   *)
(***************************************************************************)
EXTENDS PluginBridge

CallPhase(t) ==
    IF tpc[t] = "idle" THEN "idle"
    ELSE IF tpc[t] \in {"drop", "free", "crashed"} \/ tstage[t] = "closing" THEN "over"
    ELSE IF tstage[t] = "new" THEN "init"
    ELSE tstage[t]

phaseBar == [t \in Threads |-> CallPhase(t)]
doneBar == [t \in Threads |-> IF CallPhase(t) \in {"idle", "over"} THEN {} ELSE ran[t]]

Call == INSTANCE PluginCall WITH phase <- phaseBar, done <- doneBar

\* The promise of the bridge to swc's plugin runner (HostBridgeRuntime::init and
\* Instance::transform of patches/0026): every Ok is backed by an execution in the
\* worker, in the order init, transform, whatever the interleaving.
ImplementsCall == Call!Spec
=============================================================================
