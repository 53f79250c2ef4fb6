----------------------------- MODULE PluginCall -----------------------------
(***************************************************************************)
(* What swc's plugin runner is promised by the bridge, whatever happens    *)
(* between the guest thread and the driver worker: Runtime::init returns   *)
(* Ok only if the embedder instantiated this thread's module, and          *)
(* Instance::transform returns Ok only if the export of that instance then *)
(* ran to its end; either may fail, and after a failure nothing more of    *)
(* the call succeeds.                                                      *)
(***************************************************************************)
CONSTANT Threads

VARIABLES
    phase,   \* where the thread's plugin call is
    done     \* the exports the embedder completed for the call

vars == <<phase, done>>

Exports == {"INIT", "TRANSFORM"}
Phases == {"idle", "init", "ready", "transform", "done", "over"}

Init ==
    /\ phase = [t \in Threads |-> "idle"]
    /\ done = [t \in Threads |-> {}]

Move(t, from, to) == phase[t] \in from /\ phase' = [phase EXCEPT ![t] = to]

Begin(t) == Move(t, {"idle"}, "init") /\ UNCHANGED done

\* The embedder completes an export while the call that asked for it is pending.
Execute(t, e) ==
    /\ <<phase[t], e>> \in {<<"init", "INIT">>, <<"transform", "TRANSFORM">>}
    /\ done' = [done EXCEPT ![t] = @ \union {e}]
    /\ UNCHANGED phase

InitOk(t) == "INIT" \in done[t] /\ Move(t, {"init"}, "ready") /\ UNCHANGED done
AskTransform(t) == Move(t, {"ready"}, "transform") /\ UNCHANGED done
TransformOk(t) == "TRANSFORM" \in done[t] /\ Move(t, {"transform"}, "done") /\ UNCHANGED done

\* The call fails, or its executor is dropped; what was executed is forgotten.
End(t) ==
    /\ Move(t, {"init", "ready", "transform", "done"}, "over")
    /\ done' = [done EXCEPT ![t] = {}]

Release(t) == Move(t, {"over"}, "idle") /\ UNCHANGED done

Next == \E t \in Threads :
    \/ Begin(t) \/ InitOk(t) \/ AskTransform(t) \/ TransformOk(t) \/ End(t) \/ Release(t)
    \/ \E e \in Exports : Execute(t, e)

Spec == Init /\ [][Next]_vars
=============================================================================
