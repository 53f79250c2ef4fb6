------------------------------ MODULE HostBridge ------------------------------
(***************************************************************************)
(* The host process bridge of patches-16.1/0016 and loader.cjs: processes  *)
(* (HostProcess) and sockets (HostSocket).  They share BRIDGE, the JS main *)
(* thread that runs one callback at a time, and the action threadsafe      *)
(* function, and no state; `side` lets a behaviour take one of them.       *)
(***************************************************************************)
EXTENDS HostProcess, HostSocket

CONSTANT Sides   \* a subset of {"processes", "sockets"}

VARIABLE side

hostBridgeVars == <<side, processVars, socketVars>>

Init == side \in Sides /\ ProcessInit /\ SocketInit

Next ==
    \/ side = "processes" /\ ProcessNext /\ UNCHANGED <<side, socketVars>>
    \/ side = "sockets" /\ SocketNext /\ UNCHANGED <<side, processVars>>

Spec == Init /\ [][Next]_hostBridgeVars

FairSpec == Spec /\ ProcessFairness /\ SocketFairness
=============================================================================
