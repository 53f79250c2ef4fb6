------------------------------ MODULE SwcPlugins ------------------------------
(***************************************************************************)
(* The binding's swc (SwcCompiler) with the bridge over which its wasm     *)
(* plugins run (PluginBridgeImpl).  To the compilation a plugin is a pass  *)
(* that succeeds or fails, and to the bridge a transform is a call of that *)
(* pass; they share no state, so a behaviour takes one of the two.         *)
(***************************************************************************)
EXTENDS PluginBridgeImpl, SwcCompiler

\* The view of a behaviour in which the bridge moves.
Bridge == "bridge"

SwcPluginsInit == Init /\ SwcInit

SwcPluginsNext ==
  \/ view = Bridge /\ Next /\ UNCHANGED swcVars
  \/ SwcNext /\ UNCHANGED vars

SwcPluginsSpec == SwcPluginsInit /\ [][SwcPluginsNext]_<<vars, swcVars>>
=============================================================================
