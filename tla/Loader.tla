-------------------------------- MODULE Loader --------------------------------
(***************************************************************************)
(* pkg/loader.cjs on the main thread: the boot that instances of it share  *)
(* (LoaderInit), and the workers of turbopack-node's pool (PoolRpc), which *)
(* are created through the overrides that the boot grafts onto a binding.  *)
(***************************************************************************)
EXTENDS LoaderInit, PoolRpc

loaderVars == <<vars, poolVars>>

\* A live binding's registerWorkerScheduler is the override.
Register ==
  /\ \E i \in Instances : phase[i] = "live"
  /\ RegisterScheduler

LoaderNext ==
  \/ Next /\ UNCHANGED poolVars
  \/ (Register \/ PoolNext) /\ UNCHANGED vars

MainInit == Init /\ PoolInit

LoaderSpec ==
  /\ MainInit /\ [][LoaderNext]_loaderVars
  /\ Fairness /\ PoolFairness

-----------------------------------------------------------------------------
\* One boot, whatever instances do.
BootSound == TypeOK /\ OneBoot

\* Nobody waits for good: neither whoever awaits ensureInit, nor a call of a worker.
CallersAreAnswered == EveryCallSettles /\ CallsAnswered
=============================================================================
