----------------------------- MODULE LoaderProofs -----------------------------
(***************************************************************************)
(* Proofs about Loader: the boot, for any number of module registries.     *)
(***************************************************************************)
EXTENDS Loader, TLAPS

\* A step of the loader is a step of the boot, or leaves it alone.
LEMMA BootStep == [LoaderNext]_loaderVars => [Next]_vars
<1>1. LoaderNext => Next \/ UNCHANGED vars
  BY DEF LoaderNext
<1>2. UNCHANGED loaderVars => UNCHANGED vars
  BY DEF loaderVars
<1>3. QED
  BY <1>1, <1>2

-----------------------------------------------------------------------------
(* Type correctness.                                                        *)

LEMMA InitTyped == Init => TypeOK
BY DEF Init, TypeOK

LEMMA StepTyped == TypeOK /\ [Next]_vars => TypeOK'
<1> SUFFICES ASSUME TypeOK, [Next]_vars PROVE TypeOK'
  OBVIOUS
<1> USE DEF TypeOK, shared, runtime
<1>1. CASE Instantiated
  BY <1>1 DEF Instantiated
<1>2. CASE EagerCall
  BY <1>2 DEF EagerCall, Forced, Taken
<1>3. CASE BeforeInit
  <2>1. PICK built \in BOOLEAN :
          LET c == IF built /\ cell # "multi" THEN "multi" ELSE cell IN
          /\ rt' = Forced(c) /\ cell' = Taken(c) /\ installed' = (installed \/ built)
    BY <1>3 DEF BeforeInit
  <2>2. rt' \in {"unset", "multi", "fallback"} /\ cell' \in {"empty", "multi", "taken"}
    BY <2>1 DEF Forced, Taken
  <2>3. installed' \in BOOLEAN
    BY <2>1
  <2>4. QED
    BY <1>3, <2>2, <2>3 DEF BeforeInit
<1>4. CASE Publish
  BY <1>4 DEF Publish
<1>5. CASE BootThrows
  BY <1>5 DEF BootThrows
<1>6. ASSUME NEW i \in Instances, Evaluate(i) PROVE TypeOK'
  BY <1>6 DEF Evaluate
<1>7. ASSUME NEW i \in Instances, LoadBindings(i) PROVE TypeOK'
  <2>1. CASE ready[i]
    BY <1>7, <2>1 DEF LoadBindings
  <2>2. CASE ~ready[i]
    <3>1. Await(i, "awaiting") /\ UNCHANGED <<runtime, ready, disableWasm>>
      BY <1>7, <2>2 DEF LoadBindings
    <3>2. UNCHANGED surface
      BY <3>1 DEF Await, StartBoot
    <3>3. /\ boots' \in {"none", "one", "many"}
          /\ ginit' \in {"none", "pending", "ok", "failed"}
          /\ boot' \in {"none", "instantiating", "beforeInit", "registered", "done"}
      BY <3>1 DEF Await, StartBoot
    <3>4. QED
      BY <3>1, <3>2, <3>3 DEF Await
  <2>3. QED
    BY <2>1, <2>2
<1>8. ASSUME NEW i \in Instances, CreateTransformer(i) PROVE TypeOK'
  BY <1>8 DEF CreateTransformer, Await, StartBoot
<1>9. ASSUME NEW i \in Instances, Settle(i) PROVE TypeOK'
  <2>1. ready' = [ready EXCEPT ![i] = ready[i] \/ (ginit = "ok" /\ surface)]
    BY <1>9 DEF Settle
  <2>2. ready' \in [Instances -> BOOLEAN]
    BY <2>1
  <2>3. QED
    BY <1>9, <2>2 DEF Settle
<1>10. ASSUME NEW i \in Instances, Resume(i) PROVE TypeOK'
  BY <1>10 DEF Resume
<1>11. ASSUME NEW i \in Instances, TransformerCreated(i) PROVE TypeOK'
  BY <1>11 DEF TransformerCreated
<1>12. ASSUME NEW i \in Instances, RequireBinding(i) PROVE TypeOK'
  BY <1>12 DEF RequireBinding
<1>13. CASE UNCHANGED vars
  BY <1>13 DEF vars
<1>14. QED
  BY <1>1, <1>2, <1>3, <1>4, <1>5, <1>6, <1>7, <1>8, <1>9, <1>10, <1>11, <1>12, <1>13
  DEF Next, Boot, Reaction

-----------------------------------------------------------------------------
(* The boot that instances share.                                           *)

\* There is one boot, begun with the promise; the surface is published at its end, and only with
\* the runtime installed.
SharedBoot ==
  /\ boots # "many"
  /\ boots = "none" <=> ginit = "none"
  /\ boot # "none" => ginit # "none"
  /\ boot # "done" => ~surface
  /\ ginit = "ok" => surface
  /\ surface => installed
  /\ installed => rt = "multi" \/ early
  /\ rt # "unset" => early \/ boot \in {"registered", "done"}

\* What an instance knows of it: its exports are live, or it was told ok, only with the surface there.
InstanceKnows(i) ==
  /\ ready[i] => surface
  /\ own[i] = "ok" => ready[i]
  /\ phase[i] = "unloaded" => own[i] = "none"
  /\ phase[i] = "granted" => ready[i]

BootInv == SharedBoot /\ (\A i \in Instances : InstanceKnows(i)) /\ (disableWasm => surface)

LEMMA StepBoots == TypeOK /\ BootInv /\ [Next]_vars => BootInv'
<1> SUFFICES ASSUME TypeOK, BootInv, [Next]_vars PROVE BootInv'
  OBVIOUS
<1> USE DEF TypeOK, BootInv, SharedBoot, InstanceKnows, shared, runtime
<1>1. CASE Instantiated
  BY <1>1 DEF Instantiated
<1>2. CASE EagerCall
  BY <1>2 DEF EagerCall
<1>3. CASE BeforeInit
  <2>1. PICK built \in BOOLEAN :
          LET c == IF built /\ cell # "multi" THEN "multi" ELSE cell IN
          rt' = Forced(c) /\ installed' = (installed \/ built)
    BY <1>3 DEF BeforeInit
  <2>2. installed' => rt' = "multi" \/ early
    BY <1>3, <2>1 DEF BeforeInit, Forced
  <2>3. installed => installed'
    BY <2>1
  <2>4. QED
    BY <1>3, <2>2, <2>3 DEF BeforeInit
<1>4. CASE Publish
  BY <1>4 DEF Publish
<1>5. CASE BootThrows
  BY <1>5 DEF BootThrows
<1>6. ASSUME NEW i \in Instances, Evaluate(i) PROVE BootInv'
  BY <1>6 DEF Evaluate
<1>7. ASSUME NEW i \in Instances, LoadBindings(i) PROVE BootInv'
  BY <1>7 DEF LoadBindings, Await, StartBoot, Free
<1>8. ASSUME NEW i \in Instances, CreateTransformer(i) PROVE BootInv'
  BY <1>8 DEF CreateTransformer, Await, StartBoot, Free
<1>9. ASSUME NEW i \in Instances, Settle(i) PROVE BootInv'
  <2>1. /\ own[i] = "waiting" /\ own' = [own EXCEPT ![i] = ginit]
        /\ ready' = [ready EXCEPT ![i] = ready[i] \/ (ginit = "ok" /\ surface)]
        /\ UNCHANGED <<shared, runtime, phase, disableWasm>>
    BY <1>9 DEF Settle
  <2>2. \A j \in Instances : InstanceKnows(j)'
    BY <2>1
  <2>3. SharedBoot'
    BY <2>1
  <2>4. QED
    BY <2>1, <2>2, <2>3
<1>10. ASSUME NEW i \in Instances, Resume(i) PROVE BootInv'
  BY <1>10 DEF Resume
<1>11. ASSUME NEW i \in Instances, TransformerCreated(i) PROVE BootInv'
  BY <1>11 DEF TransformerCreated
<1>12. ASSUME NEW i \in Instances, RequireBinding(i) PROVE BootInv'
  BY <1>12 DEF RequireBinding
<1>13. CASE UNCHANGED vars
  BY <1>13 DEF vars
<1>14. QED
  BY <1>1, <1>2, <1>3, <1>4, <1>5, <1>6, <1>7, <1>8, <1>9, <1>10, <1>11, <1>12, <1>13
  DEF Next, Boot, Reaction

LEMMA BootInductive == LoaderSpec => [](TypeOK /\ BootInv)
<1>1. MainInit => TypeOK /\ BootInv
  BY InitTyped DEF MainInit, Init, BootInv, SharedBoot, InstanceKnows
<1>2. TypeOK /\ BootInv /\ [LoaderNext]_loaderVars => (TypeOK /\ BootInv)'
  BY BootStep, StepTyped, StepBoots
<1>3. QED
  BY <1>1, <1>2, PTL DEF LoaderSpec

\* "a per-module initPromise would mean a second 56MB wasm instantiation racing the first"
\* (loader.cjs:151): one boot per process, however many registries.
THEOREM BootsOnce == LoaderSpec => []BootSound
<1>1. TypeOK /\ BootInv => BootSound
  BY DEF BootInv, SharedBoot, BootSound, OneBoot
<1>2. QED
  BY <1>1, BootInductive, PTL

\* A caller that was told ok finds its own instance ready when it requires binding.cjs
\* (binding.cjs:11), whoever ran the boot.
THEOREM GrantedIsReady == LoaderSpec => []GrantedFindsBinding
<1>1. TypeOK /\ BootInv => GrantedFindsBinding
  BY DEF BootInv, InstanceKnows, GrantedFindsBinding
<1>2. QED
  BY <1>1, BootInductive, PTL

\* "Failed init leaves every stock next path untouched" (auto.cjs:20).
THEOREM FailureLeavesFallback == LoaderSpec => []FallbackStaysOpen
<1>1. TypeOK /\ BootInv => FallbackStaysOpen
  BY DEF BootInv, FallbackStaysOpen
<1>2. QED
  BY <1>1, BootInductive, PTL

\* Every live binding runs on the multi-threaded runtime, unless a napi call came before the raw
\* install (patches/0011:57).
THEOREM LiveIsMultiThreaded == LoaderSpec => []LiveOnMultiThreaded
<1>1. TypeOK /\ BootInv => LiveOnMultiThreaded
  BY DEF BootInv, SharedBoot, InstanceKnows, LiveOnMultiThreaded
<1>2. QED
  BY <1>1, BootInductive, PTL
=============================================================================
