----------------------------- MODULE AddonObjects -----------------------------
(***************************************************************************)
(* What the addon shares with JavaScript, side by side: buffers and their  *)
(* collection across threads (BufferGc), instances of classes and their    *)
(* factories (ClassReference), what Env keeps (EnvObjects), iteration      *)
(* (Iteration) and numbers (BigInts).  They have no state in common;       *)
(* `part` lets a behaviour take one of them.                               *)
(***************************************************************************)
EXTENDS BufferGc, ClassReference, EnvObjects, Iteration, BigInts

CONSTANT Parts   \* of "buffers", "classes", "factories", "env", "iteration", "numbers"

VARIABLE part

addonObjectVars == <<part, bufferGcVars, classVars, envVars, iterationVars, bigIntVars>>

Init ==
  /\ part \in Parts
  /\ GcInit /\ ClassInit /\ EnvInit /\ IterationInit
  /\ IF part = "numbers" THEN NumbersInit ELSE NumbersStart("js", 0)

Next ==
  \/ part = "buffers" /\ GcNext
     /\ UNCHANGED <<part, classVars, envVars, iterationVars, bigIntVars>>
  \/ part = "classes" /\ InstanceNext
     /\ UNCHANGED <<part, bufferGcVars, envVars, iterationVars, bigIntVars>>
  \/ part = "factories" /\ FactoryNext
     /\ UNCHANGED <<part, bufferGcVars, envVars, iterationVars, bigIntVars>>
  \/ part = "env" /\ EnvNext
     /\ UNCHANGED <<part, bufferGcVars, classVars, iterationVars, bigIntVars>>
  \/ part = "iteration" /\ IterationNext
     /\ UNCHANGED <<part, bufferGcVars, classVars, envVars, bigIntVars>>
  \/ part = "numbers" /\ NumbersNext
     /\ UNCHANGED <<part, bufferGcVars, classVars, envVars, iterationVars>>

Spec == Init /\ [][Next]_addonObjectVars /\ GcFairness

-----------------------------------------------------------------------------
\* Buffers: a reference or data is there as long as a handle to it, is released once and on the
\* thread that may, and the process-wide collector is created and left as the threads expect.
BuffersSound ==
  /\ GcTypeOK /\ MemoryOutlivesHandles /\ ForeignThreadsDelegate
  /\ CollectorGoneIsSeen /\ EnvOutlivesItsReferences /\ OneCollector

\* Instances of classes: the counts of References, napi references and the map agree, and what
\* is gone is left alone.
InstancesSound ==
  /\ ClassTypeOK /\ ReferencesAreCounted /\ DeletedRefsAreLeftAlone
  /\ WeakNeverDangles /\ EntriesAreLive /\ OneShare

\* What Env boxes has one owner and one type, and references pin what they refer to.
EnvObjectsSound == EnvTypeOK /\ OneOwner /\ TypesAreKept /\ RefsPin

\* A registration ends for every environment, and what a thread without one dropped is
\* deleted while the collector's environment is open.
CollectionGoesOn == RegistrationEnds /\ DelegatedGoes

\* A constructor knows who called it, and an iteration that is over stays over: what one step
\* left in the addon is what a later one reads.
LaterCallsAgree == FlagIsRead /\ OverIsOver /\ []IterationTypeOK
=============================================================================
