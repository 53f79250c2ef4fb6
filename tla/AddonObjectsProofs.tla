-------------------------- MODULE AddonObjectsProofs --------------------------
(***************************************************************************)
(* Proofs about what the addon shares with JavaScript, for every number of *)
(* environments, threads, buffers, instances, references, boxed values,    *)
(* objects and generators and words of every even width: an inductive      *)
(* invariant for each part that its own steps preserve and that the steps  *)
(* of the others leave alone.                                              *)
(***************************************************************************)
EXTENDS AddonObjects, FiniteSetTheorems, SequenceTheorems, WellFoundedInduction, TLAPS

-----------------------------------------------------------------------------
(* Buffers.                                                                 *)

\* How far an environment is with its registration or its end goes with its custom GC, what
\* that has been sent, and its entry in the map of threads.
RegInv(e) ==
    /\ reg[e] \in {"first", "creating"} => e \in firsts
    /\ reg[e] = "exports" /\ e \notin firsts => registered
    /\ gc[e] # "none" => e \in firsts /\ reg[e] \in {"access", "open", "closing", "closed"}
    /\ gc[e] = "live" => reg[e] \in {"access", "open"}
    /\ gc[e] = "closing" => reg[e] = "closing"
    /\ gc[e] = "freed" => reg[e] = "closed" /\ destroyed
    /\ gcQueue[e] # {} => gc[e] \in {"live", "closing"}
    /\ reg[e] = "open" => access[e] = "yes"
    /\ reg[e] \in {"closing", "closed"} => access[e] = "no"

Queued(b) == \E e \in Envs : b \in gcQueue[e]

\* What the handles of b shared has been released, passed on, or given up by name.
Settled(b) == mem[b] = "freed" \/ Queued(b) \/ unreleased[b] # "no"

\* A thread in a drop still has its handle; one that read a count of 1 is alone with the
\* buffer; and one that goes leaves it settled, or to another handle.
DropInv(a) ==
    dpc[a] # "idle" =>
        LET b == drop[a].of
            h == drop[a].handle
        IN
        /\ h \in {a, JS} /\ h \in holders[b]
        /\ drop[a].late => destroyed
        /\ dpc[a] = "send" => ~drop[a].late /\ bkind[b] = "reference"
        /\ dpc[a] \in {"sole", "send"} => holders[b] = {h} /\ mem[b] = "live" /\ ~Queued(b)
        /\ dpc[a] = "leave" => Settled(b) \/ b \in overlapped \/ \E k \in holders[b] : k # h

\* Two drops of one buffer are of different handles, and the buffer is marked.
DropsDiffer ==
    \A a, c \in Actors :
        a # c /\ dpc[a] # "idle" /\ dpc[c] # "idle" /\ drop[a].of = drop[c].of =>
            drop[a].handle # drop[c].handle /\ drop[a].of \in overlapped

\* A buffer that is released or on its way has only handles whose drop is about to end.
BufInv(b) ==
    /\ IsFiniteSet(holders[b])
    /\ mem[b] = "none" => holders[b] = {}
    /\ Queued(b) => mem[b] = "live" /\ bkind[b] = "reference"
    /\ \A d, e \in Envs : b \in gcQueue[d] /\ b \in gcQueue[e] => d = e
    /\ bkind[b] = "reference" /\ mem[b] # "none" => home[b] \in Envs
    /\ mem[b] = "freed" \/ Queued(b) =>
           \A h \in holders[b] :
               \E a \in Actors : dpc[a] = "leave" /\ drop[a].of = b /\ drop[a].handle = h
    /\ mem[b] = "live" /\ holders[b] = {} => Settled(b) \/ b \in overlapped

GcInv ==
    /\ \A e \in Envs : RegInv(e)
    /\ \A w \in Workers : access[w] = "absent"
    /\ (\A a \in Actors : DropInv(a)) /\ DropsDiffer
    /\ \A b \in Buffers : BufInv(b)
    /\ misuse \subseteq {"racedgc"}

\* A drop begins on an idle thread: nothing else changes but drop_in_vm.
Drops(a, b, h) ==
    /\ dpc[a] = "idle" /\ h \in holders[b] /\ h \in {a, JS}
    /\ \A c \in Actors : dpc[c] # "idle" => drop[c].of # b \/ drop[c].handle # h
    /\ DropBegins(a, b, h)
    /\ UNCHANGED <<regVars, gcVars, bkind, home, holders, mem, lent, unreleased, misuse>>

\* So it does where a handle is dropped,
LEMMA ReadDrops ==
    ASSUME NEW a \in Actors, NEW b \in Buffers, NEW h \in Handles, DropRead(a, b, h)
    PROVE  Drops(a, b, h)
  BY DEF DropRead, Drops, bufVars

\* and where JS was given a copy: a thread in a drop has its own handle or that of JS.
LEMMA CopyDrops ==
    ASSUME GcInv, NEW b \in Buffers, NEW e \in Envs, NEW v \in BOOLEAN, v, DataCopied(b, e, v)
    PROVE  Drops(e, b, e)
<1>1. e \in Actors /\ JS \notin Actors
  BY GcAssumption DEF Actors
<1>2. \A c \in Actors : dpc[c] # "idle" => drop[c].handle \in {c, JS}
  BY DEF GcInv, DropInv
<1>3. /\ dpc[e] = "idle" /\ e \in holders[b] /\ DropBegins(e, b, e)
      /\ UNCHANGED <<regVars, gcVars, bkind, home, holders, mem, lent, unreleased, misuse>>
  BY DEF DataCopied
<1>4. QED
  BY <1>1, <1>2, <1>3 DEF Drops

\* No thread has a handle and no environment is registered.
LEMMA GcInitially == GcInit => GcTypeOK /\ GcInv
<1> SUFFICES ASSUME GcInit PROVE GcTypeOK /\ GcInv
  OBVIOUS
<1>1. \A a \in Actors : NoDrop(a) \in [of : Buffers, handle : Handles, late : BOOLEAN]
  BY GcAssumption DEF NoDrop, Handles
<1>2. GcTypeOK
  BY <1>1 DEF GcInit, GcTypeOK, BufKinds
<1>3. GcInv
  BY FS_EmptySet, GcAssumption
      DEF GcInit, GcInv, RegInv, DropInv, DropsDiffer, BufInv, Queued, Actors
<1>4. QED
  BY <1>2, <1>3

\* Every step of the registrations, the drops and the collections keeps the types.
LEMMA StepGcTyped == GcTypeOK /\ [GcNext]_bufferGcVars => GcTypeOK'
<1> SUFFICES ASSUME GcTypeOK, [GcNext]_bufferGcVars PROVE GcTypeOK'
  OBVIOUS
<1>a. \A a \in Actors : NoDrop(a) \in [of : Buffers, handle : Handles, late : BOOLEAN]
  BY GcAssumption DEF NoDrop, Handles
<1>b. Envs \subseteq Actors /\ Actors \subseteq Handles /\ JS \in Handles
  BY DEF Actors, Handles
<1> USE DEF GcTypeOK, BufKinds, regVars, gcVars, bufVars, dropVars
<1>1. ASSUME NEW e \in Envs, RegisterLoad(e)
      PROVE  GcTypeOK'
  BY <1>1 DEF RegisterLoad
<1>2. ASSUME NEW e \in Envs, RegisterFirst(e)
      PROVE  GcTypeOK'
  BY <1>2 DEF RegisterFirst
<1>3. ASSUME NEW e \in Envs, RegisterWait(e)
      PROVE  GcTypeOK'
  BY <1>3 DEF RegisterWait
<1>4. ASSUME NEW e \in Envs, CreateGcCheck(e)
      PROVE  GcTypeOK'
  BY <1>4 DEF CreateGcCheck
<1>5. ASSUME NEW e \in Envs, CreateGc(e)
      PROVE  GcTypeOK'
  BY <1>5 DEF CreateGc
<1>6. ASSUME NEW e \in Envs, GrantAccess(e)
      PROVE  GcTypeOK'
  BY <1>6, <1>b DEF GrantAccess
<1>7. ASSUME NEW e \in Envs, RemoveThreadId(e)
      PROVE  GcTypeOK'
  BY <1>7, <1>b DEF RemoveThreadId
<1>8. ASSUME NEW e \in Envs, FinalizeGc(e)
      PROVE  GcTypeOK'
  BY <1>8 DEF FinalizeGc
<1>9. ASSUME NEW b \in Buffers, NEW a \in Actors, NEW k \in BufKinds, CreateBuffer(b, a, k)
      PROVE  GcTypeOK'
  BY <1>9, <1>b DEF CreateBuffer, RunsJs
<1>10. ASSUME NEW b \in Buffers, NEW a \in Actors, NEW c \in Actors, CloneTo(b, a, c)
      PROVE  GcTypeOK'
  BY <1>10, <1>b DEF CloneTo
<1>11. ASSUME NEW b \in Buffers, NEW e \in Envs, ReferenceToJs(b, e)
      PROVE  GcTypeOK'
  BY <1>11 DEF ReferenceToJs
<1>12. ASSUME NEW b \in Buffers, NEW e \in Envs, NEW v \in BOOLEAN, DataToJs(b, e, v)
      PROVE  GcTypeOK'
  BY <1>12, <1>b DEF DataToJs
<1>13. ASSUME NEW a \in Actors, NEW b \in Buffers, NEW h \in Handles, DropRead(a, b, h)
      PROVE  GcTypeOK'
  BY <1>13, <1>b DEF DropRead, DropBegins
<1>w. ASSUME NEW b \in Buffers, NEW e \in Envs, NEW v \in BOOLEAN, DataCopied(b, e, v)
      PROVE  GcTypeOK'
  <2>1. /\ inVm' \in [Buffers -> BOOLEAN]
        /\ UNCHANGED <<regVars, gcVars, bkind, home, holders, mem, lent, unreleased, misuse>>
    BY <1>w DEF DataCopied
  <2>2. e \in Actors /\ e \in Handles
    BY <1>b
  <2>3. /\ dpc' \in [Actors -> {"idle", "sole", "send", "leave"}]
        /\ drop' \in [Actors -> [of : Buffers, handle : Handles, late : BOOLEAN]]
        /\ overlapped' \subseteq Buffers
    <3> HIDE DEF regVars, gcVars, bufVars, dropVars
    <3>1. CASE v
      <4>1. DropBegins(e, b, e)
        BY <1>w, <3>1 DEF DataCopied
      <4>2. QED
        BY <4>1, <2>2 DEF DropBegins
    <3>2. CASE ~v
      BY <1>w, <3>2 DEF DataCopied
    <3>3. QED
      BY <3>1, <3>2
  <2>4. QED
    BY <2>1, <2>3
<1>14. ASSUME NEW a \in Actors, DropData(a)
      PROVE  GcTypeOK'
  <2> HIDE DEF GcTypeOK
  <2>1. /\ mem' = mem \/ mem' = [mem EXCEPT ![drop[a].of] = "freed"]
        /\ unreleased' = unreleased \/ unreleased' = [unreleased EXCEPT ![drop[a].of] = "vm"]
        /\ misuse' = misuse \/ misuse' = misuse \union {"double"}
        /\ dpc' = [dpc EXCEPT ![a] = "leave"]
        /\ UNCHANGED <<regVars, gcVars, bkind, home, holders, inVm, lent, drop, overlapped>>
    BY <1>14 DEF DropData
  <2>2. QED
    <3>1. mem' \in [Buffers -> {"none", "live", "freed"}]
      BY <2>1 DEF GcTypeOK
    <3>2. unreleased' \in [Buffers -> {"no", "swept", "destroyed", "closing", "panic", "vm"}]
      BY <2>1 DEF GcTypeOK
    <3>3. dpc' \in [Actors -> {"idle", "sole", "send", "leave"}]
      BY <2>1 DEF GcTypeOK
    <3>4. misuse' \subseteq {"foreign", "double", "envgone", "nullenv", "lategc", "racedgc"}
      <4>1. misuse \subseteq {"foreign", "double", "envgone", "nullenv", "lategc", "racedgc"}
        BY DEF GcTypeOK
      <4>2. QED
        BY <2>1, <4>1
    <3>5. gcQueue' \in [Envs -> SUBSET Buffers]
      <4>1. gcQueue \in [Envs -> SUBSET Buffers] /\ drop[a].of \in Buffers
        BY DEF GcTypeOK
      <4>2. QED
        BY <2>1, <4>1
    <3>6. QED
      BY <2>1, <3>1, <3>2, <3>3, <3>4, <3>5 DEF GcTypeOK
<1>15. ASSUME NEW a \in Actors, DropShared(a)
      PROVE  GcTypeOK'
  <2> HIDE DEF GcTypeOK
  <2>1. /\ mem' = mem \/ mem' = [mem EXCEPT ![drop[a].of] = "freed"]
        /\ unreleased' = unreleased \/ unreleased' = [unreleased EXCEPT ![drop[a].of] = "destroyed"]
        /\ misuse' = misuse \/ misuse' = misuse \union Wrong(a, drop[a].of)
        /\ dpc' = [dpc EXCEPT ![a] = "leave"] \/ dpc' = [dpc EXCEPT ![a] = "send"]
        /\ UNCHANGED <<regVars, gcVars, bkind, home, holders, inVm, lent, drop, overlapped>>
    BY <1>15 DEF DropShared
  <2>2. Wrong(a, drop[a].of) \subseteq {"foreign", "double", "envgone"}
    BY DEF Wrong
  <2>3. QED
    <3>1. mem' \in [Buffers -> {"none", "live", "freed"}]
      BY <2>1, <2>2 DEF GcTypeOK
    <3>2. unreleased' \in [Buffers -> {"no", "swept", "destroyed", "closing", "panic", "vm"}]
      BY <2>1, <2>2 DEF GcTypeOK
    <3>3. dpc' \in [Actors -> {"idle", "sole", "send", "leave"}]
      BY <2>1, <2>2 DEF GcTypeOK
    <3>4. misuse' \subseteq {"foreign", "double", "envgone", "nullenv", "lategc", "racedgc"}
      <4>1. misuse \subseteq {"foreign", "double", "envgone", "nullenv", "lategc", "racedgc"}
        BY DEF GcTypeOK
      <4>2. QED
        BY <2>1, <2>2, <4>1
    <3>5. gcQueue' \in [Envs -> SUBSET Buffers]
      <4>1. gcQueue \in [Envs -> SUBSET Buffers] /\ drop[a].of \in Buffers
        BY DEF GcTypeOK
      <4>2. QED
        BY <2>1, <2>2, <4>1
    <3>6. QED
      BY <2>1, <2>2, <3>1, <3>2, <3>3, <3>4, <3>5 DEF GcTypeOK
<1>16. ASSUME NEW a \in Actors, DropSend(a)
      PROVE  GcTypeOK'
  <2> HIDE DEF GcTypeOK
  <2>1. /\ \/ gcQueue' = gcQueue
           \/ gcTsfn # NoEnv /\ gcQueue' = [gcQueue EXCEPT ![gcTsfn] = @ \union {drop[a].of}]
        /\ \/ unreleased' = unreleased
           \/ unreleased' = [unreleased EXCEPT ![drop[a].of] = "closing"]
           \/ unreleased' = [unreleased EXCEPT ![drop[a].of] = "panic"]
        /\ misuse' = misuse
           \/ misuse' = misuse \union {IF drop[a].late THEN "lategc" ELSE "racedgc"}
        /\ dpc' = [dpc EXCEPT ![a] = "leave"]
        /\ UNCHANGED <<regVars, gcTsfn, gc, destroyed, bufVars, drop, overlapped>>
    <3> DEFINE Up(why) == unreleased' = [unreleased EXCEPT ![drop[a].of] = why]
    <3>1. \/ gcTsfn = NoEnv /\ Up("panic") /\ UNCHANGED <<gcQueue, misuse>>
          \/ /\ gcTsfn # NoEnv
             /\ gcQueue' = [gcQueue EXCEPT ![gcTsfn] = @ \union {drop[a].of}]
             /\ UNCHANGED <<misuse, unreleased>>
          \/ (Up("closing") \/ Up("panic")) /\ UNCHANGED <<gcQueue, misuse>>
          \/ /\ misuse' = misuse \union {IF drop[a].late THEN "lategc" ELSE "racedgc"}
             /\ Up("closing") /\ UNCHANGED gcQueue
      BY Zenon, <1>16 DEF DropSend
    <3>2. /\ dpc' = [dpc EXCEPT ![a] = "leave"]
          /\ UNCHANGED <<regVars, gcTsfn, gc, destroyed, bufVars, drop, overlapped>>
      BY <1>16 DEF DropSend
    <3>3. QED
      BY <3>1, <3>2
  <2>2. QED
    <3>1. mem' \in [Buffers -> {"none", "live", "freed"}]
      BY <2>1 DEF GcTypeOK
    <3>2. unreleased' \in [Buffers -> {"no", "swept", "destroyed", "closing", "panic", "vm"}]
      <4>1. unreleased \in [Buffers -> {"no", "swept", "destroyed", "closing", "panic", "vm"}]
        BY DEF GcTypeOK
      <4>2. \/ unreleased' = unreleased
            \/ unreleased' = [unreleased EXCEPT ![drop[a].of] = "closing"]
            \/ unreleased' = [unreleased EXCEPT ![drop[a].of] = "panic"]
        BY <2>1
      <4>3. QED
        BY <4>1, <4>2
    <3>3. dpc' \in [Actors -> {"idle", "sole", "send", "leave"}]
      BY <2>1 DEF GcTypeOK
    <3>4. misuse' \subseteq {"foreign", "double", "envgone", "nullenv", "lategc", "racedgc"}
      <4>1. misuse \subseteq {"foreign", "double", "envgone", "nullenv", "lategc", "racedgc"}
        BY DEF GcTypeOK
      <4>2. QED
        BY <2>1, <4>1
    <3>5. gcQueue' \in [Envs -> SUBSET Buffers]
      <4>1. gcQueue \in [Envs -> SUBSET Buffers] /\ drop[a].of \in Buffers
        BY DEF GcTypeOK
      <4>2. QED
        BY <2>1, <4>1
    <3>6. QED
      BY <2>1, <3>1, <3>2, <3>3, <3>4, <3>5 DEF GcTypeOK
<1>17. ASSUME NEW a \in Actors, DropLeave(a)
      PROVE  GcTypeOK'
  BY <1>17, <1>a DEF DropLeave
<1>18. ASSUME NEW e \in Envs, NEW b \in Buffers, CustomGc(e, b)
      PROVE  GcTypeOK'
  <2>1. Wrong(e, b) \subseteq {"foreign", "double", "envgone"}
    BY DEF Wrong
  <2>2. mem' \in [Buffers -> {"none", "live", "freed"}] /\ gcQueue' \in [Envs -> SUBSET Buffers]
    BY <1>18 DEF CustomGc
  <2>3. misuse' \subseteq {"foreign", "double", "envgone", "nullenv", "lategc", "racedgc"}
    BY <1>18, <2>1 DEF CustomGc
  <2>4. QED
    BY <1>18, <2>2, <2>3 DEF CustomGc
<1>19. CASE UNCHANGED bufferGcVars
  BY <1>19 DEF bufferGcVars
<1> HIDE DEF GcTypeOK, BufKinds, regVars, gcVars, bufVars, dropVars
<1>20. QED
  BY <1>1, <1>2, <1>3, <1>4, <1>5, <1>6, <1>7, <1>8, <1>9, <1>10, <1>11, <1>12, <1>13,
     <1>14, <1>15, <1>16, <1>17, <1>18, <1>19, <1>w
  DEF GcNext, RegisterStep, DropBuffer

\* A registration, its custom GC and the end of its environment go in that order.
LEMMA StepReg ==
    GcTypeOK /\ GcInv /\ [GcNext]_bufferGcVars =>
        (\A e \in Envs : RegInv(e)') /\ (\A w \in Workers : access'[w] = "absent")
<1> SUFFICES ASSUME GcTypeOK, GcInv, [GcNext]_bufferGcVars
             PROVE  (\A u \in Envs : RegInv(u)') /\ \A w \in Workers : access'[w] = "absent"
  OBVIOUS
<1>a. (\A u \in Envs : RegInv(u)) /\ \A w \in Workers : access[w] = "absent"
  BY DEF GcInv
<1>b. Envs \subseteq Actors /\ Workers \subseteq Actors /\ (\A u \in Envs : u \notin Workers)
      /\ NoEnv \notin Envs
  BY GcAssumption DEF Actors
<1> DEFINE Goal == (\A u \in Envs : RegInv(u)') /\ \A w \in Workers : access'[w] = "absent"
<1> USE <1>a, <1>b DEF GcTypeOK, RegInv, regVars, gcVars, bufVars, dropVars
<1>1. ASSUME NEW e \in Envs, RegisterLoad(e)
      PROVE  Goal
  BY <1>1 DEF RegisterLoad
<1>2. ASSUME NEW e \in Envs, RegisterFirst(e)
      PROVE  Goal
  BY <1>2 DEF RegisterFirst
<1>3. ASSUME NEW e \in Envs, RegisterWait(e)
      PROVE  Goal
  BY <1>3 DEF RegisterWait
<1>4. ASSUME NEW e \in Envs, CreateGcCheck(e)
      PROVE  Goal
  BY <1>4 DEF CreateGcCheck
<1>5. ASSUME NEW e \in Envs, CreateGc(e)
      PROVE  Goal
  BY <1>5 DEF CreateGc
<1>6. ASSUME NEW e \in Envs, GrantAccess(e)
      PROVE  Goal
  BY <1>6 DEF GrantAccess
<1>7. ASSUME NEW e \in Envs, RemoveThreadId(e)
      PROVE  Goal
  BY <1>7 DEF RemoveThreadId
<1>8. ASSUME NEW e \in Envs, FinalizeGc(e)
      PROVE  Goal
  <2>1. ASSUME NEW u \in Envs, u # e PROVE RegInv(u)'
    BY <1>8, <2>1 DEF FinalizeGc
  <2>2. RegInv(e)'
    <3>1. /\ reg'[e] = "closed" /\ gcQueue'[e] = {} /\ access' = access /\ reg[e] = "closing"
          /\ gc'[e] = (IF gc[e] = "closing" THEN "freed" ELSE gc[e])
          /\ destroyed' = (destroyed \/ gc[e] = "closing") /\ firsts' = firsts
      BY <1>8 DEF FinalizeGc
    <3>2. RegInv(e)
      BY <1>a
    <3>3. QED
      BY <3>1, <3>2
  <2>3. QED
    BY <1>8, <2>1, <2>2 DEF FinalizeGc
<1>9. ASSUME NEW b \in Buffers, NEW a \in Actors, NEW k \in BufKinds, CreateBuffer(b, a, k)
      PROVE  Goal
  BY <1>9 DEF CreateBuffer
<1>10. ASSUME NEW b \in Buffers, NEW a \in Actors, NEW c \in Actors, CloneTo(b, a, c)
      PROVE  Goal
  BY <1>10 DEF CloneTo
<1>11. ASSUME NEW b \in Buffers, NEW e \in Envs, ReferenceToJs(b, e)
      PROVE  Goal
  BY <1>11 DEF ReferenceToJs
<1>12. ASSUME NEW b \in Buffers, NEW e \in Envs, NEW v \in BOOLEAN, DataToJs(b, e, v)
      PROVE  Goal
  BY <1>12 DEF DataToJs
<1>13. ASSUME NEW a \in Actors, NEW b \in Buffers, NEW h \in Handles, Drops(a, b, h)
      PROVE  Goal
  BY <1>13 DEF Drops, DropBegins
<1>r. ASSUME NEW a \in Actors, NEW b \in Buffers, NEW h \in Handles, DropRead(a, b, h)
      PROVE  Goal
  BY <1>r, <1>13, ReadDrops
<1>w. ASSUME NEW b \in Buffers, NEW e \in Envs, NEW v \in BOOLEAN, DataCopied(b, e, v)
      PROVE  Goal
  <2>1. CASE v
    <3>1. e \in Actors /\ e \in Handles
      BY DEF Actors, Handles
    <3>2. Drops(e, b, e)
      BY <1>w, <2>1, CopyDrops
    <3>3. QED
      BY <3>1, <3>2, <1>13
  <2>2. CASE ~v
    BY <1>w, <2>2 DEF DataCopied
  <2>3. QED
    BY <2>1, <2>2
<1>14. ASSUME NEW a \in Actors, DropData(a)
      PROVE  Goal
  BY <1>14 DEF DropData
<1>15. ASSUME NEW a \in Actors, DropShared(a)
      PROVE  Goal
  BY <1>15 DEF DropShared
<1>16. ASSUME NEW a \in Actors, DropSend(a)
      PROVE  Goal
  <2> HIDE DEF GcTypeOK, RegInv
  <2>1. /\ \/ gcQueue' = gcQueue
           \/ gcQueue' = [gcQueue EXCEPT ![gcTsfn] = @ \union {drop[a].of}] /\ gc[gcTsfn] = "live"
        /\ UNCHANGED <<reg, firsts, registered, gc, destroyed, access>>
    BY <1>16 DEF DropSend
  <2>2. ASSUME NEW d \in Envs
        PROVE  RegInv(d)'
    <3>1. RegInv(d)
      BY <1>a
    <3>2. gcQueue'[d] # {} => gcQueue[d] # {} \/ gc[d] = "live"
      BY <2>1 DEF GcTypeOK
    <3>3. QED
      BY <2>1, <3>1, <3>2 DEF RegInv
  <2>3. QED
    BY <2>1, <2>2, <1>a
<1>17. ASSUME NEW a \in Actors, DropLeave(a)
      PROVE  Goal
  BY <1>17 DEF DropLeave
<1>18. ASSUME NEW e \in Envs, NEW b \in Buffers, CustomGc(e, b)
      PROVE  Goal
  BY <1>18 DEF CustomGc
<1>19. CASE UNCHANGED bufferGcVars
  BY <1>19 DEF bufferGcVars
<1>20. QED
  BY <1>1, <1>2, <1>3, <1>4, <1>5, <1>6, <1>7, <1>8, <1>9, <1>10, <1>11, <1>12, <1>13,
     <1>14, <1>15, <1>16, <1>17, <1>18, <1>19, <1>r, <1>w
  DEF GcNext, RegisterStep, DropBuffer

\* What is used after its time is used by a drop that raced the custom GC's end.
LEMMA StepMisuse == GcTypeOK /\ GcInv /\ [GcNext]_bufferGcVars => misuse' \subseteq {"racedgc"}
<1> SUFFICES ASSUME GcTypeOK, GcInv, [GcNext]_bufferGcVars PROVE misuse' \subseteq {"racedgc"}
  OBVIOUS
<1>a. misuse \subseteq {"racedgc"}
  BY DEF GcInv
<1>b. Envs \subseteq Actors /\ (\A e \in Envs : e \notin Workers) /\ Actors = Envs \union Workers
  BY GcAssumption DEF Actors
<1>c. \A e \in Envs : RegInv(e)
  BY DEF GcInv
<1>d. ASSUME NEW d \in Envs, reg[d] = "closed", ~destroyed PROVE ~Collects(d)
  BY <1>c, <1>d DEF RegInv, GcTypeOK, Collects
<1> USE <1>a DEF regVars, gcVars, bufVars, dropVars
<1>1. ASSUME NEW e \in Envs, RegisterLoad(e)
      PROVE  misuse' \subseteq {"racedgc"}
  BY <1>1 DEF RegisterLoad
<1>2. ASSUME NEW e \in Envs, RegisterFirst(e)
      PROVE  misuse' \subseteq {"racedgc"}
  BY <1>2 DEF RegisterFirst
<1>3. ASSUME NEW e \in Envs, RegisterWait(e)
      PROVE  misuse' \subseteq {"racedgc"}
  BY <1>3 DEF RegisterWait
<1>4. ASSUME NEW e \in Envs, CreateGcCheck(e)
      PROVE  misuse' \subseteq {"racedgc"}
  BY <1>4 DEF CreateGcCheck
<1>5. ASSUME NEW e \in Envs, CreateGc(e)
      PROVE  misuse' \subseteq {"racedgc"}
  BY <1>5 DEF CreateGc
<1>6. ASSUME NEW e \in Envs, GrantAccess(e)
      PROVE  misuse' \subseteq {"racedgc"}
  BY <1>6 DEF GrantAccess
<1>7. ASSUME NEW e \in Envs, RemoveThreadId(e)
      PROVE  misuse' \subseteq {"racedgc"}
  BY <1>7 DEF RemoveThreadId
<1>8. ASSUME NEW e \in Envs, FinalizeGc(e)
      PROVE  misuse' \subseteq {"racedgc"}
  BY <1>8, <1>c DEF FinalizeGc, Skips, RegInv
<1>9. ASSUME NEW b \in Buffers, NEW a \in Actors, NEW k \in BufKinds, CreateBuffer(b, a, k)
      PROVE  misuse' \subseteq {"racedgc"}
  BY <1>9 DEF CreateBuffer
<1>10. ASSUME NEW b \in Buffers, NEW a \in Actors, NEW c \in Actors, CloneTo(b, a, c)
      PROVE  misuse' \subseteq {"racedgc"}
  BY <1>10 DEF CloneTo
<1>11. ASSUME NEW b \in Buffers, NEW e \in Envs, ReferenceToJs(b, e)
      PROVE  misuse' \subseteq {"racedgc"}
  BY <1>11 DEF ReferenceToJs
<1>12. ASSUME NEW b \in Buffers, NEW e \in Envs, NEW v \in BOOLEAN, DataToJs(b, e, v)
      PROVE  misuse' \subseteq {"racedgc"}
  BY <1>12 DEF DataToJs
<1>13. ASSUME NEW a \in Actors, NEW b \in Buffers, NEW h \in Handles, Drops(a, b, h)
      PROVE  misuse' \subseteq {"racedgc"}
  BY <1>13 DEF Drops, DropBegins
<1>r. ASSUME NEW a \in Actors, NEW b \in Buffers, NEW h \in Handles, DropRead(a, b, h)
      PROVE  misuse' \subseteq {"racedgc"}
  BY <1>r, <1>13, ReadDrops
<1>w. ASSUME NEW b \in Buffers, NEW e \in Envs, NEW v \in BOOLEAN, DataCopied(b, e, v)
      PROVE  misuse' \subseteq {"racedgc"}
  <2>1. CASE v
    <3>1. e \in Actors /\ e \in Handles
      BY DEF Actors, Handles
    <3>2. Drops(e, b, e)
      BY <1>w, <2>1, CopyDrops
    <3>3. QED
      BY <3>1, <3>2, <1>13
  <2>2. CASE ~v
    BY <1>w, <2>2 DEF DataCopied
  <2>3. QED
    BY <2>1, <2>2
<1>14. ASSUME NEW a \in Actors, DropData(a)
      PROVE  misuse' \subseteq {"racedgc"}
  BY <1>14 DEF DropData, GcInv, DropInv
<1>15. ASSUME NEW a \in Actors, DropShared(a)
      PROVE  misuse' \subseteq {"racedgc"}
  <2>1. CASE GivesUp \/ Delegates(a)
    BY <1>15, <2>1 DEF DropShared
  <2>2. CASE ~GivesUp /\ ~Delegates(a)
    <3>1. a \in Envs
      BY <2>2, <1>b DEF Delegates, GcInv
    <3>2. drop[a].of \in Buffers /\ mem[drop[a].of] = "live" /\ bkind[drop[a].of] = "reference"
      BY <1>15 DEF DropShared, GcInv, DropInv, GcTypeOK
    <3>3. home[drop[a].of] \in Envs
      BY <3>2 DEF GcInv, BufInv
    <3>4. Wrong(a, drop[a].of) = {}
      BY <3>1, <3>2, <3>3, <2>2, <1>b, <1>d DEF Wrong, GivesUp
    <3>5. QED
      BY <1>15, <2>2, <3>4 DEF DropShared
  <2>3. QED
    BY <2>1, <2>2
<1>16. ASSUME NEW a \in Actors, DropSend(a)
      PROVE  misuse' \subseteq {"racedgc"}
  BY <1>16 DEF DropSend, GcInv, DropInv
<1>17. ASSUME NEW a \in Actors, DropLeave(a)
      PROVE  misuse' \subseteq {"racedgc"}
  BY <1>17 DEF DropLeave
<1>18. ASSUME NEW e \in Envs, NEW b \in Buffers, CustomGc(e, b)
      PROVE  misuse' \subseteq {"racedgc"}
  <2>1. mem[b] = "live" /\ home[b] \in Envs
    BY <1>18 DEF CustomGc, GcInv, BufInv, Queued
  <2>2. ~(reg[home[b]] = "closed" /\ Collects(home[b]))
    BY <1>18, <2>1 DEF CustomGc, Collects
  <2>3. Wrong(e, b) = {}
    BY <2>1, <2>2, <1>b DEF Wrong
  <2>4. QED
    BY <1>18, <2>3 DEF CustomGc
<1>19. CASE UNCHANGED bufferGcVars
  BY <1>19 DEF bufferGcVars
<1>20. QED
  BY <1>1, <1>2, <1>3, <1>4, <1>5, <1>6, <1>7, <1>8, <1>9, <1>10, <1>11, <1>12, <1>13,
     <1>14, <1>15, <1>16, <1>17, <1>18, <1>19, <1>r, <1>w
  DEF GcNext, RegisterStep, DropBuffer

\* A drop keeps what it has read: its own steps pass it on, the others' leave it alone.
LEMMA StepDrops == GcTypeOK /\ GcInv /\ [GcNext]_bufferGcVars => \A a \in Actors : DropInv(a)'
<1> SUFFICES ASSUME GcTypeOK, GcInv, [GcNext]_bufferGcVars, NEW u \in Actors PROVE DropInv(u)'
  OBVIOUS
<1>a. DropInv(u) /\ DropsDiffer /\ JS \notin Actors
  BY GcAssumption DEF GcInv
<1>b. drop[u].of \in Buffers /\ drop[u].handle \in Handles
  BY DEF GcTypeOK
<1>c. BufInv(drop[u].of)
  BY <1>b DEF GcInv
<1>d. Envs \subseteq Actors
  BY DEF Actors
<1> USE <1>a, <1>b, <1>c DEF GcTypeOK, DropInv, Settled, Queued, regVars, gcVars, bufVars, dropVars
<1>1. ASSUME NEW e \in Envs, RegisterLoad(e)
      PROVE  DropInv(u)'
  BY <1>1 DEF RegisterLoad
<1>2. ASSUME NEW e \in Envs, RegisterFirst(e)
      PROVE  DropInv(u)'
  BY <1>2 DEF RegisterFirst
<1>3. ASSUME NEW e \in Envs, RegisterWait(e)
      PROVE  DropInv(u)'
  BY <1>3 DEF RegisterWait
<1>4. ASSUME NEW e \in Envs, CreateGcCheck(e)
      PROVE  DropInv(u)'
  BY <1>4 DEF CreateGcCheck
<1>5. ASSUME NEW e \in Envs, CreateGc(e)
      PROVE  DropInv(u)'
  BY <1>5 DEF CreateGc
<1>6. ASSUME NEW e \in Envs, GrantAccess(e)
      PROVE  DropInv(u)'
  BY <1>6 DEF GrantAccess
<1>7. ASSUME NEW e \in Envs, RemoveThreadId(e)
      PROVE  DropInv(u)'
  BY <1>7 DEF RemoveThreadId
<1>8. ASSUME NEW e \in Envs, FinalizeGc(e)
      PROVE  DropInv(u)'
  BY <1>8 DEF FinalizeGc
<1>9. ASSUME NEW b \in Buffers, NEW a \in Actors, NEW k \in BufKinds, CreateBuffer(b, a, k)
      PROVE  DropInv(u)'
  <2>1. dpc[u] # "idle" => drop[u].of # b
    BY <1>9 DEF CreateBuffer, BufInv
  <2>2. dpc[u] # "idle" => holders'[drop[u].of] = holders[drop[u].of]
                            /\ mem'[drop[u].of] = mem[drop[u].of]
                               /\ bkind'[drop[u].of] = bkind[drop[u].of]
    BY <1>9, <2>1 DEF CreateBuffer
  <2>3. QED
    BY <1>9, <2>2 DEF CreateBuffer
<1>10. ASSUME NEW b \in Buffers, NEW a \in Actors, NEW c \in Actors, CloneTo(b, a, c)
      PROVE  DropInv(u)'
  BY <1>10 DEF CloneTo
<1>11. ASSUME NEW b \in Buffers, NEW e \in Envs, ReferenceToJs(b, e)
      PROVE  DropInv(u)'
  <2>1. dpc[u] # "idle" => drop[u].of # b
    BY <1>11, <1>d DEF ReferenceToJs
  <2>2. dpc[u] # "idle" => holders'[drop[u].of] = holders[drop[u].of]
                            /\ mem'[drop[u].of] = mem[drop[u].of]
    BY <1>11, <2>1 DEF ReferenceToJs
  <2>3. QED
    BY <1>11, <2>2 DEF ReferenceToJs
<1>12. ASSUME NEW b \in Buffers, NEW e \in Envs, NEW v \in BOOLEAN, DataToJs(b, e, v)
      PROVE  DropInv(u)'
  BY <1>12 DEF DataToJs
<1>13. ASSUME NEW a \in Actors, NEW b \in Buffers, NEW h \in Handles, Drops(a, b, h)
      PROVE  DropInv(u)'
  <2>1. /\ dpc' = [dpc EXCEPT ![a] = IF Sole(b) THEN "sole" ELSE "leave"]
        /\ drop' = [drop EXCEPT ![a] = [of |-> b, handle |-> h, late |-> destroyed]]
        /\ overlapped \subseteq overlapped'
        /\ UNCHANGED <<regVars, gcVars, bkind, home, holders, mem, unreleased, misuse>>
        /\ h \in holders[b] /\ h \in {a, JS}
        /\ \A c \in Actors : dpc[c] # "idle" => drop[c].of # b \/ drop[c].handle # h
    BY <1>13 DEF Drops, DropBegins
  <2>2. CASE u # a
    BY <2>1, <2>2
  <2>3. CASE u = a
    <3> HIDE DEF GcTypeOK, DropInv, Settled, Queued, regVars, gcVars, bufVars, dropVars
    <3>1. BufInv(b)
      BY DEF GcInv
    <3>2. mem[b] # "freed" /\ mem[b] # "none" /\ ~Queued(b)
      BY <3>1, <2>1 DEF BufInv
    <3>3. mem[b] = "live"
      BY <3>2 DEF GcTypeOK
    <3>4. CASE Sole(b)
      <4>1. holders[b] = {h}
        BY <3>4, <3>1, <2>1, FS_Singleton DEF Sole, BufInv
      <4>2. dpc'[u] = "sole" /\ drop'[u] = [of |-> b, handle |-> h, late |-> destroyed]
        BY <2>1, <2>3, <3>4 DEF GcTypeOK
      <4>3. QED
        BY <2>1, <2>3, <3>2, <3>3, <4>1, <4>2 DEF DropInv, Queued, gcVars, bufVars
    <3>5. CASE ~Sole(b)
      <4>1. \E k \in holders[b] : k # h
        <5>1. SUFFICES ASSUME holders[b] = {h} PROVE FALSE
          BY <2>1
        <5>2. QED
          BY <5>1, <3>5, FS_Singleton DEF Sole
      <4>2. dpc'[u] = "leave" /\ drop'[u] = [of |-> b, handle |-> h, late |-> destroyed]
        BY <2>1, <2>3, <3>5 DEF GcTypeOK
      <4>3. QED
        BY <2>1, <2>3, <4>1, <4>2 DEF DropInv, gcVars, bufVars
    <3>6. QED
      BY <3>4, <3>5
  <2>4. QED
    BY <2>2, <2>3
<1>r. ASSUME NEW a \in Actors, NEW b \in Buffers, NEW h \in Handles, DropRead(a, b, h)
      PROVE  DropInv(u)'
  BY <1>r, <1>13, ReadDrops
<1>w. ASSUME NEW b \in Buffers, NEW e \in Envs, NEW v \in BOOLEAN, DataCopied(b, e, v)
      PROVE  DropInv(u)'
  <2>1. CASE v
    <3>1. e \in Actors /\ e \in Handles
      BY DEF Actors, Handles
    <3>2. Drops(e, b, e)
      BY <1>w, <2>1, CopyDrops
    <3>3. QED
      BY <3>1, <3>2, <1>13
  <2>2. CASE ~v
    BY <1>w, <2>2 DEF DataCopied
  <2>3. QED
    BY <2>1, <2>2
<1>14. ASSUME NEW a \in Actors, DropData(a)
      PROVE  DropInv(u)'
  <2>1. /\ \/ mem' = mem /\ unreleased' = [unreleased EXCEPT ![drop[a].of] = "vm"]
           \/ mem' = [mem EXCEPT ![drop[a].of] = "freed"] /\ unreleased' = unreleased
        /\ dpc[a] = "sole" /\ dpc' = [dpc EXCEPT ![a] = "leave"]
        /\ UNCHANGED <<regVars, gcVars, bkind, home, holders, inVm, lent, drop, overlapped>>
    BY <1>14 DEF DropData
  <2>2. CASE u # a
    <3>1. DropInv(a)
      BY DEF GcInv
    <3>2. dpc[u] # "idle" => drop[u].of # drop[a].of
      BY <2>1, <2>2, <3>1 DEF DropsDiffer
    <3>3. dpc[u] # "idle" => mem'[drop[u].of] = mem[drop[u].of]
          /\ unreleased'[drop[u].of] = unreleased[drop[u].of]
      BY <2>1, <3>2
    <3>4. QED
      BY <2>1, <2>2, <3>3
  <2>3. CASE u = a
    <3>1. mem'[drop[u].of] = "freed" \/ unreleased'[drop[u].of] # "no"
      BY <2>1, <2>3
    <3>2. QED
      BY <2>1, <2>3, <3>1
  <2>4. QED
    BY <2>2, <2>3
<1>15. ASSUME NEW a \in Actors, DropShared(a)
      PROVE  DropInv(u)'
  <2>1. /\ \/ /\ mem' = mem /\ unreleased' = [unreleased EXCEPT ![drop[a].of] = "destroyed"]
              /\ dpc' = [dpc EXCEPT ![a] = "leave"]
           \/ /\ mem' = [mem EXCEPT ![drop[a].of] = "freed"] /\ unreleased' = unreleased
              /\ dpc' = [dpc EXCEPT ![a] = "leave"]
           \/ /\ mem' = mem /\ unreleased' = unreleased /\ dpc' = [dpc EXCEPT ![a] = "send"]
              /\ ~destroyed
        /\ dpc[a] = "sole" /\ bkind[drop[a].of] = "reference"
        /\ UNCHANGED <<regVars, gcVars, bkind, home, holders, inVm, lent, drop, overlapped>>
    BY <1>15 DEF DropShared, GivesUp
  <2>2. CASE u # a
    <3>1. DropInv(a)
      BY DEF GcInv
    <3>2. dpc[u] # "idle" => drop[u].of # drop[a].of
      BY <2>1, <2>2, <3>1 DEF DropsDiffer
    <3>3. dpc[u] # "idle" => mem'[drop[u].of] = mem[drop[u].of]
          /\ unreleased'[drop[u].of] = unreleased[drop[u].of]
      BY <2>1, <3>2
    <3>4. QED
      BY <2>1, <2>2, <3>3
  <2>3. CASE u = a
    <3>1. CASE dpc'[u] = "leave"
      <4>1. mem'[drop[u].of] = "freed" \/ unreleased'[drop[u].of] # "no"
        BY <2>1, <2>3, <3>1
      <4>2. QED
        BY <2>1, <2>3, <3>1, <4>1
    <3>2. CASE dpc'[u] # "leave"
      BY <2>1, <2>3, <3>2
    <3>3. QED
      BY <3>1, <3>2
  <2>4. QED
    BY <2>2, <2>3
<1>16. ASSUME NEW a \in Actors, DropSend(a)
      PROVE  DropInv(u)'
  <2>1. /\ \/ /\ gcTsfn \in Envs /\ unreleased' = unreleased
              /\ gcQueue' = [gcQueue EXCEPT ![gcTsfn] = @ \union {drop[a].of}]
           \/ gcQueue' = gcQueue /\ unreleased' = [unreleased EXCEPT ![drop[a].of] = "closing"]
           \/ gcQueue' = gcQueue /\ unreleased' = [unreleased EXCEPT ![drop[a].of] = "panic"]
        /\ dpc[a] = "send" /\ dpc' = [dpc EXCEPT ![a] = "leave"]
        /\ UNCHANGED <<regVars, gcTsfn, gc, destroyed, bufVars, drop, overlapped>>
    BY <1>16 DEF DropSend
  <2>2. CASE u # a
    <3>1. DropInv(a)
      BY DEF GcInv
    <3>2. dpc[u] # "idle" => drop[u].of # drop[a].of
      BY <2>1, <2>2, <3>1 DEF DropsDiffer
    <3>3. dpc[u] # "idle" => unreleased'[drop[u].of] = unreleased[drop[u].of]
      BY <2>1, <3>2
    <3>4. ASSUME dpc[u] # "idle", NEW e \in Envs
          PROVE  drop[u].of \in gcQueue'[e] <=> drop[u].of \in gcQueue[e]
      <4>1. gcQueue'[e] = gcQueue[e] \/ gcQueue'[e] = gcQueue[e] \union {drop[a].of}
        BY <2>1
      <4>2. QED
        BY <4>1, <3>2, <3>4
    <3>5. QED
      BY <2>1, <2>2, <3>3, <3>4
  <2>3. CASE u = a
    <3>1. (\E e \in Envs : drop[u].of \in gcQueue'[e]) \/ unreleased'[drop[u].of] # "no"
      BY <2>1, <2>3
    <3>2. QED
      BY <2>1, <2>3, <3>1
  <2>4. QED
    BY <2>2, <2>3
<1>17. ASSUME NEW a \in Actors, DropLeave(a)
      PROVE  DropInv(u)'
  <2>1. CASE u = a
    BY <1>17, <2>1 DEF DropLeave
  <2>2. CASE u # a
    <3>1. DropInv(a) /\ drop[a].of \in Buffers
      BY DEF GcInv
    <3>2. CASE dpc[u] # "idle" /\ drop[u].of = drop[a].of
      <4>1. drop[u].of \in overlapped /\ drop[a].handle # drop[u].handle
        BY <1>17, <2>2, <3>2 DEF DropsDiffer, DropLeave
      <4>2. dpc[u] = "leave"
        BY <1>17, <3>1, <3>2, <4>1 DEF DropLeave
      <4>3. holders' = [holders EXCEPT ![drop[a].of] = @ \ {drop[a].handle}]
            /\ dpc'[u] = dpc[u] /\ drop'[u] = drop[u]
        BY <1>17, <2>2 DEF DropLeave
      <4>4. drop[u].handle \in holders'[drop[u].of]
        BY <3>1, <3>2, <4>1, <4>3
      <4>5. QED
        BY <1>17, <4>1, <4>2, <4>3, <4>4 DEF DropLeave
    <3>3. CASE dpc[u] = "idle" \/ drop[u].of # drop[a].of
      BY <1>17, <2>2, <3>3 DEF DropLeave
    <3>4. QED
      BY <3>2, <3>3
  <2>3. QED
    BY <2>1, <2>2
<1>18. ASSUME NEW e \in Envs, NEW b \in Buffers, CustomGc(e, b)
      PROVE  DropInv(u)'
  <2>1. RegInv(e) /\ ~Skips(e)
    BY <1>18 DEF CustomGc, GcInv, RegInv, Skips
  <2>2. mem' = [mem EXCEPT ![b] = "freed"] /\ gcQueue' = [gcQueue EXCEPT ![e] = @ \ {b}]
        /\ b \in gcQueue[e]
        /\ UNCHANGED <<regVars, gcTsfn, gc, destroyed, bkind, home, holders, inVm, lent, dpc, drop,
               overlapped, unreleased>>
    BY <1>18, <2>1 DEF CustomGc
  <2>3. CASE drop[u].of = b
    <3>1. mem'[b] = "freed" /\ (dpc[u] # "idle" => dpc[u] = "leave")
      BY <2>2, <2>3
    <3>2. QED
      BY <2>2, <2>3, <3>1
  <2>4. CASE drop[u].of # b
    <3>1. mem'[drop[u].of] = mem[drop[u].of]
          /\ \A d \in Envs : drop[u].of \in gcQueue'[d] <=> drop[u].of \in gcQueue[d]
      BY <2>2, <2>4
    <3>2. QED
      BY <2>2, <3>1
  <2>5. QED
    BY <2>3, <2>4
<1>19. CASE UNCHANGED bufferGcVars
  <2>1. UNCHANGED <<dpc, drop, destroyed, mem, bkind, holders, gcQueue, unreleased, overlapped>>
    BY <1>19 DEF bufferGcVars
  <2>2. QED
    BY <2>1
<1> HIDE DEF GcTypeOK, DropInv, Settled, Queued, regVars, gcVars, bufVars, dropVars
<1>20. QED
  BY <1>1, <1>2, <1>3, <1>4, <1>5, <1>6, <1>7, <1>8, <1>9, <1>10, <1>11, <1>12, <1>13,
     <1>14, <1>15, <1>16, <1>17, <1>18, <1>19, <1>r, <1>w
  DEF GcNext, RegisterStep, DropBuffer

\* A drop that begins while another of the same buffer is under way marks the buffer.
LEMMA StepDiffer == GcTypeOK /\ GcInv /\ [GcNext]_bufferGcVars => DropsDiffer'
<1> SUFFICES ASSUME GcTypeOK, GcInv, [GcNext]_bufferGcVars,
                    NEW u \in Actors, NEW v \in Actors, u # v,
                    dpc'[u] # "idle", dpc'[v] # "idle", drop'[u].of = drop'[v].of
             PROVE  drop'[u].handle # drop'[v].handle /\ drop'[u].of \in overlapped'
  BY DEF DropsDiffer
<1> DEFINE Goal == drop'[u].handle # drop'[v].handle /\ drop'[u].of \in overlapped'
<1>a. DropsDiffer /\ dpc \in [Actors -> {"idle", "sole", "send", "leave"}]
      /\ drop \in [Actors -> [of : Buffers, handle : Handles, late : BOOLEAN]]
  BY DEF GcInv, GcTypeOK
<1>b. Envs \subseteq Actors
  BY DEF Actors
<1> USE <1>a DEF DropsDiffer, regVars, gcVars, bufVars, dropVars
<1>1. ASSUME NEW e \in Envs, RegisterLoad(e)
      PROVE  Goal
  BY <1>1 DEF RegisterLoad
<1>2. ASSUME NEW e \in Envs, RegisterFirst(e)
      PROVE  Goal
  BY <1>2 DEF RegisterFirst
<1>3. ASSUME NEW e \in Envs, RegisterWait(e)
      PROVE  Goal
  BY <1>3 DEF RegisterWait
<1>4. ASSUME NEW e \in Envs, CreateGcCheck(e)
      PROVE  Goal
  BY <1>4 DEF CreateGcCheck
<1>5. ASSUME NEW e \in Envs, CreateGc(e)
      PROVE  Goal
  BY <1>5 DEF CreateGc
<1>6. ASSUME NEW e \in Envs, GrantAccess(e)
      PROVE  Goal
  BY <1>6 DEF GrantAccess
<1>7. ASSUME NEW e \in Envs, RemoveThreadId(e)
      PROVE  Goal
  BY <1>7 DEF RemoveThreadId
<1>8. ASSUME NEW e \in Envs, FinalizeGc(e)
      PROVE  Goal
  BY <1>8 DEF FinalizeGc
<1>9. ASSUME NEW b \in Buffers, NEW a \in Actors, NEW k \in BufKinds, CreateBuffer(b, a, k)
      PROVE  Goal
  BY <1>9 DEF CreateBuffer
<1>10. ASSUME NEW b \in Buffers, NEW a \in Actors, NEW c \in Actors, CloneTo(b, a, c)
      PROVE  Goal
  BY <1>10 DEF CloneTo
<1>11. ASSUME NEW b \in Buffers, NEW e \in Envs, ReferenceToJs(b, e)
      PROVE  Goal
  BY <1>11 DEF ReferenceToJs
<1>12. ASSUME NEW b \in Buffers, NEW e \in Envs, NEW vm \in BOOLEAN, DataToJs(b, e, vm)
      PROVE  Goal
  BY <1>12 DEF DataToJs
<1>13. ASSUME NEW a \in Actors, NEW b \in Buffers, NEW h \in Handles, Drops(a, b, h)
      PROVE  Goal
  <2>1. /\ dpc'[a] # "idle" /\ drop'[a].of = b /\ drop'[a].handle = h
        /\ \A c \in Actors : c # a => dpc'[c] = dpc[c] /\ drop'[c] = drop[c]
        /\ \A c \in Actors : dpc[c] # "idle" => drop[c].of # b \/ drop[c].handle # h
        /\ (\E c \in Actors : dpc[c] # "idle" /\ drop[c].of = b) => b \in overlapped'
        /\ overlapped \subseteq overlapped'
    BY <1>13 DEF Drops, DropBegins
  <2>2. QED
    BY <2>1
<1>r. ASSUME NEW a \in Actors, NEW b \in Buffers, NEW h \in Handles, DropRead(a, b, h)
      PROVE  Goal
  BY <1>r, <1>13, ReadDrops
<1>w. ASSUME NEW b \in Buffers, NEW e \in Envs, NEW vm \in BOOLEAN, DataCopied(b, e, vm)
      PROVE  Goal
  <2>1. CASE vm
    <3>1. e \in Actors /\ e \in Handles
      BY DEF Actors, Handles
    <3>2. Drops(e, b, e)
      BY <1>w, <2>1, CopyDrops
    <3>3. QED
      BY <3>1, <3>2, <1>13
  <2>2. CASE ~vm
    BY <1>w, <2>2 DEF DataCopied
  <2>3. QED
    BY <2>1, <2>2
<1>14. ASSUME NEW a \in Actors, DropData(a)
      PROVE  Goal
  <2>1. (\A c \in Actors : dpc'[c] # "idle" => dpc[c] # "idle") /\ UNCHANGED <<drop, overlapped>>
    BY <1>14 DEF DropData
  <2>2. QED
    BY <2>1
<1>15. ASSUME NEW a \in Actors, DropShared(a)
      PROVE  Goal
  <2>1. (\A c \in Actors : dpc'[c] # "idle" => dpc[c] # "idle") /\ UNCHANGED <<drop, overlapped>>
    BY <1>15 DEF DropShared
  <2>2. QED
    BY <2>1
<1>16. ASSUME NEW a \in Actors, DropSend(a)
      PROVE  Goal
  <2>1. (\A c \in Actors : dpc'[c] # "idle" => dpc[c] # "idle") /\ UNCHANGED <<drop, overlapped>>
    BY <1>16 DEF DropSend
  <2>2. QED
    BY <2>1
<1>17. ASSUME NEW a \in Actors, DropLeave(a)
      PROVE  Goal
  BY <1>17 DEF DropLeave
<1>18. ASSUME NEW e \in Envs, NEW b \in Buffers, CustomGc(e, b)
      PROVE  Goal
  BY <1>18 DEF CustomGc
<1>19. CASE UNCHANGED bufferGcVars
  BY <1>19 DEF bufferGcVars
<1>20. QED
  BY <1>1, <1>2, <1>3, <1>4, <1>5, <1>6, <1>7, <1>8, <1>9, <1>10, <1>11, <1>12, <1>13,
     <1>14, <1>15, <1>16, <1>17, <1>18, <1>19, <1>r, <1>w
  DEF GcNext, RegisterStep, DropBuffer

\* A buffer's memory, its handles and the queue it is in change together.
LEMMA StepBuffers == GcTypeOK /\ GcInv /\ [GcNext]_bufferGcVars => \A b \in Buffers : BufInv(b)'
<1> SUFFICES ASSUME GcTypeOK, GcInv, [GcNext]_bufferGcVars, NEW m \in Buffers PROVE BufInv(m)'
  OBVIOUS
<1>a. BufInv(m) /\ JS \notin Actors
  BY GcAssumption DEF GcInv
<1>b. Envs \subseteq Actors
  BY DEF Actors
<1>e. IsFiniteSet(holders[m])
  BY <1>a DEF BufInv
<1>f. /\ \A x : IsFiniteSet(holders[m] \union {x})
      /\ \A x : IsFiniteSet({x})
  BY <1>e, FS_AddElement, FS_Singleton
<1>g. \A x, y : IsFiniteSet((holders[m] \ {x}) \union {y})
  <2>1. \A x : IsFiniteSet(holders[m] \ {x})
    BY <1>e, FS_RemoveElement
  <2>2. QED
    BY <2>1, FS_AddElement
<1>i. ASSUME NEW b \in Buffers, NEW a \in Actors, dpc[a] = "idle", a \in holders[b]
      PROVE  ~(mem[b] = "freed" \/ Queued(b))
  <2>1. \A c \in Actors : dpc[c] = "leave" => drop[c].handle \in {c, JS}
    BY DEF GcInv, DropInv
  <2>2. \A c \in Actors : ~(dpc[c] = "leave" /\ drop[c].of = b /\ drop[c].handle = a)
    BY <1>a, <1>i, <2>1
  <2>3. QED
    BY <1>i, <2>2 DEF GcInv, BufInv
<1> USE <1>a DEF GcTypeOK, BufInv, Settled, Queued, regVars, gcVars, bufVars, dropVars
<1>1. ASSUME NEW e \in Envs, RegisterLoad(e)
      PROVE  BufInv(m)'
  BY <1>1 DEF RegisterLoad
<1>2. ASSUME NEW e \in Envs, RegisterFirst(e)
      PROVE  BufInv(m)'
  BY <1>2 DEF RegisterFirst
<1>3. ASSUME NEW e \in Envs, RegisterWait(e)
      PROVE  BufInv(m)'
  BY <1>3 DEF RegisterWait
<1>4. ASSUME NEW e \in Envs, CreateGcCheck(e)
      PROVE  BufInv(m)'
  BY <1>4 DEF CreateGcCheck
<1>5. ASSUME NEW e \in Envs, CreateGc(e)
      PROVE  BufInv(m)'
  BY <1>5 DEF CreateGc
<1>6. ASSUME NEW e \in Envs, GrantAccess(e)
      PROVE  BufInv(m)'
  BY <1>6 DEF GrantAccess
<1>7. ASSUME NEW e \in Envs, RemoveThreadId(e)
      PROVE  BufInv(m)'
  BY <1>7 DEF RemoveThreadId
<1>8. ASSUME NEW e \in Envs, FinalizeGc(e)
      PROVE  BufInv(m)'
  <2>1. /\ gcQueue' = [gcQueue EXCEPT ![e] = {}]
        /\ unreleased' = [k \in Buffers |-> IF k \in gcQueue[e] THEN "swept" ELSE unreleased[k]]
        /\ UNCHANGED <<bufVars, dpc, drop, overlapped>>
    BY <1>8 DEF FinalizeGc
  <2>2. CASE m \in gcQueue[e]
    <3>1. ~Queued(m)' /\ mem[m] = "live" /\ unreleased'[m] # "no"
      BY <2>1, <2>2
    <3>2. QED
      BY <2>1, <2>2, <3>1
  <2>3. CASE m \notin gcQueue[e]
    <3>1. unreleased'[m] = unreleased[m] /\ \A d \in Envs : m \in gcQueue'[d] <=> m \in gcQueue[d]
      BY <2>1, <2>3
    <3>2. QED
      BY <2>1, <3>1
  <2>4. QED
    BY <2>2, <2>3
<1>9. ASSUME NEW b \in Buffers, NEW a \in Actors, NEW k \in BufKinds, CreateBuffer(b, a, k)
      PROVE  BufInv(m)'
  <2>1. CASE m # b
    BY <1>9, <2>1 DEF CreateBuffer
  <2>2. CASE m = b
    <3>0. holders'[m] = {a}
      BY <1>9, <2>2 DEF CreateBuffer
    <3>1. holders'[m] = {a} /\ IsFiniteSet(holders'[m])
      <4> HIDE <1>a DEF GcTypeOK, BufInv, Settled, Queued, regVars, gcVars, bufVars, dropVars
      <4>1. QED
        BY <3>0, <1>f
    <3>2. ~Queued(m)' /\ mem'[m] = "live" /\ holders'[m] = {a}
      BY <1>9, <2>2 DEF CreateBuffer
    <3>3. bkind'[m] = "reference" => home'[m] \in Envs
      BY <1>9, <2>2 DEF CreateBuffer, RunsJs
    <3>4. QED
      BY <3>1, <3>2, <3>3
  <2>3. QED
    BY <2>1, <2>2
<1>10. ASSUME NEW b \in Buffers, NEW a \in Actors, NEW c \in Actors, CloneTo(b, a, c)
      PROVE  BufInv(m)'
  <2>1. IsFiniteSet(holders'[m])
    <3>1. holders'[m] = holders[m] \/ holders'[m] = holders[m] \union {c}
      BY <1>10 DEF CloneTo
    <3> HIDE <1>a DEF GcTypeOK, BufInv, Settled, Queued, regVars, gcVars, bufVars, dropVars
    <3>2. QED
      BY <3>1, <1>e, <1>f
  <2>2. CASE m # b
    BY <1>10, <2>2 DEF CloneTo
  <2>3. CASE m = b
    <3>1. mem[m] # "none"
      BY <1>10, <2>3 DEF CloneTo
    <3>2. ~(mem[m] = "freed" \/ Queued(m))
      BY <1>10, <2>3, <1>i DEF CloneTo
    <3>3. QED
      BY <1>10, <2>1, <2>3, <3>1, <3>2 DEF CloneTo
  <2>4. QED
    BY <2>2, <2>3
<1>11. ASSUME NEW b \in Buffers, NEW e \in Envs, ReferenceToJs(b, e)
      PROVE  BufInv(m)'
  <2>1. IsFiniteSet(holders'[m])
    BY <1>11, FS_EmptySet DEF ReferenceToJs
  <2>2. CASE m # b
    BY <1>11, <2>1, <2>2 DEF ReferenceToJs
  <2>3. CASE m = b
    <3>1. ~Queued(m)
      BY <1>11, <2>3, <1>b, <1>i DEF ReferenceToJs
    <3>2. QED
      BY <1>11, <2>1, <2>3, <3>1 DEF ReferenceToJs
  <2>4. QED
    BY <2>2, <2>3
<1>12. ASSUME NEW b \in Buffers, NEW e \in Envs, NEW v \in BOOLEAN, DataToJs(b, e, v)
      PROVE  BufInv(m)'
  <2>1. IsFiniteSet(holders'[m])
    <3>2. IsFiniteSet(holders[m] \union {JS}) /\ IsFiniteSet((holders[m] \ {e}) \union {JS})
      BY <1>f, <1>g
    <3>3. \/ holders'[m] = holders[m] \/ holders'[m] = holders[m] \union {JS}
          \/ holders'[m] = (holders[m] \ {e}) \union {JS}
      BY <1>12 DEF DataToJs
    <3> HIDE <1>a DEF GcTypeOK, BufInv, Settled, Queued, regVars, gcVars, bufVars, dropVars
    <3>4. QED
      BY <1>e, <3>2, <3>3
  <2>2. CASE m # b
    BY <1>12, <2>1, <2>2 DEF DataToJs
  <2>3. CASE m = b
    <3>1. mem[m] # "none" /\ bkind[m] # "reference"
      BY <1>12, <2>3 DEF DataToJs
    <3>2. ~(mem[m] = "freed" \/ Queued(m))
      BY <1>12, <2>3, <1>b, <1>i DEF DataToJs
    <3>3. JS \in holders'[m]
      BY <1>12, <2>3 DEF DataToJs
    <3>4. QED
      BY <1>12, <2>1, <2>3, <3>1, <3>2, <3>3 DEF DataToJs
  <2>4. QED
    BY <2>2, <2>3
<1>13. ASSUME NEW a \in Actors, NEW b \in Buffers, NEW h \in Handles, Drops(a, b, h)
      PROVE  BufInv(m)'
  <2>1. overlapped \subseteq overlapped'
        /\ UNCHANGED <<regVars, gcVars, bkind, home, holders, mem, unreleased, misuse>>
        /\ \A c \in Actors : dpc[c] = "leave" => dpc'[c] = dpc[c] /\ drop'[c] = drop[c]
    BY <1>13 DEF Drops, DropBegins
  <2>2. QED
    BY <2>1
<1>r. ASSUME NEW a \in Actors, NEW b \in Buffers, NEW h \in Handles, DropRead(a, b, h)
      PROVE  BufInv(m)'
  BY <1>r, <1>13, ReadDrops
<1>w. ASSUME NEW b \in Buffers, NEW e \in Envs, NEW v \in BOOLEAN, DataCopied(b, e, v)
      PROVE  BufInv(m)'
  <2>1. CASE v
    <3>1. e \in Actors /\ e \in Handles
      BY DEF Actors, Handles
    <3>2. Drops(e, b, e)
      BY <1>w, <2>1, CopyDrops
    <3>3. QED
      BY <3>1, <3>2, <1>13
  <2>2. CASE ~v
    BY <1>w, <2>2 DEF DataCopied
  <2>3. QED
    BY <2>1, <2>2
<1>14. ASSUME NEW a \in Actors, DropData(a)
      PROVE  BufInv(m)'
  <2>1. /\ \/ mem' = mem /\ unreleased' = [unreleased EXCEPT ![drop[a].of] = "vm"]
           \/ mem' = [mem EXCEPT ![drop[a].of] = "freed"] /\ unreleased' = unreleased
        /\ dpc[a] = "sole" /\ dpc' = [dpc EXCEPT ![a] = "leave"]
        /\ UNCHANGED <<regVars, gcVars, bkind, home, holders, inVm, lent, drop, overlapped>>
    BY <1>14 DEF DropData
  <2>2. \A c \in Actors : dpc[c] = "leave" => dpc'[c] = dpc[c]
    BY <2>1
  <2>3. holders[drop[a].of] = {drop[a].handle} /\ mem[drop[a].of] = "live" /\ ~Queued(drop[a].of)
    BY <2>1 DEF GcInv, DropInv
  <2>4. CASE m # drop[a].of
    BY <2>1, <2>2, <2>4
  <2>5. CASE m = drop[a].of
    <3>1. dpc'[a] = "leave" /\ drop' = drop
      BY <2>1
    <3>2. ~Queued(m)' /\ mem'[m] \in {"live", "freed"} /\ bkind' = bkind /\ home' = home
          /\ holders'[m] = {drop[a].handle} /\ gcQueue' = gcQueue
      BY <2>1, <2>3, <2>5
    <3>3. IsFiniteSet(holders'[m])
      BY <2>1
    <3>4. bkind'[m] = "reference" /\ mem'[m] # "none" => home'[m] \in Envs
      BY <2>3, <2>5, <3>2
    <3>5. ~(mem'[m] = "live" /\ holders'[m] = {}) /\ mem'[m] # "none"
      BY <3>2
    <3>6. mem'[m] = "freed" \/ Queued(m)' =>
             \A h \in holders'[m] : \E c \in Actors : dpc'[c] = "leave" /\ drop'[c].of = m
             /\ drop'[c].handle = h
      BY <2>5, <3>1, <3>2
    <3>7. QED
      BY <3>2, <3>3, <3>4, <3>5, <3>6
  <2>6. QED
    BY <2>4, <2>5
<1>15. ASSUME NEW a \in Actors, DropShared(a)
      PROVE  BufInv(m)'
  <2>1. /\ \/ /\ mem' = mem /\ unreleased' = [unreleased EXCEPT ![drop[a].of] = "destroyed"]
              /\ dpc' = [dpc EXCEPT ![a] = "leave"]
           \/ /\ mem' = [mem EXCEPT ![drop[a].of] = "freed"] /\ unreleased' = unreleased
              /\ dpc' = [dpc EXCEPT ![a] = "leave"]
           \/ /\ mem' = mem /\ unreleased' = unreleased /\ dpc' = [dpc EXCEPT ![a] = "send"]
              /\ ~destroyed
        /\ dpc[a] = "sole" /\ bkind[drop[a].of] = "reference"
        /\ UNCHANGED <<regVars, gcVars, bkind, home, holders, inVm, lent, drop, overlapped>>
    BY <1>15 DEF DropShared, GivesUp
  <2>2. \A c \in Actors : dpc[c] = "leave" => dpc'[c] = dpc[c]
    BY <2>1
  <2>3. holders[drop[a].of] = {drop[a].handle} /\ mem[drop[a].of] = "live" /\ ~Queued(drop[a].of)
    BY <2>1 DEF GcInv, DropInv
  <2>4. CASE m # drop[a].of
    BY <2>1, <2>2, <2>4
  <2>5. CASE m = drop[a].of
    <3>1. mem'[m] = "freed" => dpc'[a] = "leave" /\ drop' = drop
      BY <2>1, <2>3, <2>5
    <3>2. ~Queued(m)' /\ mem'[m] \in {"live", "freed"} /\ bkind' = bkind /\ home' = home
          /\ holders'[m] = {drop[a].handle} /\ gcQueue' = gcQueue
      BY <2>1, <2>3, <2>5
    <3>3. IsFiniteSet(holders'[m])
      BY <2>1
    <3>4. bkind'[m] = "reference" /\ mem'[m] # "none" => home'[m] \in Envs
      BY <2>3, <2>5, <3>2
    <3>5. ~(mem'[m] = "live" /\ holders'[m] = {}) /\ mem'[m] # "none"
      BY <3>2
    <3>6. mem'[m] = "freed" \/ Queued(m)' =>
             \A h \in holders'[m] : \E c \in Actors : dpc'[c] = "leave" /\ drop'[c].of = m
             /\ drop'[c].handle = h
      BY <2>5, <3>1, <3>2
    <3>7. QED
      BY <3>2, <3>3, <3>4, <3>5, <3>6
  <2>6. QED
    BY <2>4, <2>5
<1>16. ASSUME NEW a \in Actors, DropSend(a)
      PROVE  BufInv(m)'
  <2>1. /\ \/ /\ gcTsfn \in Envs /\ unreleased' = unreleased
              /\ gcQueue' = [gcQueue EXCEPT ![gcTsfn] = @ \union {drop[a].of}]
           \/ gcQueue' = gcQueue /\ unreleased' = [unreleased EXCEPT ![drop[a].of] = "closing"]
           \/ gcQueue' = gcQueue /\ unreleased' = [unreleased EXCEPT ![drop[a].of] = "panic"]
        /\ dpc[a] = "send" /\ dpc' = [dpc EXCEPT ![a] = "leave"]
        /\ UNCHANGED <<regVars, gcTsfn, gc, destroyed, bufVars, drop, overlapped>>
    BY <1>16 DEF DropSend
  <2>2. \A c \in Actors : dpc[c] = "leave" => dpc'[c] = dpc[c]
    BY <2>1
  <2>3. /\ holders[drop[a].of] = {drop[a].handle} /\ mem[drop[a].of] = "live" /\ ~Queued(drop[a].of)
        /\ bkind[drop[a].of] = "reference"
    BY <2>1 DEF GcInv, DropInv
  <2>4. CASE m # drop[a].of
    <3>1. unreleased'[m] = unreleased[m] /\ \A e \in Envs : m \in gcQueue'[e] <=> m \in gcQueue[e]
      BY <2>1, <2>4
    <3>2. QED
      BY <2>1, <2>2, <3>1
  <2>5. CASE m = drop[a].of
    <3>1. dpc'[a] = "leave" /\ drop' = drop
      BY <2>1
    <3>2. /\ mem'[m] = "live" /\ bkind'[m] = "reference" /\ home' = home
          /\ holders'[m] = {drop[a].handle} /\ IsFiniteSet(holders'[m])
      BY <2>1, <2>3, <2>5
    <3>3. \A e \in Envs : m \in gcQueue'[e] => e = gcTsfn
      BY <2>1, <2>3, <2>5
    <3>4. /\ Queued(m)' => mem'[m] = "live" /\ bkind'[m] = "reference"
          /\ \A d, e \in Envs : m \in gcQueue'[d] /\ m \in gcQueue'[e] => d = e
          /\ ~(mem'[m] = "live" /\ holders'[m] = {}) /\ mem'[m] # "none"
      BY <3>2, <3>3
    <3>5. bkind'[m] = "reference" /\ mem'[m] # "none" => home'[m] \in Envs
      BY <2>3, <2>5, <3>2
    <3>6. mem'[m] = "freed" \/ Queued(m)' =>
             \A h \in holders'[m] : \E c \in Actors : dpc'[c] = "leave" /\ drop'[c].of = m
             /\ drop'[c].handle = h
      BY <2>5, <3>1, <3>2
    <3>7. QED
      BY <3>2, <3>4, <3>5, <3>6
  <2>6. QED
    BY <2>4, <2>5
<1>17. ASSUME NEW a \in Actors, DropLeave(a)
      PROVE  BufInv(m)'
  <2>1. /\ holders' = [holders EXCEPT ![drop[a].of] = @ \ {drop[a].handle}]
        /\ \A c \in Actors : c # a => dpc'[c] = dpc[c] /\ drop'[c] = drop[c]
        /\ dpc[a] = "leave"
        /\ UNCHANGED <<regVars, gcVars, bkind, home, mem, inVm, overlapped, unreleased, misuse>>
    BY <1>17 DEF DropLeave
  <2>2. DropInv(a)
    BY DEF GcInv
  <2>3. CASE m # drop[a].of
    <3>1. \A h \in holders'[m] : (\E c \in Actors : dpc[c] = "leave" /\ drop[c].of = m
          /\ drop[c].handle = h)
             => (\E c \in Actors : dpc'[c] = "leave" /\ drop'[c].of = m /\ drop'[c].handle = h)
      BY <2>1, <2>3
    <3>2. QED
      BY <2>1, <2>3, <3>1
  <2>4. CASE m = drop[a].of
    <3>1. IsFiniteSet(holders'[m])
      BY <2>1, <2>4, FS_RemoveElement
    <3>2. \A h \in holders'[m] : (\E c \in Actors : dpc[c] = "leave" /\ drop[c].of = m
          /\ drop[c].handle = h)
             => (\E c \in Actors : dpc'[c] = "leave" /\ drop'[c].of = m /\ drop'[c].handle = h)
      BY <2>1, <2>4
    <3>3. holders'[m] = {} => Settled(m) \/ m \in overlapped
      BY <2>1, <2>2, <2>4 DEF DropInv
    <3>4. QED
      BY <2>1, <2>4, <3>1, <3>2, <3>3
  <2>5. QED
    BY <2>3, <2>4
<1>18. ASSUME NEW e \in Envs, NEW b \in Buffers, CustomGc(e, b)
      PROVE  BufInv(m)'
  <2>1. RegInv(e) /\ ~Skips(e)
    BY <1>18 DEF CustomGc, GcInv, RegInv, Skips
  <2>2. mem' = [mem EXCEPT ![b] = "freed"] /\ gcQueue' = [gcQueue EXCEPT ![e] = @ \ {b}]
        /\ b \in gcQueue[e]
        /\ UNCHANGED <<regVars, gcTsfn, gc, destroyed, bkind, home, holders, inVm, lent, dpc, drop,
               overlapped, unreleased>>
    BY <1>18, <2>1 DEF CustomGc
  <2>3. CASE m = b
    <3>1. mem'[m] = "freed" /\ ~Queued(m)'
      BY <2>2, <2>3
    <3>2. QED
      BY <2>2, <2>3, <3>1
  <2>4. CASE m # b
    <3>1. mem'[m] = mem[m] /\ \A d \in Envs : m \in gcQueue'[d] <=> m \in gcQueue[d]
      BY <2>2, <2>4
    <3>2. QED
      BY <2>2, <3>1
  <2>5. QED
    BY <2>3, <2>4
<1>19. CASE UNCHANGED bufferGcVars
  BY <1>19 DEF bufferGcVars
<1>20. QED
  BY <1>1, <1>2, <1>3, <1>4, <1>5, <1>6, <1>7, <1>8, <1>9, <1>10, <1>11, <1>12, <1>13,
     <1>14, <1>15, <1>16, <1>17, <1>18, <1>19, <1>r, <1>w
  DEF GcNext, RegisterStep, DropBuffer

\* The buffers' invariant is inductive.
LEMMA StepGc == GcTypeOK /\ GcInv /\ [GcNext]_bufferGcVars => GcTypeOK' /\ GcInv'
  BY StepGcTyped, StepReg, StepMisuse, StepDrops, StepDiffer, StepBuffers DEF GcInv

\* What the addon's other parts do leaves the buffers alone.
LEMMA BuffersApart == [Next]_addonObjectVars => [GcNext]_bufferGcVars
  BY DEF Next, addonObjectVars

\* So it holds in every state the addon reaches.
LEMMA GcInvariant == Spec => [](GcTypeOK /\ GcInv)
<1>1. Init => GcTypeOK /\ GcInv
  BY GcInitially DEF Init
<1>2. GcTypeOK /\ GcInv /\ [Next]_addonObjectVars => (GcTypeOK /\ GcInv)'
  BY StepGc, BuffersApart
<1>3. QED
  BY <1>1, <1>2, PTL DEF Spec

\* The invariant gives each of the properties of the buffers.
LEMMA GcSound == GcTypeOK /\ GcInv => BuffersSound
<1> SUFFICES ASSUME GcTypeOK, GcInv PROVE BuffersSound
  OBVIOUS
<1>1. MemoryOutlivesHandles
  BY DEF GcInv, BufInv, MemoryOutlivesHandles
<1>2. ForeignThreadsDelegate /\ CollectorGoneIsSeen /\ EnvOutlivesItsReferences
  BY DEF GcInv, ForeignThreadsDelegate, CollectorGoneIsSeen, EnvOutlivesItsReferences
<1>3. OneCollector
  BY DEF GcInv, RegInv, OneCollector
<1>4. QED
  BY <1>1, <1>2, <1>3 DEF BuffersSound

\* Memory that a handle is left to is there, for every number of environments, threads and
\* buffers.
THEOREM BuffersAreSound == Spec => []BuffersSound
<1>1. GcTypeOK /\ GcInv => BuffersSound
  BY GcSound
<1>2. QED
  BY <1>1, GcInvariant, PTL

\* What the last handle gave up is released, on its way, or given up by one of the names.
THEOREM NothingIsForgotten == Spec => []NothingForgotten
<1>1. GcTypeOK /\ GcInv => NothingForgotten
  BY DEF GcInv, BufInv, Settled, Queued, NothingForgotten
<1>2. QED
  BY <1>1, GcInvariant, PTL

-----------------------------------------------------------------------------
(* Factories and iteration.                                                 *)

Frames == Seq([by : {"factory", "new"}, ran : BOOLEAN])

\* The flag is set by a factory whose call is under way; and a call that nothing was made
\* inside of finds it as its own kind of call left it.
FlagInv ==
    /\ frames \in Frames /\ flag \in BOOLEAN /\ nested \in BOOLEAN
    /\ flag => \E i \in 1..Len(frames) : frames[i].by = "factory"
    /\ ~nested /\ frames # <<>> => Len(frames) = 1 /\ flag = (frames[1].by = "factory")

\* No call is under way.
LEMMA FlagInitially == ClassInit => FlagInv
  BY EmptySeq DEF ClassInit, FlagInv, Frames

\* A call that begins or ends leaves the flag as its own kind of call sets it.
LEMMA StepFlag == FlagInv /\ [FactoryNext]_classVars => FlagInv'
<1> SUFFICES ASSUME FlagInv, [FactoryNext]_classVars PROVE FlagInv'
  OBVIOUS
<1> DEFINE R == [by : {"factory", "new"}, ran : BOOLEAN]
<1>a. /\ frames \in Seq(R) /\ flag \in BOOLEAN /\ nested \in BOOLEAN
      /\ Len(frames) \in Nat
      /\ flag => \E i \in 1..Len(frames) : frames[i].by = "factory"
      /\ ~nested /\ frames # <<>> => Len(frames) = 1 /\ flag = (frames[1].by = "factory")
      /\ frames = <<>> <=> Len(frames) = 0
      /\ \A i \in 1..Len(frames) : frames[i] \in R
  BY LenProperties, EmptySeq, ElementOfSeq DEF FlagInv, Frames
<1>1. ASSUME NEW k \in R, frames' = Append(frames, k), nested' = (nested \/ frames # <<>>),
             flag' = flag \/ (k.by = "factory" /\ flag' = TRUE), k.by = "factory" => flag'
      PROVE  FlagInv'
  <2>1. /\ frames' \in Seq(R) /\ frames' # <<>> /\ Len(frames') = Len(frames) + 1
        /\ \A i \in 1..Len(frames) : frames'[i] = frames[i]
        /\ frames'[Len(frames) + 1] = k
    BY <1>1, <1>a, AppendProperties
  <2>2. flag' => \E i \in 1..Len(frames') : frames'[i].by = "factory"
    <3>1. CASE k.by = "factory"
      <4>1. Len(frames) + 1 \in 1..Len(frames')
        BY <2>1, <1>a
      <4>2. QED
        BY <4>1, <2>1, <3>1
    <3>2. CASE k.by # "factory"
      <4>1. SUFFICES ASSUME flag PROVE \E i \in 1..Len(frames') : frames'[i].by = "factory"
        BY <1>1, <3>2
      <4>2. PICK i \in 1..Len(frames) : frames[i].by = "factory"
        BY <4>1, <1>a
      <4>3. i \in 1..Len(frames') /\ frames'[i].by = "factory"
        BY <4>2, <2>1, <1>a
      <4>4. QED
        BY <4>3
    <3>3. QED
      BY <3>1, <3>2
  <2>3. ~nested' => Len(frames') = 1 /\ flag' = (frames'[1].by = "factory")
    <3>1. ~nested' => frames = <<>>
      BY <1>1
    <3>2. ~nested' => Len(frames) = 0
      BY <3>1, <1>a
    <3>3. ~nested' => ~flag
      BY <3>2, <1>a
    <3>4. ~nested' => Len(frames') = 1 /\ frames'[1] = k
      BY <3>2, <2>1
    <3>5. k.by \in {"factory", "new"}
      OBVIOUS
    <3>6. flag' \in BOOLEAN /\ (flag' => k.by = "factory" \/ flag) /\ (k.by = "factory" => flag')
      <4>1. CASE flag' = flag
        BY <4>1, <1>1, <1>a, Zenon
      <4>2. CASE k.by = "factory" /\ flag' = TRUE
        BY <4>2, Zenon
      <4>3. QED
        BY <1>1, <4>1, <4>2, Zenon
    <3>7. ASSUME ~nested' PROVE flag' = (frames'[1].by = "factory")
      <4>1. frames'[1].by = k.by /\ ~flag
        BY <3>3, <3>4, <3>7
      <4>2. flag' <=> frames'[1].by = "factory"
        BY <4>1, <3>6
      <4>3. QED
        BY <4>2, <3>6
    <3>8. QED
      BY <3>4, <3>7
  <2>4. QED
    BY <1>1, <1>a, <2>1, <2>2, <2>3 DEF FlagInv, Frames
<1>2. CASE FactoryBegin
  BY <1>1, <1>2 DEF FactoryBegin
<1>3. CASE NewBegin
  BY <1>1, <1>3, <1>a DEF NewBegin
<1>4. CASE ConstructorRuns
  <2> DEFINE top == Len(frames)
             e == [frames[top] EXCEPT !.ran = TRUE]
  <2>1. top \in 1..Len(frames) /\ frames' = [frames EXCEPT ![top] = e] /\ UNCHANGED <<flag, nested>>
    BY <1>4, <1>a DEF ConstructorRuns
  <2>2. e \in R /\ e.by = frames[top].by
    BY <2>1, <1>a
  <2>3. /\ frames' \in Seq(R) /\ Len(frames') = Len(frames)
        /\ \A i \in 1..Len(frames) : frames'[i] = IF i = top THEN e ELSE frames[i]
    BY <2>1, <2>2, <1>a, ExceptSeq
  <2>4. \A i \in 1..Len(frames) : frames'[i].by = frames[i].by
    BY <2>2, <2>3
  <2>5. flag' => \E i \in 1..Len(frames') : frames'[i].by = "factory"
    BY <2>1, <2>3, <2>4, <1>a
  <2>6. QED
    BY <2>1, <2>3, <2>4, <2>5, <1>a DEF FlagInv, Frames
<1>5. CASE End
  <2> DEFINE top == Len(frames)
  <2>1. /\ top \in 1..Len(frames) /\ frames' = SubSeq(frames, 1, top - 1)
        /\ flag' = (IF frames[top].by = "factory" THEN FALSE ELSE flag)
        /\ nested' = (nested /\ top > 1)
    BY <1>5, <1>a DEF End
  <2>2. /\ frames' \in Seq(R) /\ Len(frames') = top - 1
        /\ \A i \in 1..(top - 1) : frames'[i] = frames[i]
    <3>1. 1 \in Int /\ top - 1 \in Int /\ \A i \in 1..(top - 1) : frames[i] \in R
      BY <1>a
    <3>2. /\ SubSeq(frames, 1, top - 1) \in Seq(R)
          /\ Len(SubSeq(frames, 1, top - 1)) = IF 1 <= top - 1 THEN (top - 1) - 1 + 1 ELSE 0
          /\ \A i \in 1..((top - 1) - 1 + 1) : SubSeq(frames, 1, top - 1)[i] = frames[1 + i - 1]
      BY <3>1, SubSeqProperties
    <3>3. (top - 1) - 1 + 1 = top - 1 /\ (IF 1 <= top - 1 THEN (top - 1) - 1 + 1 ELSE 0) = top - 1
      <4>1. top \in Nat /\ top >= 1
        BY <2>1, <1>a
      <4> HIDE DEF top
      <4>2. QED
        BY <4>1
    <3>4. \A i \in 1..(top - 1) : 1 + i - 1 = i
      BY <1>a
    <3>5. QED
      BY <3>2, <3>3, <3>4, <2>1
  <2>3. flag' => \E i \in 1..Len(frames') : frames'[i].by = "factory"
    <3>1. SUFFICES ASSUME flag' PROVE \E i \in 1..Len(frames') : frames'[i].by = "factory"
      OBVIOUS
    <3>2. PICK i \in 1..Len(frames) : frames[i].by = "factory"
      BY <3>1, <2>1, <1>a
    <3>3. i # top
      BY <3>1, <3>2, <2>1
    <3>4. i \in 1..Len(frames') /\ frames'[i].by = "factory"
      BY <3>2, <3>3, <2>2, <1>a
    <3>5. QED
      BY <3>4
  <2>4. ~nested' => frames' = <<>>
    <3>1. ~nested' => Len(frames') = 0
      BY <2>1, <2>2, <1>a
    <3>2. QED
      BY <3>1, <2>2, EmptySeq
  <2>5. QED
    BY <2>1, <2>2, <2>3, <2>4, <1>a DEF FlagInv, Frames
<1>6. CASE UNCHANGED classVars
  BY <1>6 DEF classVars, factoryVars, FlagInv
<1>7. QED
  BY <1>2, <1>3, <1>4, <1>5, <1>6 DEF FactoryNext

\* A constructor that misreads the flag was called inside another.
LEMMA FlagAgrees == FlagInv /\ [FactoryNext]_classVars => [misread' # misread => nested]_classVars
<1> SUFFICES ASSUME FlagInv, FactoryNext, misread' # misread PROVE nested
  BY DEF classVars, factoryVars
<1>1. ConstructorRuns
  BY DEF FactoryNext, FactoryBegin, NewBegin, End
<1>2. Len(frames) > 0 /\ flag # (frames[Len(frames)].by = "factory")
  BY <1>1 DEF ConstructorRuns
<1>3. frames # <<>>
  BY <1>2, EmptySeq
<1>4. QED
  BY <1>2, <1>3 DEF FlagInv

\* A generator that has told that it is over is completed; and what its objects have taken
\* and what is left are bounded by what there was.
IterationInv ==
    /\ IterationTypeOK
    /\ items + spoiled <= MaxItems
    /\ \A g \in Generators : got[g] + items <= MaxItems
    /\ \A g \in Generators : told[g] = "over" => state[g] = "completed"

\* No generator has told anything.
LEMMA IterationInitially == IterationInit => IterationInv
  BY IterationAssumption DEF IterationInit, IterationInv, IterationTypeOK

\* A generator that told its end stays completed.
LEMMA StepIteration == IterationInv /\ [IterationNext]_iterationVars => IterationInv'
<1> SUFFICES ASSUME IterationInv, [IterationNext]_iterationVars PROVE IterationInv'
  OBVIOUS
<1>1. ASSUME NEW g \in Generators, MakeIterator(g) PROVE IterationInv'
  BY <1>1 DEF MakeIterator, IterationInv, IterationTypeOK
<1>2. ASSUME NEW g \in Generators, NEW b \in BOOLEAN, GeneratorNext(g, b) PROVE IterationInv'
  <2>1. /\ items \in Nat /\ items > 0 /\ items' = items - 1 /\ spoiled \in Nat /\ MaxItems \in Nat
        /\ got \in [Generators -> 0..MaxItems] /\ items + spoiled <= MaxItems
        /\ \A k \in Generators : got[k] \in Nat /\ got[k] + items <= MaxItems
        /\ UNCHANGED <<state, told>>
    <3>1. /\ items \in 0..MaxItems /\ spoiled \in 0..MaxItems /\ got \in [Generators -> 0..MaxItems]
          /\ items + spoiled <= MaxItems /\ \A k \in Generators : got[k] + items <= MaxItems
      BY DEF IterationInv, IterationTypeOK
    <3>2. items > 0 /\ items' = items - 1 /\ UNCHANGED <<state, told>>
      BY <1>2 DEF GeneratorNext
    <3>3. MaxItems \in Nat
      BY IterationAssumption DEF IterationAssumption
    <3>4. \A k \in Generators : got[k] \in 0..MaxItems
      BY <3>1
    <3>5. items \in Nat /\ spoiled \in Nat /\ \A k \in Generators : got[k] \in Nat
      BY <3>1, <3>3, <3>4
    <3>6. QED
      BY <3>1, <3>2, <3>3, <3>5
  <2>2. got' \in [Generators -> 0..MaxItems] /\ \A k \in Generators : got'[k] + items' <= MaxItems
    <3>1. CASE got' = got
      BY <3>1, <2>1
    <3>2. CASE got' = [got EXCEPT ![g] = @ + 1]
      <4>1. \A k \in Generators : got'[k] \in 0..MaxItems /\ got'[k] + items' <= MaxItems
        <5>1. SUFFICES ASSUME NEW k \in Generators
                       PROVE  got'[k] \in 0..MaxItems /\ got'[k] + items' <= MaxItems
          OBVIOUS
        <5>2. got'[k] = got[k] \/ got'[k] = got[k] + 1
          BY <3>2, <2>1
        <5>3. QED
          BY <5>2, <2>1
      <4>2. QED
        BY <4>1, <3>2, <2>1
    <3>3. QED
      BY <1>2, <3>1, <3>2 DEF GeneratorNext
  <2>3. spoiled' \in 0..MaxItems /\ items' \in 0..MaxItems /\ items' + spoiled' <= MaxItems
    <3>1. spoiled' = spoiled \/ spoiled' = spoiled + 1
      BY <1>2 DEF GeneratorNext
    <3>2. QED
      BY <3>1, <2>1
  <2>4. QED
    BY <2>1, <2>2, <2>3 DEF IterationInv, IterationTypeOK
<1>3. ASSUME NEW g \in Generators, NEW b \in BOOLEAN, GeneratorReturn(g, b) PROVE IterationInv'
  BY <1>3 DEF GeneratorReturn, IterationInv, IterationTypeOK
<1>4. ASSUME NEW g \in Generators, NEW b \in BOOLEAN, GeneratorThrow(g, b) PROVE IterationInv'
  BY <1>4 DEF GeneratorThrow, IterationInv, IterationTypeOK
<1>5. CASE UNCHANGED iterationVars
  BY <1>5 DEF iterationVars, IterationInv, IterationTypeOK
<1>6. QED
  BY <1>1, <1>2, <1>3, <1>4, <1>5 DEF IterationNext

\* A completed generator asks its Rust side for nothing.
LEMMA OverTakesNothing ==
    IterationInv /\ [IterationNext]_iterationVars =>
        [\A g \in Generators : told[g] = "over" => got'[g] = got[g]]_iterationVars
<1> SUFFICES ASSUME IterationInv, IterationNext, NEW g \in Generators, told[g] = "over"
             PROVE  got'[g] = got[g]
  OBVIOUS
<1>1. state[g] = "completed"
  BY DEF IterationInv
<1>2. QED
  BY <1>1 DEF IterationInv, IterationTypeOK, IterationNext, MakeIterator, GeneratorNext,
      GeneratorReturn, GeneratorThrow

\* What the addon's other parts do leaves the generators alone.
LEMMA LaterApart ==
    [Next]_addonObjectVars => [IterationNext]_iterationVars
  BY DEF Next, addonObjectVars

\* The instances' steps leave the factories' frames alone.
LEMMA InstancesApart == InstanceNext => UNCHANGED factoryVars
  BY DEF InstanceNext, Construct, Exit, TakeReference, CloneReference, DropReference, Downgrade,
         WeakGet, Upgrade, ShareWith, Release, ToJs, Finalize

\* What the addon's other parts do leaves the factories' flag alone.
LEMMA FlagApart ==
    FlagInv /\ [Next]_addonObjectVars => FlagInv' /\ [misread' # misread => nested]_classVars
<1> SUFFICES ASSUME FlagInv, [Next]_addonObjectVars
             PROVE  FlagInv' /\ [misread' # misread => nested]_classVars
  OBVIOUS
<1>1. InstanceNext \/ [FactoryNext]_classVars
  BY DEF Next, addonObjectVars
<1>2. CASE InstanceNext
  <2>1. UNCHANGED factoryVars
    BY <1>2, InstancesApart
  <2>2. QED
    BY <2>1 DEF factoryVars, FlagInv
<1>3. CASE [FactoryNext]_classVars
  BY <1>3, StepFlag, FlagAgrees
<1>4. QED
  BY <1>1, <1>2, <1>3

\* For every depth of constructor calls a constructor takes a `new` for a factory's call only
\* where one was made inside another, and for every number of generators one that said it
\* is over takes nothing more.
THEOREM LaterCallsAlwaysAgree == Spec => LaterCallsAgree
<1>1. Init => FlagInv /\ IterationInv
  BY FlagInitially, IterationInitially DEF Init
<1>2. FlagInv /\ IterationInv /\ [Next]_addonObjectVars =>
         /\ (FlagInv /\ IterationInv)'
         /\ [misread' # misread => nested]_classVars
         /\ [\A g \in Generators : told[g] = "over" => got'[g] = got[g]]_iterationVars
  BY FlagApart, LaterApart, StepIteration, OverTakesNothing
<1>3. IterationInv => IterationTypeOK
  BY DEF IterationInv
<1>4. QED
  BY <1>1, <1>2, <1>3, PTL DEF Spec, LaterCallsAgree, FlagIsRead, OverIsOver

-----------------------------------------------------------------------------
(* Instances of classes.                                                    *)

\* The napi reference of an instance is there as long as the map's share, and counts its
\* References; an object that JS can reach is the last one made and has the entry; and a
\* Reference whose napi reference is gone was there when the object was finalised at the end
\* of the process, or came from a weak one that a failed finalize left.
InstanceInv(i) ==
    /\ mapShare[i] <=> napiRef[i] = "live"
    /\ mapShare[i] => i = entry /\ count[i] = refs[i]
    /\ js[i] \in {"held", "loose"} =>
           i = made /\ i = entry /\ rust[i] = "live" /\ mapShare[i] /\ i \notin errored
    /\ i > made => /\ napiRef[i] = "none" /\ rust[i] = "none" /\ js[i] = "none" /\ i \notin errored
                   /\ refs[i] = 0 /\ count[i] = 0 /\ atExit[i] = 0 /\ ~weak[i]
    /\ i <= made => napiRef[i] # "none" /\ rust[i] # "none"
    /\ rust[i] = "live" => js[i] \in {"held", "loose"}
    /\ rust[i] = "freed" => i \in errored \/ napiRef[i] = "deleted"
    /\ napiRef[i] = "deleted" => refs[i] <= atExit[i] \/ (i \in errored /\ weak[i])
    /\ ~exiting => atExit[i] = 0
    /\ i \in errored /\ ~exiting /\ refs[i] > 0 => weak[i]
    /\ atExit[i] > 1 => js[i] = "collected"

ObjectsTypeOK ==
    /\ made \in 0..MaxMade /\ entry \in 0..MaxMade /\ exiting \in BOOLEAN
    /\ rust \in [Made -> {"none", "live", "freed"}]
    /\ js \in [Made -> {"none", "held", "loose", "collected"}]
    /\ napiRef \in [Made -> {"none", "live", "deleted"}]
    /\ count \in [Made -> 0..MaxRefs] /\ refs \in [Made -> 0..MaxRefs]
    /\ mapShare \in [Made -> BOOLEAN] /\ weak \in [Made -> BOOLEAN]
    /\ shared \in [Made -> BOOLEAN] /\ atExit \in [Made -> 0..MaxRefs]
    /\ errored \subseteq Made
    /\ misused \subseteq Made \X {"ref", "unref", "delete", "get", "value"}

ClassInv ==
    /\ ObjectsTypeOK
    /\ \A i \in Made : InstanceInv(i)
    /\ entry <= made
    /\ entry # 0 => mapShare[entry] /\ (rust[entry] = "live" \/ entry \in errored)
    /\ DeletedRefsAreLeftAlone /\ WeakNeverDangles

\* Nothing has been constructed.
LEMMA ClassInitially == ClassInit => ClassInv
<1> SUFFICES ASSUME ClassInit PROVE ClassInv
  OBVIOUS
<1>1. MaxRefs \in Nat /\ MaxMade \in Nat /\ 0 \in 0..MaxRefs /\ 0 \in 0..MaxMade
  BY RefAssumption
<1>2. ObjectsTypeOK
  BY <1>1 DEF ClassInit, ObjectsTypeOK
<1>3. ASSUME NEW i \in Made PROVE InstanceInv(i)
  <2>1. i > 0
    BY <1>1 DEF Made
  <2>2. QED
    BY <2>1 DEF ClassInit, InstanceInv
<1>4. entry <= made /\ ~(entry # 0) /\ DeletedRefsAreLeftAlone /\ WeakNeverDangles
  BY DEF ClassInit, DeletedRefsAreLeftAlone, WeakNeverDangles
<1>5. QED
  BY <1>2, <1>3, <1>4 DEF ClassInv

\* What the count of instances and the map's entry are in.
LEMMA BoundsOfMade ==
    ClassInv => /\ made \in Nat /\ entry \in Nat /\ MaxMade \in Nat /\ made <= MaxMade
                /\ entry <= made
                /\ entry # 0 => /\ entry \in Made /\ mapShare[entry]
                                /\ rust[entry] = "live" \/ entry \in errored
                /\ made > 0 => made \in Made
                /\ made < MaxMade => made + 1 \in Made /\ made + 1 \in 0..MaxMade
<1> SUFFICES ASSUME ClassInv
             PROVE  /\ made \in Nat /\ entry \in Nat /\ MaxMade \in Nat /\ made <= MaxMade
                    /\ entry <= made
                    /\ entry # 0 => /\ entry \in Made /\ mapShare[entry]
                                    /\ rust[entry] = "live" \/ entry \in errored
                    /\ made > 0 => made \in Made
                    /\ made < MaxMade => made + 1 \in Made /\ made + 1 \in 0..MaxMade
  OBVIOUS
<1>1. made \in 0..MaxMade /\ entry \in 0..MaxMade /\ MaxMade \in Nat
  BY RefAssumption DEF ClassInv, ObjectsTypeOK
<1>2. /\ entry <= made
      /\ entry # 0 => mapShare[entry] /\ (rust[entry] = "live" \/ entry \in errored)
  BY DEF ClassInv
<1>3. QED
  BY <1>1, <1>2 DEF Made

\* What a reference count and the References are before and after.
LEMMA CountsAreBounded ==
    ClassInv => \A i \in Made : /\ refs[i] \in 0..MaxRefs /\ count[i] \in 0..MaxRefs
                                /\ napiRef[i] = "live" => count[i] = refs[i]
  BY DEF ClassInv, ObjectsTypeOK, InstanceInv

\* What is done with the napi reference of an instance whose map entry is there goes well.
LEMMA LiveIsUsed ==
    ASSUME NEW i \in Made, napiRef[i] = "live", NEW what
    PROVE  UseRef(i, what) = misused
  BY DEF UseRef

\* Every step of an instance keeps the types.
LEMMA StepObjectsTyped ==
    ClassInv /\ (InstanceNext \/ UNCHANGED objectVars) => ObjectsTypeOK'
<1> SUFFICES ASSUME ClassInv, InstanceNext \/ UNCHANGED objectVars PROVE ObjectsTypeOK'
  OBVIOUS
<1>a. ObjectsTypeOK /\ MaxRefs \in Nat /\ MaxMade \in Nat
  BY RefAssumption DEF ClassInv
<1>b. \A i \in Made, what \in {"ref", "unref", "delete", "get", "value"} :
         UseRef(i, what) \subseteq Made \X {"ref", "unref", "delete", "get", "value"}
  BY <1>a DEF UseRef, ObjectsTypeOK
<1>c. \A i \in Made : refs[i] < MaxRefs => /\ Counted(i) \in [Made -> 0..MaxRefs]
                                           /\ [refs EXCEPT ![i] = @ + 1] \in [Made -> 0..MaxRefs]
  <2>1. SUFFICES ASSUME NEW i \in Made, refs[i] < MaxRefs
                 PROVE  /\ Counted(i) \in [Made -> 0..MaxRefs]
                        /\ [refs EXCEPT ![i] = @ + 1] \in [Made -> 0..MaxRefs]
    OBVIOUS
  <2>2. /\ refs[i] + 1 \in 0..MaxRefs /\ count[i] \in 0..MaxRefs
        /\ napiRef[i] = "live" => count[i] + 1 \in 0..MaxRefs
    BY <2>1, <1>a, CountsAreBounded
  <2>3. QED
    BY <2>2, <1>a DEF Counted, ObjectsTypeOK
<1>d. \A i \in Made : refs[i] > 0 => /\ refs[i] - 1 \in 0..MaxRefs
                                     /\ napiRef[i] = "live" => count[i] - 1 \in 0..MaxRefs
  BY <1>a, CountsAreBounded
<1> USE <1>a DEF ObjectsTypeOK
<1>1. CASE Construct
  <2>1. made + 1 \in Made /\ made + 1 \in 0..MaxMade /\ (entry # 0 => entry \in Made)
    BY <1>1, BoundsOfMade DEF Construct
  <2>2. misused' \subseteq Made \X {"ref", "unref", "delete", "get", "value"}
    BY <1>1, <2>1, <1>b DEF Construct, AddRef
  <2>3. napiRef' \in [Made -> {"none", "live", "deleted"}] /\ mapShare' \in [Made -> BOOLEAN]
    BY <1>1, <2>1 DEF Construct, AddRef
  <2>4. QED
    BY <1>1, <2>1, <2>2, <2>3 DEF Construct
<1>2. CASE Exit
  BY <1>2 DEF Exit
<1>3. ASSUME NEW i \in Made, TakeReference(i) PROVE ObjectsTypeOK'
  BY <1>3, <1>b, <1>c DEF TakeReference
<1>4. ASSUME NEW i \in Made, CloneReference(i) PROVE ObjectsTypeOK'
  <2>1. refs[i] < MaxRefs
    BY <1>4 DEF CloneReference
  <2>2. QED
    BY <1>4, <2>1, <1>b, <1>c DEF CloneReference
<1>5. ASSUME NEW i \in Made, DropReference(i) PROVE ObjectsTypeOK'
  <2>1. count' \in [Made -> 0..MaxRefs] /\ refs' \in [Made -> 0..MaxRefs]
    BY <1>5, <1>d DEF DropReference
  <2>2. misused' \subseteq Made \X {"ref", "unref", "delete", "get", "value"}
    BY <1>5, <1>b DEF DropReference
  <2>3. QED
    BY <1>5, <2>1, <2>2 DEF DropReference
<1>6. ASSUME NEW i \in Made, Downgrade(i) PROVE ObjectsTypeOK'
  BY <1>6 DEF Downgrade
<1>7. ASSUME NEW i \in Made, WeakGet(i) PROVE ObjectsTypeOK'
  BY <1>7 DEF WeakGet
<1>8. ASSUME NEW i \in Made, Upgrade(i) PROVE ObjectsTypeOK'
  BY <1>8, <1>b, <1>c DEF Upgrade
<1>9. ASSUME NEW i \in Made, ShareWith(i) PROVE ObjectsTypeOK'
  BY <1>9 DEF ShareWith
<1>10. ASSUME NEW i \in Made, Release(i) PROVE ObjectsTypeOK'
  BY <1>10 DEF Release
<1>11. ASSUME NEW i \in Made, ToJs(i) PROVE ObjectsTypeOK'
  BY <1>11, <1>b DEF ToJs
<1>12. ASSUME NEW i \in Made, Finalize(i) PROVE ObjectsTypeOK'
  <2>1. misused' \subseteq Made \X {"ref", "unref", "delete", "get", "value"}
    BY <1>12, <1>b DEF Finalize
  <2>2. errored' \subseteq Made /\ entry' \in 0..MaxMade
    BY <1>12 DEF Finalize
  <2>3. QED
    BY <1>12, <2>1, <2>2 DEF Finalize
<1>13. CASE UNCHANGED objectVars
  BY <1>13 DEF objectVars
<1>14. QED
  BY <1>1, <1>2, <1>3, <1>4, <1>5, <1>6, <1>7, <1>8, <1>9, <1>10, <1>11, <1>12, <1>13
  DEF InstanceNext

\* An instance's counts, its napi reference and its share in the map change together.
LEMMA StepInstances ==
    ClassInv /\ (InstanceNext \/ UNCHANGED objectVars) => \A i \in Made : InstanceInv(i)'
<1> SUFFICES ASSUME ClassInv, InstanceNext \/ UNCHANGED objectVars, NEW k \in Made
             PROVE  InstanceInv(k)'
  OBVIOUS
<1>a. ObjectsTypeOK /\ InstanceInv(k) /\ k \in Nat /\ made \in Nat /\ k > 0
  <2>1. ObjectsTypeOK /\ InstanceInv(k)
    BY DEF ClassInv
  <2>2. made \in 0..MaxMade /\ MaxMade \in Nat /\ k \in 1..MaxMade
    BY <2>1, RefAssumption DEF ObjectsTypeOK, Made
  <2>3. QED
    BY <2>1, <2>2
<1>b. refs[k] \in Nat /\ count[k] \in Nat /\ atExit[k] \in Nat
  BY <1>a, RefAssumption DEF ObjectsTypeOK
<1> USE <1>a, <1>b DEF ObjectsTypeOK, InstanceInv
<1>1. CASE Construct
  <2>1. made + 1 \in Made /\ (entry # 0 => entry \in Made /\ entry <= made)
        /\ (made > 0 => made \in Made /\ rust[made] = "freed")
    BY <1>1, BoundsOfMade DEF Construct
  <2>2. InstanceInv(made + 1)
    BY <2>1 DEF ClassInv
  <2>3. js[k] \notin {"held", "loose"}
    BY <2>1
  <2>4. CASE k = made + 1
    <3>1. napiRef'[k] = "live" /\ mapShare'[k] = TRUE /\ rust'[k] = "live" /\ js'[k] = "held"
      BY <1>1, <2>1, <2>4 DEF Construct, AddRef
    <3>2. QED
      BY <1>1, <2>2, <2>4, <3>1 DEF Construct
  <2>5. CASE k # made + 1 /\ k = entry
    <3>1. napiRef'[k] = "deleted" /\ mapShare'[k] = FALSE
      BY <1>1, <2>1, <2>5 DEF Construct, AddRef
    <3>2. refs[k] <= atExit[k] \/ (k \in errored /\ weak[k])
      <4>1. k \in errored
        BY BoundsOfMade, <2>3, <2>5
      <4>2. QED
        BY <4>1, <1>1 DEF Construct
    <3>3. QED
      BY <1>1, <2>1, <2>3, <2>5, <3>1, <3>2 DEF Construct
  <2>6. CASE k # made + 1 /\ k # entry
    <3>1. napiRef'[k] = napiRef[k] /\ mapShare'[k] = mapShare[k]
      BY <1>1, <2>1, <2>6 DEF Construct, AddRef
    <3>2. QED
      BY <1>1, <2>1, <2>3, <2>6, <3>1 DEF Construct
  <2>7. QED
    BY <2>4, <2>5, <2>6
<1>2. CASE Exit
  BY <1>2 DEF Exit
<1>3. ASSUME NEW i \in Made, TakeReference(i) PROVE InstanceInv(k)'
  BY <1>3 DEF TakeReference, Counted
<1>4. ASSUME NEW i \in Made, CloneReference(i) PROVE InstanceInv(k)'
  <2>1. napiRef[k] = "deleted" /\ k = i => k \in errored /\ weak[k]
    BY <1>4 DEF CloneReference
  <2>2. QED
    BY <1>4, <2>1 DEF CloneReference, Counted
<1>5. ASSUME NEW i \in Made, DropReference(i) PROVE InstanceInv(k)'
  <2>1. CASE k = i
    <3>1. refs'[k] = refs[k] - 1 /\ refs[k] > 0
      BY <1>5, <2>1 DEF DropReference
    <3>2. mapShare[k] => count'[k] = count[k] - 1
      BY <1>5, <2>1 DEF DropReference, Unrefs, Strong
    <3>3. QED
      BY <1>5, <3>1, <3>2 DEF DropReference
  <2>2. CASE k # i
    BY <1>5, <2>2 DEF DropReference
  <2>3. QED
    BY <2>1, <2>2
<1>6. ASSUME NEW i \in Made, Downgrade(i) PROVE InstanceInv(k)'
  BY <1>6 DEF Downgrade
<1>7. ASSUME NEW i \in Made, WeakGet(i) PROVE InstanceInv(k)'
  BY <1>7 DEF WeakGet
<1>8. ASSUME NEW i \in Made, Upgrade(i) PROVE InstanceInv(k)'
  <2>1. k = i /\ napiRef[k] # "live" => k \in errored /\ weak[k]
    BY <1>8 DEF Upgrade, WeakAlive, Strong
  <2>2. QED
    BY <1>8, <2>1 DEF Upgrade, Counted
<1>9. ASSUME NEW i \in Made, ShareWith(i) PROVE InstanceInv(k)'
  BY <1>9 DEF ShareWith
<1>10. ASSUME NEW i \in Made, Release(i) PROVE InstanceInv(k)'
  BY <1>10 DEF Release
<1>11. ASSUME NEW i \in Made, ToJs(i) PROVE InstanceInv(k)'
  BY <1>11 DEF ToJs
<1>12. ASSUME NEW i \in Made, Finalize(i) PROVE InstanceInv(k)'
  <2>1. InstanceInv(i) /\ js[i] \in {"held", "loose"} /\ i = entry /\ i = made
        /\ i \notin errored /\ napiRef[i] = "live"
    BY <1>12 DEF ClassInv, Finalize, Collectable
  <2>2. CASE k # i
    <3>1. ~mapShare[k]
      BY <2>1, <2>2
    <3>2. napiRef'[k] = napiRef[k] /\ mapShare'[k] = mapShare[k] /\ rust'[k] = rust[k]
          /\ js'[k] = js[k]
          /\ atExit'[k] = atExit[k] /\ (k \in errored' <=> k \in errored) /\ refs' = refs
             /\ count' = count /\ weak' = weak
          /\ made' = made /\ exiting' = exiting
      BY <1>12, <2>2 DEF Finalize
    <3>3. QED
      BY <2>1, <2>2, <3>1, <3>2
  <2>3. CASE k = i
    <3>1. rust'[k] = "freed" /\ js'[k] = "collected" /\ atExit'[k] = refs[k]
          /\ refs' = refs /\ count' = count /\ weak' = weak /\ made' = made /\ exiting' = exiting
      BY <1>12, <2>3 DEF Finalize
    <3>2. ~exiting => refs[k] = 0
      BY <1>12, <2>1, <2>3 DEF Finalize, Collectable
    <3>3. CASE k \in errored' /\ UNCHANGED <<entry, mapShare, napiRef>>
      <4>1. /\ mapShare'[k] /\ napiRef'[k] = "live" /\ k = entry' /\ count'[k] = refs'[k]
            /\ ~(k > made') /\ k \in errored' /\ (~exiting => refs[k] = 0)
        BY <2>1, <2>3, <3>1, <3>2, <3>3
      <4>2. QED
        BY <3>1, <4>1
    <3>4. CASE napiRef'[k] = "deleted" /\ mapShare'[k] = FALSE /\ errored' = errored
      BY <2>1, <2>3, <3>1, <3>2, <3>4
    <3>5. QED
      BY <1>12, <2>3, <3>3, <3>4 DEF Finalize
  <2>4. QED
    BY <2>2, <2>3
<1>13. CASE UNCHANGED objectVars
  BY <1>13 DEF objectVars
<1>14. QED
  BY <1>1, <1>2, <1>3, <1>4, <1>5, <1>6, <1>7, <1>8, <1>9, <1>10, <1>11, <1>12, <1>13
  DEF InstanceNext

\* The entry of the map is an instance that is there, or one whose finalize failed.
LEMMA StepMap ==
    ClassInv /\ (InstanceNext \/ UNCHANGED objectVars) =>
        (/\ entry <= made
         /\ entry # 0 => mapShare[entry] /\ (rust[entry] = "live" \/ entry \in errored))'
<1> DEFINE Goal ==
      (/\ entry <= made
       /\ entry # 0 => mapShare[entry] /\ (rust[entry] = "live" \/ entry \in errored))'
<1> SUFFICES ASSUME ClassInv, InstanceNext \/ UNCHANGED objectVars PROVE Goal
  OBVIOUS
<1>a. /\ ObjectsTypeOK /\ made \in Nat /\ entry \in Nat /\ entry <= made
         /\ (entry # 0 => entry \in Made)
      /\ entry # 0 => mapShare[entry] /\ (rust[entry] = "live" \/ entry \in errored)
  BY RefAssumption DEF ClassInv, ObjectsTypeOK, Made
<1> USE <1>a DEF ObjectsTypeOK
<1>1. CASE Construct
  <2>1. made + 1 \in Made
    BY <1>1, BoundsOfMade DEF Construct
  <2>2. mapShare'[made + 1] /\ rust'[made + 1] = "live"
    BY <1>1, <2>1 DEF Construct, AddRef
  <2>3. QED
    BY <1>1, <2>2 DEF Construct
<1>2. CASE Exit
  BY <1>2 DEF Exit
<1>3. ASSUME NEW i \in Made, TakeReference(i) PROVE Goal
  BY <1>3 DEF TakeReference
<1>4. ASSUME NEW i \in Made, CloneReference(i) PROVE Goal
  BY <1>4 DEF CloneReference
<1>5. ASSUME NEW i \in Made, DropReference(i) PROVE Goal
  BY <1>5 DEF DropReference
<1>6. ASSUME NEW i \in Made, Downgrade(i) PROVE Goal
  BY <1>6 DEF Downgrade
<1>7. ASSUME NEW i \in Made, WeakGet(i) PROVE Goal
  BY <1>7 DEF WeakGet
<1>8. ASSUME NEW i \in Made, Upgrade(i) PROVE Goal
  BY <1>8 DEF Upgrade
<1>9. ASSUME NEW i \in Made, ShareWith(i) PROVE Goal
  BY <1>9 DEF ShareWith
<1>10. ASSUME NEW i \in Made, Release(i) PROVE Goal
  BY <1>10 DEF Release
<1>11. ASSUME NEW i \in Made, ToJs(i) PROVE Goal
  BY <1>11 DEF ToJs
<1>12. ASSUME NEW i \in Made, Finalize(i) PROVE Goal
  <2>1. i = entry
    BY <1>12 DEF ClassInv, InstanceInv, Finalize, Collectable
  <2>2. QED
    BY <1>12, <2>1 DEF Finalize
<1>13. CASE UNCHANGED objectVars
  BY <1>13 DEF objectVars
<1>14. QED
  BY <1>1, <1>2, <1>3, <1>4, <1>5, <1>6, <1>7, <1>8, <1>9, <1>10, <1>11, <1>12, <1>13
  DEF InstanceNext

\* A napi reference that is gone is used only where the two properties allow it.
LEMMA StepMisused ==
    ClassInv /\ (InstanceNext \/ UNCHANGED objectVars) =>
        DeletedRefsAreLeftAlone' /\ WeakNeverDangles'
<1> DEFINE Fair(m) == /\ m[2] \in {"ref", "unref", "delete", "get"} =>
                             atExit[m[1]] > 1 \/ (m[1] \in errored /\ weak[m[1]])
                      /\ m[2] = "value" => m[1] \in errored \/ exiting
<1> SUFFICES ASSUME ClassInv, InstanceNext \/ UNCHANGED objectVars, NEW m \in misused'
             PROVE  Fair(m)'
  BY DEF DeletedRefsAreLeftAlone, WeakNeverDangles
<1>a. ObjectsTypeOK /\ \A i \in Made : InstanceInv(i)
  BY DEF ClassInv
<1>b. m \in misused => m[1] \in Made /\ Fair(m)
  BY <1>a DEF ClassInv, DeletedRefsAreLeftAlone, WeakNeverDangles, ObjectsTypeOK
<1>c. \A i \in Made : refs[i] \in Nat /\ atExit[i] \in Nat
  BY <1>a, RefAssumption DEF ObjectsTypeOK
<1>d. ASSUME NEW i \in Made, refs[i] > 0, napiRef[i] # "live"
      PROVE  /\ napiRef[i] = "deleted" /\ ~mapShare[i]
             /\ refs[i] <= atExit[i] \/ (i \in errored /\ weak[i])
             /\ exiting \/ (i \in errored /\ weak[i])
  <2>1. InstanceInv(i) /\ made \in Nat /\ i \in Nat /\ napiRef[i] \in {"none", "live", "deleted"}
    BY <1>a, RefAssumption DEF ObjectsTypeOK, Made
  <2>2. QED
    BY <1>d, <1>c, <2>1 DEF InstanceInv
<1>e. ASSUME NEW i \in Made, Strong(i) > 0, weak[i] \/ refs[i] > 0, rust[i] # "live"
      PROVE i \in errored \/ exiting
  <2>1. InstanceInv(i) /\ made \in Nat /\ i \in Nat /\ rust[i] \in {"none", "live", "freed"}
    BY <1>a, RefAssumption DEF ObjectsTypeOK, Made
  <2>2. QED
    BY <1>e, <1>c, <2>1 DEF InstanceInv, Strong
<1>f. ASSUME UNCHANGED <<atExit, errored, weak, exiting>>, m \in misused PROVE Fair(m)'
  BY <1>f, <1>b
<1> HIDE DEF Fair
<1>1. CASE Construct
  <2>1. entry # 0 => entry \in Made /\ mapShare[entry]
    BY <1>1, RefAssumption DEF ClassInv, ObjectsTypeOK, Made
  <2>2. misused' = misused
    <3>1. CASE entry = 0
      BY <1>1, <3>1 DEF Construct, AddRef
    <3>2. CASE entry # 0
      <4>1. napiRef[entry] = "live"
        BY <2>1, <3>2, <1>a DEF InstanceInv
      <4>2. QED
        BY <1>1, <3>2, <4>1, <2>1, LiveIsUsed DEF Construct, AddRef
    <3>3. QED
      BY <3>1, <3>2
  <2>3. QED
    BY <1>1, <2>2, <1>f DEF Construct
<1>2. CASE Exit
  <2>1. misused' = misused /\ UNCHANGED <<atExit, errored, weak>> /\ exiting'
    BY <1>2 DEF Exit
  <2>2. QED
    BY <2>1, <1>b DEF Fair
<1>3. ASSUME NEW i \in Made, TakeReference(i) PROVE Fair(m)'
  <2>1. napiRef[i] = "live"
    BY <1>3, <1>a DEF TakeReference, InstanceInv
  <2>2. QED
    BY <1>3, <2>1, <1>f, LiveIsUsed DEF TakeReference
<1>4. ASSUME NEW i \in Made, CloneReference(i) PROVE Fair(m)'
  <2>1. ~exiting /\ refs[i] > 0 /\ UNCHANGED <<atExit, errored, weak, exiting>>
        /\ misused' = UseRef(i, "ref")
    BY <1>4, <1>c DEF CloneReference
  <2>2. CASE m \in misused
    BY <2>1, <2>2, <1>f
  <2>3. CASE m \notin misused
    <3>1. m = <<i, "ref">> /\ napiRef[i] # "live"
      BY <2>1, <2>3 DEF UseRef
    <3>2. i \in errored /\ weak[i]
      BY <2>1, <3>1, <1>d
    <3>3. QED
      BY <2>1, <3>1, <3>2 DEF Fair
  <2>4. QED
    BY <2>2, <2>3
<1>5. ASSUME NEW i \in Made, DropReference(i) PROVE Fair(m)'
  <2>1. /\ refs[i] > 0 /\ UNCHANGED <<atExit, errored, weak, exiting>>
        /\ misused' = misused \/ (Strong(i) > 1 /\ misused' = UseRef(i, "unref"))
    BY <1>5 DEF DropReference, Unrefs
  <2>2. CASE m \in misused
    BY <2>1, <2>2, <1>f
  <2>3. CASE m \notin misused
    <3>1. m = <<i, "unref">> /\ napiRef[i] # "live" /\ Strong(i) > 1
      BY <2>1, <2>3 DEF UseRef
    <3>2. ~mapShare[i] /\ (refs[i] <= atExit[i] \/ (i \in errored /\ weak[i]))
      BY <2>1, <3>1, <1>d
    <3>3. refs[i] > 1
      BY <3>1, <3>2, <1>c DEF Strong
    <3>4. atExit[i] > 1 \/ (i \in errored /\ weak[i])
      BY <3>2, <3>3, <1>c
    <3>5. QED
      BY <2>1, <3>1, <3>4 DEF Fair
  <2>4. QED
    BY <2>2, <2>3
<1>6. ASSUME NEW i \in Made, Downgrade(i) PROVE Fair(m)'
  <2>1. m \in misused /\ UNCHANGED <<atExit, errored, exiting>>
        /\ \A k \in Made : weak[k] => weak'[k]
    BY <1>6, <1>a DEF Downgrade, ObjectsTypeOK
  <2>2. QED
    BY <2>1, <1>b DEF Fair
<1>7. ASSUME NEW i \in Made, WeakGet(i) PROVE Fair(m)'
  <2>1. weak[i] /\ Strong(i) > 0 /\ UNCHANGED <<atExit, errored, weak, exiting>>
    BY <1>7 DEF WeakGet, WeakAlive
  <2>2. CASE m \in misused
    BY <2>1, <2>2, <1>f
  <2>3. CASE m \notin misused
    <3>1. m = <<i, "value">> /\ rust[i] # "live"
      BY <1>7, <2>3 DEF WeakGet
    <3>2. QED
      BY <2>1, <3>1, <1>e DEF Fair
  <2>4. QED
    BY <2>2, <2>3
<1>8. ASSUME NEW i \in Made, Upgrade(i) PROVE Fair(m)'
  <2>1. /\ ~exiting /\ weak[i] /\ Strong(i) > 0 /\ UNCHANGED <<atExit, errored, weak, exiting>>
        /\ misused' = UseRef(i, "ref")
    BY <1>8 DEF Upgrade, WeakAlive
  <2>2. CASE m \in misused
    BY <2>1, <2>2, <1>f
  <2>3. CASE m \notin misused
    <3>1. m = <<i, "ref">> /\ napiRef[i] # "live"
      BY <2>1, <2>3 DEF UseRef
    <3>2. refs[i] > 0
      <4>1. ~mapShare[i]
        BY <3>1, <1>a DEF InstanceInv
      <4>2. QED
        BY <4>1, <2>1, <1>c DEF Strong
    <3>3. i \in errored /\ weak[i]
      BY <2>1, <3>1, <3>2, <1>d
    <3>4. QED
      BY <2>1, <3>1, <3>3 DEF Fair
  <2>4. QED
    BY <2>2, <2>3
<1>9. ASSUME NEW i \in Made, ShareWith(i) PROVE Fair(m)'
  <2>1. refs[i] > 0 /\ Strong(i) > 0 /\ UNCHANGED <<atExit, errored, weak, exiting>>
    BY <1>9, <1>c DEF ShareWith, Strong
  <2>2. CASE m \in misused
    BY <2>1, <2>2, <1>f
  <2>3. CASE m \notin misused
    <3>1. m = <<i, "value">> /\ rust[i] # "live"
      BY <1>9, <2>3 DEF ShareWith
    <3>2. QED
      BY <2>1, <3>1, <1>e DEF Fair
  <2>4. QED
    BY <2>2, <2>3
<1>10. ASSUME NEW i \in Made, Release(i) PROVE Fair(m)'
  BY <1>10, <1>f DEF Release
<1>11. ASSUME NEW i \in Made, ToJs(i) PROVE Fair(m)'
  <2>1. napiRef[i] = "live"
    BY <1>11, <1>a DEF ToJs, InstanceInv
  <2>2. QED
    BY <1>11, <2>1, <1>f, LiveIsUsed DEF ToJs
<1>12. ASSUME NEW i \in Made, Finalize(i) PROVE Fair(m)'
  <2>1. InstanceInv(i) /\ js[i] \in {"held", "loose"} /\ napiRef[i] = "live" /\ ~(atExit[i] > 1)
    BY <1>12, <1>a DEF Finalize, Collectable, InstanceInv
  <2>2. m \in misused /\ errored \subseteq errored' /\ UNCHANGED <<weak, exiting>>
        /\ \A k \in Made : k # i => atExit'[k] = atExit[k]
    BY <1>12, <2>1, LiveIsUsed DEF Finalize
  <2>3. QED
    BY <2>1, <2>2, <1>b DEF Fair
<1>13. CASE UNCHANGED objectVars
  BY <1>13, <1>f DEF objectVars
<1>14. QED
  BY <1>1, <1>2, <1>3, <1>4, <1>5, <1>6, <1>7, <1>8, <1>9, <1>10, <1>11, <1>12, <1>13
  DEF InstanceNext

\* The instances' invariant is inductive.
LEMMA StepClass == ClassInv /\ (InstanceNext \/ UNCHANGED objectVars) => ClassInv'
  BY StepObjectsTyped, StepInstances, StepMap, StepMisused DEF ClassInv

\* What the addon's other parts do leaves the instances alone.
LEMMA ClassApart == [Next]_addonObjectVars => InstanceNext \/ UNCHANGED objectVars
<1>1. FactoryNext => UNCHANGED objectVars
  BY DEF FactoryNext, FactoryBegin, NewBegin, ConstructorRuns, End
<1>2. QED
  BY <1>1 DEF Next, addonObjectVars, classVars

\* The types of the factories' variables.
FramesTypeOK == FlagInv /\ misread \subseteq {"factory", "new"}

\* The stack of calls keeps its type.
LEMMA StepFramesTyped ==
    FramesTypeOK /\ [Next]_addonObjectVars => FramesTypeOK'
<1> SUFFICES ASSUME FramesTypeOK, [Next]_addonObjectVars PROVE misread' \subseteq {"factory", "new"}
  BY FlagApart DEF FramesTypeOK
<1>1. misread \subseteq {"factory", "new"}
      /\ \A i \in 1..Len(frames) : frames[i].by \in {"factory", "new"}
  <2>1. frames \in Seq([by : {"factory", "new"}, ran : BOOLEAN])
        /\ misread \subseteq {"factory", "new"}
    BY DEF FramesTypeOK, FlagInv, Frames
  <2>2. \A i \in 1..Len(frames) : frames[i] \in [by : {"factory", "new"}, ran : BOOLEAN]
    BY <2>1, ElementOfSeq
  <2>3. QED
    BY <2>1, <2>2
<1>2. misread' = misread \/ ConstructorRuns
  <2>1. InstanceNext => misread' = misread
    BY InstancesApart DEF factoryVars
  <2>2. FactoryNext => misread' = misread \/ ConstructorRuns
    BY DEF FactoryNext, FactoryBegin, NewBegin, End
  <2>3. QED
    BY <2>1, <2>2 DEF Next, addonObjectVars, classVars, factoryVars
<1>3. ASSUME ConstructorRuns PROVE misread' \subseteq {"factory", "new"}
  <2>1. Len(frames) \in 1..Len(frames)
    BY <1>3, LenProperties DEF ConstructorRuns, FramesTypeOK, FlagInv, Frames
  <2>2. QED
    BY <1>1, <1>3, <2>1 DEF ConstructorRuns
<1>4. QED
  BY <1>1, <1>2, <1>3

\* The invariant gives each of the properties of the instances.
LEMMA ClassSound == ClassInv /\ FramesTypeOK => InstancesSound
<1> SUFFICES ASSUME ClassInv, FramesTypeOK PROVE InstancesSound
  OBVIOUS
<1>1. ClassTypeOK
  BY DEF ClassInv, ObjectsTypeOK, FramesTypeOK, FlagInv, Frames, ClassTypeOK
<1>2. ReferencesAreCounted /\ OneShare
  BY DEF ClassInv, InstanceInv, ReferencesAreCounted, OneShare
<1>3. EntriesAreLive
  BY DEF ClassInv, EntriesAreLive
<1>4. QED
  BY <1>1, <1>2, <1>3 DEF ClassInv, InstancesSound

\* The counts of References, the napi references and the map agree for every number of
\* instances and of References to them.
THEOREM InstancesAreSound == Spec => []InstancesSound
<1>1. Init => ClassInv /\ FramesTypeOK
  BY ClassInitially, FlagInitially DEF Init, FramesTypeOK, ClassInit
<1>2. ClassInv /\ FramesTypeOK /\ [Next]_addonObjectVars => (ClassInv /\ FramesTypeOK)'
  BY ClassApart, StepClass, StepFramesTyped
<1>3. ClassInv /\ FramesTypeOK => InstancesSound
  BY ClassSound
<1>4. QED
  BY <1>1, <1>2, <1>3, PTL DEF Spec

-----------------------------------------------------------------------------
(* What Env boxes.                                                          *)

Attached(n) == \E h \in attached : h.nat = n
Hooked(n) == \E i \in 1..Len(hooks) : hooks[i] = n
Lost(n) == \E l \in lost : l[1] = n

\* Exactly one of the ways in which a value is owned.
OwnedOnce(n) ==
    \/ Attached(n) /\ instance # n /\ ~Hooked(n) /\ ~Lost(n)
    \/ ~Attached(n) /\ instance = n /\ ~Hooked(n) /\ ~Lost(n)
    \/ ~Attached(n) /\ instance # n /\ Hooked(n) /\ ~Lost(n)
    \/ ~Attached(n) /\ instance # n /\ ~Hooked(n) /\ Lost(n)

Unowned(n) == ~Attached(n) /\ instance # n /\ ~Hooked(n) /\ ~Lost(n)

\* A value has one owner while it lives; of one that an External gave to JS once more, that all
\* its owners are finalisers.
Kept(n) ==
    IF n \in returned THEN box[n] # "unused" /\ instance # n /\ ~Hooked(n) /\ ~Lost(n)
    ELSE IF box[n] = "live" THEN OwnedOnce(n) ELSE Unowned(n)

\* A value is owned by one finaliser, one hook, or lost in one way; and only while it lives.
OwnInv ==
    /\ \A h, k \in attached : h.nat = k.nat => h = k \/ h.nat \in returned
    /\ \A h \in attached : h.nat \in returned => h.via = "external"
    /\ \A l, m \in lost : l[1] = m[1] => l = m
    /\ \A i, j \in 1..Len(hooks) : hooks[i] = hooks[j] => i = j
    /\ \A n \in Natives : Kept(n)
    /\ twice \subseteq returned

\* What Rust code has borrowed lives, and only the object it came with has it.
Seen == /\ box[view.nat] = "live" /\ type[view.nat] = view.as
        /\ \A h \in attached : h.nat = view.nat => h.obj = view.from

\* What Rust code holds is borrowed from a live value, and given back before the end begins.
ViewInv ==
    /\ \A n \in Natives \ returned : box[n] = "freed" => freedAs[n] = type[n]
    /\ view = NoView \/ /\ view.nat \in Natives /\ envLife = "open"
                        /\ view.nat \notin returned => Seen

\* A reference's two counts agree, and an object that one counts is there while Rust runs.
PinInv ==
    \A r \in Refs : ref[r].state # "none" =>
        /\ ref[r].of \in Objects /\ ref[r].rust = ref[r].napi
        /\ ref[r].by = "Ref" /\ ref[r].state = "deleted" => ref[r].napi = 0
        /\ envLife = "open" /\ ref[r].napi > 0 /\ ref[r].state \in {"live", "leaked"} =>
               obj[ref[r].of] # "collected"

\* An Error that was never cloned is the only one of its reference, which is live until then.
CopyInv ==
    /\ \A r \in Refs : copies[r] > 0 =>
         /\ ref[r].state # "none" /\ ref[r].by = "Error"
         /\ r \notin cloned => copies[r] = 1 /\ ref[r].state = "live"
    /\ redeleted \subseteq cloned

EnvInv == EnvTypeOK /\ OwnInv /\ ViewInv /\ PinInv /\ CopyInv

\* A list of hooks without the i-th: the others, in their order.
LEMMA HookRemoved ==
    ASSUME NEW s \in Seq(Natives), NEW i \in 1..Len(s)
    PROVE  LET t == SubSeq(s, 1, i - 1) \o SubSeq(s, i + 1, Len(s)) IN
           /\ t \in Seq(Natives) /\ Len(t) = Len(s) - 1
           /\ \A j \in 1..Len(t) : t[j] = s[IF j < i THEN j ELSE j + 1]
<1> DEFINE a == SubSeq(s, 1, i - 1)
           b == SubSeq(s, i + 1, Len(s))
<1>1. /\ Len(s) \in Nat /\ i \in Nat /\ 1 <= i /\ i <= Len(s)
      /\ \A j \in 1..Len(s) : s[j] \in Natives
  BY LenProperties, ElementOfSeq
<1>2. a \in Seq(Natives) /\ Len(a) = i - 1 /\ \A j \in 1..(i - 1) : a[j] = s[j]
  <2>1. 1 \in Int /\ i - 1 \in Int /\ \A j \in 1..(i - 1) : s[j] \in Natives
    BY <1>1
  <2>2. /\ a \in Seq(Natives) /\ Len(a) = IF 1 <= i - 1 THEN (i - 1) - 1 + 1 ELSE 0
        /\ \A j \in 1..((i - 1) - 1 + 1) : a[j] = s[1 + j - 1]
    BY <2>1, SubSeqProperties
  <2>3. (i - 1) - 1 + 1 = i - 1 /\ (IF 1 <= i - 1 THEN (i - 1) - 1 + 1 ELSE 0) = i - 1
    BY <1>1
  <2>4. \A j \in 1..(i - 1) : 1 + j - 1 = j
    BY <1>1
  <2>5. QED
    BY <2>2, <2>3, <2>4
<1>3. b \in Seq(Natives) /\ Len(b) = Len(s) - i /\ \A j \in 1..(Len(s) - i) : b[j] = s[j + i]
  <2>1. i + 1 \in Int /\ Len(s) \in Int /\ \A j \in (i + 1)..Len(s) : s[j] \in Natives
    BY <1>1
  <2>2. /\ b \in Seq(Natives) /\ Len(b) = IF i + 1 <= Len(s) THEN Len(s) - (i + 1) + 1 ELSE 0
        /\ \A j \in 1..(Len(s) - (i + 1) + 1) : b[j] = s[(i + 1) + j - 1]
    BY <2>1, SubSeqProperties
  <2>3. /\ Len(s) - (i + 1) + 1 = Len(s) - i
        /\ (IF i + 1 <= Len(s) THEN Len(s) - (i + 1) + 1 ELSE 0) = Len(s) - i
    BY <1>1
  <2>4. \A j \in 1..(Len(s) - i) : (i + 1) + j - 1 = j + i
    BY <1>1
  <2>5. QED
    BY <2>2, <2>3, <2>4
<1> HIDE DEF a, b
<1>4. /\ a \o b \in Seq(Natives) /\ Len(a \o b) = Len(a) + Len(b)
      /\ \A j \in 1..(Len(a) + Len(b)) : (a \o b)[j] = IF j <= Len(a) THEN a[j] ELSE b[j - Len(a)]
  BY <1>2, <1>3, ConcatProperties
<1>5. Len(a \o b) = Len(s) - 1
  BY <1>1, <1>2, <1>3, <1>4
<1>6. ASSUME NEW j \in 1..Len(a \o b) PROVE (a \o b)[j] = s[IF j < i THEN j ELSE j + 1]
  <2>1. j \in 1..(Len(a) + Len(b)) /\ j \in Nat
    BY <1>4, <1>5, <1>1
  <2>2. CASE j < i
    <3>1. j <= Len(a) /\ j \in 1..(i - 1)
      BY <2>1, <2>2, <1>1, <1>2
    <3>2. QED
      BY <2>1, <2>2, <3>1, <1>4, <1>2
  <2>3. CASE ~(j < i)
    <3>1. ~(j <= Len(a)) /\ j - Len(a) \in 1..(Len(s) - i) /\ (j - Len(a)) + i = j + 1
      BY <2>1, <2>3, <1>1, <1>2, <1>5
    <3>2. (a \o b)[j] = b[j - Len(a)] /\ b[j - Len(a)] = s[(j - Len(a)) + i]
      BY <2>1, <3>1, <1>4, <1>3
    <3>3. QED
      BY <2>3, <3>1, <3>2
  <2>4. QED
    BY <2>2, <2>3
<1>7. QED
  BY <1>4, <1>5, <1>6 DEF a, b

\* The last hook taken off.
LEMMA HookRun ==
    ASSUME NEW s \in Seq(Natives), s # <<>>
    PROVE  LET t == SubSeq(s, 1, Len(s) - 1) IN
           /\ t \in Seq(Natives) /\ Len(t) = Len(s) - 1 /\ Len(s) \in 1..Len(s)
           /\ \A j \in 1..Len(t) : t[j] = s[j]
<1>1. Len(s) \in Nat /\ Len(s) # 0 /\ \A j \in 1..Len(s) : s[j] \in Natives
  BY LenProperties, ElementOfSeq, EmptySeq
<1> DEFINE m == Len(s) - 1
           t == SubSeq(s, 1, m)
<1>2. 1 \in Int /\ m \in Int /\ \A j \in 1..m : s[j] \in Natives
  BY <1>1
<1>3. /\ t \in Seq(Natives) /\ Len(t) = IF 1 <= m THEN m - 1 + 1 ELSE 0
      /\ \A j \in 1..(m - 1 + 1) : t[j] = s[1 + j - 1]
  BY <1>2, SubSeqProperties
<1>4. m - 1 + 1 = m /\ (IF 1 <= m THEN m - 1 + 1 ELSE 0) = m /\ Len(s) \in 1..Len(s)
  BY <1>1
<1>5. \A j \in 1..m : 1 + j - 1 = j
  BY <1>1
<1>6. QED
  BY <1>3, <1>4, <1>5

\* Nothing is boxed.
LEMMA EnvInitially == EnvInit => EnvInv
<1> SUFFICES ASSUME EnvInit PROVE EnvInv
  OBVIOUS
<1>1. hooks = <<>> /\ hooks \in Seq(Natives) /\ Len(hooks) = 0
  BY EmptySeq DEF EnvInit
<1>2. EnvTypeOK
  BY <1>1, EnvAssumption DEF EnvInit, EnvTypeOK, NoView, NoRef
<1>3. OwnInv
  BY <1>1, EnvAssumption DEF EnvInit, OwnInv, Kept, Unowned, Attached, Hooked, Lost
<1>4. ViewInv /\ PinInv /\ CopyInv
  BY DEF EnvInit, ViewInv, PinInv, CopyInv, NoRef
<1>5. QED
  BY <1>2, <1>3, <1>4 DEF EnvInv

RefRecords == [of : Objects \union {None}, by : {"Ref", "FunctionRef", "Error", None},
                       napi : 0..MaxCount, rust : 0..MaxCount, state :
                           {"none", "live", "leaked", "deleted"}]

\* A reference keeps its type when its state changes.
LEMMA Restated ==
    ASSUME NEW x \in RefRecords, NEW s \in {"none", "live", "leaked", "deleted"}
    PROVE  [x EXCEPT !.state = s] \in RefRecords
BY DEF RefRecords

\* Every operation of the Env keeps the types.
LEMMA StepEnvTyped == EnvTypeOK /\ [EnvNext]_envVars => EnvTypeOK'
<1> SUFFICES ASSUME EnvTypeOK, [EnvNext]_envVars PROVE EnvTypeOK'
  OBVIOUS
<1> USE DEF boxVars, extVars, errVars, refVars
<1>a. /\ hooks \in Seq(Natives) /\ ref \in [Refs -> RefRecords] /\ MaxCount \in Nat
      /\ \A r \in Refs : ref[r] \in RefRecords
  BY EnvAssumption DEF EnvTypeOK, RefRecords
<1>b. \A n \in Natives : Append(hooks, n) \in Seq(Natives)
  BY <1>a, AppendProperties
<1>c. NoView \in [nat : Natives \union {None}, as : Types \union {None}, from : Objects \union {None}]
  BY DEF NoView
<1>d. ASSUME NEW r \in Refs, NEW x \in RefRecords, ref' = [ref EXCEPT ![r] = x]
      PROVE ref' \in [Refs -> RefRecords]
  BY <1>d, <1>a
<1> USE DEF EnvTypeOK, BoxUp, Attach, Lose, Vias, Losses
<1>1. ASSUME NEW o \in Objects, NewObject(o)
      PROVE  EnvTypeOK'
  BY <1>1 DEF NewObject
<1>2. ASSUME NEW o \in Objects, NEW n \in Natives, NEW T \in Types, NEW ok \in BOOLEAN,
             Wrap(o, n, T, ok)
      PROVE  EnvTypeOK'
  BY <1>2 DEF Wrap
<1>3. ASSUME NEW o \in Objects, NEW n \in Natives, NEW T \in Types, NEW ok \in BOOLEAN,
             AddFinalizer(o, n, T, ok)
      PROVE  EnvTypeOK'
  BY <1>3 DEF AddFinalizer
<1>4. ASSUME NEW o \in Objects, NEW n \in Natives, NEW T \in Types, NEW ok \in BOOLEAN,
             CreateExternal(o, n, T, ok)
      PROVE  EnvTypeOK'
  <2>1. attached' \subseteq [obj : Objects, nat : Natives, via : Vias]
        /\ lost' \subseteq Natives \X Losses
    BY <1>4 DEF CreateExternal
  <2>2. QED
    BY <1>4, <2>1 DEF CreateExternal
<1>5. ASSUME NEW o \in Objects, NEW n \in Natives, NEW T \in Types, NEW ok \in BOOLEAN,
             CreateClosure(o, n, T, ok)
      PROVE  EnvTypeOK'
  BY <1>5 DEF CreateClosure
<1>6. ASSUME NEW o \in Objects, NEW n \in Natives, NEW T \in Types,
             NEW api \in {"buffer", "arraybuffer"}, NEW borrowed \in BOOLEAN,
             NEW outcome \in {"external", "copied", "failed", "empty"}, GiveBuffer(o, n, T,
                 api, borrowed, outcome)
      PROVE  EnvTypeOK'
  <2>1. BufferOutcome(n, api, borrowed, outcome) \in {"failed", "forgotten", "free", "owned"}
    BY DEF BufferOutcome
  <2>2. attached' \subseteq [obj : Objects, nat : Natives, via : Vias]
        /\ lost' \subseteq Natives \X Losses
    BY <1>6, <2>1 DEF GiveBuffer
  <2>3. QED
    BY <1>6, <2>2 DEF GiveBuffer
<1>7. ASSUME NEW o \in Objects, NEW T \in Types, DropWrapped(o, T)
      PROVE  EnvTypeOK'
  <2>1. PICK h \in WrapOf(o) :
           /\ attached' = attached \ {h}
           /\ \/ /\ box' = [box EXCEPT ![h.nat] = "freed"]
                 /\ freedAs' = [freedAs EXCEPT ![h.nat] = T] /\ UNCHANGED lost
              \/ lost' = lost \union {<<h.nat, "mistyped">>} /\ UNCHANGED <<box, freedAs>>
    BY <1>7 DEF DropWrapped
  <2>2. h.nat \in Natives
    BY DEF WrapOf
  <2>3. box' \in [Natives -> {"unused", "live", "freed"}]
        /\ freedAs' \in [Natives -> Types \union {None}]
    <3>1. CASE UNCHANGED <<box, freedAs>>
      BY <3>1
    <3>2. CASE box' = [box EXCEPT ![h.nat] = "freed"] /\ freedAs' = [freedAs EXCEPT ![h.nat] = T]
      BY <2>2, <3>2
    <3>3. QED
      BY <2>1, <3>1, <3>2
  <2>4. lost' \subseteq Natives \X Losses
        /\ attached' \subseteq [obj : Objects, nat : Natives, via : Vias]
    BY <2>1, <2>2
  <2>5. UNCHANGED <<envLife, obj, type, instance, hooks, extVars, refVars>>
    BY <1>7 DEF DropWrapped
  <2>6. QED
    BY <2>3, <2>4, <2>5
<1>8. ASSUME NEW o \in Objects, NEW T \in Types, Borrow(o, T)
      PROVE  EnvTypeOK'
  BY <1>8 DEF Borrow
<1>9. CASE Return
  BY <1>9, <1>c DEF Return
<1>10. ASSUME NEW n \in Natives, NEW T \in Types, NEW ok \in BOOLEAN, SetInstance(n, T, ok)
      PROVE  EnvTypeOK'
  <2>1. instance' \in Natives \union {None} /\ lost' \subseteq Natives \X Losses
    BY <1>10 DEF SetInstance
  <2>2. QED
    BY <1>10, <2>1 DEF SetInstance
<1>11. ASSUME NEW T \in Types, BorrowInstance(T)
      PROVE  EnvTypeOK'
  BY <1>11 DEF BorrowInstance
<1>12. ASSUME NEW n \in Natives, NEW T \in Types, NEW ok \in BOOLEAN, AddHook(n, T, ok)
      PROVE  EnvTypeOK'
  <2>1. hooks' \in Seq(Natives)
    BY <1>12, <1>a, <1>b DEF AddHook
  <2>2. lost' \subseteq Natives \X Losses
    BY <1>12 DEF AddHook
  <2>3. QED
    BY <1>12, <2>1, <2>2 DEF AddHook
<1>13. ASSUME NEW n \in Natives, RemoveHook(n)
      PROVE  EnvTypeOK'
  <2>1. hooks' \in Seq(Natives)
    <3>1. PICK i \in DOMAIN hooks :
              hooks' = SubSeq(hooks, 1, i - 1) \o SubSeq(hooks, i + 1, Len(hooks))
      BY <1>13 DEF RemoveHook
    <3>2. i \in 1..Len(hooks)
      BY <1>a, LenProperties
    <3>3. QED
      BY <3>1, <3>2, <1>a, HookRemoved
  <2>2. QED
    BY <1>13, <2>1 DEF RemoveHook
<1>14. ASSUME NEW r \in Refs, NEW o \in Objects, NEW by \in {"Ref", "FunctionRef", "Error"},
              NEW c \in 0..MaxCount, CreateRef(r, o, by, c)
      PROVE  EnvTypeOK'
  <2>1. [of |-> o, by |-> by, napi |-> c, rust |-> c, state |-> "live"] \in RefRecords
    BY DEF RefRecords
  <2>2. ref' \in [Refs -> RefRecords]
    BY <1>14, <2>1, <1>d DEF CreateRef
  <2>3. copies' \in [Refs -> 0..MaxCount]
    BY <1>14, <1>a DEF CreateRef
  <2>4. QED
    BY <1>14, <2>2, <2>3 DEF CreateRef, RefRecords
<1>15. ASSUME NEW r \in Refs, RefUp(r)
      PROVE  EnvTypeOK'
  <2> DEFINE x == [ref[r] EXCEPT !.napi = @ + 1, !.rust = ref[r].napi + 1]
  <2>1. ref' = [ref EXCEPT ![r] = x]
    BY <1>15, <1>a DEF RefUp
  <2>2. ref[r].napi + 1 \in 0..MaxCount
    BY <1>15, <1>a DEF RefUp, RefRecords
  <2>3. x \in RefRecords
    BY <2>2, <1>a DEF RefRecords
  <2>4. ref' \in [Refs -> RefRecords]
    BY <2>1, <2>3, <1>d
  <2>5. QED
    BY <1>15, <2>4 DEF RefUp, RefRecords
<1>16. ASSUME NEW r \in Refs, RefDown(r)
      PROVE  EnvTypeOK'
  <2> DEFINE x == [ref[r] EXCEPT !.napi = @ - 1, !.rust = ref[r].napi - 1,
                                 !.state = IF ref[r].napi = 1 THEN "deleted" ELSE "live"]
  <2>1. ref' = [ref EXCEPT ![r] = x]
    BY <1>16, <1>a DEF RefDown
  <2>2. ref[r].napi - 1 \in 0..MaxCount
    BY <1>16, <1>a DEF RefDown, RefRecords
  <2>3. x \in RefRecords
    BY <2>2, <1>a DEF RefRecords
  <2>4. ref' \in [Refs -> RefRecords]
    BY <2>1, <2>3, <1>d
  <2>5. QED
    BY <1>16, <2>4 DEF RefDown, RefRecords
<1>17. ASSUME NEW r \in Refs, DropRef(r)
      PROVE  EnvTypeOK'
  <2> DEFINE s == IF ref[r].by = "FunctionRef" THEN "deleted" ELSE "leaked"
  <2>1. ref' = [ref EXCEPT ![r] = [ref[r] EXCEPT !.state = s]]
    BY <1>17, <1>a DEF DropRef
  <2>2. ref[r] \in RefRecords /\ s \in {"none", "live", "leaked", "deleted"}
    BY <1>a
  <2> HIDE DEF s
  <2>3. ref' \in [Refs -> RefRecords]
    BY <2>1, <2>2, <1>d, Restated
  <2>4. QED
    BY <1>17, <2>3 DEF DropRef, RefRecords
<1>18. ASSUME NEW r \in Refs, RethrowError(r)
      PROVE  EnvTypeOK'
  <2>1. ref' = [ref EXCEPT ![r] = [ref[r] EXCEPT !.state = "deleted"]]
    BY <1>18, <1>a DEF RethrowError
  <2>2. ref[r] \in RefRecords
    BY <1>a
  <2>3. ref' \in [Refs -> RefRecords]
    BY <2>1, <2>2, <1>d, Restated
  <2>4. copies' \in [Refs -> 0..MaxCount]
    BY <1>18, <1>a DEF RethrowError
  <2>5. QED
    BY <1>18, <2>3, <2>4 DEF RethrowError, RefRecords
<1>19. ASSUME NEW o \in Objects, ReleaseObject(o)
      PROVE  EnvTypeOK'
  BY <1>19 DEF ReleaseObject
<1>20. ASSUME NEW o \in Objects, Collect(o)
      PROVE  EnvTypeOK'
  BY <1>20 DEF Collect
<1>21. CASE CloseEnv
  BY <1>21 DEF CloseEnv
<1>22. CASE RunHook
  <2>1. hooks' \in Seq(Natives)
    BY <1>22, <1>a, HookRun DEF RunHook
  <2>2. QED
    BY <1>22, <2>1 DEF RunHook
<1>23. CASE HooksDone
  BY <1>23 DEF HooksDone
<1>24. CASE EndEnv
  BY <1>24 DEF EndEnv
<1>25. CASE UNCHANGED envVars
  BY <1>25 DEF envVars
<1>26. ASSUME NEW n \in Natives, NEW T \in Types, ForgetExternal(n, T)
      PROVE  EnvTypeOK'
  BY <1>26 DEF ForgetExternal
<1>27. ASSUME NEW o \in Objects, ReturnExternal(o)
      PROVE  EnvTypeOK'
  <2>1. view.nat \in Natives
    BY <1>27 DEF ReturnExternal
  <2>2. QED
    BY <1>27, <2>1, <1>c DEF ReturnExternal
<1>28. ASSUME NEW r \in Refs, CloneError(r)
      PROVE  EnvTypeOK'
  BY <1>28, <1>a DEF CloneError, RefRecords
<1>29. ASSUME NEW r \in Refs, DropError(r)
      PROVE  EnvTypeOK'
  <2> DEFINE s == IF ref[r].state = "live" /\ copies[r] = 1 THEN "leaked" ELSE ref[r].state
  <2>1. ref' = [ref EXCEPT ![r] = [ref[r] EXCEPT !.state = s]]
    BY <1>29, <1>a DEF DropError
  <2>2. ref[r] \in RefRecords /\ s \in {"none", "live", "leaked", "deleted"}
    BY <1>a DEF RefRecords
  <2> HIDE DEF s
  <2>3. ref' \in [Refs -> RefRecords]
    BY <2>1, <2>2, <1>d, Restated
  <2>4. copies' \in [Refs -> 0..MaxCount]
    BY <1>29, <1>a DEF DropError
  <2>5. QED
    BY <1>29, <2>3, <2>4 DEF DropError, RefRecords
<1> HIDE DEF EnvTypeOK, BoxUp, Attach, Lose, Vias, Losses
<1> HIDE DEF boxVars, extVars, errVars, refVars
<1>30. QED
  BY <1>1, <1>2, <1>3, <1>4, <1>5, <1>6, <1>7, <1>8, <1>9, <1>10, <1>11, <1>12, <1>13,
     <1>14, <1>15, <1>16, <1>17, <1>18, <1>19, <1>20, <1>21, <1>22, <1>23, <1>24, <1>25,
     <1>26, <1>27, <1>28, <1>29
  DEF EnvNext, GiveValue

\* A value that is lost is lost, and no other is.
LEMMA LostGrows ==
    ASSUME NEW n, NEW why, lost' = lost \union {<<n, why>>}
    PROVE  Lost(n)' /\ \A k : k # n => (Lost(k)' <=> Lost(k))
<1>1. <<n, why>> \in lost' /\ <<n, why>>[1] = n
  OBVIOUS
<1>2. Lost(n)'
  BY <1>1 DEF Lost
<1>3. ASSUME NEW k, k # n PROVE Lost(k)' <=> Lost(k)
  <2>1. \A l \in lost' : l[1] = k => l \in lost
    BY <1>3
  <2>2. QED
    BY <2>1 DEF Lost
<1>4. QED
  BY <1>2, <1>3

\* A value with a finaliser attached has one, and no other gets one.
LEMMA AttachedGrows ==
    ASSUME NEW n, NEW o, NEW via,
           attached' = attached \union {[obj |-> o, nat |-> n, via |-> via]}
    PROVE  Attached(n)' /\ \A k : k # n => (Attached(k)' <=> Attached(k))
<1> DEFINE x == [obj |-> o, nat |-> n, via |-> via]
<1>1. x \in attached' /\ x.nat = n
  OBVIOUS
<1>2. Attached(n)'
  BY <1>1 DEF Attached
<1>3. ASSUME NEW k, k # n PROVE Attached(k)' <=> Attached(k)
  <2>1. \A h \in attached' : h.nat = k => h \in attached
    BY <1>3
  <2>2. QED
    BY <2>1 DEF Attached
<1>4. QED
  BY <1>2, <1>3

\* A value that is boxed up and given to one owner: a finaliser, nobody, the instance data, over
\* what was there, or a hook.
LEMMA GivesOne ==
    ASSUME EnvTypeOK, OwnInv, NEW n \in Natives, box[n] = "unused",
           box' = [box EXCEPT ![n] = "live"], UNCHANGED <<returned, twice>>,
           \/ \E o, via : /\ attached' = attached \union {[obj |-> o, nat |-> n, via |-> via]}
                          /\ UNCHANGED <<instance, hooks, lost>>
           \/ \E why : lost' = lost \union {<<n, why>>} /\ UNCHANGED <<attached, instance, hooks>>
           \/ instance' = n /\ instance = None /\ UNCHANGED <<attached, hooks, lost>>
           \/ /\ instance' = n /\ instance # None
              /\ lost' = lost \union {<<instance, "overwritten">>}
              /\ UNCHANGED <<attached, hooks>>
           \/ hooks' = Append(hooks, n) /\ UNCHANGED <<attached, instance, lost>>
    PROVE  OwnInv'
<1>a. /\ hooks \in Seq(Natives) /\ Len(hooks) \in Nat /\ instance \in Natives \union {None}
      /\ None \notin Natives /\ box \in [Natives -> {"unused", "live", "freed"}]
  BY LenProperties, EnvAssumption DEF EnvTypeOK
<1>b. /\ \A h, k \in attached : h.nat = k.nat => h = k \/ h.nat \in returned
      /\ \A h \in attached : h.nat \in returned => h.via = "external"
      /\ \A l, m \in lost : l[1] = m[1] => l = m
      /\ \A i, j \in 1..Len(hooks) : hooks[i] = hooks[j] => i = j
      /\ \A k \in Natives : Kept(k)
      /\ twice \subseteq returned
  BY DEF OwnInv
<1>c. n \notin returned /\ ~Attached(n) /\ instance # n /\ ~Hooked(n) /\ ~Lost(n)
  BY <1>a, <1>b DEF Kept, Unowned
<1>d. box'[n] = "live" /\ \A k \in Natives : k # n => box'[k] = box[k]
  BY <1>a
<1>1. ASSUME NEW o, NEW via, attached' = attached \union {[obj |-> o, nat |-> n, via |-> via]},
             UNCHANGED <<instance, hooks, lost>>
      PROVE  OwnInv'
  <2>1. /\ \A h, k \in attached' : h.nat = k.nat => h = k \/ h.nat \in returned'
        /\ \A h \in attached' : h.nat \in returned' => h.via = "external"
    BY <1>1, <1>b, <1>c DEF Attached
  <2>2. Attached(n)' /\ \A k \in Natives : k # n => (Attached(k)' <=> Attached(k))
    BY <1>1, AttachedGrows
  <2>3. \A k : (Hooked(k)' <=> Hooked(k)) /\ (Lost(k)' <=> Lost(k))
    BY <1>1 DEF Hooked, Lost
  <2>4. \A k \in Natives : Kept(k)'
    BY <1>1, <1>b, <1>c, <1>d, <2>2, <2>3 DEF Kept, OwnedOnce, Unowned
  <2>5. QED
    BY <1>1, <1>b, <2>1, <2>4 DEF OwnInv
<1>2. ASSUME NEW why, lost' = lost \union {<<n, why>>}, UNCHANGED <<attached, instance, hooks>>
      PROVE  OwnInv'
  <2>1. \A l, m \in lost' : l[1] = m[1] => l = m
    BY <1>2, <1>b, <1>c DEF Lost
  <2>2. Lost(n)' /\ \A k \in Natives : k # n => (Lost(k)' <=> Lost(k))
    BY <1>2, LostGrows
  <2>3. \A k : (Hooked(k)' <=> Hooked(k)) /\ (Attached(k)' <=> Attached(k))
    BY <1>2 DEF Hooked, Attached
  <2>4. \A k \in Natives : Kept(k)'
    BY <1>2, <1>b, <1>c, <1>d, <2>2, <2>3 DEF Kept, OwnedOnce, Unowned
  <2>5. QED
    BY <1>2, <1>b, <2>1, <2>4 DEF OwnInv
<1>3. ASSUME instance' = n, instance = None, UNCHANGED <<attached, hooks, lost>> PROVE OwnInv'
  <2>1. \A k : (Hooked(k)' <=> Hooked(k)) /\ (Attached(k)' <=> Attached(k))
        /\ (Lost(k)' <=> Lost(k))
    BY <1>3 DEF Hooked, Attached, Lost
  <2>2. \A k \in Natives : Kept(k)'
    BY <1>3, <1>a, <1>b, <1>c, <1>d, <2>1 DEF Kept, OwnedOnce, Unowned
  <2>3. QED
    BY <1>3, <1>b, <2>2 DEF OwnInv
<1>4. ASSUME instance' = n, instance # None, lost' = lost \union {<<instance, "overwritten">>},
             UNCHANGED <<attached, hooks>>
      PROVE  OwnInv'
  <2>0. PICK m \in Natives : m = instance
    BY <1>4, <1>a
  <2>1. box[m] = "live" /\ OwnedOnce(m) /\ ~Lost(m) /\ m # n
    BY <2>0, <1>a, <1>b, <1>c DEF Kept, OwnedOnce, Unowned
  <2>2. \A l, k \in lost' : l[1] = k[1] => l = k
    BY <1>4, <1>b, <2>0, <2>1 DEF Lost
  <2>3. \A k : (Hooked(k)' <=> Hooked(k)) /\ (Attached(k)' <=> Attached(k))
    BY <1>4 DEF Hooked, Attached
  <2>4. Lost(m)' /\ \A k : k # m => (Lost(k)' <=> Lost(k))
    BY <1>4, <2>0, LostGrows
  <2>5. \A k \in Natives : Kept(k)'
    BY <1>4, <1>b, <1>c, <1>d, <2>0, <2>1, <2>3, <2>4 DEF Kept, OwnedOnce, Unowned
  <2>6. QED
    BY <1>4, <1>b, <2>2, <2>5 DEF OwnInv
<1>5. ASSUME hooks' = Append(hooks, n), UNCHANGED <<attached, instance, lost>> PROVE OwnInv'
  <2>1. /\ Len(hooks') = Len(hooks) + 1 /\ hooks'[Len(hooks) + 1] = n
        /\ \A i \in 1..Len(hooks) : hooks'[i] = hooks[i]
    BY <1>5, <1>a, AppendProperties
  <2>2. \A i \in 1..Len(hooks') : i \in 1..Len(hooks) \/ i = Len(hooks) + 1
    BY <2>1, <1>a
  <2>3. \A i, j \in 1..Len(hooks') : hooks'[i] = hooks'[j] => i = j
    BY <2>1, <2>2, <1>b, <1>c DEF Hooked
  <2>4. Hooked(n)' /\ \A k \in Natives : k # n => (Hooked(k)' <=> Hooked(k))
    <3>1. Len(hooks) + 1 \in 1..Len(hooks') /\ \A i \in 1..Len(hooks) : i \in 1..Len(hooks')
      BY <2>1, <1>a
    <3>2. QED
      BY <3>1, <2>1, <2>2 DEF Hooked
  <2>5. \A k : (Lost(k)' <=> Lost(k)) /\ (Attached(k)' <=> Attached(k))
    BY <1>5 DEF Lost, Attached
  <2>6. \A k \in Natives : Kept(k)'
    BY <1>5, <1>b, <1>c, <1>d, <2>4, <2>5 DEF Kept, OwnedOnce, Unowned
  <2>7. QED
    BY <1>5, <1>b, <2>3, <2>6 DEF OwnInv
<1>6. QED
  BY <1>1, <1>2, <1>3, <1>4, <1>5

\* Values that their finalisers free.
LEMMA FinaliserFrees ==
    ASSUME EnvTypeOK, OwnInv, NEW S \in SUBSET attached,
           attached' = attached \ S, box' \in [Natives -> {"unused", "live", "freed"}],
           \A h \in S : box'[h.nat] = "freed",
           \A n \in Natives : (\A h \in S : h.nat # n) => box'[n] = box[n],
           UNCHANGED <<instance, hooks, lost, returned>>,
           twice' \subseteq twice \union {h.nat : h \in {k \in S : box[k.nat] = "freed"}}
    PROVE  OwnInv'
<1>a. /\ \A h, k \in attached : h.nat = k.nat => h = k \/ h.nat \in returned
      /\ \A h \in attached : h.nat \in returned => h.via = "external"
      /\ \A l, m \in lost : l[1] = m[1] => l = m
      /\ \A i, j \in 1..Len(hooks) : hooks[i] = hooks[j] => i = j
      /\ \A k \in Natives : Kept(k)
      /\ twice \subseteq returned
  BY DEF OwnInv
<1>1. \A k : (Hooked(k)' <=> Hooked(k)) /\ (Lost(k)' <=> Lost(k))
  BY DEF Hooked, Lost
<1>b. \A h \in attached : h.nat \in Natives
  BY DEF EnvTypeOK
<1>2. ASSUME NEW n \in Natives PROVE Kept(n)'
  <2>1. CASE n \in returned
    <3>1. box'[n] # "unused"
      BY <2>1, <1>a DEF Kept
    <3>2. QED
      BY <2>1, <3>1, <1>1, <1>a DEF Kept
  <2>2. CASE n \notin returned /\ \E h \in S : h.nat = n
    <3>1. Attached(n) /\ ~Attached(n)' /\ box'[n] = "freed"
      BY <2>2, <1>a DEF Attached
    <3>2. instance # n /\ ~Hooked(n) /\ ~Lost(n)
      BY <2>2, <3>1, <1>a DEF Kept, OwnedOnce, Unowned
    <3>3. QED
      BY <2>2, <1>1, <3>1, <3>2 DEF Kept, Unowned
  <2>3. CASE n \notin returned /\ \A h \in S : h.nat # n
    <3>1. (Attached(n)' <=> Attached(n)) /\ box'[n] = box[n]
      BY <2>3 DEF Attached
    <3>2. QED
      BY <2>3, <1>1, <1>a, <3>1 DEF Kept, OwnedOnce, Unowned
  <2>4. QED
    BY <2>1, <2>2, <2>3
<1>3. ASSUME NEW h \in S, box[h.nat] = "freed" PROVE h.nat \in returned
  <2>1. Attached(h.nat) /\ h.nat \in Natives
    BY <1>b DEF Attached
  <2>2. QED
    BY <2>1, <1>3, <1>a DEF Kept, Unowned
<1>4. twice' \subseteq returned'
  BY <1>3, <1>a
<1>5. QED
  BY <1>a, <1>2, <1>4 DEF OwnInv

\* An operation that takes a value from one owner gives it to one other, or frees it.
LEMMA StepOwners == EnvTypeOK /\ OwnInv /\ [EnvNext]_envVars => OwnInv'
<1> SUFFICES ASSUME EnvTypeOK, OwnInv, [EnvNext]_envVars PROVE OwnInv'
  OBVIOUS
<1> USE DEF boxVars, extVars, errVars, refVars
<1>a. /\ hooks \in Seq(Natives) /\ Len(hooks) \in Nat /\ instance \in Natives \union {None}
      /\ None \notin Natives /\ box \in [Natives -> {"unused", "live", "freed"}]
      /\ \A h \in attached : h.nat \in Natives
  BY LenProperties, EnvAssumption DEF EnvTypeOK
<1>b. /\ \A h, k \in attached : h.nat = k.nat => h = k \/ h.nat \in returned
      /\ \A h \in attached : h.nat \in returned => h.via = "external"
      /\ \A l, m \in lost : l[1] = m[1] => l = m
      /\ \A i, j \in 1..Len(hooks) : hooks[i] = hooks[j] => i = j
      /\ \A k \in Natives : Kept(k)
      /\ twice \subseteq returned
  BY DEF OwnInv
<1>c. (UNCHANGED <<box, attached, instance, hooks, lost, returned, twice>>) => OwnInv'
  BY DEF OwnInv, Kept, OwnedOnce, Unowned, Attached, Hooked, Lost
<1>d. ASSUME NEW n \in Natives, box[n] = "unused", box' = [box EXCEPT ![n] = "freed"],
             UNCHANGED <<attached, instance, hooks, lost, returned, twice>>
      PROVE  OwnInv'
  <2>1. box'[n] = "freed" /\ box[n] # "live" /\ \A k \in Natives : k # n => box'[k] = box[k]
    BY <1>d, <1>a
  <2>2. \A k : /\ (Attached(k)' <=> Attached(k)) /\ (Hooked(k)' <=> Hooked(k))
              /\ (Lost(k)' <=> Lost(k))
    BY <1>d DEF Attached, Hooked, Lost
  <2>3. \A k \in Natives : Kept(k)'
    BY <1>b, <1>d, <2>1, <2>2 DEF Kept, OwnedOnce, Unowned
  <2>4. QED
    BY <1>b, <1>d, <2>3 DEF OwnInv
<1>1. ASSUME NEW o \in Objects, NewObject(o)
      PROVE  OwnInv'
  BY <1>1, <1>c DEF NewObject
<1>2. ASSUME NEW o \in Objects, NEW n \in Natives, NEW T \in Types, NEW ok \in BOOLEAN,
             Wrap(o, n, T, ok)
      PROVE  OwnInv'
  <2>1. /\ box[n] = "unused" /\ box' = [box EXCEPT ![n] = "live"]
        /\ UNCHANGED <<instance, hooks, returned, twice>>
        /\ \/ /\ attached' = attached \union {[obj |-> o, nat |-> n, via |-> "wrap"]}
              /\ UNCHANGED lost
           \/ lost' = lost \union {<<n, "failed">>} /\ UNCHANGED attached
    BY <1>2 DEF Wrap, BoxUp, Attach, Lose
  <2>2. QED
    BY <2>1, GivesOne
<1>3. ASSUME NEW o \in Objects, NEW n \in Natives, NEW T \in Types, NEW ok \in BOOLEAN,
             AddFinalizer(o, n, T, ok)
      PROVE  OwnInv'
  <2>1. /\ box[n] = "unused" /\ box' = [box EXCEPT ![n] = "live"]
        /\ UNCHANGED <<instance, hooks, returned, twice>>
        /\ \/ /\ attached' = attached \union {[obj |-> o, nat |-> n, via |-> "finalizer"]}
              /\ UNCHANGED lost
           \/ lost' = lost \union {<<n, "failed">>} /\ UNCHANGED attached
    BY <1>3 DEF AddFinalizer, BoxUp, Attach, Lose
  <2>2. QED
    BY <2>1, GivesOne
<1>4. ASSUME NEW o \in Objects, NEW n \in Natives, NEW T \in Types, NEW ok \in BOOLEAN,
             CreateExternal(o, n, T, ok)
      PROVE  OwnInv'
  <2>1. /\ box[n] = "unused" /\ box' = [box EXCEPT ![n] = "live"]
        /\ UNCHANGED <<instance, hooks, returned, twice>>
        /\ \/ /\ attached' = attached \union {[obj |-> o, nat |-> n, via |-> "external"]}
              /\ UNCHANGED lost
           \/ lost' = lost \union {<<n, "failed">>} /\ UNCHANGED attached
    BY <1>4 DEF CreateExternal, BoxUp, Attach, Lose
  <2>2. QED
    BY <2>1, GivesOne
<1>5. ASSUME NEW o \in Objects, NEW n \in Natives, NEW T \in Types, NEW ok \in BOOLEAN,
             CreateClosure(o, n, T, ok)
      PROVE  OwnInv'
  <2>1. /\ box[n] = "unused" /\ box' = [box EXCEPT ![n] = "live"]
        /\ UNCHANGED <<instance, hooks, returned, twice>>
        /\ \/ /\ attached' = attached \union {[obj |-> o, nat |-> n, via |-> "closure"]}
              /\ UNCHANGED lost
           \/ lost' = lost \union {<<n, "failed">>} /\ UNCHANGED attached
    BY <1>5 DEF CreateClosure, BoxUp, Attach, Lose
  <2>2. QED
    BY <2>1, GivesOne
<1>6. ASSUME NEW o \in Objects, NEW n \in Natives, NEW T \in Types,
             NEW api \in {"buffer", "arraybuffer"}, NEW borrowed \in BOOLEAN,
             NEW outcome \in {"external", "copied", "failed", "empty"}, GiveBuffer(o, n, T,
                 api, borrowed, outcome)
      PROVE  OwnInv'
  <2> DEFINE what == BufferOutcome(n, api, borrowed, outcome)
  <2>1. what \in {"failed", "forgotten", "free", "owned"}
    BY DEF BufferOutcome
  <2> HIDE DEF what
  <2>2. /\ box[n] = "unused" /\ UNCHANGED <<instance, hooks, returned, twice>>
        /\ box' = [box EXCEPT ![n] = IF what = "free" THEN "freed" ELSE "live"]
        /\ IF what = "owned" THEN attached' = attached \union {[obj |-> o, nat |-> n,
               via |-> "buffer"]}
                             ELSE UNCHANGED attached
        /\ IF what \in {"failed", "forgotten"} THEN lost' = lost \union {<<n,
               what>>} ELSE UNCHANGED lost
    BY <1>6 DEF GiveBuffer, Attach, Lose, what
  <2>3. CASE what = "free"
    BY <2>2, <2>3, <1>d
  <2>4. CASE what = "owned"
    BY <2>2, <2>4, GivesOne
  <2>5. CASE what \in {"failed", "forgotten"}
    BY <2>2, <2>5, GivesOne
  <2>6. QED
    BY <2>1, <2>3, <2>4, <2>5
<1>7. ASSUME NEW o \in Objects, NEW T \in Types, DropWrapped(o, T)
      PROVE  OwnInv'
  <2>1. PICK h \in WrapOf(o) :
           /\ attached' = attached \ {h}
           /\ \/ box' = [box EXCEPT ![h.nat] = "freed"] /\ UNCHANGED lost
              \/ lost' = lost \union {<<h.nat, "mistyped">>} /\ UNCHANGED box
    BY <1>7 DEF DropWrapped, Lose
  <2>2. /\ h \in attached /\ h.nat \in Natives /\ h.nat \notin returned
        /\ UNCHANGED <<instance, hooks, returned, twice>>
    BY <1>7, <1>a, <1>b DEF WrapOf, DropWrapped
  <2>3. CASE box' = [box EXCEPT ![h.nat] = "freed"] /\ UNCHANGED lost
    <3>1. /\ {h} \in SUBSET attached /\ attached' = attached \ {h}
          /\ box' \in [Natives -> {"unused", "live", "freed"}]
          /\ \A k \in {h} : box'[k.nat] = "freed"
          /\ \A n \in Natives : (\A k \in {h} : k.nat # n) => box'[n] = box[n]
      BY <2>1, <2>2, <2>3, <1>a
    <3>2. QED
      BY <3>1, <2>2, <2>3, FinaliserFrees
  <2>4. CASE lost' = lost \union {<<h.nat, "mistyped">>} /\ UNCHANGED box
    <3>1. Attached(h.nat) /\ OwnedOnce(h.nat) /\ ~Lost(h.nat) /\ box[h.nat] = "live"
      BY <2>2, <1>b DEF Attached, Kept, OwnedOnce, Unowned
    <3>2. ~Attached(h.nat)' /\ \A k : k # h.nat => (Attached(k)' <=> Attached(k))
      BY <2>1, <2>2, <1>b DEF Attached
    <3>3. Lost(h.nat)' /\ \A k : k # h.nat => (Lost(k)' <=> Lost(k))
      BY <2>4, LostGrows
    <3>4. \A l, m \in lost' : l[1] = m[1] => l = m
      BY <2>4, <3>1, <1>b DEF Lost
    <3>5. \A k : Hooked(k)' <=> Hooked(k)
      BY <2>2 DEF Hooked
    <3>6. \A k \in Natives : Kept(k)'
      <4>1. instance # h.nat /\ ~Hooked(h.nat)
        BY <3>1 DEF OwnedOnce
      <4>2. OwnedOnce(h.nat)'
        BY <4>1, <2>2, <3>2, <3>3, <3>5 DEF OwnedOnce
      <4>3. \A k \in Natives : k # h.nat => (Kept(k)' <=> Kept(k))
        BY <2>2, <2>4, <3>2, <3>3, <3>5 DEF Kept, OwnedOnce, Unowned
      <4>4. QED
        BY <1>b, <2>2, <2>4, <3>1, <4>2, <4>3 DEF Kept
    <3>7. QED
      BY <1>b, <2>1, <2>2, <3>4, <3>6 DEF OwnInv
  <2>5. QED
    BY <2>1, <2>3, <2>4
<1>8. ASSUME NEW o \in Objects, NEW T \in Types, Borrow(o, T)
      PROVE  OwnInv'
  BY <1>8, <1>c DEF Borrow
<1>9. CASE Return
  BY <1>9, <1>c DEF Return
<1>10. ASSUME NEW n \in Natives, NEW T \in Types, NEW ok \in BOOLEAN, SetInstance(n, T, ok)
      PROVE  OwnInv'
  <2>1. /\ box[n] = "unused" /\ box' = [box EXCEPT ![n] = "live"]
        /\ UNCHANGED <<attached, hooks, returned, twice>>
        /\ \/ instance' = n /\ instance = None /\ UNCHANGED lost
           \/ instance' = n /\ instance # None /\ lost' = lost \union {<<instance, "overwritten">>}
           \/ lost' = lost \union {<<n, "failed">>} /\ UNCHANGED instance
    BY <1>10 DEF SetInstance, BoxUp, Lose
  <2>2. QED
    BY <2>1, GivesOne
<1>11. ASSUME NEW T \in Types, BorrowInstance(T)
      PROVE  OwnInv'
  BY <1>11, <1>c DEF BorrowInstance
<1>12. ASSUME NEW n \in Natives, NEW T \in Types, NEW ok \in BOOLEAN, AddHook(n, T, ok)
      PROVE  OwnInv'
  <2>1. /\ box[n] = "unused" /\ box' = [box EXCEPT ![n] = "live"]
        /\ UNCHANGED <<attached, instance, returned, twice>>
        /\ \/ hooks' = Append(hooks, n) /\ UNCHANGED lost
           \/ lost' = lost \union {<<n, "failed">>} /\ UNCHANGED hooks
    BY <1>12 DEF AddHook, BoxUp, Lose
  <2>2. QED
    BY <2>1, GivesOne
<1>13. ASSUME NEW n \in Natives, RemoveHook(n)
      PROVE  OwnInv'
  <2>1. PICK i \in 1..Len(hooks) :
            hooks[i] = n /\ hooks' = SubSeq(hooks, 1, i - 1) \o SubSeq(hooks, i + 1, Len(hooks))
    BY <1>13, <1>a, LenProperties DEF RemoveHook
  <2>2. /\ lost' = lost \union {<<n, "unhooked">>}
        /\ UNCHANGED <<attached, instance, box, returned, twice>>
    BY <1>13 DEF RemoveHook, Lose
  <2>3. /\ Len(hooks') = Len(hooks) - 1
        /\ \A j \in 1..Len(hooks') : hooks'[j] = hooks[IF j < i THEN j ELSE j + 1]
    BY <2>1, <1>a, HookRemoved
  <2>4. \A j \in 1..Len(hooks') : /\ (IF j < i THEN j ELSE j + 1) \in 1..Len(hooks)
                                  /\ (IF j < i THEN j ELSE j + 1) # i
    <3>1. SUFFICES ASSUME NEW j \in 1..Len(hooks')
                   PROVE  /\ (IF j < i THEN j ELSE j + 1) \in 1..Len(hooks)
                          /\ (IF j < i THEN j ELSE j + 1) # i
      OBVIOUS
    <3>2. j \in Nat /\ 1 <= j /\ j + 1 <= Len(hooks) /\ i \in Nat
      BY <2>3, <1>a
    <3>3. QED
      BY <3>2, <1>a
  <2>5. \A j, k \in 1..Len(hooks') :
            (IF j < i THEN j ELSE j + 1) = (IF k < i THEN k ELSE k + 1) => j = k
    BY <2>1, <2>3, <1>a
  <2>6. ASSUME NEW j \in 1..Len(hooks'), NEW k \in 1..Len(hooks'), hooks'[j] = hooks'[k]
        PROVE  j = k
    <3>1. hooks[IF j < i THEN j ELSE j + 1] = hooks[IF k < i THEN k ELSE k + 1]
      BY <2>3, <2>6
    <3>2. (IF j < i THEN j ELSE j + 1) = (IF k < i THEN k ELSE k + 1)
      BY <3>1, <2>4, <1>b
    <3>3. QED
      BY <3>2, <2>5
  <2>7. ~Hooked(n)'
    <3>1. SUFFICES ASSUME NEW j \in 1..Len(hooks'), hooks'[j] = n
                   PROVE  FALSE
      BY DEF Hooked
    <3>2. hooks[IF j < i THEN j ELSE j + 1] = hooks[i]
      BY <3>1, <2>1, <2>3
    <3>3. (IF j < i THEN j ELSE j + 1) = i
      BY <3>2, <2>4, <1>b
    <3>4. QED
      BY <3>3, <2>4
  <2>8. ASSUME NEW m, m # n PROVE Hooked(m)' <=> Hooked(m)
    <3>1. ASSUME Hooked(m) PROVE Hooked(m)'
      <4>1. PICK j \in 1..Len(hooks) : hooks[j] = m
        BY <3>1 DEF Hooked
      <4>2. j # i
        BY <4>1, <2>1, <2>8
      <4> DEFINE p == IF j < i THEN j ELSE j - 1
      <4>3. p \in 1..Len(hooks') /\ (IF p < i THEN p ELSE p + 1) = j
        <5>1. j \in Nat /\ 1 <= j /\ j <= Len(hooks) /\ i \in Nat /\ 1 <= i /\ i <= Len(hooks)
          BY <1>a
        <5>2. QED
          BY <5>1, <4>2, <2>3, <1>a
      <4>4. QED
        BY <4>1, <4>3, <2>3 DEF Hooked
    <3>2. ASSUME Hooked(m)' PROVE Hooked(m)
      BY <3>2, <2>3, <2>4 DEF Hooked
    <3>3. QED
      BY <3>1, <3>2
  <2>9. /\ Hooked(n) /\ ~Attached(n) /\ instance # n /\ ~Lost(n) /\ box[n] = "live"
        /\ n \notin returned
    BY <2>1, <1>b DEF Hooked, Kept, OwnedOnce, Unowned
  <2>10. \A l, m \in lost' : l[1] = m[1] => l = m
    BY <2>2, <2>9, <1>b DEF Lost
  <2>11. Lost(n)' /\ \A k : k # n => (Lost(k)' <=> Lost(k))
    BY <2>2, LostGrows
  <2>12. \A k : Attached(k)' <=> Attached(k)
    BY <2>2 DEF Attached
  <2>13. OwnedOnce(n)'
    BY <2>2, <2>7, <2>9, <2>11, <2>12 DEF OwnedOnce
  <2>14. \A k \in Natives : k # n => (Kept(k)' <=> Kept(k))
    BY <2>2, <2>8, <2>11, <2>12 DEF Kept, OwnedOnce, Unowned
  <2>15. \A k \in Natives : Kept(k)'
    BY <1>b, <2>2, <2>9, <2>13, <2>14 DEF Kept
  <2>16. QED
    BY <1>b, <2>2, <2>6, <2>10, <2>15 DEF OwnInv
<1>14. ASSUME NEW r \in Refs, NEW o \in Objects, NEW by \in {"Ref", "FunctionRef", "Error"},
              NEW c \in 0..MaxCount, CreateRef(r, o, by, c)
      PROVE  OwnInv'
  BY <1>14, <1>c DEF CreateRef
<1>15. ASSUME NEW r \in Refs, RefUp(r)
      PROVE  OwnInv'
  BY <1>15, <1>c DEF RefUp
<1>16. ASSUME NEW r \in Refs, RefDown(r)
      PROVE  OwnInv'
  BY <1>16, <1>c DEF RefDown
<1>17. ASSUME NEW r \in Refs, DropRef(r)
      PROVE  OwnInv'
  BY <1>17, <1>c DEF DropRef
<1>18. ASSUME NEW r \in Refs, RethrowError(r)
      PROVE  OwnInv'
  BY <1>18, <1>c DEF RethrowError
<1>19. ASSUME NEW o \in Objects, ReleaseObject(o)
      PROVE  OwnInv'
  BY <1>19, <1>c DEF ReleaseObject
<1>20. ASSUME NEW o \in Objects, Collect(o)
      PROVE  OwnInv'
  <2> DEFINE mine == {h \in attached : h.obj = o}
             nats == {h.nat : h \in mine}
  <2>1. /\ attached' = attached \ mine /\ UNCHANGED <<instance, hooks, lost, returned>>
        /\ twice' = twice \union {n \in nats : box[n] = "freed"}
        /\ box' = [n \in Natives |-> IF n \in nats THEN "freed" ELSE box[n]]
    BY <1>20 DEF Collect
  <2>2. /\ mine \in SUBSET attached /\ box' \in [Natives -> {"unused", "live", "freed"}]
        /\ \A h \in mine : box'[h.nat] = "freed"
        /\ \A n \in Natives : (\A h \in mine : h.nat # n) => box'[n] = box[n]
        /\ twice' \subseteq twice \union {h.nat : h \in {k \in mine : box[k.nat] = "freed"}}
    BY <2>1, <1>a
  <2> HIDE DEF mine
  <2>3. QED
    BY <2>1, <2>2, FinaliserFrees
<1>21. CASE CloseEnv
  BY <1>21, <1>c DEF CloseEnv
<1>22. CASE RunHook
  <2>0. PICK e, n : e = Len(hooks) /\ n = hooks[e]
    OBVIOUS
  <2>1. hooks # <<>> /\ hooks' = SubSeq(hooks, 1, e - 1) /\ box' = [box EXCEPT ![n] = "freed"]
        /\ UNCHANGED <<attached, instance, lost, returned, twice>>
    BY <1>22, <2>0 DEF RunHook
  <2>2. /\ Len(hooks') = e - 1 /\ e \in 1..e
        /\ \A j \in 1..Len(hooks') : hooks'[j] = hooks[j]
    BY <2>0, <2>1, <1>a, HookRun
  <2>3. n \in Natives
    BY <2>0, <2>2, <1>a, ElementOfSeq
  <2>4. \A j : j \in 1..Len(hooks') <=> j \in 1..e /\ j # e
    BY <2>0, <2>2, <1>a
  <2>5. ~Hooked(n)' /\ \A k : k # n => (Hooked(k)' <=> Hooked(k))
    <3>1. ~Hooked(n)'
      <4>1. SUFFICES ASSUME NEW j \in 1..Len(hooks'), hooks'[j] = n PROVE FALSE
        BY DEF Hooked
      <4>2. j \in 1..e /\ j # e /\ hooks[j] = hooks[e]
        BY <4>1, <2>0, <2>2, <2>4
      <4>3. QED
        BY <4>2, <2>0, <2>2, <1>b
    <3>2. ASSUME NEW k, k # n PROVE Hooked(k)' <=> Hooked(k)
      <4>1. ASSUME NEW j \in 1..e, hooks[j] = k PROVE Hooked(k)'
        BY <4>1, <3>2, <2>0, <2>2, <2>4 DEF Hooked
      <4>2. ASSUME NEW j \in 1..Len(hooks'), hooks'[j] = k PROVE Hooked(k)
        BY <4>2, <2>0, <2>2, <2>4 DEF Hooked
      <4>3. QED
        BY <4>1, <4>2, <2>0 DEF Hooked
    <3>3. QED
      BY <3>1, <3>2
  <2>6. \A j, k \in 1..Len(hooks') : hooks'[j] = hooks'[k] => j = k
    BY <2>0, <2>2, <2>4, <1>b
  <2>7. ~Attached(n) /\ instance # n /\ ~Lost(n) /\ n \notin returned
    <3>1. Hooked(n)
      BY <2>0, <2>2 DEF Hooked
    <3>2. QED
      BY <3>1, <2>3, <1>b DEF Kept, OwnedOnce, Unowned
  <2>8. \A k : (Attached(k)' <=> Attached(k)) /\ (Lost(k)' <=> Lost(k))
    BY <2>1 DEF Attached, Lost
  <2>9. box'[n] = "freed" /\ \A k \in Natives : k # n => box'[k] = box[k]
    BY <2>1, <2>3, <1>a
  <2>10. Unowned(n)' /\ \A k \in Natives : k # n => (Kept(k)' <=> Kept(k))
    BY <2>1, <2>5, <2>7, <2>8, <2>9 DEF Kept, OwnedOnce, Unowned
  <2>11. \A k \in Natives : Kept(k)'
    BY <1>b, <2>1, <2>7, <2>9, <2>10 DEF Kept
  <2>12. QED
    BY <1>b, <2>1, <2>6, <2>11 DEF OwnInv
<1>23. CASE HooksDone
  BY <1>23, <1>c DEF HooksDone
<1>24. CASE EndEnv
  <2>1. /\ instance' = None /\ UNCHANGED <<attached, hooks, lost, returned, twice>>
        /\ box' = [n \in Natives |-> IF n = instance THEN "freed" ELSE box[n]]
    BY <1>24 DEF EndEnv
  <2>2. \A k : (Attached(k)' <=> Attached(k)) /\ (Lost(k)' <=> Lost(k))
        /\ (Hooked(k)' <=> Hooked(k))
    BY <2>1 DEF Attached, Lost, Hooked
  <2>3. \A k \in Natives : Kept(k)'
    BY <2>1, <2>2, <1>a, <1>b DEF Kept, OwnedOnce, Unowned
  <2>4. QED
    BY <1>b, <2>1, <2>3 DEF OwnInv
<1>25. CASE UNCHANGED envVars
  BY <1>25, <1>c DEF envVars
<1>26. ASSUME NEW n \in Natives, NEW T \in Types, ForgetExternal(n, T)
      PROVE  OwnInv'
  <2>1. /\ box[n] = "unused" /\ box' = [box EXCEPT ![n] = "live"]
        /\ UNCHANGED <<attached, instance, hooks, returned, twice>>
        /\ lost' = lost \union {<<n, "forgotten">>}
    BY <1>26 DEF ForgetExternal, BoxUp, Lose
  <2>2. QED
    BY <2>1, GivesOne
<1>27. ASSUME NEW o \in Objects, ReturnExternal(o)
      PROVE  OwnInv'
  <2>1. PICK n : n = view.nat
    OBVIOUS
  <2>2. PICK x \in attached : x.nat = n /\ x.via = "external"
    BY <1>27, <2>1 DEF ReturnExternal
  <2>3. /\ attached' = attached \union {[obj |-> o, nat |-> n, via |-> "external"]}
        /\ returned' = returned \union {n} /\ UNCHANGED <<box, instance, hooks, lost, twice>>
    BY <1>27, <2>1 DEF ReturnExternal, Attach
  <2>4. n \in Natives /\ Attached(n)
    BY <2>2, <1>a DEF Attached
  <2>5. box[n] # "unused" /\ instance # n /\ ~Hooked(n) /\ ~Lost(n)
    BY <2>4, <1>b DEF Kept, OwnedOnce, Unowned
  <2>6. \A h \in attached : h.nat = n => h.via = "external"
    BY <2>2, <1>b
  <2>7. /\ \A h, k \in attached' : h.nat = k.nat => h = k \/ h.nat \in returned'
        /\ \A h \in attached' : h.nat \in returned' => h.via = "external"
    BY <2>3, <2>6, <1>b
  <2>8. \A k : k # n => (Attached(k)' <=> Attached(k))
    BY <2>3, AttachedGrows
  <2>9. \A k : (Hooked(k)' <=> Hooked(k)) /\ (Lost(k)' <=> Lost(k))
    BY <2>3 DEF Hooked, Lost
  <2>10. \A k \in Natives : Kept(k)'
    <3>1. Kept(n)'
      BY <2>3, <2>5, <2>9 DEF Kept
    <3>2. ASSUME NEW k \in Natives, k # n PROVE Kept(k)'
      BY <3>2, <2>3, <2>8, <2>9, <1>b DEF Kept, OwnedOnce, Unowned
    <3>3. QED
      BY <3>1, <3>2
  <2>11. QED
    BY <1>b, <2>3, <2>7, <2>10 DEF OwnInv
<1>28. ASSUME NEW r \in Refs, CloneError(r)
      PROVE  OwnInv'
  BY <1>28, <1>c DEF CloneError
<1>29. ASSUME NEW r \in Refs, DropError(r)
      PROVE  OwnInv'
  BY <1>29, <1>c DEF DropError
<1> HIDE DEF boxVars, extVars, errVars, refVars
<1>30. QED
  BY <1>1, <1>2, <1>3, <1>4, <1>5, <1>6, <1>7, <1>8, <1>9, <1>10, <1>11, <1>12, <1>13,
     <1>14, <1>15, <1>16, <1>17, <1>18, <1>19, <1>20, <1>21, <1>22, <1>23, <1>24, <1>25,
     <1>26, <1>27, <1>28, <1>29
  DEF EnvNext, GiveValue

\* A value is freed as what it was boxed as, and not while Rust code has borrowed it.
LEMMA StepView == EnvTypeOK /\ OwnInv /\ ViewInv /\ [EnvNext]_envVars => ViewInv'
<1> SUFFICES ASSUME EnvTypeOK, OwnInv, ViewInv, [EnvNext]_envVars PROVE ViewInv'
  OBVIOUS
<1> USE DEF boxVars, extVars, errVars, refVars
<1>a. /\ hooks \in Seq(Natives) /\ Len(hooks) \in Nat /\ instance \in Natives \union {None}
      /\ None \notin Natives /\ box \in [Natives -> {"unused", "live", "freed"}]
      /\ type \in [Natives -> Types \union {None}] /\ freedAs \in [Natives -> Types \union {None}]
      /\ \A h \in attached : h.nat \in Natives
  BY LenProperties, EnvAssumption DEF EnvTypeOK
<1>b. \A n \in Natives \ returned : box[n] = "freed" => freedAs[n] = type[n]
  BY DEF ViewInv
<1>c. view = NoView \/ (view.nat \in Natives /\ envLife = "open"
                        /\ (view.nat \notin returned => Seen))
  BY DEF ViewInv
<1>d. ASSUME UNCHANGED <<box, type, freedAs, view, attached, returned>>,
             envLife' = envLife \/ view = NoView
      PROVE ViewInv'
  BY <1>b, <1>c, <1>d DEF ViewInv, Seen
<1>e. ASSUME NEW n \in Natives, NEW T, box[n] = "unused", type' = [type EXCEPT ![n] = T],
             \/ box' = [box EXCEPT ![n] = "live"] /\ freedAs' = freedAs
             \/ box' = [box EXCEPT ![n] = "freed"] /\ freedAs' = [freedAs EXCEPT ![n] = T],
             UNCHANGED <<view, envLife, returned>>, \A h \in attached' : h \in attached \/ h.nat = n
      PROVE  ViewInv'
  <2>1. \A k \in Natives : k # n => box'[k] = box[k] /\ type'[k] = type[k]
        /\ freedAs'[k] = freedAs[k]
    BY <1>e, <1>a
  <2>2. box'[n] = "live" \/ (freedAs'[n] = T /\ type'[n] = T)
    BY <1>e, <1>a
  <2>3. \A k \in Natives \ returned : box'[k] = "freed" => freedAs'[k] = type'[k]
    BY <1>b, <2>1, <2>2
  <2>4. view = NoView \/ view.nat \in returned \/ (Seen /\ view.nat # n)
    BY <1>c, <1>e DEF Seen
  <2>5. view = NoView \/ view.nat \in returned \/ Seen'
    BY <1>c, <1>e, <2>1, <2>4 DEF Seen
  <2>6. QED
    BY <1>c, <1>e, <2>3, <2>5 DEF ViewInv
<1>f. ASSUME \A n \in Natives : \/ box'[n] = box[n] /\ freedAs'[n] = freedAs[n]
                                \/ /\ freedAs'[n] = type[n]
                                   /\ view = NoView \/ view.nat # n \/ n \in returned,
             UNCHANGED <<type, view, returned>>, envLife' = envLife \/ view = NoView,
             attached' \subseteq attached
      PROVE  ViewInv'
  BY <1>b, <1>c, <1>f DEF ViewInv, Seen
<1>1. ASSUME NEW o \in Objects, NewObject(o)
      PROVE  ViewInv'
  BY <1>1, <1>d DEF NewObject
<1>2. ASSUME NEW o \in Objects, NEW n \in Natives, NEW T \in Types, NEW ok \in BOOLEAN,
             Wrap(o, n, T, ok)
      PROVE  ViewInv'
  <2>1. /\ box[n] = "unused" /\ box' = [box EXCEPT ![n] = "live"] /\ type' = [type EXCEPT ![n] = T]
        /\ UNCHANGED <<freedAs, view, envLife, returned>>
        /\ \A h \in attached' : h \in attached \/ h.nat = n
    BY <1>2 DEF Wrap, BoxUp, Attach
  <2>2. QED
    BY <2>1, <1>e
<1>3. ASSUME NEW o \in Objects, NEW n \in Natives, NEW T \in Types, NEW ok \in BOOLEAN,
             AddFinalizer(o, n, T, ok)
      PROVE  ViewInv'
  <2>1. /\ box[n] = "unused" /\ box' = [box EXCEPT ![n] = "live"] /\ type' = [type EXCEPT ![n] = T]
        /\ UNCHANGED <<freedAs, view, envLife, returned>>
        /\ \A h \in attached' : h \in attached \/ h.nat = n
    BY <1>3 DEF AddFinalizer, BoxUp, Attach
  <2>2. QED
    BY <2>1, <1>e
<1>4. ASSUME NEW o \in Objects, NEW n \in Natives, NEW T \in Types, NEW ok \in BOOLEAN,
             CreateExternal(o, n, T, ok)
      PROVE  ViewInv'
  <2>1. /\ box[n] = "unused" /\ box' = [box EXCEPT ![n] = "live"] /\ type' = [type EXCEPT ![n] = T]
        /\ UNCHANGED <<freedAs, view, envLife, returned>>
        /\ \A h \in attached' : h \in attached \/ h.nat = n
    BY <1>4 DEF CreateExternal, BoxUp, Attach
  <2>2. QED
    BY <2>1, <1>e
<1>5. ASSUME NEW o \in Objects, NEW n \in Natives, NEW T \in Types, NEW ok \in BOOLEAN,
             CreateClosure(o, n, T, ok)
      PROVE  ViewInv'
  <2>1. /\ box[n] = "unused" /\ box' = [box EXCEPT ![n] = "live"] /\ type' = [type EXCEPT ![n] = T]
        /\ UNCHANGED <<freedAs, view, envLife, returned>>
        /\ \A h \in attached' : h \in attached \/ h.nat = n
    BY <1>5 DEF CreateClosure, BoxUp, Attach
  <2>2. QED
    BY <2>1, <1>e
<1>6. ASSUME NEW o \in Objects, NEW n \in Natives, NEW T \in Types,
             NEW api \in {"buffer", "arraybuffer"}, NEW borrowed \in BOOLEAN,
             NEW outcome \in {"external", "copied", "failed", "empty"}, GiveBuffer(o, n, T,
                 api, borrowed, outcome)
      PROVE  ViewInv'
  <2>1. /\ box[n] = "unused" /\ type' = [type EXCEPT ![n] = T] /\ UNCHANGED <<view, envLife, returned>>
        /\ \A h \in attached' : h \in attached \/ h.nat = n
        /\ \/ box' = [box EXCEPT ![n] = "live"] /\ freedAs' = freedAs
           \/ box' = [box EXCEPT ![n] = "freed"] /\ freedAs' = [freedAs EXCEPT ![n] = T]
    <3>1. freedAs' = [freedAs EXCEPT ![n] = freedAs[n]] => freedAs' = freedAs
      BY <1>a
    <3>2. \A h \in attached' : h \in attached \/ h.nat = n
      BY <1>6 DEF GiveBuffer, Attach
    <3>3. QED
      BY <1>6, <3>1, <3>2 DEF GiveBuffer
  <2>2. QED
    BY <2>1, <1>e
<1>7. ASSUME NEW o \in Objects, NEW T \in Types, DropWrapped(o, T)
      PROVE  ViewInv'
  <2>1. PICK h \in WrapOf(o) :
           \/ /\ type[h.nat] = T /\ box' = [box EXCEPT ![h.nat] = "freed"]
              /\ freedAs' = [freedAs EXCEPT ![h.nat] = T]
           \/ UNCHANGED <<box, freedAs>>
    BY <1>7 DEF DropWrapped
  <2>2. /\ h.nat \in Natives /\ view = NoView /\ UNCHANGED <<type, view, envLife, returned>>
        /\ attached' \subseteq attached
    BY <1>7, <1>a DEF WrapOf, DropWrapped
  <2>3. \A n \in Natives : \/ box'[n] = box[n] /\ freedAs'[n] = freedAs[n]
                           \/ freedAs'[n] = type[n]
    BY <2>1, <2>2, <1>a
  <2>4. QED
    BY <2>2, <2>3, <1>f
<1>8. ASSUME NEW o \in Objects, NEW T \in Types, Borrow(o, T)
      PROVE  ViewInv'
  <2>1. PICK h \in attached : /\ h.obj = o /\ (type[h.nat] = T \/ box[h.nat] = "freed")
                             /\ view' = [nat |-> h.nat, as |-> T, from |-> o]
    BY <1>8 DEF Borrow, IsOfType
  <2>2. h.nat \in Natives /\ (h.nat \notin returned => box[h.nat] = "live")
    BY <1>a DEF OwnInv, Kept, OwnedOnce, Unowned, Attached
  <2>3. h.nat \notin returned => \A k \in attached : k.nat = h.nat => k.obj = o
    BY <2>1 DEF OwnInv
  <2>4. UNCHANGED <<box, type, freedAs, attached, returned, envLife>> /\ envLife = "open"
    BY <1>8 DEF Borrow, Running
  <2>5. h.nat \notin returned => Seen'
    BY <2>1, <2>2, <2>3, <2>4 DEF Seen
  <2>6. QED
    BY <2>1, <2>2, <2>4, <2>5, <1>b DEF ViewInv
<1>9. CASE Return
  BY <1>9, <1>b DEF Return, ViewInv
<1>10. ASSUME NEW n \in Natives, NEW T \in Types, NEW ok \in BOOLEAN, SetInstance(n, T, ok)
      PROVE  ViewInv'
  <2>1. /\ box[n] = "unused" /\ box' = [box EXCEPT ![n] = "live"] /\ type' = [type EXCEPT ![n] = T]
        /\ UNCHANGED <<freedAs, view, envLife, attached, returned>>
    BY <1>10 DEF SetInstance, BoxUp
  <2>2. QED
    BY <2>1, <1>e
<1>11. ASSUME NEW T \in Types, BorrowInstance(T)
      PROVE  ViewInv'
  <2>1. instance \in Natives /\ box[instance] = "live" /\ \A h \in attached : h.nat # instance
    BY <1>11, <1>a DEF BorrowInstance, OwnInv, Kept, OwnedOnce, Unowned, Attached
  <2>2. QED
    BY <1>11, <2>1, <1>b DEF ViewInv, Seen, BorrowInstance, Running, IsOfType
<1>12. ASSUME NEW n \in Natives, NEW T \in Types, NEW ok \in BOOLEAN, AddHook(n, T, ok)
      PROVE  ViewInv'
  <2>1. /\ box[n] = "unused" /\ box' = [box EXCEPT ![n] = "live"] /\ type' = [type EXCEPT ![n] = T]
        /\ UNCHANGED <<freedAs, view, envLife, attached, returned>>
    BY <1>12 DEF AddHook, BoxUp
  <2>2. QED
    BY <2>1, <1>e
<1>13. ASSUME NEW n \in Natives, RemoveHook(n)
      PROVE  ViewInv'
  BY <1>13, <1>d DEF RemoveHook
<1>14. ASSUME NEW r \in Refs, NEW o \in Objects, NEW by \in {"Ref", "FunctionRef", "Error"},
              NEW c \in 0..MaxCount, CreateRef(r, o, by, c)
      PROVE  ViewInv'
  BY <1>14, <1>d DEF CreateRef
<1>15. ASSUME NEW r \in Refs, RefUp(r)
      PROVE  ViewInv'
  BY <1>15, <1>d DEF RefUp
<1>16. ASSUME NEW r \in Refs, RefDown(r)
      PROVE  ViewInv'
  BY <1>16, <1>d DEF RefDown
<1>17. ASSUME NEW r \in Refs, DropRef(r)
      PROVE  ViewInv'
  BY <1>17, <1>d DEF DropRef
<1>18. ASSUME NEW r \in Refs, RethrowError(r)
      PROVE  ViewInv'
  BY <1>18, <1>d DEF RethrowError
<1>19. ASSUME NEW o \in Objects, ReleaseObject(o)
      PROVE  ViewInv'
  BY <1>19, <1>d DEF ReleaseObject
<1>20. ASSUME NEW o \in Objects, Collect(o)
      PROVE  ViewInv'
  <2> DEFINE nats == {h.nat : h \in {k \in attached : k.obj = o}}
  <2>1. /\ box' = [n \in Natives |-> IF n \in nats THEN "freed" ELSE box[n]]
        /\ freedAs' = [n \in Natives |-> IF n \in nats THEN type[n] ELSE freedAs[n]]
        /\ UNCHANGED <<type, view, envLife, returned>> /\ attached' \subseteq attached
    BY <1>20 DEF Collect
  <2>2. view = NoView \/ view.nat \in returned \/ view.nat \notin nats
    BY <1>20, <1>c DEF Collect, Seen
  <2> HIDE DEF nats
  <2>3. QED
    BY <2>1, <2>2, <1>a, <1>f
<1>21. CASE CloseEnv
  BY <1>21, <1>d DEF CloseEnv
<1>22. CASE RunHook
  <2>1. PICK n : n = hooks[Len(hooks)]
    OBVIOUS
  <2>2. n \in Natives
    BY <1>22, <2>1, <1>a, HookRun, ElementOfSeq DEF RunHook
  <2>3. /\ box' = [box EXCEPT ![n] = "freed"] /\ freedAs' = [freedAs EXCEPT ![n] = type[n]]
        /\ envLife = "closing" /\ UNCHANGED <<type, view, envLife, attached, returned>>
    BY <1>22, <2>1 DEF RunHook
  <2>4. QED
    BY <2>2, <2>3, <1>a, <1>c, <1>f
<1>23. CASE HooksDone
  BY <1>23, <1>c, <1>d DEF HooksDone
<1>24. CASE EndEnv
  <2>1. /\ box' = [n \in Natives |-> IF n = instance THEN "freed" ELSE box[n]]
        /\ freedAs' = [n \in Natives |-> IF n = instance THEN type[n] ELSE freedAs[n]]
        /\ UNCHANGED <<type, view, attached, returned>> /\ envLife = "ending"
    BY <1>24 DEF EndEnv
  <2>2. QED
    BY <2>1, <1>a, <1>c, <1>f
<1>25. CASE UNCHANGED envVars
  BY <1>25, <1>d DEF envVars
<1>26. ASSUME NEW n \in Natives, NEW T \in Types, ForgetExternal(n, T)
      PROVE  ViewInv'
  <2>1. /\ box[n] = "unused" /\ box' = [box EXCEPT ![n] = "live"] /\ type' = [type EXCEPT ![n] = T]
        /\ UNCHANGED <<freedAs, view, envLife, returned>> /\ attached' = attached
    BY <1>26 DEF ForgetExternal, BoxUp
  <2>2. QED
    BY <2>1, <1>e
<1>27. ASSUME NEW o \in Objects, ReturnExternal(o)
      PROVE  ViewInv'
  BY <1>27, <1>b DEF ReturnExternal, ViewInv
<1>28. ASSUME NEW r \in Refs, CloneError(r)
      PROVE  ViewInv'
  BY <1>28, <1>d DEF CloneError
<1>29. ASSUME NEW r \in Refs, DropError(r)
      PROVE  ViewInv'
  BY <1>29, <1>d DEF DropError
<1> HIDE DEF boxVars, extVars, errVars, refVars
<1>30. QED
  BY <1>1, <1>2, <1>3, <1>4, <1>5, <1>6, <1>7, <1>8, <1>9, <1>10, <1>11, <1>12, <1>13,
     <1>14, <1>15, <1>16, <1>17, <1>18, <1>19, <1>20, <1>21, <1>22, <1>23, <1>24, <1>25,
     <1>26, <1>27, <1>28, <1>29
  DEF EnvNext, GiveValue

\* The count that Rust keeps of a reference and the one napi keeps change together.
LEMMA StepPins == EnvTypeOK /\ PinInv /\ CopyInv /\ [EnvNext]_envVars => PinInv'
<1> SUFFICES ASSUME EnvTypeOK, PinInv, CopyInv, [EnvNext]_envVars, NEW s \in Refs, ref'[s].state # "none"
             PROVE  /\ ref'[s].of \in Objects /\ ref'[s].rust = ref'[s].napi
                    /\ ref'[s].by = "Ref" /\ ref'[s].state = "deleted" => ref'[s].napi = 0
                    /\ envLife' = "open" /\ ref'[s].napi > 0
                       /\ ref'[s].state \in {"live", "leaked"} =>
                           obj'[ref'[s].of] # "collected"
  BY DEF PinInv
<1> USE DEF boxVars, extVars, errVars, refVars
<1> DEFINE Goal == /\ ref'[s].of \in Objects /\ ref'[s].rust = ref'[s].napi
                   /\ ref'[s].by = "Ref" /\ ref'[s].state = "deleted" => ref'[s].napi = 0
                   /\ envLife' = "open" /\ ref'[s].napi > 0
                      /\ ref'[s].state \in {"live", "leaked"} =>
                          obj'[ref'[s].of] # "collected"
<1>a. /\ obj \in [Objects -> {"unborn", "held", "loose", "collected"}]
         /\ ref \in [Refs -> RefRecords]
      /\ \A r \in Refs : ref[r] \in RefRecords
  BY DEF EnvTypeOK, RefRecords
<1>b. \A r \in Refs : ref[r].state # "none" =>
        /\ ref[r].of \in Objects /\ ref[r].rust = ref[r].napi
        /\ ref[r].by = "Ref" /\ ref[r].state = "deleted" => ref[r].napi = 0
        /\ envLife = "open" /\ ref[r].napi > 0 /\ ref[r].state \in {"live", "leaked"} =>
               obj[ref[r].of] # "collected"
  BY DEF PinInv
<1>c. ASSUME ref' = ref, envLife' = "open" => envLife = "open",
             \A o \in Objects : obj'[o] = "collected" => obj[o] = "collected"
      PROVE  Goal
  BY <1>b, <1>c
<1>d. ASSUME NEW o \in Objects, NEW x \in {"unborn", "held", "loose"}, obj' = [obj EXCEPT ![o] = x]
      PROVE  \A k \in Objects : obj'[k] = "collected" => obj[k] = "collected"
  BY <1>a, <1>d
<1>e. ASSUME NEW r \in Refs, NEW x, ref' = [ref EXCEPT ![r] = x]
      PROVE ref'[s] = IF s = r THEN x ELSE ref[s]
  BY <1>a, <1>e
<1>1. ASSUME NEW o \in Objects, NewObject(o)
      PROVE  Goal
  BY <1>1, <1>c, <1>d DEF NewObject
<1>2. ASSUME NEW o \in Objects, NEW n \in Natives, NEW T \in Types, NEW ok \in BOOLEAN,
             Wrap(o, n, T, ok)
      PROVE  Goal
  BY <1>2, <1>c DEF Wrap
<1>3. ASSUME NEW o \in Objects, NEW n \in Natives, NEW T \in Types, NEW ok \in BOOLEAN,
             AddFinalizer(o, n, T, ok)
      PROVE  Goal
  BY <1>3, <1>c DEF AddFinalizer
<1>4. ASSUME NEW o \in Objects, NEW n \in Natives, NEW T \in Types, NEW ok \in BOOLEAN,
             CreateExternal(o, n, T, ok)
      PROVE  Goal
  BY <1>4, <1>c, <1>d DEF CreateExternal
<1>5. ASSUME NEW o \in Objects, NEW n \in Natives, NEW T \in Types, NEW ok \in BOOLEAN,
             CreateClosure(o, n, T, ok)
      PROVE  Goal
  BY <1>5, <1>c, <1>d DEF CreateClosure
<1>6. ASSUME NEW o \in Objects, NEW n \in Natives, NEW T \in Types,
             NEW api \in {"buffer", "arraybuffer"}, NEW borrowed \in BOOLEAN,
             NEW outcome \in {"external", "copied", "failed", "empty"}, GiveBuffer(o, n, T,
                 api, borrowed, outcome)
      PROVE  Goal
  <2>1. obj' = [obj EXCEPT ![o] = "unborn"] \/ obj' = [obj EXCEPT ![o] = "held"]
    BY <1>6 DEF GiveBuffer
  <2>2. UNCHANGED <<ref, envLife>>
    BY <1>6 DEF GiveBuffer
  <2>3. QED
    BY <2>1, <2>2, <1>c, <1>d
<1>7. ASSUME NEW o \in Objects, NEW T \in Types, DropWrapped(o, T)
      PROVE  Goal
  BY <1>7, <1>c DEF DropWrapped
<1>8. ASSUME NEW o \in Objects, NEW T \in Types, Borrow(o, T)
      PROVE  Goal
  BY <1>8, <1>c DEF Borrow
<1>9. CASE Return
  BY <1>9, <1>c DEF Return
<1>10. ASSUME NEW n \in Natives, NEW T \in Types, NEW ok \in BOOLEAN, SetInstance(n, T, ok)
      PROVE  Goal
  BY <1>10, <1>c DEF SetInstance
<1>11. ASSUME NEW T \in Types, BorrowInstance(T)
      PROVE  Goal
  BY <1>11, <1>c DEF BorrowInstance
<1>12. ASSUME NEW n \in Natives, NEW T \in Types, NEW ok \in BOOLEAN, AddHook(n, T, ok)
      PROVE  Goal
  BY <1>12, <1>c DEF AddHook
<1>13. ASSUME NEW n \in Natives, RemoveHook(n)
      PROVE  Goal
  BY <1>13, <1>c DEF RemoveHook
<1>14. ASSUME NEW r \in Refs, NEW o \in Objects, NEW by \in {"Ref", "FunctionRef", "Error"},
              NEW c \in 0..MaxCount, CreateRef(r, o, by, c)
      PROVE  Goal
  <2> DEFINE x == [of |-> o, by |-> by, napi |-> c, rust |-> c, state |-> "live"]
  <2>1. ref' = [ref EXCEPT ![r] = x] /\ obj[o] = "held" /\ UNCHANGED <<obj, envLife>>
    BY <1>14 DEF CreateRef
  <2>2. ref'[s] = IF s = r THEN x ELSE ref[s]
    BY <2>1, <1>e
  <2>3. QED
    BY <2>1, <2>2, <1>b
<1>15. ASSUME NEW r \in Refs, RefUp(r)
      PROVE  Goal
  <2> DEFINE x == [ref[r] EXCEPT !.napi = @ + 1, !.rust = ref[r].napi + 1]
  <2>1. ref' = [ref EXCEPT ![r] = x]
    BY <1>15, <1>a DEF RefUp
  <2>2. /\ ref[r].state = "live" /\ ref[r].by = "Ref" /\ obj[ref[r].of] # "collected"
        /\ UNCHANGED <<obj, envLife>>
    BY <1>15 DEF RefUp
  <2>3. /\ x.of = ref[r].of /\ x.by = ref[r].by /\ x.state = ref[r].state
        /\ x.napi = ref[r].napi + 1 /\ x.rust = ref[r].napi + 1
    BY <1>a DEF RefRecords
  <2> HIDE DEF x
  <2>4. ref'[s] = IF s = r THEN x ELSE ref[s]
    BY <2>1, <1>e
  <2>5. QED
    BY <2>2, <2>3, <2>4, <1>b
<1>16. ASSUME NEW r \in Refs, RefDown(r)
      PROVE  Goal
  <2> DEFINE x == [ref[r] EXCEPT !.napi = @ - 1, !.rust = ref[r].napi - 1,
                                 !.state = IF ref[r].napi = 1 THEN "deleted" ELSE "live"]
  <2>1. ref' = [ref EXCEPT ![r] = x]
    BY <1>16, <1>a DEF RefDown
  <2>2. ref[r].state = "live" /\ ref[r].by = "Ref" /\ ref[r].napi > 0 /\ UNCHANGED <<obj, envLife>>
    BY <1>16 DEF RefDown
  <2>3. /\ x.of = ref[r].of /\ x.by = ref[r].by
        /\ x.state = IF ref[r].napi = 1 THEN "deleted" ELSE "live"
        /\ x.napi = ref[r].napi - 1 /\ x.rust = ref[r].napi - 1
    BY <1>a DEF RefRecords
  <2> HIDE DEF x
  <2>4. ref'[s] = IF s = r THEN x ELSE ref[s]
    BY <2>1, <1>e
  <2>5. QED
    BY <2>2, <2>3, <2>4, <1>b
<1>17. ASSUME NEW r \in Refs, DropRef(r)
      PROVE  Goal
  <2> DEFINE x == [ref[r] EXCEPT !.state =
                       IF ref[r].by = "FunctionRef" THEN "deleted" ELSE "leaked"]
  <2>1. ref' = [ref EXCEPT ![r] = x]
    BY <1>17, <1>a DEF DropRef
  <2>2. ref[r].state = "live" /\ UNCHANGED <<obj, envLife>>
    BY <1>17 DEF DropRef
  <2>3. /\ x.of = ref[r].of /\ x.by = ref[r].by /\ x.napi = ref[r].napi /\ x.rust = ref[r].rust
        /\ x.state = IF ref[r].by = "FunctionRef" THEN "deleted" ELSE "leaked"
    BY <1>a DEF RefRecords
  <2> HIDE DEF x
  <2>4. ref'[s] = IF s = r THEN x ELSE ref[s]
    BY <2>1, <1>e
  <2>5. QED
    BY <2>2, <2>3, <2>4, <1>b
<1>18. ASSUME NEW r \in Refs, RethrowError(r)
      PROVE  Goal
  <2> DEFINE x == [ref[r] EXCEPT !.state = "deleted"]
  <2>1. ref' = [ref EXCEPT ![r] = x]
    BY <1>18, <1>a DEF RethrowError
  <2>2. /\ ref[r].state # "none" /\ ref[r].by = "Error" /\ envLife' = envLife
        /\ obj' = [obj EXCEPT ![ref[r].of] = IF ref[r].state = "live" THEN "held" ELSE @]
    BY <1>18 DEF RethrowError, CopyInv
  <2>3. /\ x.of = ref[r].of /\ x.by = ref[r].by /\ x.napi = ref[r].napi /\ x.rust = ref[r].rust
        /\ x.state = "deleted"
    BY <1>a DEF RefRecords
  <2>4. \A k \in Objects : obj'[k] = "collected" => obj[k] = "collected"
    BY <2>2, <1>a, <1>b
  <2> HIDE DEF x
  <2>5. ref'[s] = IF s = r THEN x ELSE ref[s]
    BY <2>1, <1>e
  <2>6. QED
    BY <2>2, <2>3, <2>4, <2>5, <1>b
<1>19. ASSUME NEW o \in Objects, ReleaseObject(o)
      PROVE  Goal
  BY <1>19, <1>c, <1>d DEF ReleaseObject
<1>20. ASSUME NEW o \in Objects, Collect(o)
      PROVE  Goal
  <2>1. obj' = [obj EXCEPT ![o] = "collected"] /\ UNCHANGED <<ref, envLife>>
    BY <1>20 DEF Collect
  <2>2. envLife # "open" \/ ~Pinned(o)
    BY <1>20 DEF Collect
  <2>3. envLife = "open" /\ ref[s].napi > 0 /\ ref[s].state \in {"live", "leaked"} => ref[s].of # o
    BY <2>2 DEF Pinned
  <2>4. \A k \in Objects : k # o => obj'[k] = obj[k]
    BY <2>1, <1>a
  <2>5. QED
    BY <2>1, <2>3, <2>4, <1>b
<1>21. CASE CloseEnv
  <2>1. UNCHANGED <<ref, obj>> /\ envLife' = "closing"
    BY <1>21 DEF CloseEnv
  <2>2. QED
    BY <2>1, <1>c
<1>22. CASE RunHook
  BY <1>22, <1>c DEF RunHook
<1>23. CASE HooksDone
  <2>1. UNCHANGED <<ref, obj>> /\ envLife' = "ending"
    BY <1>23 DEF HooksDone
  <2>2. QED
    BY <2>1, <1>c
<1>24. CASE EndEnv
  <2>1. UNCHANGED <<ref, obj>> /\ envLife' = "gone"
    BY <1>24 DEF EndEnv
  <2>2. QED
    BY <2>1, <1>c
<1>25. CASE UNCHANGED envVars
  BY <1>25, <1>c DEF envVars
<1>26. ASSUME NEW n \in Natives, NEW T \in Types, ForgetExternal(n, T)
      PROVE  Goal
  BY <1>26, <1>c DEF ForgetExternal
<1>27. ASSUME NEW o \in Objects, ReturnExternal(o)
      PROVE  Goal
  BY <1>27, <1>c, <1>d DEF ReturnExternal
<1>28. ASSUME NEW r \in Refs, CloneError(r)
      PROVE  Goal
  BY <1>28, <1>c DEF CloneError
<1>29. ASSUME NEW r \in Refs, DropError(r)
      PROVE  Goal
  <2> DEFINE x == [ref[r] EXCEPT !.state = IF @ = "live" /\ copies[r] = 1 THEN "leaked" ELSE @]
  <2>1. ref' = [ref EXCEPT ![r] = x]
    BY <1>29, <1>a DEF DropError
  <2>2. /\ ref[r].state # "none" /\ UNCHANGED <<obj, envLife>>
    BY <1>29 DEF DropError, CopyInv
  <2>3. /\ x.of = ref[r].of /\ x.by = ref[r].by /\ x.napi = ref[r].napi /\ x.rust = ref[r].rust
        /\ x.state = ref[r].state \/ (x.state = "leaked" /\ ref[r].state = "live")
    BY <1>a DEF RefRecords
  <2> HIDE DEF x
  <2>4. ref'[s] = IF s = r THEN x ELSE ref[s]
    BY <2>1, <1>e
  <2>5. QED
    BY <2>2, <2>3, <2>4, <1>b
<1> HIDE DEF boxVars, extVars, errVars, refVars
<1>30. QED
  BY <1>1, <1>2, <1>3, <1>4, <1>5, <1>6, <1>7, <1>8, <1>9, <1>10, <1>11, <1>12, <1>13,
     <1>14, <1>15, <1>16, <1>17, <1>18, <1>19, <1>20, <1>21, <1>22, <1>23, <1>24, <1>25,
     <1>26, <1>27, <1>28, <1>29
  DEF EnvNext, GiveValue

\* The Errors of a reference are counted, and only a clone's is deleted again.
LEMMA StepCopies == EnvTypeOK /\ CopyInv /\ [EnvNext]_envVars => CopyInv'
<1> SUFFICES ASSUME EnvTypeOK, CopyInv, [EnvNext]_envVars PROVE CopyInv'
  OBVIOUS
<1>a. /\ \A r \in Refs : ref[r] \in RefRecords /\ copies[r] \in Nat
      /\ ref \in [Refs -> RefRecords] /\ copies \in [Refs -> 0..MaxCount] /\ MaxCount \in Nat
  BY EnvAssumption DEF EnvTypeOK, RefRecords
<1>b. /\ \A r \in Refs : copies[r] > 0 =>
           /\ ref[r].state # "none" /\ ref[r].by = "Error"
           /\ r \notin cloned => copies[r] = 1 /\ ref[r].state = "live"
      /\ redeleted \subseteq cloned
  BY DEF CopyInv
<1>c. ASSUME NEW r \in Refs, NEW c, NEW x, ref' = [ref EXCEPT ![r] = x],
             copies' = [copies EXCEPT ![r] = c], cloned \subseteq cloned', redeleted' \subseteq cloned',
             c > 0 => /\ x.state # "none" /\ x.by = "Error"
                      /\ r \notin cloned' => c = 1 /\ x.state = "live"
      PROVE  CopyInv'
  <2>1. /\ ref'[r] = x /\ copies'[r] = c
        /\ \A k \in Refs : k # r => ref'[k] = ref[k] /\ copies'[k] = copies[k]
    BY <1>a, <1>c
  <2>2. QED
    BY <1>b, <1>c, <2>1 DEF CopyInv
<1>d. UNCHANGED refVars => CopyInv'
  BY DEF CopyInv, refVars, errVars
<1>1. ASSUME NEW r \in Refs, NEW o \in Objects, NEW by \in {"Ref", "FunctionRef", "Error"},
             NEW k \in 0..MaxCount, CreateRef(r, o, by, k)
      PROVE  CopyInv'
  <2> DEFINE x == [of |-> o, by |-> by, napi |-> k, rust |-> k, state |-> "live"]
             c == IF by = "Error" THEN 1 ELSE 0
  <2>1. /\ ref' = [ref EXCEPT ![r] = x] /\ copies' = [copies EXCEPT ![r] = c]
        /\ UNCHANGED <<cloned, redeleted>>
    BY <1>1 DEF CreateRef
  <2>2. c > 0 => c = 1 /\ x.by = "Error" /\ x.state = "live"
    OBVIOUS
  <2> HIDE DEF x, c
  <2>3. QED
    BY <2>1, <2>2, <1>b, <1>c
<1>2. ASSUME NEW r \in Refs, RefUp(r) \/ RefDown(r) \/ DropRef(r)
      PROVE  CopyInv'
  <2>1. ref[r].by # "Error" /\ UNCHANGED errVars
    BY <1>2 DEF RefUp, RefDown, DropRef
  <2>2. PICK x : ref' = [ref EXCEPT ![r] = x]
    BY <1>2 DEF RefUp, RefDown, DropRef
  <2>3. copies[r] = 0 /\ copies' = [copies EXCEPT ![r] = 0]
    BY <2>1, <1>a, <1>b DEF errVars
  <2>4. QED
    BY <2>1, <2>2, <2>3, <1>b, <1>c DEF errVars
<1>3. ASSUME NEW r \in Refs, CloneError(r)
      PROVE  CopyInv'
  <2>1. /\ copies[r] > 0 /\ copies' = [copies EXCEPT ![r] = copies[r] + 1]
        /\ cloned' = cloned \union {r} /\ UNCHANGED redeleted
    BY <1>3 DEF CloneError
  <2>2. ref' = [ref EXCEPT ![r] = ref[r]]
    BY <1>3, <1>a DEF CloneError
  <2>3. QED
    BY <2>1, <2>2, <1>a, <1>b, <1>c
<1>4. ASSUME NEW r \in Refs, DropError(r) \/ RethrowError(r)
      PROVE  CopyInv'
  <2>1. /\ copies[r] > 0 /\ copies' = [copies EXCEPT ![r] = copies[r] - 1] /\ UNCHANGED cloned
        /\ redeleted' \subseteq redeleted \union {k \in {r} : ref[r].state = "deleted"}
    BY <1>4 DEF DropError, RethrowError
  <2>2. PICK x : /\ ref' = [ref EXCEPT ![r] = x]
                 /\ x.by = ref[r].by /\ (ref[r].state # "none" => x.state # "none")
    <3>1. PICK t \in {"leaked", "deleted", ref[r].state} :
                 ref' = [ref EXCEPT ![r] = [ref[r] EXCEPT !.state = t]]
      BY <1>4, <1>a DEF DropError, RethrowError
    <3>2. PICK x : x = [ref[r] EXCEPT !.state = t]
      OBVIOUS
    <3>3. x.by = ref[r].by /\ x.state = t
      BY <3>2, <1>a DEF RefRecords
    <3>4. QED
      BY <3>1, <3>2, <3>3
  <2>3. redeleted' \subseteq cloned
    BY <2>1, <1>b
  <2>4. r \notin cloned => copies[r] - 1 = 0
    BY <2>1, <1>b
  <2>5. /\ x.state # "none" /\ x.by = "Error"
        /\ copies[r] - 1 > 0 => r \in cloned
    BY <2>1, <2>2, <2>4, <1>b
  <2>6. QED
    BY <2>1, <2>2, <2>3, <2>5, <1>c
<1>5. ASSUME NEW n \in Natives, RemoveHook(n) PROVE UNCHANGED refVars
  BY <1>5 DEF RemoveHook
<1>6. ASSUME NEW n \in Natives, NEW T \in Types, GiveValue(n, T) PROVE UNCHANGED refVars
  BY <1>6 DEF GiveValue, ForgetExternal, SetInstance, AddHook, Wrap, AddFinalizer, CreateExternal,
              CreateClosure, GiveBuffer
<1>7. ASSUME NEW o \in Objects, \/ NewObject(o) \/ ReleaseObject(o) \/ Collect(o) \/ ReturnExternal(o)
                                \/ \E T \in Types : DropWrapped(o, T) \/ Borrow(o, T)
      PROVE  UNCHANGED refVars
  BY <1>7 DEF NewObject, ReleaseObject, Collect, ReturnExternal, DropWrapped, Borrow
<1>8. ASSUME \/ \E T \in Types : BorrowInstance(T)
             \/ Return \/ CloseEnv \/ RunHook \/ HooksDone \/ EndEnv \/ UNCHANGED envVars
      PROVE  UNCHANGED refVars
  BY <1>8 DEF BorrowInstance, Return, CloseEnv, RunHook, HooksDone, EndEnv, envVars
<1>9. QED
  BY <1>d, <1>1, <1>2, <1>3, <1>4, <1>5, <1>6, <1>7, <1>8 DEF EnvNext

\* The invariant of what the Env boxes is inductive.
LEMMA StepEnv == EnvInv /\ [EnvNext]_envVars => EnvInv'
  BY StepEnvTyped, StepOwners, StepView, StepPins, StepCopies DEF EnvInv

\* A value owned in exactly one way has one owner, counted.
LEMMA OwnersCounted == EnvTypeOK /\ OwnInv => OneOwner
<1> SUFFICES ASSUME EnvTypeOK, OwnInv, NEW n \in Natives \ returned
             PROVE  Cardinality(Owners(n)) = IF box[n] = "live" THEN 1 ELSE 0
  BY DEF OneOwner, OwnInv
<1> DEFINE F == {<<"finaliser", h.obj, h.via>> : h \in {k \in attached : k.nat = n}}
           I == IF instance = n THEN {<<"instance">>} ELSE {}
           H == {<<"hook", i>> : i \in {j \in DOMAIN hooks : hooks[j] = n}}
           L == {<<"nobody", l[2]>> : l \in {k \in lost : k[1] = n}}
<1>a. DOMAIN hooks = 1..Len(hooks)
  BY LenProperties DEF EnvTypeOK
<1>b. /\ \A h, k \in attached : h.nat = k.nat => h = k \/ h.nat \in returned
      /\ \A h \in attached : h.nat \in returned => h.via = "external"
      /\ \A l, m \in lost : l[1] = m[1] => l = m
      /\ \A i, j \in 1..Len(hooks) : hooks[i] = hooks[j] => i = j
      /\ IF box[n] = "live" THEN OwnedOnce(n) ELSE Unowned(n)
  BY DEF OwnInv, Kept
<1>1. IF Attached(n) THEN \E x : F = {x} ELSE F = {}
  <2>1. ASSUME ~Attached(n) PROVE F = {}
    BY <2>1 DEF Attached
  <2>2. ASSUME Attached(n) PROVE \E x : F = {x}
    <3>1. PICK h \in attached : h.nat = n
      BY <2>2 DEF Attached
    <3>2. {k \in attached : k.nat = n} = {h}
      BY <3>1, <1>b
    <3>3. F = {<<"finaliser", h.obj, h.via>>}
      BY <3>2
    <3>4. QED
      BY <3>3
  <2>3. QED
    BY <2>1, <2>2
<1>2. IF instance = n THEN \E x : I = {x} ELSE I = {}
  OBVIOUS
<1>3. IF Hooked(n) THEN \E x : H = {x} ELSE H = {}
  <2>1. ASSUME ~Hooked(n) PROVE H = {}
    BY <2>1, <1>a DEF Hooked
  <2>2. ASSUME Hooked(n) PROVE \E x : H = {x}
    <3>1. PICK i \in 1..Len(hooks) : hooks[i] = n
      BY <2>2 DEF Hooked
    <3>2. {j \in DOMAIN hooks : hooks[j] = n} = {i}
      BY <3>1, <1>a, <1>b
    <3>3. H = {<<"hook", i>>}
      BY <3>2
    <3>4. QED
      BY <3>3
  <2>3. QED
    BY <2>1, <2>2
<1>4. IF Lost(n) THEN \E x : L = {x} ELSE L = {}
  <2>1. ASSUME ~Lost(n) PROVE L = {}
    BY <2>1 DEF Lost
  <2>2. ASSUME Lost(n) PROVE \E x : L = {x}
    <3>1. PICK l \in lost : l[1] = n
      BY <2>2 DEF Lost
    <3>2. {k \in lost : k[1] = n} = {l}
      BY <3>1, <1>b
    <3>3. L = {<<"nobody", l[2]>>}
      BY <3>2
    <3>4. QED
      BY <3>3
  <2>3. QED
    BY <2>1, <2>2
<1>5. Owners(n) = F \union I \union H \union L
  BY DEF Owners
<1> HIDE DEF F, I, H, L
<1>6. CASE box[n] = "live"
  <2>1. \E x : Owners(n) = {x}
    BY <1>1, <1>2, <1>3, <1>4, <1>5, <1>6, <1>b DEF OwnedOnce
  <2>2. QED
    BY <2>1, <1>6, FS_Singleton
<1>7. CASE box[n] # "live"
  <2>1. Owners(n) = {}
    BY <1>1, <1>2, <1>3, <1>4, <1>5, <1>7, <1>b DEF Kept, Unowned
  <2>2. QED
    BY <2>1, <1>7, FS_EmptySet
<1>8. QED
  BY <1>6, <1>7

\* The invariant gives each of the properties of what the Env boxes.
LEMMA EnvSound == EnvInv => EnvObjectsSound
<1> SUFFICES ASSUME EnvInv PROVE EnvObjectsSound
  OBVIOUS
<1>1. EnvTypeOK /\ OneOwner
  BY OwnersCounted DEF EnvInv
<1>2. TypesAreKept
  BY DEF EnvInv, ViewInv, Seen, TypesAreKept
<1>3. RefsPin
  <2>1. SUFFICES ASSUME NEW r \in Refs, ref[r].state # "none", envLife = "open", Pinned(ref[r].of)
                 PROVE  obj[ref[r].of] # "collected"
    BY DEF EnvInv, PinInv, CopyInv, RefsPin
  <2>2. PICK s \in Refs : ref[s].of = ref[r].of /\ ref[s].napi > 0
        /\ ref[s].state \in {"live", "leaked"}
    BY <2>1 DEF Pinned
  <2>3. QED
    BY <2>1, <2>2 DEF EnvInv, PinInv
<1>4. QED
  BY <1>1, <1>2, <1>3 DEF EnvObjectsSound

\* What the addon's other parts do leaves the Env's boxes alone.
LEMMA EnvApart == [Next]_addonObjectVars => [EnvNext]_envVars
  BY DEF Next, addonObjectVars

\* Every boxed value has one owner while it lives and none when it is freed, is freed once and as
\* what it was, unless an External gave it to JS once more; references pin what they count, and are
\* deleted once unless an Error was cloned; for every number of values, objects and references.
THEOREM EnvObjectsAreSound == Spec => []EnvObjectsSound
<1>1. Init => EnvInv
  BY EnvInitially DEF Init
<1>2. EnvInv /\ [Next]_addonObjectVars => EnvInv'
  BY StepEnv, EnvApart
<1>3. EnvInv => EnvObjectsSound
  BY EnvSound
<1>4. QED
  BY <1>1, <1>2, <1>3, PTL DEF Spec

-----------------------------------------------------------------------------
(* Integers.                                                               *)

\* Every nonempty set of natural numbers has a least element.
LEMMA LeastOfNaturals ==
    ASSUME NEW S, S \subseteq Nat, S # {}
    PROVE  \E m \in S : \A n \in S : m <= n
<1> DEFINE R == {ss \in Nat \X Nat : ss[1] < ss[2]}
<1>1. IsWellFoundedOn(R, Nat)
  BY NatLessThanWellFounded DEF OpToRel
<1> HIDE DEF R
<1>2. PICK m \in S : \A n \in S : ~ (<<n, m>> \in R)
  BY <1>1, WFMin
<1>3. ASSUME NEW n \in S, ~ m <= n PROVE FALSE
  <2>1. <<n, m>> \in R
    BY <1>3 DEF R
  <2>2. QED
    BY <2>1, <1>2
<1>4. QED
  BY <1>3

\* Division by a positive number.
LEMMA Dividing ==
    ASSUME NEW n \in Int, NEW b \in Nat, b > 0
    PROVE  n = b * (n \div b) + (n % b) /\ n % b \in 0..(b - 1) /\ n \div b \in Int
<1>1. n % b \in Nat
  OBVIOUS
<1>2. n % b < b
  OBVIOUS
<1>3. n \div b \in Int
  OBVIOUS
<1>4. n = b * (n \div b) + (n % b)
  OBVIOUS
<1>5. QED
  BY <1>1, <1>2, <1>3, <1>4

\* The quotient of a natural number.
LEMMA Quotients ==
    ASSUME NEW n \in Nat, NEW b \in Nat, b > 0
    PROVE  /\ n \div b \in Nat /\ n % b \in 0..(b - 1)
           /\ n < b => n \div b = 0 /\ n % b = n
           /\ n >= b => n \div b > 0
           /\ n < b * b => n \div b < b
           /\ n >= b * b => n \div b >= b
           /\ n > 0 /\ b > 1 => n \div b < n
<1> DEFINE q == n \div b
           r == n % b
<1>1. n = b * q + r /\ r \in 0..(b - 1) /\ q \in Int
  BY Dividing
<1> HIDE DEF q, r
<1>2. \A x \in Int : x < 0 => b * x <= -b
  OBVIOUS
<1>3. q \in Nat
  BY <1>1, <1>2
<1>4. n < b => q = 0 /\ r = n
  <2>1. \A x \in Nat : x > 0 => b * x >= b
    OBVIOUS
  <2>2. b * 0 = 0
    OBVIOUS
  <2>3. ASSUME n < b PROVE q = 0
    BY <2>1, <2>3, <1>1, <1>3
  <2>4. QED
    BY <2>2, <2>3, <1>1
<1>5. n >= b => q > 0
  <2>1. b * 0 = 0
    OBVIOUS
  <2>2. QED
    BY <2>1, <1>1, <1>3
<1>6. n < b * b => q < b
  <2>1. \A x \in Nat : x >= b => b * x >= b * b
    OBVIOUS
  <2>2. QED
    BY <2>1, <1>1, <1>3
<1>7. n >= b * b => q >= b
  <2>1. \A x \in Nat : x < b => b * x <= b * b - b
    OBVIOUS
  <2>2. QED
    BY <2>1, <1>1, <1>3
<1>8. n > 0 /\ b > 1 => q < n
  <2>1. \A x \in Nat : x > 0 /\ b > 1 => b * x > x
    OBVIOUS
  <2>2. QED
    BY <2>1, <1>1, <1>3
<1>9. QED
  BY <1>1, <1>3, <1>4, <1>5, <1>6, <1>7, <1>8 DEF q, r

\* A word has an even number of values, and so do two.
LEMMA Halves ==
    /\ Base \in Nat /\ Base > 1 /\ Half \in Nat /\ Half >= 1 /\ Base = 2 * Half
    /\ Base \div 2 = Half /\ Base * Base \in Nat /\ Base * Half \in Nat
    /\ Base * Half >= Base /\ Base * Base > Base
    /\ Base * Base = 2 * (Base * Half) /\ (Base * Base) \div 2 = Base * Half
<1>1. Base \in Nat /\ Base > 1 /\ Base = 2 * Half /\ Half \in Int /\ Base \div 2 = Half
  BY BaseAssumption, Dividing DEF Half
<1>2. Half \in Nat /\ Half >= 1
  BY <1>1
<1>3. \A x, y \in Nat : x = 2 * y => x * x = 2 * (x * y) /\ x * x \in Nat /\ x * y \in Nat
  OBVIOUS
<1>4. \A x, y \in Nat : y >= 1 => x * y >= x
  OBVIOUS
<1>5. \A x \in Nat : x > 1 => x * x > x
  OBVIOUS
<1>6. \A x \in Nat : (2 * x) \div 2 = x
  OBVIOUS
<1>7. QED
  BY <1>1, <1>2, <1>3, <1>4, <1>5, <1>6

\* A cast to a signed number of 2h values keeps those that it has.
LEMMA Casts ==
    ASSUME NEW n \in Int, NEW h \in Nat, h >= 1, NEW m, m = 2 * h, m \div 2 = h
    PROVE  /\ AsSigned(n, m) \in (-h)..(h - 1) /\ AsUnsigned(n, m) \in 0..(m - 1)
           /\ n \in 0..(m - 1) => AsUnsigned(n, m) = n
           /\ n \in (-m)..(-1) => AsUnsigned(n, m) = m + n
           /\ n \in (-h)..(h - 1) => AsSigned(n, m) = n
           /\ n \in h..(m - 1) => AsSigned(n, m) = n - m
<1>1. m \in Nat /\ m > 0
  OBVIOUS
<1> DEFINE q == n \div m
           r == n % m
<1>2. n = m * q + r /\ r \in 0..(m - 1) /\ q \in Int
  BY <1>1, Dividing
<1> HIDE DEF q, r
<1>3. /\ \A x \in Int : x < 0 => m * x <= -m
      /\ \A x \in Int : x < -1 => m * x <= -(m + m)
      /\ \A x \in Int : x > 0 => m * x >= m
      /\ m * 0 = 0 /\ m * (-1) = -m /\ \A x \in Int : m * x \in Int
  BY <1>1
<1>4. n \in 0..(m - 1) => r = n
  <2>1. ASSUME n \in 0..(m - 1) PROVE q = 0
    BY <2>1, <1>1, <1>2, <1>3
  <2>2. QED
    BY <2>1, <1>2, <1>3
<1>5. n \in (-m)..(-1) => r = m + n
  <2>1. ASSUME n \in (-m)..(-1) PROVE q = -1
    BY <2>1, <1>1, <1>2, <1>3
  <2>2. QED
    BY <2>1, <1>2, <1>3
<1>6. AsSigned(n, m) = IF r >= h THEN r - m ELSE r
  BY DEF AsSigned, r
<1>7. AsUnsigned(n, m) = r
  BY DEF AsUnsigned, r
<1>8. QED
  BY <1>1, <1>2, <1>4, <1>5, <1>6, <1>7

\* f gives the words of each number up to N.
Words(f, N) ==
    /\ f \in [0..N -> Seq(Nat)]
    /\ \A n \in 0..N : f[n] = IF n = 0 THEN << >> ELSE <<n % Base>> \o f[n \div Base]

\* The words are made from those of a lesser number.
LEMMA LessWords ==
    ASSUME NEW n \in Nat, n > 0
    PROVE  n \div Base \in Nat /\ n \div Base < n /\ n % Base \in Nat
  BY Halves, Quotients

\* Two ways to have the words of the numbers are the same.
LEMMA WordsDiffer ==
    ASSUME NEW f, NEW N \in Nat, Words(f, N), NEW g, NEW M \in Nat, Words(g, M)
    PROVE  \A n \in Nat : n <= N /\ n <= M => f[n] = g[n]
<1> DEFINE S == {n \in Nat : n <= N /\ n <= M /\ f[n] # g[n]}
<1>1. ASSUME S # {} PROVE FALSE
  <2>1. PICK n \in S : \A k \in S : n <= k
    BY <1>1, LeastOfNaturals
  <2>2. n \in 0..N /\ n \in 0..M /\ n \in Nat
    BY <2>1
  <2>3. n > 0
    <3>1. CASE n = 0
      <4>1. f[n] = << >> /\ g[n] = << >>
        BY <2>2, <3>1 DEF Words
      <4>2. QED
        BY <4>1, <2>1
    <3>2. QED
      BY <3>1, <2>2
  <2>4. n \div Base \in Nat /\ n \div Base < n
    BY <2>2, <2>3, LessWords
  <2>5. \A k \in Nat : k < n => k \in 0..N /\ k \in 0..M /\ k \notin S
    BY <2>1, <2>2
  <2>6. f[n \div Base] = g[n \div Base]
    BY <2>4, <2>5, <2>2
  <2>7. f[n] = g[n]
    BY <2>2, <2>3, <2>6 DEF Words
  <2>8. QED
    BY <2>1, <2>7
<1>2. QED
  BY <1>1

\* There are words for the numbers up to any.
LEMMA WordsExist ==
    ASSUME NEW N \in Nat
    PROVE  \E f : Words(f, N)
<1> DEFINE S == {n \in Nat : ~ \E f : Words(f, n)}
<1>1. ASSUME S # {} PROVE FALSE
  <2>1. PICK n \in S : \A k \in S : n <= k
    BY <1>1, LeastOfNaturals
  <2>2. CASE n = 0
    <3> DEFINE f == [k \in 0..0 |-> << >>]
    <3>1. f \in [0..0 -> Seq(Nat)]
      BY EmptySeq
    <3>2. \A k \in 0..0 : k = 0 /\ f[k] = << >>
      OBVIOUS
    <3> HIDE DEF f
    <3>3. Words(f, 0)
      BY <3>1, <3>2 DEF Words
    <3>4. QED
      BY <2>1, <2>2, <3>3
  <2>3. CASE n > 0
    <3>1. n \in Nat /\ n - 1 \in Nat /\ n - 1 \notin S
      BY <2>1, <2>3
    <3>2. PICK f : Words(f, n - 1)
      BY <3>1
    <3>3. n \div Base \in Nat /\ n \div Base < n /\ n % Base \in Nat
      BY <3>1, <2>3, LessWords
    <3> DEFINE last == <<n % Base>> \o f[n \div Base]
               g == [k \in 0..n |-> IF k = n THEN last ELSE f[k]]
    <3>4. f[n \div Base] \in Seq(Nat)
      <4>1. n \div Base \in 0..(n - 1)
        BY <3>1, <3>3
      <4>2. QED
        BY <4>1, <3>2 DEF Words
    <3>5. last \in Seq(Nat)
      <4>1. <<n % Base>> \in Seq(Nat)
        BY <3>3
      <4>2. QED
        BY <4>1, <3>4, ConcatProperties
    <3>6. \A k \in 0..(n - 1) : f[k] \in Seq(Nat)
      BY <3>2 DEF Words
    <3> HIDE DEF last
    <3>7. \A k \in 0..n : k = n \/ k \in 0..(n - 1)
      BY <3>1
    <3>8. g \in [0..n -> Seq(Nat)]
      BY <3>5, <3>6, <3>7
    <3>9. g[n] = last /\ \A k \in 0..(n - 1) : g[k] = f[k]
      BY <3>1
    <3> HIDE DEF g
    <3>10. ASSUME NEW k \in 0..n
           PROVE  g[k] = IF k = 0 THEN << >> ELSE <<k % Base>> \o g[k \div Base]
      <4>1. CASE k = n
        <5>1. n \div Base \in 0..(n - 1)
          BY <3>1, <3>3
        <5>2. g[k] = <<n % Base>> \o g[n \div Base]
          BY <4>1, <5>1, <3>9 DEF last
        <5>3. QED
          BY <4>1, <5>2, <2>3
      <4>2. CASE k \in 0..(n - 1) /\ k = 0
        BY <4>2, <3>9, <3>2 DEF Words
      <4>3. CASE k \in 0..(n - 1) /\ k # 0
        <5>1. k \in Nat /\ k > 0
          BY <4>3
        <5>2. k \div Base \in Nat /\ k \div Base < k
          BY <5>1, LessWords
        <5>3. k \div Base \in 0..(n - 1)
          BY <5>1, <5>2, <4>3, <3>1
        <5>4. f[k] = <<k % Base>> \o f[k \div Base]
          BY <4>3, <3>2 DEF Words
        <5>5. g[k] = <<k % Base>> \o g[k \div Base]
          BY <5>3, <5>4, <4>3, <3>9
        <5>6. QED
          BY <5>5, <4>3
      <4>4. QED
        BY <4>1, <4>2, <4>3, <3>7
    <3>11. Words(g, n)
      BY <3>8, <3>10 DEF Words
    <3>12. QED
      BY <2>1, <3>11
  <2>4. QED
    BY <2>1, <2>2, <2>3
<1>2. QED
  BY <1>1

\* So WordsOf is the function that its definition says.
LEMMA WordsOfUnrolls ==
    ASSUME NEW n \in Nat
    PROVE  /\ n = 0 => WordsOf[n] = << >>
           /\ n > 0 => WordsOf[n] = <<n % Base>> \o WordsOf[n \div Base]
<1> DEFINE upTo(k) == CHOOSE f : Words(f, k)
           F == [k \in Nat |-> upTo(k)[k]]
           G == [k \in Nat |-> IF k = 0 THEN << >> ELSE <<k % Base>> \o F[k \div Base]]
<1>1. \A k \in Nat : Words(upTo(k), k)
  BY WordsExist
<1> HIDE DEF upTo
<1>2. ASSUME NEW k \in Nat PROVE F[k] = G[k]
  <2>1. CASE k = 0
    <3>1. upTo(k)[k] = << >>
      <4>1. Words(upTo(k), k) /\ k \in 0..k
        BY <1>1
      <4>2. QED
        BY <4>1, <2>1 DEF Words
    <3>2. QED
      BY <2>1, <3>1
  <2>2. CASE k > 0
    <3>1. k \div Base \in Nat /\ k \div Base < k
      BY <2>2, LessWords
    <3>2. upTo(k)[k] = <<k % Base>> \o upTo(k)[k \div Base]
      <4>1. Words(upTo(k), k) /\ k \in 0..k /\ k # 0
        BY <1>1, <2>2
      <4>2. QED
        BY <4>1 DEF Words
    <3>3. upTo(k)[k \div Base] = upTo(k \div Base)[k \div Base]
      BY <3>1, <1>1, WordsDiffer
    <3>4. F[k] = upTo(k)[k] /\ F[k \div Base] = upTo(k \div Base)[k \div Base]
      BY <3>1
    <3>5. G[k] = <<k % Base>> \o F[k \div Base]
      BY <2>2
    <3>6. QED
      BY <3>2, <3>3, <3>4, <3>5
  <2>3. QED
    BY <2>1, <2>2
<1>3. F = G
  BY <1>2
<1> HIDE DEF F
<1>4. WordsOf = [k \in Nat |-> IF k = 0 THEN << >> ELSE <<k % Base>> \o WordsOf[k \div Base]]
  BY <1>3 DEF WordsOf
<1>5. WordsOf[n] = IF n = 0 THEN << >> ELSE <<n % Base>> \o WordsOf[n \div Base]
  BY <1>4
<1>6. QED
  BY <1>5

\* The words of a number are a sequence.
LEMMA WordsAreAList == \A n \in Nat : WordsOf[n] \in Seq(Nat)
<1> DEFINE S == {n \in Nat : WordsOf[n] \notin Seq(Nat)}
<1>1. ASSUME S # {} PROVE FALSE
  <2>1. PICK n \in S : \A k \in S : n <= k
    BY <1>1, LeastOfNaturals
  <2>2. CASE n = 0
    BY <2>1, <2>2, WordsOfUnrolls, EmptySeq
  <2>3. CASE n > 0
    <3>1. n \div Base \in Nat /\ n \div Base < n /\ n % Base \in Nat
      BY <2>1, <2>3, LessWords
    <3>2. WordsOf[n \div Base] \in Seq(Nat)
      <4>1. \A k \in Nat : k < n => k \notin S
        BY <2>1
      <4>2. QED
        BY <4>1, <3>1
    <3>3. <<n % Base>> \o WordsOf[n \div Base] \in Seq(Nat)
      <4>1. <<n % Base>> \in Seq(Nat)
        BY <3>1
      <4>2. QED
        BY <4>1, <3>2, ConcatProperties
    <3>4. WordsOf[n] = <<n % Base>> \o WordsOf[n \div Base]
      BY <2>1, <2>3, WordsOfUnrolls
    <3>5. QED
      BY <2>1, <3>3, <3>4
  <2>4. QED
    BY <2>1, <2>2, <2>3
<1>2. QED
  BY <1>1

\* One word more.
LEMMA OneWord ==
    ASSUME NEW n \in Nat, n > 0
    PROVE  /\ n \div Base \in Nat /\ Len(WordsOf[n \div Base]) \in Nat
           /\ Len(WordsOf[n]) = Len(WordsOf[n \div Base]) + 1
           /\ WordsOf[n][1] = n % Base
           /\ \A i \in 1..Len(WordsOf[n \div Base]) : WordsOf[n][i + 1] = WordsOf[n \div Base][i]
<1>1. n \div Base \in Nat /\ n \div Base < n /\ n % Base \in Nat
  BY LessWords
<1>2. PICK m : m = n % Base
  OBVIOUS
<1>3. PICK t : t = WordsOf[n \div Base]
  OBVIOUS
<1>4. PICK w : w = WordsOf[n]
  OBVIOUS
<1>5. w = <<m>> \o t
  BY <1>2, <1>3, <1>4, WordsOfUnrolls
<1>6. m \in Nat /\ t \in Seq(Nat)
  BY <1>1, <1>2, <1>3, WordsAreAList
<1>7. <<m>> \in Seq(Nat) /\ Len(<<m>>) = 1 /\ <<m>>[1] = m
  BY <1>6
<1>8. Len(t) \in Nat
  BY <1>6, LenProperties
<1>9. Len(w) = 1 + Len(t) /\ w[1] = m
      /\ \A i \in 1..Len(t) : w[i + 1] = t[i]
  <2>1. /\ Len(w) = Len(<<m>>) + Len(t)
        /\ \A i \in 1..(Len(<<m>>) + Len(t)) :
             w[i] = IF i <= Len(<<m>>) THEN <<m>>[i] ELSE t[i - Len(<<m>>)]
    BY <1>5, <1>6, <1>7, ConcatProperties
  <2>2. /\ Len(w) = 1 + Len(t)
        /\ \A i \in 1..(1 + Len(t)) : w[i] = IF i <= 1 THEN <<m>>[i] ELSE t[i - 1]
    BY <2>1, <1>7
  <2>3. w[1] = m
    BY <2>2, <1>7, <1>8
  <2>4. ASSUME NEW i \in 1..Len(t) PROVE w[i + 1] = t[i]
    <3>1. i + 1 \in 1..(1 + Len(t)) /\ ~(i + 1 <= 1) /\ i + 1 - 1 = i
      BY <1>8
    <3>2. QED
      BY <3>1, <2>2
  <2>5. QED
    BY <2>2, <2>3, <2>4
<1>10. QED
  BY <1>1, <1>2, <1>3, <1>4, <1>8, <1>9

\* A number has as many words as it needs, and the first ones are its lowest.
LEMMA FirstWords ==
    ASSUME NEW n \in Nat, n > 0
    PROVE  LET w == WordsOf[n] IN
           /\ Len(w) \in Nat /\ Len(w) >= 1 /\ w[1] = n % Base
           /\ n < Base => Len(w) = 1
           /\ n >= Base => Len(w) >= 2 /\ w[2] = (n \div Base) % Base
           /\ n >= Base /\ n < Base * Base => Len(w) = 2
           /\ n >= Base * Base => Len(w) > 2
<1> DEFINE q == n \div Base
           p == q \div Base
<1>a. Base \in Nat /\ Base > 0
  BY BaseAssumption
<1>1. q \in Nat /\ (n < Base => q = 0) /\ (n >= Base => q > 0)
      /\ (n < Base * Base => q < Base) /\ (n >= Base * Base => q >= Base)
  BY <1>a, Quotients, Zenon
<1>2. Len(WordsOf[q]) \in Nat /\ Len(WordsOf[n]) = Len(WordsOf[q]) + 1 /\ WordsOf[n][1] = n % Base
      /\ \A i \in 1..Len(WordsOf[q]) : WordsOf[n][i + 1] = WordsOf[q][i]
  BY OneWord
<1>3. WordsOf[0] = << >> /\ Len(<< >>) = 0
  BY WordsOfUnrolls
<1> HIDE DEF q
<1>4. q > 0 => /\ p \in Nat /\ Len(WordsOf[p]) \in Nat /\ Len(WordsOf[q]) = Len(WordsOf[p]) + 1
               /\ WordsOf[q][1] = q % Base /\ (q < Base => p = 0) /\ (q >= Base => p > 0)
  <2>1. (q < Base => p = 0) /\ (q >= Base => p > 0)
    BY <1>1, <1>a, Quotients, Zenon
  <2>2. QED
    BY <1>1, <2>1, OneWord
<1> HIDE DEF p
<1>5. p \in Nat /\ p > 0 => Len(WordsOf[p]) >= 1
  <2>1. ASSUME p \in Nat, p > 0 PROVE Len(WordsOf[p]) >= 1
    <3>1. Len(WordsOf[p \div Base]) \in Nat /\ Len(WordsOf[p]) = Len(WordsOf[p \div Base]) + 1
      BY <2>1, OneWord
    <3>2. QED
      BY <3>1
  <2>2. QED
    BY <2>1
<1>6. n < Base => Len(WordsOf[n]) = 1
  BY <1>1, <1>2, <1>3
<1>7. n >= Base => Len(WordsOf[n]) >= 2 /\ WordsOf[n][2] = q % Base
  <2>1. ASSUME n >= Base PROVE Len(WordsOf[n]) >= 2 /\ WordsOf[n][1 + 1] = q % Base
    BY <2>1, <1>1, <1>2, <1>4
  <2>2. QED
    BY <2>1
<1>8. n >= Base /\ n < Base * Base => Len(WordsOf[n]) = 2
  BY <1>1, <1>2, <1>3, <1>4
<1>9. n >= Base * Base => Len(WordsOf[n]) > 2
  <2>1. n >= Base * Base => n >= Base
    BY Halves
  <2>2. QED
    BY <2>1, <1>1, <1>2, <1>4, <1>5
<1>10. QED
  BY <1>2, <1>6, <1>7, <1>8, <1>9 DEF q

\* Casts to one word.
LEMMA WordCasts ==
    ASSUME NEW n \in Int, NEW m, m = Base, NEW h, h = Half
    PROVE  /\ AsSigned(n, m) \in (-h)..(h - 1) /\ AsUnsigned(n, m) \in 0..(m - 1)
           /\ n \in 0..(m - 1) => AsUnsigned(n, m) = n
           /\ n \in (-m)..(-1) => AsUnsigned(n, m) = m + n
           /\ n \in (-h)..(h - 1) => AsSigned(n, m) = n
           /\ n \in h..(m - 1) => AsSigned(n, m) = n - m
<1>1. h \in Nat /\ h >= 1 /\ m = 2 * h /\ m \div 2 = h
  BY Halves
<1>2. QED
  BY <1>1, Casts, Zenon

\* Casts to two words.
LEMMA TwoWordCasts ==
    ASSUME NEW n \in Int, NEW m, m = Base * Base, NEW h, h = Base * Half
    PROVE  /\ AsSigned(n, m) \in (-h)..(h - 1) /\ AsUnsigned(n, m) \in 0..(m - 1)
           /\ n \in 0..(m - 1) => AsUnsigned(n, m) = n
           /\ n \in (-m)..(-1) => AsUnsigned(n, m) = m + n
           /\ n \in (-h)..(h - 1) => AsSigned(n, m) = n
           /\ n \in h..(m - 1) => AsSigned(n, m) = n - m
<1>1. h \in Nat /\ h >= 1 /\ m = 2 * h /\ m \div 2 = h
  BY Halves
<1>2. QED
  BY <1>1, Casts, Zenon

\* A sign goes in front of the value of the words.
LEMMA Signed ==
    ASSUME NEW b, NEW n \in Int, NEW w, NEW v, Two(w) = v
    PROVE  /\ b = [sign |-> n < 0, words |-> w] /\ n < 0 => FromWords(b.sign, b.words) = -v
           /\ b = [sign |-> n < 0, words |-> w] /\ n >= 0 => FromWords(b.sign, b.words) = v
           /\ b = [sign |-> n <= 0, words |-> w] /\ n <= 0 => FromWords(b.sign, b.words) = -v
           /\ b = [sign |-> n <= 0, words |-> w] /\ n > 0 => FromWords(b.sign, b.words) = v
<1>1. ASSUME b = [sign |-> n < 0, words |-> w], n < 0 PROVE FromWords(b.sign, b.words) = -v
  BY <1>1 DEF FromWords
<1>2. ASSUME b = [sign |-> n < 0, words |-> w], n >= 0 PROVE FromWords(b.sign, b.words) = v
  <2>1. ~(n < 0)
    BY <1>2
  <2>2. ~b.sign /\ b.words = w
    BY <1>2, <2>1, Zenon
  <2>3. QED
    BY <2>2, Zenon DEF FromWords
<1>3. ASSUME b = [sign |-> n <= 0, words |-> w], n <= 0 PROVE FromWords(b.sign, b.words) = -v
  BY <1>3 DEF FromWords
<1>4. ASSUME b = [sign |-> n <= 0, words |-> w], n > 0 PROVE FromWords(b.sign, b.words) = v
  <2>1. ~(n <= 0)
    BY <1>4
  <2>2. ~b.sign /\ b.words = w
    BY <1>4, <2>1, Zenon
  <2>3. QED
    BY <2>2, Zenon DEF FromWords
<1>5. QED
  BY <1>1, <1>2, <1>3, <1>4

\* What a sign and words are for a number of up to two words.
LEMMA TwoWordsAre ==
    ASSUME NEW n \in 0..(Base * Base - 1)
    PROVE  Two(TwoWords(n)) = n /\ Len(TwoWords(n)) = 2
<1>1. n \in Nat /\ n < Base * Base /\ Base \in Nat /\ Base > 0
  BY Halves
<1>2. PICK q : q = n \div Base
  OBVIOUS
<1>3. PICK r : r = n % Base
  OBVIOUS
<1>4. n = Base * q + r /\ r \in Nat /\ q \in Nat /\ q < Base
  <2>1. n \in Int
    BY <1>1
  <2>2. n = Base * q + r
    BY <1>1, <1>2, <1>3, <2>1, Dividing, Zenon
  <2>3. r \in 0..(Base - 1) /\ q \in Nat /\ q < Base
    BY <1>1, <1>2, <1>3, Quotients, Zenon
  <2>4. QED
    BY <2>2, <2>3
<1>5. q % Base = q
  BY <1>1, <1>4, Quotients, Zenon
<1>6. TwoWords(n) = <<r, q>>
  BY <1>2, <1>3, <1>5 DEF TwoWords
<1>7. Two(<<r, q>>) = r + Base * q /\ Len(<<r, q>>) = 2
  BY DEF Two
<1>8. QED
  BY <1>1, <1>4, <1>6, <1>7

\* What arrives of an integer that is sent as words.
LEMMA SentIs ==
    ASSUME NEW kind \in IntTypes \ {"i64n"}, NEW n \in Domain(kind),
           NEW b, b = Sends(kind, n)
    PROVE  /\ kind \in {"u64", "u128", "i128 as BigInt"} => FromWords(b.sign, b.words) = n
           /\ kind = "i64" => FromWords(b.sign, b.words) = IF n >= 0 THEN n ELSE -(Base + n)
           /\ kind = "i128" => FromWords(b.sign, b.words) = IF n >= 0 THEN n ELSE -(Base * Base + n)
<1>0. \A x : Two(<<x>>) = x
  BY DEF Two
<1>1. CASE kind = "u64"
  <2>1. n \in Int /\ b = [sign |-> FALSE, words |-> <<n>>]
    BY <1>1 DEF Domain, U64, Sends, FromU64
  <2>2. QED
    BY <1>1, <2>1, <1>0 DEF FromWords
<1>2. CASE kind = "u128"
  <2>1. n \in 0..(Base * Base - 1) /\ b = [sign |-> FALSE, words |-> TwoWords(n)]
    BY <1>2 DEF Domain, U128, Sends, FromU128
  <2>2. QED
    BY <1>2, <2>1, TwoWordsAre DEF FromWords
<1>3. CASE kind = "i64"
  <2>1. n \in (-Half)..(Half - 1) /\ b = [sign |-> n < 0, words |-> <<AsUnsigned(n, Base)>>]
    BY <1>3 DEF Domain, I64, Sends, FromI64
  <2>2. n \in Int /\ (n >= 0 => n \in 0..(Base - 1)) /\ (n < 0 => n \in (-Base)..(-1))
    BY <2>1, Halves
  <2>3. /\ n >= 0 => AsUnsigned(n, Base) = n
        /\ n < 0 => AsUnsigned(n, Base) = Base + n
    BY <2>2, WordCasts
  <2>4. PICK u : u = AsUnsigned(n, Base)
    OBVIOUS
  <2>5. Two(<<u>>) = u /\ b = [sign |-> n < 0, words |-> <<u>>]
    BY <2>1, <2>4, <1>0
  <2>6. (n < 0 => FromWords(b.sign, b.words) = -u) /\ (n >= 0 => FromWords(b.sign, b.words) = u)
    BY <2>2, <2>5, Signed
  <2>7. QED
    BY <1>3, <2>2, <2>3, <2>4, <2>6
<1>4. CASE kind = "i128"
  <2>1. /\ n \in (-(Base * Half))..(Base * Half - 1)
        /\ b = [sign |-> n <= 0, words |-> TwoWords(AsUnsigned(n, Base * Base))]
    BY <1>4 DEF Domain, I128, Sends, I128ToNapi
  <2>2. /\ n \in Int /\ (n >= 0 => n \in 0..(Base * Base - 1))
        /\ (n < 0 => n \in (-(Base * Base))..(-1))
    BY <2>1, Halves
  <2>3. PICK u : u = AsUnsigned(n, Base * Base)
    OBVIOUS
  <2>4. /\ n \in 0..(Base * Base - 1) => u = n
        /\ n \in (-(Base * Base))..(-1) => u = Base * Base + n
        /\ u \in 0..(Base * Base - 1)
    BY <2>2, <2>3, TwoWordCasts
  <2>5. Two(TwoWords(u)) = u /\ b = [sign |-> n <= 0, words |-> TwoWords(u)]
    BY <2>1, <2>3, <2>4, TwoWordsAre
  <2>6. (n <= 0 => FromWords(b.sign, b.words) = -u) /\ (n > 0 => FromWords(b.sign, b.words) = u)
    BY <2>2, <2>5, Signed
  <2>7. (n >= 0 => u = n) /\ (n < 0 => u = Base * Base + n)
    BY <2>2, <2>4
  <2>8. CASE n < 0
    BY <1>4, <2>2, <2>6, <2>7, <2>8
  <2>9. CASE n = 0
    <3>1. n <= 0 /\ u = n
      BY <2>2, <2>7, <2>9
    <3>2. \A x \in Int : x <= 0 /\ x >= 0 => -x <= 0 /\ -x >= 0 /\ -x \in Int
      OBVIOUS
    <3>3. u <= 0 /\ u >= 0 /\ u \in Int
      BY <2>2, <2>9, <3>1
    <3>4. -u <= 0 /\ -u >= 0 /\ -u \in Int
      BY <3>2, <3>3, Zenon
    <3>5. FromWords(b.sign, b.words) = -u
      BY <2>6, <3>1, Zenon
    <3>6. FromWords(b.sign, b.words) = n
      BY <2>9, <3>4, <3>5
    <3>7. QED
      BY <1>4, <2>9, <3>6
  <2>10. CASE n > 0
    BY <1>4, <2>2, <2>6, <2>7, <2>10
  <2>11. n < 0 \/ n = 0 \/ n > 0
    BY <2>2
  <2>12. QED
    BY <2>8, <2>9, <2>10, <2>11
<1>5. CASE kind = "i128 as BigInt"
  <2>1. /\ n \in (-(Base * Half))..(Base * Half - 1)
        /\ b = [sign |-> n < 0, words |-> TwoWords(AsUnsigned(Magnitude(n), Base * Base))]
    BY <1>5 DEF Domain, I128, Sends, FromI128
  <2>2. Magnitude(n) \in 0..(Base * Base - 1) /\ n = IF n < 0 THEN -Magnitude(n) ELSE Magnitude(n)
    BY <2>1, Halves DEF Magnitude
  <2>3. PICK a : a = Magnitude(n)
    OBVIOUS
  <2>4. AsUnsigned(a, Base * Base) = a
    <3>1. a \in Int /\ a \in 0..(Base * Base - 1)
      BY <2>2, <2>3, Halves
    <3>2. QED
      BY <3>1, TwoWordCasts
  <2>5. Two(TwoWords(a)) = a /\ b = [sign |-> n < 0, words |-> TwoWords(a)] /\ n \in Int
    BY <2>1, <2>2, <2>3, <2>4, TwoWordsAre
  <2>6. (n < 0 => FromWords(b.sign, b.words) = -a) /\ (n >= 0 => FromWords(b.sign, b.words) = a)
    BY <2>5, Signed
  <2>7. FromWords(b.sign, b.words) = n
    BY <2>2, <2>3, <2>5, <2>6
  <2>8. QED
    BY <1>5, <2>7
<1>6. QED
  BY <1>1, <1>2, <1>3, <1>4, <1>5 DEF IntTypes

\* What 64 and 128 bits are read with.
Getters == {"get_u64", "get_i64", "get_u128", "get_i128"}

\* What a getter says of a BigInt.
Given(g, n) ==
  LET b == FromNapi(n) IN
  IF g.type = "BigInt"
  THEN CASE g.name = "get_u64" -> GetU64(b) [] g.name = "get_i64" -> GetI64(b)
         [] g.name = "get_u128" -> GetU128(b) [] g.name = "get_i128" -> GetI128(b)
  ELSE CASE g.name = "get_i128" -> JsGetI128(n) [] g.name = "get_u128" -> JsGetU128(n)
         [] OTHER -> JsGet64(g.name, n)

\* What arrives, and what it is read as.
NumbersInv ==
    /\ place \in {"rust", "js", "read", "panicked"} /\ source \in IntTypes \union {"js"}
    /\ number \in Int /\ arrived \in Int /\ (source # "js" => number \in Domain(source))
    /\ (source \in {"i64", "i128"} => number >= 0) => arrived = number
    /\ place = "rust" => source # "js" /\ arrived = number
    /\ place = "read" =>
         /\ getter \in [type : {"BigInt", "JsBigInt"}, name : Getters]
         /\ answer = Given(getter, arrived)

\* Every type has integers.
LEMMA DomainsAreInts == \A kind \in IntTypes : \A n \in Domain(kind) : n \in Int
<1>1. \A n \in I64 \union U64 \union I128 \union U128 : n \in Int
  BY Halves DEF I64, U64, I128, U128
<1>2. QED
  BY <1>1 DEF IntTypes, Domain

\* A number starts in Rust or in JavaScript.
LEMMA NumbersInitially ==
    ASSUME NumbersInit \/ NumbersStart("js", 0)
    PROVE  NumbersInv
<1>1. ASSUME NEW kind \in IntTypes, NEW n \in Domain(kind), NumbersStart(kind, n)
      PROVE  NumbersInv
  <2>1. n \in Int /\ kind # "js"
    BY DomainsAreInts DEF IntTypes
  <2>2. QED
    BY <1>1, <2>1 DEF NumbersStart, NumbersInv
<1>2. ASSUME NEW n \in Int, NumbersStart("js", n) PROVE NumbersInv
  BY <1>2 DEF NumbersStart, NumbersInv, IntTypes
<1>3. \A n \in Numbers : n \in Int
  BY BaseAssumption DEF Numbers
<1>4. QED
  BY <1>1, <1>2, <1>3 DEF NumbersInit

\* A number goes to JavaScript.
LEMMA StepNumberToJs ==
    ASSUME NumbersInv, NumberToJs
    PROVE  NumbersInv'
<1>1. /\ place = "rust" /\ source \in IntTypes /\ number \in Domain(source) /\ number \in Int
      /\ arrived = number /\ UNCHANGED <<source, number, getter, answer>>
  BY DEF NumbersInv, NumberToJs
<1>2. CASE source = "i64n" /\ place' = "js" /\ arrived' = number
  BY <1>1, <1>2 DEF NumbersInv
<1>3. CASE place' = "panicked" /\ UNCHANGED arrived
  BY <1>1, <1>3 DEF NumbersInv
<1>4. CASE source # "i64n" /\ place' = "js"
           /\ LET b == Sends(source, number) IN arrived' = FromWords(b.sign, b.words)
  <2>1. PICK b : b = Sends(source, number)
    OBVIOUS
  <2>2. arrived' = FromWords(b.sign, b.words)
    BY <1>4, <2>1
  <2>3. /\ source \in {"u64", "u128", "i128 as BigInt"} => arrived' = number
        /\ source = "i64" => arrived' = IF number >= 0 THEN number ELSE -(Base + number)
        /\ source = "i128" => arrived' = IF number >= 0 THEN number ELSE -(Base * Base + number)
    <3>1. source \in IntTypes \ {"i64n"}
      BY <1>1, <1>4
    <3>2. PICK kind, n : kind = source /\ n = number
      OBVIOUS
    <3>3. kind \in IntTypes \ {"i64n"} /\ n \in Domain(kind) /\ b = Sends(kind, n)
      BY <1>1, <2>1, <3>1, <3>2
    <3>4. /\ kind \in {"u64", "u128", "i128 as BigInt"} => FromWords(b.sign, b.words) = n
          /\ kind = "i64" => FromWords(b.sign, b.words) = IF n >= 0 THEN n ELSE -(Base + n)
          /\ kind = "i128" => FromWords(b.sign, b.words) = IF n >= 0 THEN n ELSE -(Base * Base + n)
      BY <3>3, SentIs
    <3>5. QED
      BY <2>2, <3>2, <3>4
  <2>4. arrived' \in Int
    <3>1. -(Base + number) \in Int /\ -(Base * Base + number) \in Int
      BY <1>1, Halves
    <3>2. source \in {"u64", "u128", "i128 as BigInt", "i64", "i128"}
      BY <1>1, <1>4 DEF IntTypes
    <3>3. QED
      BY <1>1, <2>3, <3>1, <3>2
  <2>5. QED
    BY <1>1, <1>4, <2>3, <2>4 DEF NumbersInv, IntTypes
<1>5. QED
  BY <1>1, <1>2, <1>3, <1>4 DEF NumberToJs

\* A number is read.
LEMMA StepRead ==
    ASSUME NumbersInv, NEW name \in Getters, ReadBigInt(name) \/ ReadJsBigInt(name)
    PROVE  NumbersInv'
<1>1. /\ place = "js" /\ UNCHANGED <<source, number, arrived>>
      /\ place' \in {"panicked", "read"}
  BY DEF ReadBigInt, ReadJsBigInt
<1>2. place' = "read" =>
        /\ getter' \in [type : {"BigInt", "JsBigInt"}, name : Getters]
        /\ answer' = Given(getter', arrived')
  <2>1. ASSUME ReadBigInt(name), place' = "read"
        PROVE  getter' = [type |-> "BigInt", name |-> name] /\ answer' = Given(getter', arrived)
    BY <2>1 DEF ReadBigInt, Given
  <2>2. ASSUME ReadJsBigInt(name)
        PROVE  getter' = [type |-> "JsBigInt", name |-> name] /\ answer' = Given(getter', arrived)
    BY <2>2 DEF ReadJsBigInt, Given
  <2>3. QED
    BY <1>1, <2>1, <2>2
<1>3. QED
  BY <1>1, <1>2 DEF NumbersInv

\* The numbers' steps, and those of the other parts.
LEMMA StepNumbers == NumbersInv /\ [NumbersNext]_bigIntVars => NumbersInv'
<1> SUFFICES ASSUME NumbersInv, [NumbersNext]_bigIntVars PROVE NumbersInv'
  OBVIOUS
<1>1. CASE NumbersNext
  BY <1>1, StepNumberToJs, StepRead DEF NumbersNext, Getters
<1>2. CASE UNCHANGED bigIntVars
  BY <1>2 DEF bigIntVars, NumbersInv, Given
<1>3. QED
  BY <1>1, <1>2

\* A BigInt is its sign and the words of its magnitude.
LEMMA Received ==
    ASSUME NEW n \in Int, NEW b, b = FromNapi(n), NEW a, a = Magnitude(n)
    PROVE  /\ a \in Nat /\ n = (IF n < 0 THEN -a ELSE a) /\ b.sign = (n < 0)
           /\ Len(b.words) \in Nat /\ Len(b.words) >= 1 /\ b.words[1] = a % Base
           /\ Len(b.words) = 1 => b.words[1] = a /\ a < Base
           /\ a < Base * Base => Two(b.words) = a
<1>1. a \in Nat /\ n = (IF n < 0 THEN -a ELSE a) /\ (n = 0 <=> a = 0)
  BY DEF Magnitude
<1>2. b.sign = (n < 0) /\ b.words = IF n = 0 THEN <<0>> ELSE WordsOf[a]
  BY Zenon DEF FromNapi
<1>a. Base \in Nat /\ Base > 1
  BY Halves
<1>3. CASE n = 0
  <2>1. b.words = <<0>> /\ a = 0
    BY <1>1, <1>2, <1>3
  <2>2. a % Base = a
    BY <2>1, <1>1, <1>a, Quotients
  <2>3. Len(b.words) = 1 /\ b.words[1] = 0
    BY <2>1
  <2>4. Two(b.words) = 0
    BY <2>3 DEF Two
  <2>5. a < Base
    BY <2>1, <1>a
  <2>6. /\ Len(b.words) \in Nat /\ Len(b.words) >= 1 /\ b.words[1] = a % Base
        /\ b.words[1] = a /\ Two(b.words) = a
    BY <2>1, <2>2, <2>3, <2>4
  <2>7. QED
    BY <1>1, <1>2, <2>5, <2>6, Zenon
<1>4. CASE n # 0
  <2>1. a > 0
    BY <1>1, <1>4
  <2>2. PICK w : w = WordsOf[a]
    OBVIOUS
  <2>3. b.words = w
    BY <1>2, <1>4, <2>2
  <2>4. /\ Len(w) \in Nat /\ Len(w) >= 1 /\ w[1] = a % Base
        /\ a < Base => Len(w) = 1
        /\ a >= Base => Len(w) >= 2 /\ w[2] = (a \div Base) % Base
        /\ a >= Base /\ a < Base * Base => Len(w) = 2
        /\ a >= Base * Base => Len(w) > 2
    BY <1>1, <2>1, <2>2, FirstWords
  <2>5. ASSUME Len(w) = 1 PROVE w[1] = a /\ Two(w) = a
    <3>1. a < Base
      BY <2>4, <2>5, <1>1, <1>a
    <3>2. a % Base = a
      BY <3>1, <1>1, <1>a, Quotients
    <3>3. w[1] = a
      BY <2>4, <3>2
    <3>4. QED
      BY <2>5, <3>3 DEF Two
  <2>6. ASSUME Len(w) = 2 PROVE Two(w) = a
    <3>1. a >= Base /\ a < Base * Base
      BY <2>4, <2>6, <1>1, <1>a
    <3>2. w[1] = a % Base /\ w[2] = (a \div Base) % Base
      BY <2>4, <3>1
    <3>3. Two(TwoWords(a)) = a
      BY <1>1, <3>1, <1>a, Halves, TwoWordsAre
    <3>4. Two(w) = w[1] + Base * w[2] /\ Two(TwoWords(a)) = TwoWords(a)[1] + Base * TwoWords(a)[2]
      BY <2>6 DEF Two, TwoWords
    <3>5. TwoWords(a)[1] = a % Base /\ TwoWords(a)[2] = (a \div Base) % Base
      BY DEF TwoWords
    <3>6. QED
      BY <3>2, <3>3, <3>4, <3>5, Zenon
  <2>7. a < Base * Base => Len(w) = 1 \/ Len(w) = 2
    BY <2>4, <1>1, <1>a
  <2>8. Len(w) = 1 => a < Base
    BY <2>4, <1>1, <1>a
  <2>9. QED
    BY <1>1, <1>2, <2>3, <2>4, <2>5, <2>6, <2>7, <2>8, Zenon
<1>5. QED
  BY <1>3, <1>4

\* An answer's sign goes in front of its value.
LEMMA ExactIs ==
    ASSUME NEW s, NEW v, NEW f, answer = Answer(s, v, f)
    PROVE  Exact = (IF s THEN -v ELSE v) /\ answer.val = v /\ answer.flag = f
  BY Zenon DEF Exact, Answer

\* The getters of unsigned numbers tell what they cut off.
LEMMA UnsignedTold ==
    ASSUME NumbersInv
    PROVE  UnsignedIsTold
<1> SUFFICES ASSUME place = "read" PROVE UnsignedIsTold
  BY DEF UnsignedIsTold
<1>1. /\ getter \in [type : {"BigInt", "JsBigInt"}, name : Getters]
      /\ answer = Given(getter, arrived) /\ arrived \in Int
  BY DEF NumbersInv
<1>2. PICK n : n = arrived
  OBVIOUS
<1>3. PICK b : b = FromNapi(n)
  OBVIOUS
<1>4. PICK a : a = Magnitude(n)
  OBVIOUS
<1>5. /\ n \in Int /\ a \in Nat /\ n = (IF n < 0 THEN -a ELSE a) /\ b.sign = (n < 0)
      /\ Len(b.words) \in Nat
      /\ Len(b.words) = 1 => b.words[1] = a
      /\ a < Base * Base => Two(b.words) = a
  BY <1>1, <1>2, <1>3, <1>4, Received
<1>6. CASE getter.type = "BigInt" /\ getter.name = "get_u128"
  <2>1. answer = Answer(b.sign, Two(b.words), Len(b.words) > 2)
    BY <1>1, <1>2, <1>3, <1>6 DEF Given, GetU128
  <2>2. Exact = IF b.sign THEN -Two(b.words) ELSE Two(b.words)
    BY <2>1, ExactIs
  <2>3. a < Base * Base => Exact = n
    <3>1. (n < 0) => b.sign
      BY <1>5, Zenon
    <3>2. ~(n < 0) => ~b.sign
      BY <1>5, Zenon
    <3>3. n < 0 => n = -a
      BY <1>5
    <3>4. ~(n < 0) => n = a
      BY <1>5
    <3>5. QED
      BY <2>2, <3>1, <3>2, <3>3, <3>4, <1>5, Zenon
  <2>4. Magnitude(arrived) < Base * Base => Exact = arrived
    BY <1>2, <1>4, <2>3, Zenon
  <2>5. QED
    BY <1>6, <2>4 DEF UnsignedIsTold
<1>7. CASE getter.type = "BigInt" /\ getter.name = "get_u64"
  <2>1. answer = Answer(b.sign, b.words[1], ~b.sign /\ Len(b.words) = 1)
    BY <1>1, <1>2, <1>3, <1>7 DEF Given, GetU64
  <2>2. Exact = (IF b.sign THEN -b.words[1] ELSE b.words[1])
        /\ answer.flag = (~b.sign /\ Len(b.words) = 1)
    BY <2>1, ExactIs
  <2>3. ~b.sign /\ Len(b.words) = 1 => Exact = n
    <3>1. n < 0 => b.sign
      BY <1>5, Zenon
    <3>2. ~(n < 0) => n = a
      BY <1>5
    <3>3. QED
      BY <2>2, <3>1, <3>2, <1>5, Zenon
  <2>4. answer.flag => Exact = arrived
    BY <1>2, <2>2, <2>3, Zenon
  <2>5. QED
    BY <1>7, <2>4 DEF UnsignedIsTold
<1>8. CASE getter.type = "JsBigInt" /\ getter.name = "get_u128"
  <2>1. answer = Answer(n < 0, JsTwo(n), a >= Base * Base)
    BY <1>1, <1>2, <1>4, <1>8 DEF Given, JsGetU128
  <2>2. Exact = IF n < 0 THEN -JsTwo(n) ELSE JsTwo(n)
    BY <2>1, ExactIs
  <2>3. a < Base * Base => JsTwo(n) = a
    <3>1. JsTwo(n) = AsUnsigned(a, Base * Base)
      BY <1>4 DEF JsTwo
    <3>2. a < Base * Base => a \in 0..(Base * Base - 1)
      BY <1>5, Halves
    <3>3. a \in Int
      BY <1>5
    <3>4. QED
      BY <3>1, <3>2, <3>3, TwoWordCasts
  <2>4. Magnitude(arrived) < Base * Base => Exact = arrived
    BY <1>2, <1>4, <1>5, <2>2, <2>3
  <2>5. QED
    BY <1>8, <2>4 DEF UnsignedIsTold
<1>9. CASE getter.type = "JsBigInt" /\ getter.name \in {"get_i64", "get_u64"}
  <2>1. PICK val : answer = Answer(FALSE, val, val = n)
    BY <1>1, <1>2, <1>9 DEF Given, JsGet64
  <2>2. Exact = val /\ answer.flag = (val = n)
    <3>1. PICK f : f = (val = n)
      OBVIOUS
    <3>2. answer = Answer(FALSE, val, f)
      BY <2>1, <3>1, Zenon
    <3>3. Exact = (IF FALSE THEN -val ELSE val) /\ answer.flag = f
      BY <3>2, ExactIs
    <3>4. QED
      BY <3>1, <3>3, Zenon
  <2>3. answer.flag = (Exact = arrived)
    BY <1>2, <2>2, Zenon
  <2>4. QED
    BY <1>9, <2>3 DEF UnsignedIsTold
<1>10. CASE getter.name = "get_i128" \/ (getter.type = "BigInt" /\ getter.name = "get_i64")
  BY <1>10 DEF UnsignedIsTold
<1>11. QED
  BY <1>1, <1>6, <1>7, <1>8, <1>9, <1>10 DEF Getters

\* The magnitude of an i128, taken as one, and put behind its sign again.
LEMMA NegatedBack ==
    ASSUME NEW n \in I128, NEW h, h = Base * Half, NEW m, m = Base * Base,
           NEW a, a = Magnitude(n), NEW val, val = AsSigned(a, m)
    PROVE  /\ n \in Int /\ a \in 0..(m - 1) /\ AsUnsigned(a, m) = a
           /\ n >= 0 => val = n /\ a = n
           /\ n < 0 => AsSigned(-val, m) = n
<1>1. h \in Nat /\ h >= 1 /\ m = 2 * h /\ m \in Nat
  BY Halves
<1>2. n \in Int /\ n >= -h /\ n < h
  BY <1>1 DEF I128
<1>3. a \in 0..(m - 1) /\ (n < 0 => a = -n) /\ (n >= 0 => a = n) /\ (a >= h <=> n = -h)
  BY <1>1, <1>2 DEF Magnitude
<1>4. a \in Int
  BY <1>1, <1>3
<1>5. /\ AsUnsigned(a, m) = a
      /\ a \in (-h)..(h - 1) => AsSigned(a, m) = a
      /\ a \in h..(m - 1) => AsSigned(a, m) = a - m
  BY <1>3, <1>4, TwoWordCasts
<1>6. val = IF n = -h THEN -h ELSE a
  <2>1. CASE n = -h
    BY <2>1, <1>1, <1>2, <1>3, <1>5
  <2>2. CASE n # -h
    BY <2>2, <1>1, <1>2, <1>3, <1>5
  <2>3. QED
    BY <2>1, <2>2
<1>7. n < 0 => AsSigned(-val, m) = n
  <2>1. -val \in Int
    BY <1>1, <1>3, <1>6
  <2>2. PICK c : c = -val
    OBVIOUS
  <2>3. /\ c \in (-h)..(h - 1) => AsSigned(c, m) = c
        /\ c \in h..(m - 1) => AsSigned(c, m) = c - m
    BY <2>1, <2>2, TwoWordCasts
  <2>4. CASE n = -h
    <3>1. \A x \in Int : -(-x) = x
      OBVIOUS
    <3>2. c = h
      <4>1. h \in Int /\ val = -h
        BY <2>4, <1>1, <1>6
      <4>2. QED
        BY <2>2, <3>1, <4>1, Zenon
    <3>3. c \in h..(m - 1) /\ h - m = -h
      BY <3>2, <1>1
    <3>4. QED
      BY <2>2, <2>3, <2>4, <3>2, <3>3
  <2>5. CASE n # -h /\ n < 0
    <3>1. c = n /\ c \in (-h)..(h - 1)
      BY <2>2, <2>5, <1>1, <1>2, <1>3, <1>6
    <3>2. QED
      BY <2>2, <2>3, <3>1
  <2>6. QED
    BY <2>4, <2>5
<1>8. n >= 0 => val = n
  <2>1. n >= 0 => n # -h
    BY <1>1, <1>2
  <2>2. QED
    BY <2>1, <1>3, <1>6
<1>9. QED
  BY <1>2, <1>3, <1>5, <1>7, <1>8

\* get_i128 gives what an i128 has.
LEMMA I128Read ==
    ASSUME NumbersInv
    PROVE  I128IsRead
<1> SUFFICES ASSUME place = "read", getter.name = "get_i128", arrived \in I128
             PROVE  \/ answer.val = arrived
                    \/ getter.type = "BigInt" /\ arrived \in (1 - Base)..(-1)
  BY DEF I128IsRead
<1>1. /\ getter \in [type : {"BigInt", "JsBigInt"}, name : Getters]
      /\ answer = Given(getter, arrived)
  BY DEF NumbersInv
<1>2. PICK n : n = arrived
  OBVIOUS
<1>3. PICK m : m = Base * Base
  OBVIOUS
<1>4. PICK a : a = Magnitude(n)
  OBVIOUS
<1>5. PICK val : val = AsSigned(a, m)
  OBVIOUS
<1>6. /\ n \in Int /\ a \in 0..(m - 1) /\ AsUnsigned(a, m) = a
      /\ n >= 0 => val = n /\ a = n
      /\ n < 0 => AsSigned(-val, m) = n
  BY <1>2, <1>3, <1>4, <1>5, NegatedBack
<1>7. CASE getter.type = "JsBigInt"
  <2>1. answer = JsGetI128(n)
    BY <1>1, <1>2, <1>7 DEF Given
  <2>2. JsTwo(n) = a
    BY <1>3, <1>4, <1>6 DEF JsTwo
  <2>3. PICK f : answer = Answer(FALSE, IF n < 0 THEN AsSigned(-val, m) ELSE val, f)
    BY <1>3, <1>5, <2>1, <2>2 DEF JsGetI128
  <2>4. answer.val = IF n < 0 THEN AsSigned(-val, m) ELSE val
    BY <2>3, ExactIs
  <2>5. QED
    BY <1>2, <1>6, <2>4
<1>8. CASE getter.type = "BigInt"
  <2>1. PICK b : b = FromNapi(n)
    OBVIOUS
  <2>2. answer = GetI128(b)
    BY <1>1, <1>2, <1>8, <2>1 DEF Given
  <2>3. /\ n = (IF n < 0 THEN -a ELSE a) /\ b.sign = (n < 0) /\ a \in Nat
        /\ Len(b.words) = 1 => b.words[1] = a /\ a < Base
        /\ a < m => Two(b.words) = a
    BY <1>3, <1>4, <1>6, <2>1, Received
  <2>4. CASE Len(b.words) = 1
    <3>1. answer = Answer(FALSE, b.words[1], FALSE)
      BY <2>2, <2>4 DEF GetI128
    <3>2. answer.val = a
      BY <2>3, <2>4, <3>1, ExactIs
    <3>3. n < 0 => n \in (1 - Base)..(-1)
      BY <1>6, <2>3, <2>4, Halves
    <3>4. QED
      BY <1>2, <1>6, <1>8, <3>2, <3>3
  <2>5. CASE Len(b.words) # 1
    <3>1. Two(b.words) = a
      BY <1>6, <2>3, Halves, <1>3
    <3>2. PICK f : answer = Answer(FALSE, IF b.sign THEN AsSigned(-val, m) ELSE val, f)
      BY <1>3, <1>5, <2>2, <2>5, <3>1 DEF GetI128
    <3>3. answer.val = IF b.sign THEN AsSigned(-val, m) ELSE val
      BY <3>2, ExactIs
    <3>4. (n < 0 => b.sign) /\ (~(n < 0) => ~b.sign)
      BY <2>3, Zenon
    <3>5. answer.val = n
      <4>1. CASE n < 0
        BY <4>1, <1>6, <3>3, <3>4
      <4>2. CASE ~(n < 0)
        BY <4>2, <1>6, <3>3, <3>4
      <4>3. QED
        BY <4>1, <4>2
    <3>6. QED
      BY <1>2, <3>5
  <2>6. QED
    BY <2>4, <2>5
<1>9. QED
  BY <1>1, <1>7, <1>8

\* What is true of the numbers.
LEMMA NumbersSound == NumbersInv => NumbersSurvive
<1> SUFFICES ASSUME NumbersInv PROVE NumbersSurvive
  OBVIOUS
<1>1. NumbersArrive
  BY DEF NumbersInv, NumbersArrive
<1>2. QED
  BY <1>1, UnsignedTold, I128Read DEF NumbersSurvive

\* What the other parts do leaves the numbers alone.
LEMMA NumbersApart == [Next]_addonObjectVars => [NumbersNext]_bigIntVars
  BY DEF Next, addonObjectVars

\* Integers cross in both directions without a change that nobody is told of (the conversions of
\* both files bigint.rs).  What it does not claim is excepted by name: the negative i64 and i128 of
\* SignedArrives, a negative word read with BigInt::get_i128, and BigInt::get_i64.
THEOREM NumbersAlwaysSurvive == Spec => []NumbersSurvive
<1>1. Init => NumbersInv
  BY NumbersInitially DEF Init
<1>2. NumbersInv /\ [Next]_addonObjectVars => NumbersInv'
  BY StepNumbers, NumbersApart
<1>3. QED
  BY <1>1, <1>2, NumbersSound, PTL DEF Spec
=============================================================================
