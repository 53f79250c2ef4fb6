--------------------------- MODULE AddonCallsProofs ---------------------------
(***************************************************************************)
(* Proofs about the ways in which work of the addon leaves the main thread *)
(* and comes back: threadsafe functions for any number of threads and      *)
(* calls, any queue and both error strategies; tasks on libuv's pool,      *)
(* wherever an abort or a cancel comes; the tokio runtime that             *)
(* environments share and the futures on it.                               *)
(***************************************************************************)
EXTENDS AddonCalls, SequenceTheorems, FiniteSetTheorems, TLAPS

\* A step of the addon is a step of the threadsafe function, or leaves it alone.
LEMMA CallStep == [Next]_callVars => [TsfnNext]_tsfnVars
<1>1. Next => TsfnNext \/ UNCHANGED tsfnVars
  BY DEF Next
<1>2. UNCHANGED callVars => UNCHANGED tsfnVars
  BY DEF callVars
<1>3. QED
  BY <1>1, <1>2

-----------------------------------------------------------------------------
(* Type correctness.                                                        *)

LEMMA NoOpTyped == \A a \in Actors : NoOp(a) \in Ops
<1> SUFFICES ASSUME NEW a \in Actors PROVE NoOp(a) \in Ops
  OBVIOUS
<1>1. [from |-> a, kind |-> "direct", bad |-> FALSE] \in Calls
  BY DEF Calls, CallKinds
<1>2. \E c \in Calls, m \in {"Blocking", "NonBlocking"} : NoOp(a) = [call |-> c, mode |-> m]
  BY <1>1 DEF NoOp
<1>3. QED
  BY <1>2 DEF Ops

LEMMA InitTyped == TsfnInit => TsfnTypeOK
<1> SUFFICES ASSUME TsfnInit PROVE TsfnTypeOK
  OBVIOUS
<1>1. op \in [Actors -> Ops]
  BY NoOpTyped DEF TsfnInit
<1>2. pc \in [Actors -> PCs]
  BY DEF TsfnInit, PCs
<1>3. << >> \in Seq(Calls)
  OBVIOUS
<1>4. /\ queue \in Seq(Calls) /\ frame \in Calls \union {NoCall} /\ count \in 0 .. 1
      /\ readers \subseteq Actors /\ held \subseteq Actors /\ lost \subseteq Actors
      /\ bad \subseteq {"refer", "call", "abort", "release", "callback"}
  BY <1>3 DEF TsfnInit
<1>5. QED
  BY <1>1, <1>2, <1>4 DEF TsfnInit, TsfnTypeOK

\* What a caller that leaves becomes.
LEMMA LeaveTyped ==
    ASSUME TsfnTypeOK, NEW a \in Actors, NEW sent \in BOOLEAN, Leave(a, sent)
    PROVE  /\ readers' \subseteq Actors /\ op' \in [Actors -> Ops] /\ pc' \in [Actors -> PCs]
           /\ readers' = readers \ {a}
           /\ pc'[a] \in {"idle", "await"} /\ \A b \in Actors : b # a => pc'[b] = pc[b]
<1>1. op' \in [Actors -> Ops]
  BY NoOpTyped DEF TsfnTypeOK, Leave
<1>2. pc' \in [Actors -> PCs]
  BY DEF TsfnTypeOK, Leave, PCs
<1>3. QED
  BY <1>1, <1>2 DEF TsfnTypeOK, Leave

\* What a caller that drops its clone becomes.
LEMMA DropTyped ==
    ASSUME TsfnTypeOK, NEW a \in Actors, DropClone(a)
    PROVE  /\ held' = held \ {a} /\ pc' \in [Actors -> PCs]
           /\ pc'[a] = IF held = {a} /\ fin # "upgraded" THEN "dropping" ELSE "idle"
           /\ \A b \in Actors : b # a => pc'[b] = pc[b]
BY DEF TsfnTypeOK, DropClone, PCs

LEMMA StepTyped == TsfnTypeOK /\ [TsfnNext]_tsfnVars => TsfnTypeOK'
<1> SUFFICES ASSUME TsfnTypeOK, [TsfnNext]_tsfnVars PROVE TsfnTypeOK'
  OBVIOUS
<1> USE DEF TsfnTypeOK, native, handle, loop
<1>0. Main \in Actors /\ (count \in 0 .. 1 => Released(count) \in 0 .. 1)
  BY DEF Actors, Released
<1>1. CASE Create
  <2>1. pc' \in [Actors -> PCs]
    BY <1>1, <1>0 DEF Create, PCs
  <2>2. QED
    BY <1>1, <1>0, <2>1 DEF Create
<1>2. ASSUME NEW a \in Actors, NEW b \in Actors, Clone(a, b) PROVE TsfnTypeOK'
  BY <1>2 DEF Clone
<1>3. CASE SetReferred
  BY <1>3 DEF SetReferred
<1>4. ASSUME NEW a \in Actors, NEW c \in Calls, NEW mode \in {"Blocking", "NonBlocking"}, Call(a, c, mode)
      PROVE  TsfnTypeOK'
  <2>1. op' \in [Actors -> Ops]
    BY <1>4 DEF Call, Ops
  <2>2. pc' \in [Actors -> PCs]
    BY <1>4 DEF Call, PCs
  <2>3. QED
    BY <1>4, <2>1, <2>2 DEF Call
<1>5. ASSUME NEW a \in Actors, CallEnter(a) PROVE TsfnTypeOK'
  <2>1. op' \in [Actors -> Ops]
    BY <1>5, NoOpTyped DEF CallEnter
  <2>2. pc' \in [Actors -> PCs]
    BY <1>5 DEF CallEnter, PCs
  <2>3. QED
    BY <1>5, <2>1, <2>2 DEF CallEnter
<1>6. ASSUME NEW a \in Actors, CallNative(a) PROVE TsfnTypeOK'
  <2>0. /\ UNCHANGED <<raw, closing, boxed, frame, fin, env, crashed, lost, aborted, held>>
        /\ bad' \subseteq {"refer", "call", "abort", "release", "callback"}
    BY <1>6 DEF CallNative
  <2>1. CASE Leave(a, FALSE) /\ count' = Released(count) /\ UNCHANGED queue
    BY <1>0, <2>0, <2>1, LeaveTyped
  <2>2. CASE Leave(a, FALSE) /\ UNCHANGED <<count, queue>>
    BY <2>0, <2>2, LeaveTyped
  <2>3. CASE pc' = [pc EXCEPT ![a] = "full"] /\ UNCHANGED <<readers, op, count, queue>>
    BY <2>0, <2>3 DEF PCs
  <2>4. CASE queue' = Append(queue, op[a].call) /\ Leave(a, TRUE) /\ UNCHANGED count
    <3>1. op[a].call \in Calls
      BY DEF Ops
    <3>2. queue' \in Seq(Calls)
      BY <2>4, <3>1
    <3>3. QED
      BY <2>0, <2>4, <3>2, LeaveTyped
  <2>5. QED
    BY <1>6, <2>1, <2>2, <2>3, <2>4 DEF CallNative
<1>7. ASSUME NEW a \in Actors, Abort(a) PROVE TsfnTypeOK'
  BY <1>7 DEF Abort, PCs
<1>8. ASSUME NEW a \in Actors, AbortLocked(a) PROVE TsfnTypeOK'
  <2>1. held' \subseteq Actors /\ pc' \in [Actors -> PCs]
    BY <1>8, DropTyped DEF AbortLocked
  <2>2. QED
    BY <1>0, <1>8, <2>1 DEF AbortLocked
<1>9. ASSUME NEW a \in Actors, Drop(a) PROVE TsfnTypeOK'
  <2>1. held' \subseteq Actors /\ pc' \in [Actors -> PCs]
    BY <1>9, DropTyped DEF Drop
  <2>2. QED
    BY <1>9, <2>1 DEF Drop
<1>10. ASSUME NEW a \in Actors, DropHandle(a) PROVE TsfnTypeOK'
  <2>1. pc' \in [Actors -> PCs]
    BY <1>10 DEF DropHandle, PCs
  <2>2. count' \in 0 .. 1
    BY <1>0, <1>10 DEF DropHandle
  <2>3. bad' \subseteq {"refer", "call", "abort", "release", "callback"}
    BY <1>10 DEF DropHandle
  <2>4. QED
    BY <1>10, <2>1, <2>2, <2>3 DEF DropHandle
<1>11. CASE Dispatch
  <2>1. Head(queue) \in Calls /\ Tail(queue) \in Seq(Calls)
    BY <1>11 DEF Dispatch
  <2>2. QED
    BY <1>11, <2>1 DEF Dispatch
<1>12. ASSUME NEW o \in Outcomes, Return(o) PROVE TsfnTypeOK'
  <2>1. pc' \in [Actors -> PCs]
    BY <1>12 DEF Return, PCs
  <2>2. crashed' \in BOOLEAN
    BY <1>12 DEF Return, IsFatal
  <2>3. QED
    BY <1>12, <2>1, <2>2 DEF Return
<1>13. CASE EnvClose
  BY <1>13 DEF EnvClose
<1>14. CASE FinalizeUpgrade
  BY <1>14 DEF FinalizeUpgrade
<1>15. CASE FinalizeMark
  BY <1>15 DEF FinalizeMark
<1>16. CASE FinalizeFree
  <2>1. \A i \in DOMAIN queue : queue[i].from \in Actors
    <3>1. \A i \in DOMAIN queue : queue[i] \in Calls
      OBVIOUS
    <3>2. QED
      BY <3>1 DEF Calls
  <2>2. lost' \subseteq Actors
    BY <1>16, <2>1 DEF FinalizeFree
  <2>3. << >> \in Seq(Calls)
    OBVIOUS
  <2>4. QED
    BY <1>16, <2>2, <2>3 DEF FinalizeFree
<1>17. CASE UNCHANGED tsfnVars
  BY <1>17 DEF tsfnVars
<1>18. QED
  BY <1>1, <1>2, <1>3, <1>4, <1>5, <1>6, <1>7, <1>8, <1>9, <1>10, <1>11, <1>12, <1>13, <1>14,
     <1>15, <1>16, <1>17
  DEF TsfnNext, InOperation

-----------------------------------------------------------------------------
(* Who waits for an answer.                                                 *)

\* A call whose caller waits for its answer.
Awaits(c) == c.kind = "async" /\ ~c.bad

\* Each actor makes its own calls, and waits for the one answer that is under way.
OneAnswer ==
    /\ \A a \in Actors : op[a].call.from = a
    /\ \A i \in DOMAIN queue : Awaits(queue[i]) => pc[queue[i].from] = "await"
    /\ \A i, j \in DOMAIN queue :
         Awaits(queue[i]) /\ Awaits(queue[j]) /\ queue[i].from = queue[j].from => i = j
    /\ frame # NoCall /\ Awaits(frame) =>
         /\ pc[frame.from] = "await"
         /\ \A i \in DOMAIN queue : Awaits(queue[i]) => queue[i].from # frame.from

\* While nothing is called, answered or swept, it is enough that who waits goes on waiting.
LEMMA StillOneAnswer ==
    ASSUME TsfnTypeOK, OneAnswer, UNCHANGED <<queue, frame>>,
           \A a \in Actors : op'[a].call.from = a,
           \A a \in Actors : pc[a] = "await" => pc'[a] = "await"
    PROVE  OneAnswer'
<1>1. \A i \in DOMAIN queue : queue[i].from \in Actors
  <2>1. \A i \in DOMAIN queue : queue[i] \in Calls
    BY DEF TsfnTypeOK
  <2>2. QED
    BY <2>1 DEF Calls
<1>2. frame # NoCall => frame.from \in Actors
  BY DEF TsfnTypeOK, Calls
<1>3. QED
  BY <1>1, <1>2 DEF OneAnswer, Awaits

\* Before it is created nobody uses it.
Unused == raw = "none" => ~closing /\ ~aborted /\ \A a \in Actors : pc[a] = "idle"

LEMMA StepOneAnswer == TsfnTypeOK /\ Unused /\ OneAnswer /\ [TsfnNext]_tsfnVars => OneAnswer'
<1> SUFFICES ASSUME TsfnTypeOK, Unused, OneAnswer, [TsfnNext]_tsfnVars PROVE OneAnswer'
  OBVIOUS
<1> USE DEF native, handle, loop
<1>0. /\ queue \in Seq(Calls) /\ op \in [Actors -> Ops] /\ pc \in [Actors -> PCs]
      /\ \A a \in Actors : op[a].call.from = a /\ NoOp(a).call.from = a
      /\ Main \in Actors
  BY DEF TsfnTypeOK, OneAnswer, NoOp, Actors
<1>1. CASE Create
  <2>1. \A a \in Actors : pc[a] # "await"
    BY <1>1 DEF Create, Unused
  <2>2. QED
    BY <1>0, <1>1, <2>1, StillOneAnswer DEF Create
<1>2. ASSUME NEW a \in Actors, NEW b \in Actors, Clone(a, b) PROVE OneAnswer'
  BY <1>0, <1>2, StillOneAnswer DEF Clone
<1>3. CASE SetReferred
  BY <1>0, <1>3, StillOneAnswer DEF SetReferred
<1>4. ASSUME NEW a \in Actors, NEW c \in Calls, NEW mode \in {"Blocking", "NonBlocking"}, Call(a, c, mode)
      PROVE  OneAnswer'
  <2>1. \A b \in Actors : op'[b].call.from = b
    BY <1>0, <1>4 DEF Call
  <2>2. \A b \in Actors : pc[b] = "await" => pc'[b] = "await"
    BY <1>0, <1>4 DEF Call, Ready
  <2>3. QED
    BY <1>4, <2>1, <2>2, StillOneAnswer DEF Call
<1>5. ASSUME NEW a \in Actors, CallEnter(a) PROVE OneAnswer'
  <2>1. \A b \in Actors : op'[b].call.from = b
    BY <1>0, <1>5 DEF CallEnter
  <2>2. \A b \in Actors : pc[b] = "await" => pc'[b] = "await"
    BY <1>0, <1>5 DEF CallEnter
  <2>3. QED
    BY <1>5, <2>1, <2>2, StillOneAnswer DEF CallEnter
<1>6. ASSUME NEW a \in Actors, CallNative(a) PROVE OneAnswer'
  <2>1. /\ \A b \in Actors : op'[b].call.from = b
        /\ \A b \in Actors : b # a => pc'[b] = pc[b]
        /\ pc[a] # "await" /\ frame' = frame
    BY <1>0, <1>6 DEF CallNative, Leave
  <2>2. CASE UNCHANGED queue
    BY <2>1, <2>2, StillOneAnswer
  <2>3. CASE queue' = Append(queue, op[a].call) /\ Leave(a, TRUE)
    <3> DEFINE n == Len(queue) + 1
               c == op[a].call
    <3>1. /\ DOMAIN queue' = DOMAIN queue \union {n} /\ n \notin DOMAIN queue
          /\ queue'[n] = c /\ \A i \in DOMAIN queue : queue'[i] = queue[i]
      <4>1. c \in Calls
        BY <1>0 DEF Ops
      <4>2. QED
        BY <1>0, <2>3, <4>1, AppendProperties
    <3>2. c.from = a /\ (Awaits(c) => pc'[a] = "await")
      BY <1>0, <2>3 DEF Leave, Awaits
    <3>. HIDE DEF n, c
    <3>3. \A i \in DOMAIN queue :
            Awaits(queue[i]) => queue[i].from # a /\ pc'[queue[i].from] = "await"
      <4>1. \A i \in DOMAIN queue : queue[i] \in Calls
        BY <1>0
      <4>2. \A i \in DOMAIN queue : Awaits(queue[i]) => queue[i].from # a /\ queue[i].from \in Actors
        BY <2>1, <4>1 DEF OneAnswer, Calls
      <4>3. QED
        BY <2>1, <4>2 DEF OneAnswer
    <3>4. frame # NoCall /\ Awaits(frame) => frame.from # a /\ pc'[frame.from] = "await"
      <4>1. frame # NoCall => frame.from \in Actors
        BY DEF TsfnTypeOK, Calls
      <4>2. QED
        BY <2>1, <4>1 DEF OneAnswer
    <3>5. \A i \in DOMAIN queue' : Awaits(queue'[i]) => pc'[queue'[i].from] = "await"
      BY <3>1, <3>2, <3>3
    <3>6. \A i, j \in DOMAIN queue' :
            Awaits(queue'[i]) /\ Awaits(queue'[j]) /\ queue'[i].from = queue'[j].from => i = j
      <4> SUFFICES ASSUME NEW i \in DOMAIN queue', NEW j \in DOMAIN queue',
                          Awaits(queue'[i]), Awaits(queue'[j]), queue'[i].from = queue'[j].from
                   PROVE  i = j
        OBVIOUS
      <4>1. CASE i \in DOMAIN queue /\ j \in DOMAIN queue
        BY <3>1, <4>1 DEF OneAnswer
      <4>2. CASE i = n \/ j = n
        BY <3>1, <3>2, <3>3, <4>2
      <4>3. QED
        BY <3>1, <4>1, <4>2
    <3>7. frame' # NoCall /\ Awaits(frame') =>
            \A i \in DOMAIN queue' : Awaits(queue'[i]) => queue'[i].from # frame'.from
      BY <2>1, <3>1, <3>2, <3>4 DEF OneAnswer
    <3>8. QED
      BY <2>1, <3>4, <3>5, <3>6, <3>7 DEF OneAnswer
  <2>4. QED
    BY <1>6, <2>2, <2>3 DEF CallNative
<1>7. ASSUME NEW a \in Actors, Abort(a) PROVE OneAnswer'
  <2>1. \A b \in Actors : pc[b] = "await" => pc'[b] = "await"
    BY <1>0, <1>7 DEF Abort, Ready
  <2>2. QED
    BY <1>0, <1>7, <2>1, StillOneAnswer DEF Abort
<1>8. ASSUME NEW a \in Actors, AbortLocked(a) PROVE OneAnswer'
  <2>1. \A b \in Actors : pc[b] = "await" => pc'[b] = "await"
    BY <1>8, DropTyped DEF AbortLocked
  <2>2. QED
    BY <1>0, <1>8, <2>1, StillOneAnswer DEF AbortLocked
<1>9. ASSUME NEW a \in Actors, Drop(a) PROVE OneAnswer'
  <2>1. \A b \in Actors : pc[b] = "await" => pc'[b] = "await"
    BY <1>9, DropTyped DEF Drop, Ready
  <2>2. QED
    BY <1>0, <1>9, <2>1, StillOneAnswer DEF Drop
<1>10. ASSUME NEW a \in Actors, DropHandle(a) PROVE OneAnswer'
  <2>1. \A b \in Actors : pc[b] = "await" => pc'[b] = "await"
    BY <1>0, <1>10 DEF DropHandle
  <2>2. QED
    BY <1>0, <1>10, <2>1, StillOneAnswer DEF DropHandle
<1>11. CASE Dispatch
  <2>1. /\ queue # << >> /\ queue' = Tail(queue) /\ frame' = Head(queue) /\ UNCHANGED <<pc, op>>
    BY <1>11 DEF Dispatch
  <2>2. /\ 1 \in DOMAIN queue /\ Head(queue) = queue[1]
        /\ \A i \in DOMAIN Tail(queue) :
             i + 1 \in DOMAIN queue /\ i + 1 # 1 /\ Tail(queue)[i] = queue[i + 1] /\ i \in Int
    BY <1>0, <2>1
  <2>3. \A i \in DOMAIN Tail(queue) :
          Awaits(Tail(queue)[i]) => pc[Tail(queue)[i].from] = "await"
    BY <2>2 DEF OneAnswer
  <2>4. \A i, j \in DOMAIN Tail(queue) :
          /\ Awaits(Tail(queue)[i]) /\ Awaits(Tail(queue)[j])
          /\ Tail(queue)[i].from = Tail(queue)[j].from
          => i = j
    <3> SUFFICES ASSUME NEW i \in DOMAIN Tail(queue), NEW j \in DOMAIN Tail(queue),
                        Awaits(Tail(queue)[i]), Awaits(Tail(queue)[j]),
                        Tail(queue)[i].from = Tail(queue)[j].from
                 PROVE  i = j
      OBVIOUS
    <3>1. i + 1 = j + 1
      BY <2>2 DEF OneAnswer
    <3>2. QED
      BY <2>2, <3>1
  <2>5. Awaits(Head(queue)) =>
          /\ pc[Head(queue).from] = "await"
          /\ \A i \in DOMAIN Tail(queue) : Awaits(Tail(queue)[i]) => Tail(queue)[i].from # Head(queue).from
    BY <2>2 DEF OneAnswer
  <2>6. QED
    BY <1>0, <2>1, <2>3, <2>4, <2>5 DEF OneAnswer, Awaits
<1>12. ASSUME NEW o \in Outcomes, Return(o) PROVE OneAnswer'
  <2>1. /\ frame # NoCall /\ frame' = NoCall /\ UNCHANGED <<queue, op>>
        /\ pc' = pc \/ (Awaits(frame) /\ pc' = [pc EXCEPT ![frame.from] = "idle"])
    BY <1>12 DEF Return, Awaits
  <2>2. \A i \in DOMAIN queue : Awaits(queue[i]) => pc'[queue[i].from] = "await"
    <3>1. \A i \in DOMAIN queue : Awaits(queue[i]) /\ Awaits(frame) => queue[i].from # frame.from
      BY <2>1 DEF OneAnswer
    <3>2. \A i \in DOMAIN queue : queue[i].from \in Actors
      <4>1. \A i \in DOMAIN queue : queue[i] \in Calls
        BY <1>0
      <4>2. QED
        BY <4>1 DEF Calls
    <3>3. \A b \in Actors : (Awaits(frame) => b # frame.from) => pc'[b] = pc[b]
      BY <1>0, <2>1
    <3>4. QED
      BY <3>1, <3>2, <3>3 DEF OneAnswer
  <2>3. QED
    BY <2>1, <2>2 DEF OneAnswer, Awaits
<1>13. CASE EnvClose
  BY <1>0, <1>13, StillOneAnswer DEF EnvClose
<1>14. CASE FinalizeUpgrade
  BY <1>0, <1>14, StillOneAnswer DEF FinalizeUpgrade
<1>15. CASE FinalizeMark
  BY <1>0, <1>15, StillOneAnswer DEF FinalizeMark
<1>16. CASE FinalizeFree
  <2>1. queue' = << >> /\ UNCHANGED <<pc, op, frame>>
    BY <1>16 DEF FinalizeFree
  <2>2. DOMAIN queue' = {}
    BY <2>1
  <2>3. QED
    BY <2>1, <2>2 DEF OneAnswer, Awaits
<1>17. CASE UNCHANGED tsfnVars
  BY <1>0, <1>17, StillOneAnswer DEF tsfnVars
<1>18. QED
  BY <1>1, <1>2, <1>3, <1>4, <1>5, <1>6, <1>7, <1>8, <1>9, <1>10, <1>11, <1>12, <1>13, <1>14,
     <1>15, <1>16, <1>17
  DEF TsfnNext, InOperation

-----------------------------------------------------------------------------
(* The handle, its lock and the finaliser.                                  *)

\* What an actor that uses the function has: its clone, the lock for reading while it calls, and
\* the handle to itself when it drops it.
Uses(a) ==
    /\ pc[a] \in {"enter", "calling", "full", "abort"} => a \in held
    /\ a \in readers <=> pc[a] \in {"calling", "full"}
    /\ pc[a] = "dropping" => held = {} /\ \A b \in Actors : b # a => pc[b] # "dropping"

\* How the flag, the finaliser and the function itself go together.
Lifetime ==
    /\ readers # {} => ~aborted
    /\ raw \in {"none", "null"} => held = {} /\ fin = "no"
    /\ raw = "freed" <=> fin = "done"
    /\ raw = "live" => boxed
    /\ fin \in {"marked", "done"} => aborted \/ held = {}
    /\ aborted \/ fin # "no" => closing

\* While the environment is open, only an abort or the end of the last handle closes it.
Closed ==
    env = "open" /\ ~aborted /\ raw \in {"live", "freed"} /\ (count = 0 \/ closing) =>
        held = {} /\ \A a \in Actors : pc[a] # "dropping"


LEMMA StepUnused == TsfnTypeOK /\ Unused /\ Lifetime /\ [TsfnNext]_tsfnVars => Unused'
<1> SUFFICES ASSUME TsfnTypeOK, Unused, Lifetime, [TsfnNext]_tsfnVars, raw' = "none" PROVE Unused'
  BY DEF Unused
<1> USE DEF Unused, Lifetime, native, handle, loop
<1>0. /\ pc \in [Actors -> PCs] /\ readers \subseteq Actors /\ held \subseteq Actors
      /\ count \in 0 .. 1 /\ aborted \in BOOLEAN /\ closing \in BOOLEAN /\ Main \in Actors
      /\ fin \in {"no", "upgraded", "marked", "done"} /\ env \in {"open", "closing"}
      /\ raw \in {"none", "null", "live", "freed"}
  BY DEF TsfnTypeOK, Actors
<1>1. CASE Create
  BY <1>0, <1>1 DEF Create
<1>2. ASSUME NEW a \in Actors, NEW b \in Actors, Clone(a, b) PROVE Unused'
  BY <1>0, <1>2 DEF Clone, Ready
<1>3. CASE SetReferred
  BY <1>0, <1>3 DEF SetReferred
<1>4. ASSUME NEW a \in Actors, NEW c \in Calls,
             NEW mode \in {"Blocking", "NonBlocking"}, Call(a, c, mode)
      PROVE  Unused'
  BY <1>0, <1>4 DEF Call, Ready
<1>5. ASSUME NEW a \in Actors, CallEnter(a) PROVE Unused'
  BY <1>0, <1>5 DEF CallEnter
<1>6. ASSUME NEW a \in Actors, CallNative(a) PROVE Unused'
  BY <1>0, <1>6 DEF CallNative
<1>7. ASSUME NEW a \in Actors, Abort(a) PROVE Unused'
  BY <1>0, <1>7 DEF Abort, Ready
<1>8. ASSUME NEW a \in Actors, AbortLocked(a) PROVE Unused'
  BY <1>0, <1>8 DEF AbortLocked
<1>9. ASSUME NEW a \in Actors, Drop(a) PROVE Unused'
  BY <1>0, <1>9 DEF Drop, Ready
<1>10. ASSUME NEW a \in Actors, DropHandle(a) PROVE Unused'
  BY <1>0, <1>10 DEF DropHandle
<1>11. CASE Dispatch
  BY <1>0, <1>11 DEF Dispatch
<1>12. ASSUME NEW o \in Outcomes, Return(o) PROVE Unused'
  BY <1>0, <1>12 DEF Return, MainFree
<1>13. CASE EnvClose
  BY <1>0, <1>13 DEF EnvClose
<1>14. CASE FinalizeUpgrade
  BY <1>0, <1>14 DEF FinalizeUpgrade
<1>15. CASE FinalizeMark
  BY <1>0, <1>15 DEF FinalizeMark
<1>16. CASE FinalizeFree
  BY <1>0, <1>16 DEF FinalizeFree
<1>17. CASE UNCHANGED tsfnVars
  BY <1>17 DEF tsfnVars
<1>18. QED
  BY <1>1, <1>2, <1>3, <1>4, <1>5, <1>6, <1>7, <1>8, <1>9, <1>10, <1>11, <1>12, <1>13, <1>14,
     <1>15, <1>16, <1>17
  DEF TsfnNext, InOperation

LEMMA StepUses ==
    TsfnTypeOK /\ OneAnswer /\ Unused /\ Lifetime /\ (\A a \in Actors : Uses(a)) /\ [TsfnNext]_tsfnVars
        => \A a \in Actors : Uses(a)'
<1> SUFFICES ASSUME TsfnTypeOK, OneAnswer, Unused, Lifetime, \A a \in Actors : Uses(a),
                    [TsfnNext]_tsfnVars
             PROVE  \A d \in Actors : Uses(d)'
  OBVIOUS
<1> USE DEF Uses, native, handle, loop
<1>0. /\ pc \in [Actors -> PCs] /\ readers \subseteq Actors /\ held \subseteq Actors
      /\ count \in 0 .. 1 /\ aborted \in BOOLEAN /\ closing \in BOOLEAN /\ Main \in Actors
      /\ fin \in {"no", "upgraded", "marked", "done"} /\ env \in {"open", "closing"}
      /\ raw \in {"none", "null", "live", "freed"}
  BY DEF TsfnTypeOK, Actors
<1>1. CASE Create
  <2>1. /\ (held' = {Main} /\ pc' = pc) \/ (held' = held /\ pc' = [pc EXCEPT ![Main] = "dropping"])
        /\ readers' = readers /\ held = {} /\ \A b \in Actors : pc[b] = "idle"
    BY <1>1 DEF Create, Unused, Lifetime
  <2>2. QED
    BY <1>0, <2>1
<1>2. ASSUME NEW a \in Actors, NEW b \in Actors, Clone(a, b) PROVE \A d \in Actors : Uses(d)'
  BY <1>0, <1>2 DEF Clone, Ready
<1>3. CASE SetReferred
  BY <1>0, <1>3 DEF SetReferred
<1>4. ASSUME NEW a \in Actors, NEW c \in Calls,
             NEW mode \in {"Blocking", "NonBlocking"}, Call(a, c, mode)
      PROVE  \A d \in Actors : Uses(d)'
  BY <1>0, <1>4 DEF Call, Ready
<1>5. ASSUME NEW a \in Actors, CallEnter(a) PROVE \A d \in Actors : Uses(d)'
  BY <1>0, <1>5 DEF CallEnter
<1>6. ASSUME NEW a \in Actors, CallNative(a) PROVE \A d \in Actors : Uses(d)'
  <2>1. /\ held' = held
        /\ \/ Leave(a, FALSE) \/ Leave(a, TRUE)
           \/ pc[a] = "calling" /\ pc' = [pc EXCEPT ![a] = "full"] /\ UNCHANGED readers
    BY <1>6 DEF CallNative
  <2>2. CASE Leave(a, FALSE) \/ Leave(a, TRUE)
    <3>1. /\ readers' = readers \ {a} /\ pc'[a] \in {"idle", "await"}
          /\ \A b \in Actors : b # a => pc'[b] = pc[b]
      BY <2>2, LeaveTyped
    <3>2. QED
      BY <1>0, <2>1, <3>1
  <2>3. CASE pc[a] = "calling" /\ pc' = [pc EXCEPT ![a] = "full"] /\ UNCHANGED readers
    BY <1>0, <2>1, <2>3
  <2>4. QED
    BY <2>1, <2>2, <2>3
<1>7. ASSUME NEW a \in Actors, Abort(a) PROVE \A d \in Actors : Uses(d)'
  BY <1>0, <1>7 DEF Abort, Ready
<1>8. ASSUME NEW a \in Actors, AbortLocked(a) PROVE \A d \in Actors : Uses(d)'
  <2>1. DropClone(a) /\ readers' = readers /\ pc[a] = "abort" /\ a \in held
    BY <1>8 DEF AbortLocked, Ready
  <2>2. /\ held' = held \ {a}
        /\ pc'[a] = IF held = {a} /\ fin # "upgraded" THEN "dropping" ELSE "idle"
        /\ \A b \in Actors : b # a => pc'[b] = pc[b]
    BY <2>1, DropTyped
  <2>3. ASSUME NEW b \in Actors PROVE Uses(b)'
    BY <1>0, <2>1, <2>2
  <2>4. QED
    BY <2>3
<1>9. ASSUME NEW a \in Actors, Drop(a) PROVE \A d \in Actors : Uses(d)'
  <2>1. DropClone(a) /\ readers' = readers /\ pc[a] = "idle" /\ a \in held
    BY <1>9 DEF Drop, Ready
  <2>2. /\ held' = held \ {a}
        /\ pc'[a] = IF held = {a} /\ fin # "upgraded" THEN "dropping" ELSE "idle"
        /\ \A b \in Actors : b # a => pc'[b] = pc[b]
    BY <2>1, DropTyped
  <2>3. ASSUME NEW b \in Actors PROVE Uses(b)'
    BY <1>0, <2>1, <2>2
  <2>4. QED
    BY <2>3
<1>10. ASSUME NEW a \in Actors, DropHandle(a) PROVE \A d \in Actors : Uses(d)'
  BY <1>0, <1>10 DEF DropHandle
<1>11. CASE Dispatch
  BY <1>0, <1>11 DEF Dispatch
<1>12. ASSUME NEW o \in Outcomes, Return(o) PROVE \A d \in Actors : Uses(d)'
  <2>1. UNCHANGED <<held, readers>>
    BY <1>12 DEF Return
  <2>2. \A b \in Actors : pc'[b] = pc[b] \/ (pc[b] = "await" /\ pc'[b] = "idle")
    <3>1. Awaits(frame) => pc[frame.from] = "await"
      BY <1>12 DEF Return, OneAnswer
    <3>2. pc' = pc \/ (Awaits(frame) /\ pc' = [pc EXCEPT ![frame.from] = "idle"])
      BY <1>12 DEF Return, Awaits
    <3>3. QED
      BY <1>0, <3>1, <3>2
  <2>3. QED
    BY <2>1, <2>2
<1>13. CASE EnvClose
  BY <1>0, <1>13 DEF EnvClose
<1>14. CASE FinalizeUpgrade
  BY <1>0, <1>14 DEF FinalizeUpgrade
<1>15. CASE FinalizeMark
  BY <1>0, <1>15 DEF FinalizeMark
<1>16. CASE FinalizeFree
  BY <1>0, <1>16 DEF FinalizeFree
<1>17. CASE UNCHANGED tsfnVars
  BY <1>17 DEF tsfnVars
<1>18. QED
  BY <1>1, <1>2, <1>3, <1>4, <1>5, <1>6, <1>7, <1>8, <1>9, <1>10, <1>11, <1>12, <1>13, <1>14,
     <1>15, <1>16, <1>17
  DEF TsfnNext, InOperation

LEMMA StepLifetime ==
    TsfnTypeOK /\ Unused /\ Lifetime /\ (\A a \in Actors : Uses(a)) /\ [TsfnNext]_tsfnVars => Lifetime'
<1> SUFFICES ASSUME TsfnTypeOK, Unused, Lifetime, \A a \in Actors : Uses(a), [TsfnNext]_tsfnVars
             PROVE  Lifetime'
  OBVIOUS
<1> USE DEF Uses, Lifetime, native, handle, loop
<1>0. /\ pc \in [Actors -> PCs] /\ readers \subseteq Actors /\ held \subseteq Actors
      /\ count \in 0 .. 1 /\ aborted \in BOOLEAN /\ closing \in BOOLEAN /\ Main \in Actors
      /\ fin \in {"no", "upgraded", "marked", "done"} /\ env \in {"open", "closing"}
      /\ raw \in {"none", "null", "live", "freed"}
  BY DEF TsfnTypeOK, Actors
<1>1. CASE Create
  BY <1>0, <1>1 DEF Create, Unused
<1>2. ASSUME NEW a \in Actors, NEW b \in Actors, Clone(a, b) PROVE Lifetime'
  BY <1>0, <1>2 DEF Clone, Ready
<1>3. CASE SetReferred
  BY <1>0, <1>3 DEF SetReferred
<1>4. ASSUME NEW a \in Actors, NEW c \in Calls,
             NEW mode \in {"Blocking", "NonBlocking"}, Call(a, c, mode)
      PROVE  Lifetime'
  BY <1>0, <1>4 DEF Call, Ready
<1>5. ASSUME NEW a \in Actors, CallEnter(a) PROVE Lifetime'
  BY <1>0, <1>5 DEF CallEnter, CanRead, Writing
<1>6. ASSUME NEW a \in Actors, CallNative(a) PROVE Lifetime'
  BY <1>0, <1>6 DEF CallNative, Leave
<1>7. ASSUME NEW a \in Actors, Abort(a) PROVE Lifetime'
  BY <1>0, <1>7 DEF Abort, Ready
<1>8. ASSUME NEW a \in Actors, AbortLocked(a) PROVE Lifetime'
  BY <1>0, <1>8 DEF AbortLocked, CanWrite, DropClone
<1>9. ASSUME NEW a \in Actors, Drop(a) PROVE Lifetime'
  BY <1>0, <1>9 DEF Drop, Ready, DropClone
<1>10. ASSUME NEW a \in Actors, DropHandle(a) PROVE Lifetime'
  BY <1>0, <1>10 DEF DropHandle
<1>11. CASE Dispatch
  BY <1>0, <1>11 DEF Dispatch
<1>12. ASSUME NEW o \in Outcomes, Return(o) PROVE Lifetime'
  BY <1>0, <1>12 DEF Return
<1>13. CASE EnvClose
  BY <1>0, <1>13 DEF EnvClose
<1>14. CASE FinalizeUpgrade
  BY <1>0, <1>14 DEF FinalizeUpgrade
<1>15. CASE FinalizeMark
  BY <1>0, <1>15 DEF FinalizeMark, CanWrite
<1>16. CASE FinalizeFree
  BY <1>0, <1>16 DEF FinalizeFree
<1>17. CASE UNCHANGED tsfnVars
  BY <1>17 DEF tsfnVars
<1>18. QED
  BY <1>1, <1>2, <1>3, <1>4, <1>5, <1>6, <1>7, <1>8, <1>9, <1>10, <1>11, <1>12, <1>13, <1>14,
     <1>15, <1>16, <1>17
  DEF TsfnNext, InOperation

LEMMA StepClosed ==
    TsfnTypeOK /\ Unused /\ Lifetime /\ (\A a \in Actors : Uses(a)) /\ Closed /\ [TsfnNext]_tsfnVars
        => Closed'
<1> SUFFICES ASSUME TsfnTypeOK, Unused, Lifetime, \A a \in Actors : Uses(a), Closed,
                    [TsfnNext]_tsfnVars
             PROVE  Closed'
  OBVIOUS
<1> USE DEF Uses, Lifetime, Closed, native, handle, loop
<1>0. /\ pc \in [Actors -> PCs] /\ readers \subseteq Actors /\ held \subseteq Actors
      /\ count \in 0 .. 1 /\ aborted \in BOOLEAN /\ closing \in BOOLEAN /\ Main \in Actors
      /\ fin \in {"no", "upgraded", "marked", "done"} /\ env \in {"open", "closing"}
      /\ raw \in {"none", "null", "live", "freed"}
  BY DEF TsfnTypeOK, Actors
<1>1. CASE Create
  BY <1>0, <1>1 DEF Create, Unused
<1>2. ASSUME NEW a \in Actors, NEW b \in Actors, Clone(a, b) PROVE Closed'
  BY <1>0, <1>2 DEF Clone, Ready
<1>3. CASE SetReferred
  BY <1>0, <1>3 DEF SetReferred
<1>4. ASSUME NEW a \in Actors, NEW c \in Calls,
             NEW mode \in {"Blocking", "NonBlocking"}, Call(a, c, mode)
      PROVE  Closed'
  BY <1>0, <1>4 DEF Call, Ready
<1>5. ASSUME NEW a \in Actors, CallEnter(a) PROVE Closed'
  BY <1>0, <1>5 DEF CallEnter
<1>6. ASSUME NEW a \in Actors, CallNative(a) PROVE Closed'
  <2>1. a \in held /\ UNCHANGED <<raw, env, aborted, closing, held>>
    BY <1>6 DEF CallNative
  <2>2. (count' = count) \/ closing
    BY <1>6 DEF CallNative
  <2>3. QED
    BY <1>0, <2>1, <2>2
<1>7. ASSUME NEW a \in Actors, Abort(a) PROVE Closed'
  BY <1>0, <1>7 DEF Abort, Ready
<1>8. ASSUME NEW a \in Actors, AbortLocked(a) PROVE Closed'
  <2>1. /\ a \in held /\ UNCHANGED <<raw, env>>
        /\ (aborted' = aborted /\ count' = count /\ closing' = closing) \/ aborted'
    BY <1>8 DEF AbortLocked, Ready
  <2>2. QED
    BY <1>0, <2>1
<1>9. ASSUME NEW a \in Actors, Drop(a) PROVE Closed'
  <2>1. /\ a \in held /\ UNCHANGED <<raw, env>>
        /\ UNCHANGED <<aborted, count, closing>>
    BY <1>9 DEF Drop, Ready
  <2>2. QED
    BY <1>0, <2>1
<1>10. ASSUME NEW a \in Actors, DropHandle(a) PROVE Closed'
  <2>1. /\ held = {} /\ \A b \in Actors : b # a => pc[b] # "dropping"
        /\ pc' = [pc EXCEPT ![a] = "idle"] /\ UNCHANGED held
    BY <1>10 DEF DropHandle
  <2>2. QED
    BY <1>0, <2>1
<1>11. CASE Dispatch
  BY <1>0, <1>11 DEF Dispatch
<1>12. ASSUME NEW o \in Outcomes, Return(o) PROVE Closed'
  <2>1. UNCHANGED <<raw, env, aborted, closing, count, held>>
    BY <1>12 DEF Return
  <2>2. \A b \in Actors : pc'[b] = "dropping" => pc[b] = "dropping"
    BY <1>0, <1>12 DEF Return
  <2>3. QED
    BY <2>1, <2>2
<1>13. CASE EnvClose
  BY <1>0, <1>13 DEF EnvClose
<1>14. CASE FinalizeUpgrade
  BY <1>0, <1>14 DEF FinalizeUpgrade
<1>15. CASE FinalizeMark
  BY <1>0, <1>15 DEF FinalizeMark
<1>16. CASE FinalizeFree
  BY <1>0, <1>16 DEF FinalizeFree
<1>17. CASE UNCHANGED tsfnVars
  BY <1>17 DEF tsfnVars
<1>18. QED
  BY <1>1, <1>2, <1>3, <1>4, <1>5, <1>6, <1>7, <1>8, <1>9, <1>10, <1>11, <1>12, <1>13, <1>14,
     <1>15, <1>16, <1>17
  DEF TsfnNext, InOperation

-----------------------------------------------------------------------------
(* The theorems.                                                            *)

Harmless == NothingAfterFinalize /\ ReleaseSucceeds

LEMMA StepHarmless ==
    /\ TsfnTypeOK /\ Unused /\ Lifetime /\ (\A a \in Actors : Uses(a)) /\ Closed
    /\ Harmless /\ [TsfnNext]_tsfnVars
    => Harmless'
<1> SUFFICES ASSUME TsfnTypeOK, Unused, Lifetime, \A a \in Actors : Uses(a), Closed, Harmless,
                    [TsfnNext]_tsfnVars
             PROVE  Harmless'
  OBVIOUS
<1> USE DEF Uses, Lifetime, Closed, Harmless, NothingAfterFinalize, ReleaseSucceeds, native, handle, loop
<1>0. /\ pc \in [Actors -> PCs] /\ readers \subseteq Actors /\ held \subseteq Actors
      /\ count \in 0 .. 1 /\ aborted \in BOOLEAN /\ closing \in BOOLEAN /\ Main \in Actors
      /\ fin \in {"no", "upgraded", "marked", "done"} /\ env \in {"open", "closing"}
      /\ raw \in {"none", "null", "live", "freed"}
  BY DEF TsfnTypeOK, Actors
<1>1. CASE Create
  BY <1>1 DEF Create
<1>2. ASSUME NEW a \in Actors, NEW b \in Actors, Clone(a, b) PROVE Harmless'
  BY <1>0, <1>2 DEF Clone
<1>3. CASE SetReferred
  <2>1. /\ Main \in held /\ fin \in {"no", "done"} /\ ~aborted
        /\ bad' = IF raw = "live" THEN bad ELSE bad \union {"refer"}
    BY <1>3 DEF SetReferred, Ready
  <2>2. raw = "live"
    BY <1>0, <2>1
  <2>3. QED
    BY <1>3, <2>1, <2>2 DEF SetReferred
<1>4. ASSUME NEW a \in Actors, NEW c \in Calls,
             NEW mode \in {"Blocking", "NonBlocking"}, Call(a, c, mode)
      PROVE  Harmless'
  BY <1>0, <1>4 DEF Call
<1>5. ASSUME NEW a \in Actors, CallEnter(a) PROVE Harmless'
  BY <1>0, <1>5 DEF CallEnter
<1>6. ASSUME NEW a \in Actors, CallNative(a) PROVE Harmless'
  <2>1. a \in readers /\ a \in held
    BY <1>6 DEF CallNative
  <2>2. raw = "live"
    BY <1>0, <2>1
  <2>3. QED
    BY <1>6, <2>2 DEF CallNative
<1>7. ASSUME NEW a \in Actors, Abort(a) PROVE Harmless'
  BY <1>0, <1>7 DEF Abort
<1>8. ASSUME NEW a \in Actors, AbortLocked(a) PROVE Harmless'
  <2>1. a \in held
    BY <1>8 DEF AbortLocked
  <2>2. aborted \/ raw = "live"
    BY <1>0, <2>1
  <2>3. QED
    BY <1>8, <2>2 DEF AbortLocked
<1>9. ASSUME NEW a \in Actors, Drop(a) PROVE Harmless'
  BY <1>0, <1>9 DEF Drop
<1>10. ASSUME NEW a \in Actors, DropHandle(a) PROVE Harmless'
  <2>1. pc[a] = "dropping" /\ UNCHANGED <<raw, env>>
    BY <1>10 DEF DropHandle
  <2>2. CASE bad' = bad
    BY <2>1, <2>2
  <2>3. CASE ~aborted /\ ~(raw = "live" /\ count > 0) /\ bad' = bad \union {"release"}
    <3>1. raw # "none"
      BY <2>1 DEF Unused
    <3>2. raw = "freed" => closing
      BY <1>0
    <3>3. raw = "null" \/ env = "closing"
      BY <1>0, <2>1, <2>3, <3>1, <3>2
    <3>4. QED
      BY <2>1, <2>3, <3>3
  <2>4. QED
    BY <1>10, <2>2, <2>3 DEF DropHandle
<1>11. CASE Dispatch
  BY <1>0, <1>11 DEF Dispatch, TouchesCallback
<1>12. ASSUME NEW o \in Outcomes, Return(o) PROVE Harmless'
  BY <1>0, <1>12 DEF Return
<1>13. CASE EnvClose
  BY <1>0, <1>13 DEF EnvClose
<1>14. CASE FinalizeUpgrade
  BY <1>0, <1>14 DEF FinalizeUpgrade
<1>15. CASE FinalizeMark
  BY <1>0, <1>15 DEF FinalizeMark
<1>16. CASE FinalizeFree
  <2>1. bad' = bad /\ env' = env
    BY <1>16 DEF FinalizeFree, TouchesCallback
  <2>2. raw # "null"
    BY <1>0, <1>16 DEF FinalizeFree
  <2>3. QED
    BY <2>1, <2>2
<1>17. CASE UNCHANGED tsfnVars
  BY <1>17 DEF tsfnVars
<1>18. QED
  BY <1>1, <1>2, <1>3, <1>4, <1>5, <1>6, <1>7, <1>8, <1>9, <1>10, <1>11, <1>12, <1>13, <1>14,
     <1>15, <1>16, <1>17
  DEF TsfnNext, InOperation

TsfnInv ==
    /\ TsfnTypeOK /\ OneAnswer /\ Unused /\ Lifetime /\ (\A a \in Actors : Uses(a)) /\ Closed
    /\ Harmless

LEMMA TsfnInductive == Spec => []TsfnInv
<1>1. Init => TsfnInv
  <2> SUFFICES ASSUME TsfnInit PROVE TsfnInv
    BY DEF Init
  <2>1. TsfnTypeOK
    BY InitTyped
  <2>2. OneAnswer
    <3>1. queue = << >> /\ DOMAIN queue = {} /\ frame = NoCall
      BY DEF TsfnInit
    <3>2. \A a \in Actors : op[a].call.from = a
      BY DEF TsfnInit, NoOp
    <3>3. QED
      BY <3>1, <3>2 DEF OneAnswer
  <2>3. Unused /\ Lifetime /\ (\A a \in Actors : Uses(a)) /\ Closed /\ Harmless
    BY DEF TsfnInit, Unused, Lifetime, Uses, Closed, Harmless, NothingAfterFinalize, ReleaseSucceeds
  <2>4. QED
    BY <2>1, <2>2, <2>3 DEF TsfnInv
<1>2. TsfnInv /\ [Next]_callVars => TsfnInv'
  BY CallStep, StepTyped, StepOneAnswer, StepUnused, StepUses, StepLifetime, StepClosed, StepHarmless
  DEF TsfnInv
<1>3. QED
  BY <1>1, <1>2, PTL DEF Spec

\* No call, clone, refer or abort reaches a threadsafe function that its finaliser has ended: who
\* reads aborted = false keeps the finaliser out.  The release of the last handle
\* (threadsafe_function.rs:167) fails only where nothing was created or the environment goes.
THEOREM TsfnIsSound == Spec => []TsfnSound
<1>1. TsfnInv => TsfnSound
  BY DEF TsfnInv, Harmless, TsfnSound
<1>2. QED
  BY <1>1, TsfnInductive, PTL

\* An abort is final: no JS call starts once the handle is marked, whatever was queued before.
THEOREM AbortIsFinal == Spec => NoCallbackAfterAbort
<1>1. TsfnInv /\ [Next]_callVars => [aborted /\ frame = NoCall => frame' = NoCall]_tsfnVars
  <2> SUFFICES ASSUME TsfnInv, [TsfnNext]_tsfnVars, aborted, frame = NoCall, frame' # NoCall
               PROVE  FALSE
    BY CallStep
  <2>1. closing
    BY DEF TsfnInv, Lifetime
  <2>2. Dispatch
    BY DEF TsfnNext, InOperation, Create, Clone, SetReferred, Call, CallEnter, CallNative, Abort, AbortLocked,
           Drop, DropHandle, Return, EnvClose, FinalizeUpgrade, FinalizeMark, FinalizeFree, tsfnVars, loop
  <2>3. QED
    BY <2>1, <2>2 DEF Dispatch
<1>2. QED
  BY <1>1, TsfnInductive, PTL DEF Spec, NoCallbackAfterAbort

-----------------------------------------------------------------------------
(* Tasks on libuv: the inductive invariant.                                *)

\* How far the work is and how far `complete` is go together.
InStep ==
  \A t \in Tasks :
    /\ phase[t] \in {"resolving", "converting", "finally"} => work[t] \in {"executed", "cancelled"}
    /\ phase[t] = "done" <=> work[t] = "deleted"
    /\ work[t] = "cancelled" => abortAt[t] = "outside"
    /\ work[t] = "executed" => value[t] # "zeroed"

\* Before `complete` settles the promise, only an abort concludes it, and that leaves a 2; after
\* its end the status is 1 unless the holder of an AsyncWorkPromise, who does not look, cancels.
Status ==
  \A t \in Tasks :
    /\ status[t] = 2 => abortAt[t] # "no"
    /\ phase[t] \in {"no", "resolving"} /\ Concluded(t) => status[t] = 2
    /\ phase[t] = "converting" /\ Concluded(t) => abortAt[t] = "converting"
    /\ phase[t] = "done" => status[t] = 1 \/ kind[t] = "handle"

TaskInv == TaskTypeOK /\ InStep /\ Status /\ SettledOnce /\ SignalsKnowTheEnd

-----------------------------------------------------------------------------
LEMMA TaskInitially == TaskInit => TaskInv
  BY DEF TaskInit, TaskInv, TaskTypeOK, TaskKinds, InStep, Status, Concluded, SettledOnce,
         SignalsKnowTheEnd

\* The steps of starting and running a task.
LEMMA StartKeeps ==
  ASSUME TaskInv, NEW t \in Tasks,
         ConvertSignal(t) \/ (\E k \in TaskKinds : Run(t, k)) \/ Take(t) \/ Execute(t)
  PROVE  TaskInv'
<1>1. CASE ConvertSignal(t)
  BY <1>1 DEF TaskInv, TaskTypeOK, TaskKinds, ConvertSignal, InStep, Status, Concluded, SettledOnce,
              SignalsKnowTheEnd
<1>2. ASSUME NEW k \in TaskKinds, Run(t, k) PROVE TaskInv'
  BY <1>2 DEF TaskInv, TaskTypeOK, TaskKinds, Run, InStep, Status, Concluded, SettledOnce,
              SignalsKnowTheEnd
<1>3. CASE Take(t)
  BY <1>3 DEF TaskInv, TaskTypeOK, TaskKinds, Take, InStep, Status, Concluded, SettledOnce,
              SignalsKnowTheEnd
<1>4. CASE Execute(t)
  BY <1>4 DEF TaskInv, TaskTypeOK, TaskKinds, Execute, InStep, Status, Concluded, SettledOnce,
              SignalsKnowTheEnd
<1> QED BY <1>1, <1>2, <1>3, <1>4

\* The steps of `complete`.
LEMMA CompleteKeeps ==
  ASSUME TaskInv, NEW t \in Tasks,
         CompleteValue(t) \/ CompleteCheck(t) \/ CompleteSettle(t) \/ CompleteEnd(t)
  PROVE  TaskInv'
<1>1. CASE CompleteValue(t)
  BY <1>1 DEF TaskInv, TaskTypeOK, TaskKinds, CompleteValue, InStep, Status, Concluded, SettledOnce,
              SignalsKnowTheEnd
\* A promise that is concluded already has the status 2, and is not settled.
<1>2. CASE CompleteCheck(t)
  BY <1>2 DEF TaskInv, TaskTypeOK, TaskKinds, CompleteCheck, InStep, Status, Concluded, Settles,
              SettledOnce, SignalsKnowTheEnd
<1>3. CASE CompleteSettle(t)
  <2>1. TaskTypeOK' /\ InStep' /\ Status' /\ SignalsKnowTheEnd'
    BY <1>3 DEF TaskInv, TaskTypeOK, TaskKinds, CompleteSettle, InStep, Status, Concluded,
                SignalsKnowTheEnd
  \* What is concluded now was aborted by the conversion.
  <2>2. twice' \subseteq twice \union {t} /\ (t \in twice' => t \in twice \/ abortAt[t] = "converting")
    BY <1>3 DEF TaskInv, CompleteSettle, Status
  <2> QED BY <1>3, <2>1, <2>2 DEF TaskInv, SettledOnce, CompleteSettle
<1>4. CASE CompleteEnd(t)
  BY <1>4 DEF TaskInv, TaskTypeOK, TaskKinds, CompleteEnd, InStep, Status, Concluded, SettledOnce,
              SignalsKnowTheEnd
<1> QED BY <1>1, <1>2, <1>3, <1>4

\* An abort through the signal.
LEMMA AbortKeeps == ASSUME TaskInv, NEW t \in Tasks, OnAbort(t) PROVE TaskInv'
<1>1. abortAt' = [abortAt EXCEPT ![t] = AbortPoint(t)] /\ abortAt[t] = "no" /\ kind[t] = "signal"
  BY DEF OnAbort, MayAbort
<1>2. AbortPoint(t) \in {"early", "outside", "resolving", "converting", "finally"}
  BY DEF TaskInv, TaskTypeOK, AbortPoint
<1>3. CASE status[t] = 1
  BY <1>1, <1>2, <1>3 DEF OnAbort, TaskInv, TaskTypeOK, TaskKinds, InStep, Status, Concluded,
                          SettledOnce, SignalsKnowTheEnd
<1>4. CASE status[t] # 1
  <2>1. phase[t] # "done" /\ work[t] # "deleted"
    BY <1>1, <1>4 DEF TaskInv, Status, InStep
  <2>2. stale' = stale /\ SignalsKnowTheEnd'
    BY <1>4, <2>1 DEF OnAbort, StaleAfterCancel, TaskInv, SignalsKnowTheEnd
  \* The promise is concluded but there was no abort: `complete` did it and is in `finally`.
  <2>3. Concluded(t) => AbortPoint(t) = "finally"
    BY <1>1, <2>1 DEF TaskInv, TaskTypeOK, Status, InStep, AbortPoint
  <2>a. phase[t] = "converting" => AbortPoint(t) = "converting"
    BY <1>1 DEF AbortPoint, TaskInv, InStep
  <2>4. SettledOnce'
    BY <1>1, <1>4, <2>3 DEF OnAbort, TaskInv, TaskTypeOK, SettledOnce
  <2>5. work[t] = "queued" => AbortPoint(t) = "outside"
    BY DEF TaskInv, TaskTypeOK, InStep, AbortPoint
  <2>6. work' = work \/ (work[t] = "queued" /\ work' = [work EXCEPT ![t] = "cancelled"])
    BY <1>4 DEF OnAbort, CancelWork
  <2>7. InStep'
    BY <1>1, <1>4, <2>1, <2>5, <2>6 DEF OnAbort, TaskInv, TaskTypeOK, InStep
  <2>8. Status'
    BY <1>1, <1>2, <1>4, <2>1, <2>a DEF OnAbort, TaskInv, TaskTypeOK, Status, Concluded
  <2>9. TaskTypeOK'
    BY <1>1, <1>2, <1>4, <2>2, <2>6 DEF OnAbort, TaskInv, TaskTypeOK
  <2> QED BY <2>2, <2>4, <2>7, <2>8, <2>9 DEF TaskInv
<1> QED BY <1>3, <1>4

\* A cancel through an AsyncWorkPromise.
LEMMA CancelKeeps == ASSUME TaskInv, NEW t \in Tasks, Cancel(t) PROVE TaskInv'
<1>1. abortAt' = [abortAt EXCEPT ![t] = AbortPoint(t)] /\ abortAt[t] = "no" /\ kind[t] = "handle"
  BY DEF Cancel
<1>2. AbortPoint(t) \in {"early", "outside", "resolving", "converting", "finally"}
  BY DEF TaskInv, TaskTypeOK, AbortPoint
<1>3. work[t] = "queued" => AbortPoint(t) = "outside"
  BY DEF TaskInv, TaskTypeOK, InStep, AbortPoint
<1>4. work' = work \/ (work[t] = "queued" /\ work' = [work EXCEPT ![t] = "cancelled"])
  BY DEF Cancel, CancelWork
<1>5. stale' \subseteq stale \union {t}
  BY DEF Cancel, StaleAfterCancel
<1>6. TaskTypeOK'
  BY <1>1, <1>2, <1>4, <1>5 DEF Cancel, TaskInv, TaskTypeOK
<1>7. InStep'
  BY <1>1, <1>3, <1>4 DEF Cancel, TaskInv, TaskTypeOK, InStep
<1>8. Status'
  BY <1>1, <1>2 DEF Cancel, Completing, TaskInv, TaskTypeOK, Status, Concluded
<1>9. SettledOnce' /\ SignalsKnowTheEnd'
  BY <1>1, <1>5 DEF Cancel, TaskInv, TaskTypeOK, SettledOnce, SignalsKnowTheEnd
<1> QED BY <1>6, <1>7, <1>8, <1>9 DEF TaskInv

-----------------------------------------------------------------------------
(* Theorems                                                                *)

\* A promise is concluded once (but for an abort by the JavaScript of its own conversion or `finally`), a
\* signal never cancels a work that was deleted, and `resolve` is given what `compute` produced
\* unless the work was cancelled before anybody took it.
THEOREM TasksAreSound == Spec => []TasksSound
<1>1. Init => TaskInv
  BY TaskInitially DEF Init
<1>2. TaskInv /\ [Next]_callVars => TaskInv'
  <2> SUFFICES ASSUME TaskInv, [Next]_callVars PROVE TaskInv'
    OBVIOUS
  <2>1. TaskNext \/ UNCHANGED taskVars
    BY DEF Next, callVars
  <2>2. CASE TaskNext
    BY <2>2, StartKeeps, CompleteKeeps, AbortKeeps, CancelKeeps DEF TaskNext, TaskProgress
  <2>3. CASE UNCHANGED taskVars
    BY <2>3 DEF taskVars, TaskInv, TaskTypeOK, InStep, Status, Concluded, SettledOnce,
                SignalsKnowTheEnd
  <2> QED BY <2>1, <2>2, <2>3
<1>3. TaskInv => TasksSound
  <2> SUFFICES ASSUME TaskInv PROVE OutputsAreComputed
    BY DEF TaskInv, TasksSound
  <2> QED BY DEF TaskInv, InStep, OutputsAreComputed
<1> QED BY <1>1, <1>2, <1>3, PTL DEF Spec

-----------------------------------------------------------------------------
(* The tokio runtime and its futures: the inductive invariant.             *)

\* The types of what futures have of their own.
FutTyped ==
  /\ home \in [Futures -> Envs]
  /\ dropped \in [Futures -> BOOLEAN]
  /\ fut \in [Futures -> {"none", "refused", "unspawned", "waiting", "running", "panicked",
                          "settling", "finished", "cancelled"}]
  /\ call \in [Futures -> {"no", "ok", "err", "release"}]
  /\ tsfn \in [Futures -> {"none", "live", "closing", "freed"}]
  /\ queued \in [Futures -> {"no", "ok", "err"}]
  /\ out \in [Futures -> {"none", "pending", "resolved", "rejected"}]
  /\ late \subseteq Futures

ArgTyped ==
  /\ arg \in [Futures -> {"none", "pending", "resolved", "rejected"}]
  /\ react \in [Futures -> {"no", "then", "catch"}]
  /\ box \in [Futures -> {"none", "boxed", "taken", "threw"}]
  /\ chan \in [Futures -> {"empty", "ok", "err", "closed"}]
  /\ retaken \subseteq Futures

EnvTyped ==
  /\ wasm \in BOOLEAN
  /\ life \in [Envs -> {"absent", "open", "closing", "taking", "dropped", "closed"}]
  /\ runtime \in BOOLEAN
  /\ raced \subseteq Envs /\ shared \subseteq Envs

\* The environments that count themselves in.
Counted == {e \in Envs : life[e] \in {"open", "closing"}}

\* RT_REFERENCE_COUNT counts them; on wasm nothing is counted and nothing taken away.
Counts ==
  IF wasm THEN rtCount = 0 /\ runtime /\ \A e \in Envs : life[e] # "taking"
          ELSE rtCount = Cardinality(Counted)

\* A callback runs for a settled argument, and finds the sender boxed, or catch_callback finds
\* what a then_callback that left an exception pending has left.
Senders ==
  \A f \in Futures :
    /\ fut[f] = "none" => box[f] = "none"
    /\ arg[f] = "none" => react[f] = "no"
    /\ arg[f] = "pending" => box[f] = "boxed" /\ react[f] = "no"
    /\ react[f] = "then" => box[f] = "boxed"
    /\ react[f] = "catch" => box[f] \in {"boxed", "threw"}

Active(f) == fut[f] \in {"waiting", "running", "panicked", "settling"}

\* A future that goes on after its environment has given up its share of the runtime, is on a
\* runtime that somebody else keeps.
OnShared ==
  \A f \in Futures :
    /\ tsfn[f] = "freed" => life[home[f]] = "closed"
    /\ fut[f] = "none" => tsfn[f] = "none"
    /\ Active(f) /\ life[home[f]] \in {"dropped", "closed"} => wasm \/ home[f] \in shared

LatesShared == \A f \in late : wasm \/ home[f] \in shared

Typed == EnvTyped /\ ArgTyped /\ FutTyped

TokioInv ==
  Typed /\ Counts /\ RuntimeForOpenEnv /\ Senders /\ SenderTakenOnce /\ OnShared /\ LatesShared

-----------------------------------------------------------------------------
(* Environments                                                            *)

LEMMA CountedFinite == IsFiniteSet(Counted) /\ Cardinality(Counted) \in 0..Cardinality(Envs)
<1>1. IsFiniteSet(Envs) /\ Counted \subseteq Envs
  BY TokioAssumption DEF Counted
<1>2. IsFiniteSet(Counted) /\ Cardinality(Counted) <= Cardinality(Envs)
  BY <1>1, FS_Subset
<1> QED BY <1>1, <1>2, FS_CardinalityType

LEMMA CountIn ==
  ASSUME EnvTyped, Counts, ~wasm, NEW e \in Envs, life[e] = "absent",
         life' = [life EXCEPT ![e] = "open"]
  PROVE  Cardinality(Counted') = rtCount + 1
<1>1. Counted' = Counted \union {e} /\ e \notin Counted
  BY DEF EnvTyped, Counted
<1> QED BY <1>1, CountedFinite, FS_AddElement DEF Counts

LEMMA CountOut ==
  ASSUME EnvTyped, Counts, ~wasm, NEW e \in Envs, NEW s \in {"taking", "dropped"},
         life[e] = "closing", life' = [life EXCEPT ![e] = s]
  PROVE  Cardinality(Counted') = rtCount - 1
<1>1. Counted' = Counted \ {e} /\ e \in Counted
  BY DEF EnvTyped, Counted
<1> QED BY <1>1, CountedFinite, FS_RemoveElement DEF Counts

\* A step that moves no environment in or out of the count.
LEMMA CountSame ==
  ASSUME Counts, Counted' = Counted, wasm' = wasm, rtCount' = rtCount,
         wasm => runtime' /\ \A e \in Envs : life'[e] # "taking"
  PROVE  Counts'
BY DEF Counts

\* The first step of an environment.
LEMMA EnsureKeeps == ASSUME TokioInv, NEW e \in Envs, EnsureRuntime(e) PROVE TokioInv'
<1>1. EnvTyped' /\ UNCHANGED <<argVars, futVars, shared, wasm, raced>>
  BY DEF EnsureRuntime, TokioInv, Typed, EnvTyped
<1>2. Counts'
  <2>1. CASE wasm
    BY <2>1 DEF EnsureRuntime, TokioInv, Typed, EnvTyped, Counts
  <2>2. CASE ~wasm
    BY <2>2, CountIn DEF EnsureRuntime, TokioInv, Typed, Counts
  <2> QED BY <2>1, <2>2
<1>3. RuntimeForOpenEnv'
  BY DEF EnsureRuntime, TokioInv, Typed, EnvTyped, Counts, RuntimeForOpenEnv
<1>4. OnShared' /\ LatesShared'
  BY <1>1 DEF EnsureRuntime, TokioInv, Typed, EnvTyped, FutTyped, OnShared, LatesShared, Active, futVars
<1> QED
  BY <1>1, <1>2, <1>3, <1>4
  DEF TokioInv, Typed, ArgTyped, FutTyped, Senders, SenderTakenOnce, argVars, futVars

LEMMA CleanupKeeps == ASSUME TokioInv, NEW e \in Envs, EnvCleanup(e) PROVE TokioInv'
<1>1. Typed'
  BY DEF EnvCleanup, TokioInv, Typed, EnvTyped, FutTyped, ArgTyped, argVars
<1>2. Counted' = Counted /\ \A d \in Envs : life'[d] = "taking" => life[d] = "taking"
  BY DEF EnvCleanup, TokioInv, Typed, EnvTyped, Counted
<1>3. Counts'
  BY <1>2, CountSame DEF EnvCleanup, TokioInv, Counts
<1>4. RuntimeForOpenEnv' /\ Senders' /\ SenderTakenOnce'
  BY DEF EnvCleanup, TokioInv, Typed, EnvTyped, RuntimeForOpenEnv, Senders, SenderTakenOnce, argVars
<1>5. OnShared' /\ LatesShared'
  BY DEF EnvCleanup, TokioInv, Typed, EnvTyped, FutTyped, OnShared, LatesShared, Active
<1> QED BY <1>1, <1>3, <1>4, <1>5 DEF TokioInv

\* The count goes down: the last one takes the runtime, any other shares it.
LEMMA CountKeeps == ASSUME TokioInv, NEW e \in Envs, DropRuntimeCount(e) PROVE TokioInv'
<1>1. UNCHANGED <<wasm, runtime, raced, argVars, futVars>> /\ life[e] = "closing"
  BY DEF DropRuntimeCount
<1>2. PICK s \in {"taking", "dropped"} : life' = [life EXCEPT ![e] = s] /\ (wasm => s = "dropped")
                                        /\ (s = "taking" \/ wasm \/ e \in shared')
                                        /\ shared \subseteq shared' /\ shared' \subseteq shared \union {e}
  BY DEF DropRuntimeCount
<1>3. EnvTyped'
  BY <1>1, <1>2 DEF TokioInv, Typed, EnvTyped
<1>4. Counts'
  <2>1. CASE wasm
    BY <1>1, <1>2, <2>1 DEF DropRuntimeCount, TokioInv, Typed, EnvTyped, Counts
  <2>2. CASE ~wasm
    <3>1. Cardinality(Counted') = rtCount - 1
      BY <1>1, <1>2, <2>2, CountOut DEF TokioInv, Typed
    <3> QED BY <1>1, <2>2, <3>1 DEF DropRuntimeCount, Counts
  <2> QED BY <2>1, <2>2
<1>5. RuntimeForOpenEnv'
  BY <1>1, <1>2 DEF TokioInv, Typed, EnvTyped, RuntimeForOpenEnv
<1>6. OnShared' /\ LatesShared'
  BY <1>1, <1>2 DEF TokioInv, Typed, EnvTyped, FutTyped, OnShared, LatesShared, Active, futVars
<1> QED
  BY <1>1, <1>3, <1>4, <1>5, <1>6
  DEF TokioInv, Typed, ArgTyped, FutTyped, Senders, SenderTakenOnce, argVars, futVars

\* The runtime goes, and no future is active after that.
LEMMA TakeKeeps == ASSUME TokioInv, NEW e \in Envs, DropRuntimeTake(e) PROVE TokioInv'
<1>1. Typed'
  BY DEF DropRuntimeTake, TokioInv, Typed, EnvTyped, FutTyped, ArgTyped, argVars
<1>2. Counted' = Counted /\ ~wasm /\ wasm' = wasm
  BY DEF DropRuntimeTake, TokioInv, Typed, EnvTyped, Counts, Counted
<1>3. Counts'
  BY <1>2, CountSame DEF DropRuntimeTake, TokioInv
<1>4. RuntimeForOpenEnv'
  BY DEF DropRuntimeTake, TokioInv, Typed, EnvTyped, RuntimeForOpenEnv
<1>5. Senders' /\ SenderTakenOnce'
  BY DEF DropRuntimeTake, TokioInv, Typed, FutTyped, Senders, SenderTakenOnce, argVars, Cancellable
<1>6. \A f \in Futures : ~Active(f)'
  BY DEF DropRuntimeTake, TokioInv, Typed, FutTyped, Active, Cancellable
<1>7. OnShared' /\ LatesShared'
  BY <1>6 DEF DropRuntimeTake, TokioInv, Typed, EnvTyped, FutTyped, OnShared, LatesShared, Cancellable
<1> QED BY <1>1, <1>3, <1>4, <1>5, <1>7 DEF TokioInv

LEMMA ClosedKeeps == ASSUME TokioInv, NEW e \in Envs, EnvClosed(e) PROVE TokioInv'
<1>1. Typed'
  BY DEF EnvClosed, TokioInv, Typed, EnvTyped, FutTyped, ArgTyped, argVars
<1>2. Counted' = Counted /\ \A d \in Envs : life'[d] = "taking" => life[d] = "taking"
  BY DEF EnvClosed, TokioInv, Typed, EnvTyped, Counted
<1>3. Counts'
  BY <1>2, CountSame DEF EnvClosed, TokioInv, Counts
<1>4. RuntimeForOpenEnv' /\ Senders' /\ SenderTakenOnce'
  BY DEF EnvClosed, TokioInv, Typed, EnvTyped, RuntimeForOpenEnv, Senders, SenderTakenOnce, argVars
<1>5. OnShared' /\ LatesShared'
  BY DEF EnvClosed, TokioInv, Typed, EnvTyped, FutTyped, OnShared, LatesShared, Active
<1> QED BY <1>1, <1>3, <1>4, <1>5 DEF TokioInv

-----------------------------------------------------------------------------
(* Futures                                                                 *)

\* A step that leaves the environments alone.
LEMMA EnvKept ==
  ASSUME EnvTyped, Counts, RuntimeForOpenEnv, UNCHANGED envVars
  PROVE  EnvTyped' /\ Counts' /\ RuntimeForOpenEnv'
BY DEF envVars, EnvTyped, Counts, Counted, RuntimeForOpenEnv

\* A step of the argument's promise.
LEMMA ArgKeeps ==
  ASSUME TokioInv, NEW f \in Futures,
         (\E how \in {"resolved", "rejected"} : Settle(f, how)) \/ React(f)
  PROVE  TokioInv'
<1>1. UNCHANGED envVars
      /\ UNCHANGED <<home, dropped, fut, call, tsfn, queued, out, late>>
  BY DEF Settle, React, ThenCallback, CatchCallback, futVars
<1>2. FutTyped' /\ OnShared' /\ LatesShared'
  BY <1>1 DEF TokioInv, Typed, FutTyped, OnShared, LatesShared, Active, envVars
<1>3. ASSUME NEW how \in {"resolved", "rejected"}, Settle(f, how)
      PROVE  ArgTyped' /\ Senders' /\ SenderTakenOnce'
  BY <1>3 DEF Settle, TokioInv, Typed, ArgTyped, Senders, SenderTakenOnce, futVars
<1>4. ASSUME ThenCallback(f) PROVE ArgTyped' /\ Senders' /\ SenderTakenOnce'
  \* The sender is still in its box.
  <2>1. retaken' = retaken /\ arg[f] \notin {"none", "pending"} /\ fut[f] # "none"
    BY <1>4 DEF ThenCallback, TokioInv, Typed, ArgTyped, Senders
  <2>2. box[f] = "boxed" /\ f \notin retaken
    BY <1>4 DEF ThenCallback, TokioInv, Senders, SenderTakenOnce
  <2>3. PICK v \in {"ok", "err", "threw"} :
          /\ Send(f, IF v = "ok" THEN "ok" ELSE "err")
          /\ box' = [box EXCEPT ![f] = IF v = "threw" THEN "threw" ELSE "taken"]
          /\ react' = [react EXCEPT ![f] = IF v = "threw" THEN "catch" ELSE "no"]
    BY <1>4 DEF ThenCallback
  <2>4. arg' = arg /\ fut' = fut
    BY <1>4 DEF ThenCallback
  <2>5. ArgTyped'
    BY <2>1, <2>3, <2>4 DEF TokioInv, Typed, ArgTyped, Send
  <2>6. Senders'
    BY <2>1, <2>3, <2>4 DEF TokioInv, Typed, ArgTyped, Senders
  <2>7. SenderTakenOnce'
    BY <2>1, <2>2, <2>3 DEF TokioInv, Typed, ArgTyped, SenderTakenOnce
  <2> QED BY <2>5, <2>6, <2>7
<1>5. ASSUME CatchCallback(f) PROVE ArgTyped' /\ Senders' /\ SenderTakenOnce'
  <2>1. box[f] \in {"boxed", "threw"} /\ arg[f] \notin {"none", "pending"} /\ fut[f] # "none"
    BY <1>5 DEF CatchCallback, TokioInv, Typed, ArgTyped, Senders
  <2>2. ArgTyped'
    BY <1>5 DEF CatchCallback, TakeSender, Send, TokioInv, Typed, ArgTyped
  <2>3. Senders'
    BY <1>5, <2>1 DEF CatchCallback, TakeSender, TokioInv, Typed, ArgTyped, Senders
  <2>4. SenderTakenOnce'
    BY <1>5, <2>1 DEF CatchCallback, TakeSender, TokioInv, Typed, ArgTyped, SenderTakenOnce
  <2> QED BY <2>2, <2>3, <2>4
<1> QED
  BY <1>1, <1>2, <1>3, <1>4, <1>5, EnvKept DEF React, TokioInv, Typed

LEMMA StartFutureKeeps == ASSUME TokioInv, NEW f \in Futures, Start(f) PROVE TokioInv'
<1>1. UNCHANGED envVars /\ fut[f] = "none" /\ life[home[f]] = "open" /\ box[f] = "none"
  BY DEF Start, TokioInv, Senders
<1>2. FutTyped'
  <2>1. FutTyped
    BY DEF TokioInv, Typed
  <2>2. dropped' \in [Futures -> BOOLEAN]
    BY <2>1 DEF Start, FutTyped
  <2>3. fut' \in [Futures -> {"none", "refused", "unspawned", "waiting", "running", "panicked",
                            "settling", "finished", "cancelled"}]
    BY <2>1 DEF Start, FutTyped
  <2>4. tsfn' \in [Futures -> {"none", "live", "closing", "freed"}]
        /\ out' \in [Futures -> {"none", "pending", "resolved", "rejected"}]
    BY <2>1 DEF Start, FutTyped
  <2> QED BY <2>1, <2>2, <2>3, <2>4 DEF Start, FutTyped, envVars
<1>3. ArgTyped'
  BY DEF Start, TokioInv, Typed, ArgTyped
<1>4. react[f] = "no" /\ f \notin retaken
  BY <1>1 DEF TokioInv, Typed, ArgTyped, Senders, SenderTakenOnce
<1>5. Senders' /\ SenderTakenOnce'
  BY <1>1, <1>4 DEF Start, TokioInv, Typed, ArgTyped, FutTyped, Senders, SenderTakenOnce
<1>6. OnShared' /\ LatesShared'
  BY <1>1 DEF Start, TokioInv, Typed, FutTyped, OnShared, LatesShared, Active, envVars
<1> QED BY <1>1, <1>2, <1>3, <1>5, <1>6, EnvKept DEF TokioInv, Typed

LEMMA FutureKeeps ==
  ASSUME TokioInv, NEW f \in Futures, FutureProgress(f) \/ ResolveDeferred(f)
  PROVE  TokioInv'
<1>1. UNCHANGED envVars /\ UNCHANGED argVars /\ UNCHANGED <<home, tsfn, retaken>>
  BY DEF FutureProgress, Poll, Complete, Watch, CallTsfn, ReleaseTsfn, ResolveDeferred
<1>2. ArgTyped'
  BY <1>1 DEF TokioInv, Typed, ArgTyped, argVars
<1>3. FutTyped'
  <2> USE DEF TokioInv, Typed, FutTyped
  <2>1. CASE Poll(f)
    BY <2>1 DEF Poll
  <2>2. ASSUME NEW o \in {"ok", "err", "panic"}, Complete(f, o) PROVE FutTyped'
    BY <2>2 DEF Complete
  <2>3. CASE Watch(f)
    BY <2>3 DEF Watch
  <2>4. CASE CallTsfn(f)
    BY <2>4 DEF CallTsfn
  <2>5. CASE ReleaseTsfn(f)
    BY <2>5 DEF ReleaseTsfn
  <2>6. CASE ResolveDeferred(f)
    BY <2>6 DEF ResolveDeferred
  <2> QED BY <2>1, <2>2, <2>3, <2>4, <2>5, <2>6 DEF FutureProgress
\* Only a future that is active goes on being so.
<1>4. \A g \in Futures : (fut[g] = "none" <=> fut'[g] = "none") /\ (Active(g)' => Active(g))
  BY DEF FutureProgress, Poll, Complete, Watch, CallTsfn, ReleaseTsfn, ResolveDeferred, TokioInv,
         Typed, FutTyped, Active
<1>5. Senders' /\ SenderTakenOnce'
  BY <1>1, <1>4 DEF TokioInv, Senders, SenderTakenOnce, argVars
<1>6. OnShared'
  BY <1>1, <1>4 DEF TokioInv, OnShared, envVars
\* A late call is made by an active future whose environment has closed.
<1>7. \A g \in late' : g \in late \/ (g \in Futures /\ Active(g) /\ tsfn[g] = "freed")
  BY DEF FutureProgress, Poll, Complete, Watch, CallTsfn, ReleaseTsfn, ResolveDeferred, Active
<1>8. LatesShared'
  BY <1>1, <1>7 DEF TokioInv, OnShared, LatesShared, envVars
<1> QED BY <1>1, <1>2, <1>3, <1>5, <1>6, <1>8, EnvKept DEF TokioInv, Typed

-----------------------------------------------------------------------------
(* Theorems                                                                *)

LEMMA TokioInitially == TokioInit => TokioInv
<1> SUFFICES ASSUME TokioInit PROVE TokioInv
  OBVIOUS
<1>1. Typed
  BY TokioAssumption DEF TokioInit, Typed, EnvTyped, ArgTyped, FutTyped
<1>2. Counted = {}
  BY DEF TokioInit, Counted
<1>3. Counts
  BY <1>2, FS_EmptySet DEF TokioInit, Counts
<1>4. RuntimeForOpenEnv /\ Senders /\ SenderTakenOnce /\ OnShared /\ LatesShared
  BY DEF TokioInit, RuntimeForOpenEnv, Senders, SenderTakenOnce, OnShared, LatesShared, Active
<1> QED BY <1>1, <1>3, <1>4 DEF TokioInv

\* An open environment finds a runtime unless it counted itself in between the two halves of
\* another's drop_runtime; the sender of an awaited promise is taken once unless its conversion
\* left an exception pending; and only a runtime that is shared, or wasm's threads, let a future
\* call a threadsafe function that is gone.
THEOREM FuturesAreSound == Spec => []FuturesSound
<1>1. Init => TokioInv
  BY TokioInitially DEF Init
<1>2. TokioInv /\ [Next]_callVars => TokioInv'
  <2> SUFFICES ASSUME TokioInv, [Next]_callVars PROVE TokioInv'
    OBVIOUS
  <2>1. TokioNext \/ UNCHANGED tokioVars
    BY DEF Next, callVars
  <2>2. CASE TokioNext
    BY <2>2, EnsureKeeps, CleanupKeeps, CountKeeps, TakeKeeps, ClosedKeeps, ArgKeeps,
       StartFutureKeeps, FutureKeeps DEF TokioNext
  <2>3. CASE UNCHANGED tokioVars
    <3>1. UNCHANGED envVars /\ Typed'
      BY <2>3 DEF tokioVars, envVars, argVars, futVars, TokioInv, Typed, EnvTyped, ArgTyped, FutTyped
    <3>2. Senders' /\ SenderTakenOnce' /\ OnShared' /\ LatesShared'
      BY <2>3 DEF tokioVars, envVars, argVars, futVars, TokioInv, Senders, SenderTakenOnce, OnShared,
                  LatesShared, Active
    <3> QED BY <3>1, <3>2, EnvKept DEF TokioInv, Typed
  <2> QED BY <2>1, <2>2, <2>3
<1>3. TokioInv => FuturesSound
  <2> SUFFICES ASSUME TokioInv PROVE rtCount \in 0..Cardinality(Envs) /\ LateCallNeedsSharing
    BY DEF TokioInv, FuturesSound, TokioTypeOK, Typed, EnvTyped, ArgTyped, FutTyped
  <2>1. 0 \in 0..Cardinality(Envs)
    BY TokioAssumption, FS_CardinalityType
  <2>2. rtCount \in 0..Cardinality(Envs)
    BY <2>1, CountedFinite DEF TokioInv, Counts
  <2>3. LateCallNeedsSharing
    BY DEF TokioInv, LatesShared, LateCallNeedsSharing
  <2> QED BY <2>2, <2>3
<1> QED BY <1>1, <1>2, <1>3, PTL DEF Spec
=============================================================================
