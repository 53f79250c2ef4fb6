-------------------------- MODULE HostProcessProofs --------------------------
(***************************************************************************)
(* Proofs about HostProcess, for any number of processes and any amount of *)
(* output.                                                                 *)
(***************************************************************************)
EXTENDS HostBridge, SequenceTheorems, TLAPS

\* A behaviour of the bridge is one of its process half.
LEMMA ProcessPart == Spec => ProcessSpec
<1>1. Init => ProcessInit
  BY DEF Init
<1>2. [Next]_hostBridgeVars => [ProcessNext]_processVars
  BY DEF Next, hostBridgeVars
<1>3. QED
  BY <1>1, <1>2, PTL DEF Spec, ProcessSpec

-----------------------------------------------------------------------------
(* Queues.                                                                  *)

In(q, x) == \E i \in DOMAIN q : q[i] = x
Once(q) == \A i, j \in DOMAIN q : q[i] = q[j] => i = j

\* A call that is added is the only new one.
LEMMA Adding ==
    ASSUME NEW S, NEW q \in Seq(S), NEW x \in S
    PROVE  /\ Append(q, x) \in Seq(S)
           /\ \A y : In(Append(q, x), y) <=> In(q, y) \/ y = x
           /\ Once(q) /\ ~In(q, x) => Once(Append(q, x))
<1>1. Len(q) \in Nat /\ DOMAIN q = 1 .. Len(q)
  OBVIOUS
<1>2. PICK a : a = Append(q, x)
  OBVIOUS
<1>3. /\ a \in Seq(S) /\ DOMAIN a = 1 .. Len(q) + 1
      /\ \A k \in 1 .. Len(q) : a[k] = q[k]
      /\ a[Len(q) + 1] = x
  BY <1>1, <1>2, AppendProperties
<1>4. ASSUME NEW y PROVE In(a, y) <=> In(q, y) \/ y = x
  <2>1. DOMAIN a = DOMAIN q \union {Len(q) + 1}
    BY <1>1, <1>3
  <2>2. QED
    BY <1>1, <1>3, <2>1 DEF In
<1>5. ASSUME Once(q), ~In(q, x) PROVE Once(a)
  BY <1>1, <1>3, <1>5 DEF In, Once
<1>6. QED
  BY <1>2, <1>3, <1>4, <1>5

\* Taking the oldest call leaves the others, and takes the only one of its kind if there
\* is one of each.
LEMMA Taking ==
    ASSUME NEW S, NEW q \in Seq(S), q # <<>>
    PROVE  /\ Tail(q) \in Seq(S) /\ Head(q) \in S /\ In(q, Head(q))
           /\ \A y : In(Tail(q), y) => In(q, y)
           /\ \A y : In(q, y) /\ y # Head(q) => In(Tail(q), y)
           /\ Once(q) => Once(Tail(q)) /\ ~In(Tail(q), Head(q))
<1>1. Len(q) \in Nat \ {0} /\ DOMAIN q = 1 .. Len(q)
  BY EmptySeq
<1>2. PICK t : t = Tail(q)
  OBVIOUS
<1>3. /\ t \in Seq(S) /\ Head(q) = q[1] /\ q[1] \in S
      /\ Len(t) = Len(q) - 1 /\ DOMAIN t = 1 .. Len(q) - 1
      /\ \A k \in 1 .. Len(q) - 1 : t[k] = q[k + 1]
  BY <1>1, <1>2, HeadTailProperties
<1>4. /\ \A k \in DOMAIN t : t[k] = q[k + 1] /\ k + 1 \in DOMAIN q \ {1}
      /\ \A k \in DOMAIN q : k # 1 => k - 1 \in DOMAIN t /\ t[k - 1] = q[k]
  BY <1>1, <1>3
<1>5. In(q, Head(q)) /\ \A y : In(t, y) => In(q, y)
  BY <1>1, <1>3, <1>4 DEF In
<1>6. ASSUME NEW y, In(q, y), y # Head(q) PROVE In(t, y)
  BY <1>3, <1>4, <1>6 DEF In
<1>7. ASSUME Once(q) PROVE Once(t) /\ ~In(t, Head(q))
  BY <1>1, <1>3, <1>4, <1>7 DEF In, Once
<1>8. QED
  BY <1>2, <1>3, <1>5, <1>6, <1>7

\* A host call that is made is the only new one.
LEMMA Calling ==
    ASSUME ProcessTypeOK, NEW f \in {"spawn", "action"}, NEW p \in Procs, Call(f, p)
    PROVE  /\ calls' \in [{"spawn", "action"} -> Seq(Procs)]
           /\ \A g \in {"spawn", "action"}, r \in Procs :
                  Queued(g, r)' <=> Queued(g, r) \/ (g = f /\ r = p)
           /\ Once(calls["spawn"]) /\ (f = "spawn" => ~Queued("spawn", p)) =>
                  Once(calls'["spawn"])
<1>1. calls \in [{"spawn", "action"} -> Seq(Procs)]
  BY DEF ProcessTypeOK
<1>2. calls' = [calls EXCEPT ![f] = Append(calls[f], p)] /\ calls[f] \in Seq(Procs)
  BY <1>1 DEF Call
<1>3. /\ Append(calls[f], p) \in Seq(Procs)
      /\ \A r : In(Append(calls[f], p), r) <=> In(calls[f], r) \/ r = p
      /\ Once(calls[f]) /\ ~In(calls[f], p) => Once(Append(calls[f], p))
  BY <1>2, Adding
<1>4. \A g, r : Queued(g, r) <=> In(calls[g], r)
  BY DEF Queued, In
<1>5. \A g, r : Queued(g, r)' <=> In(calls'[g], r)
  BY DEF Queued, In
<1>6. calls'[f] = Append(calls[f], p) /\ \A g \in {"spawn", "action"} \ {f} : calls'[g] = calls[g]
  BY <1>1, <1>2
<1>7. QED
  BY <1>1, <1>2, <1>3, <1>4, <1>5, <1>6

\* A callback that runs takes one call, the only one of its process if it is a spawn.
LEMMA Serving ==
    ASSUME ProcessTypeOK, NEW f \in {"spawn", "action"}, NEW p \in Procs, Takes(f, p)
    PROVE  /\ calls' \in [{"spawn", "action"} -> Seq(Procs)]
           /\ Queued(f, p)
           /\ \A g \in {"spawn", "action"}, r \in Procs : Queued(g, r)' => Queued(g, r)
           /\ \A g \in {"spawn", "action"}, r \in Procs :
                  Queued(g, r) /\ ~(g = f /\ r = p) => Queued(g, r)'
           /\ Once(calls["spawn"]) =>
                  Once(calls'["spawn"]) /\ (f = "spawn" => ~Queued("spawn", p)')
<1>1. calls \in [{"spawn", "action"} -> Seq(Procs)]
  BY DEF ProcessTypeOK
<1>2. /\ calls' = [calls EXCEPT ![f] = Tail(calls[f])] /\ calls[f] \in Seq(Procs)
      /\ calls[f] # <<>> /\ p = Head(calls[f])
  BY <1>1 DEF Takes
<1>3. /\ Tail(calls[f]) \in Seq(Procs) /\ In(calls[f], p)
      /\ \A r : In(Tail(calls[f]), r) => In(calls[f], r)
      /\ \A r : In(calls[f], r) /\ r # p => In(Tail(calls[f]), r)
      /\ Once(calls[f]) => Once(Tail(calls[f])) /\ ~In(Tail(calls[f]), p)
  BY <1>2, Taking
<1>4. \A g, r : Queued(g, r) <=> In(calls[g], r)
  BY DEF Queued, In
<1>5. \A g, r : Queued(g, r)' <=> In(calls'[g], r)
  BY DEF Queued, In
<1>6. calls'[f] = Tail(calls[f]) /\ \A g \in {"spawn", "action"} \ {f} : calls'[g] = calls[g]
  BY <1>1, <1>2
<1>7. QED
  BY <1>1, <1>2, <1>3, <1>4, <1>5, <1>6

-----------------------------------------------------------------------------
(* Type correctness.                                                        *)

LEMMA InitTyped == ProcessInit => ProcessTypeOK
BY ProcessAssumption DEF ProcessInit, ProcessTypeOK, Streams, Codes, Gone, NotReporting

LEMMA StepTyped == ProcessTypeOK /\ [ProcessNext]_processVars => ProcessTypeOK'
<1> SUFFICES ASSUME ProcessTypeOK, [ProcessNext]_processVars PROVE ProcessTypeOK'
  OBVIOUS
<1>a. /\ Streams = {"out", "err"} /\ Codes = {"status", "signal", "failed", "errno"}
      /\ Gone = {"exited", "signalled", "unspawned"}
  BY DEF Streams, Codes, Gone
<1>b. \A f \in {"spawn", "action"}, p \in Procs :
        Call(f, p) \/ Takes(f, p) => calls' \in [{"spawn", "action"} -> Seq(Procs)]
  BY Calling, Serving
<1>c. main # NotReporting => /\ main.proc \in Procs /\ main.code \in Codes
                     /\ main.at \in {"stdout", "stderr", "lookup", "store", "notify"}
  BY DEF ProcessTypeOK
<1>d. NotReporting.at = "idle"
  BY DEF NotReporting
<1> USE <1>a, <1>c, <1>d DEF ProcessTypeOK, guest, exits, data, host
<1>1. ASSUME NEW p \in Procs, Spawn(p) PROVE ProcessTypeOK'
  BY <1>b, <1>1 DEF Spawn
<1>2. ASSUME NEW p \in Procs, StartKill(p) PROVE ProcessTypeOK'
  BY <1>b, <1>2 DEF StartKill
<1>3. ASSUME NEW p \in Procs, DropChild(p) PROVE ProcessTypeOK'
  <2>1. calls' \in [{"spawn", "action"} -> Seq(Procs)]
    BY <1>b, <1>3 DEF DropChild
  <2>2. child' = [child EXCEPT ![p] = "dropping"]
        /\ UNCHANGED <<killed, registered, wpc, sender, exits, host, data, main>>
    BY <1>3 DEF DropChild
  <2>3. QED
    BY <2>1, <2>2
<1>4. ASSUME NEW p \in Procs, Unregister(p) PROVE ProcessTypeOK'
  BY <1>4 DEF Unregister
<1>5. ASSUME NEW p \in Procs, WaitArm(p) PROVE ProcessTypeOK'
  BY <1>5 DEF WaitArm
<1>6. ASSUME NEW p \in Procs, WaitLook(p) PROVE ProcessTypeOK'
  BY <1>6 DEF WaitLook
<1>7. ASSUME NEW p \in Procs, WaitPark(p) PROVE ProcessTypeOK'
  BY <1>7 DEF WaitPark
<1>8. ASSUME NEW p \in Procs, Disarm(p) PROVE ProcessTypeOK'
  BY <1>8 DEF Disarm
<1>9. ASSUME NEW p \in Procs, WaitReturn(p) \/ WaitWake(p) \/ WaitCancel(p) PROVE ProcessTypeOK'
  BY <1>8, <1>9 DEF WaitReturn, WaitWake, WaitCancel
<1>10. ASSUME NEW p \in Procs, ProcExits(p) PROVE ProcessTypeOK'
  BY <1>10 DEF ProcExits
<1>11. ASSUME NEW p \in Procs, HostSpawn(p) PROVE ProcessTypeOK'
  <2>1. calls' \in [{"spawn", "action"} -> Seq(Procs)]
    BY <1>b, <1>11 DEF HostSpawn
  <2>2. PICK o \in {"running", "error"} : os' = [os EXCEPT ![p] = o]
    BY <1>11 DEF HostSpawn
  <2>3. hostProcs' = hostProcs \union {p} /\ UNCHANGED <<guest, sender, exits, data, main>>
    BY <1>11 DEF HostSpawn
  <2>4. QED
    BY <2>1, <2>2, <2>3
<1>12. ASSUME NEW p \in Procs, HostSpawnThrows(p) PROVE ProcessTypeOK'
  <2>1. calls' \in [{"spawn", "action"} -> Seq(Procs)]
    BY <1>b, <1>12 DEF HostSpawnThrows
  <2>2. written' \in [Procs -> [Streams -> Nat]] /\ pushed' \in [Procs -> [Streams -> Nat]]
    <3>1. /\ written' = [written EXCEPT ![p]["err"] = @ + 1]
          /\ pushed' = [pushed EXCEPT ![p]["err"] = @ + (IF "err" \in sender[p] THEN 1 ELSE 0)]
      BY <1>12 DEF HostSpawnThrows, Push
    <3>2. written[p]["err"] + 1 \in Nat
      BY <1>a
    <3>3. pushed[p]["err"] + (IF "err" \in sender[p] THEN 1 ELSE 0) \in Nat
      BY <1>a
    <3>4. QED
      BY <1>a, <3>1, <3>2, <3>3
  <2>3. main' = [proc |-> p, at |-> "stdout", code |-> "failed"]
    BY <1>12 DEF HostSpawnThrows, Report
  <2>4. os' = [os EXCEPT ![p] = "unspawned"] /\ UNCHANGED <<guest, sender, exits, hostProcs>>
    BY <1>12 DEF HostSpawnThrows
  <2>5. QED
    BY <2>1, <2>2, <2>3, <2>4
<1>13. ASSUME NEW p \in Procs, ErrorEvent(p) PROVE ProcessTypeOK'
  <2>1. written' \in [Procs -> [Streams -> Nat]] /\ pushed' \in [Procs -> [Streams -> Nat]]
    <3>1. /\ written' = [written EXCEPT ![p]["err"] = @ + 1]
          /\ pushed' = [pushed EXCEPT ![p]["err"] = @ + (IF "err" \in sender[p] THEN 1 ELSE 0)]
      BY <1>13 DEF ErrorEvent, Push
    <3>2. written[p]["err"] + 1 \in Nat
      BY <1>a
    <3>3. pushed[p]["err"] + (IF "err" \in sender[p] THEN 1 ELSE 0) \in Nat
      BY <1>a
    <3>4. QED
      BY <1>a, <3>1, <3>2, <3>3
  <2>2. os' = [os EXCEPT ![p] = "unspawned"]
        /\ UNCHANGED <<guest, sender, exits, calls, hostProcs, main>>
    BY <1>13 DEF ErrorEvent
  <2>3. QED
    BY <2>1, <2>2
<1>14. ASSUME NEW p \in Procs, HostKill(p) PROVE ProcessTypeOK'
  BY <1>b, <1>14 DEF HostKill
<1>15. ASSUME NEW p \in Procs, CloseEvent(p) PROVE ProcessTypeOK'
  BY <1>15 DEF CloseEvent, Report
<1>16. ASSUME NEW p \in Procs, NEW s \in Streams, ProcWrites(p, s) PROVE ProcessTypeOK'
  <2>1. /\ written' = [written EXCEPT ![p][s] = @ + 1]
        /\ UNCHANGED <<guest, sender, exits, calls, host, pushed, main>>
    BY <1>16 DEF ProcWrites
  <2>2. QED
    BY <2>1
<1>17. ASSUME NEW p \in Procs, NEW s \in Streams, DataEvent(p, s) PROVE ProcessTypeOK'
  BY <1>17 DEF DataEvent, Push
<1>18. CASE EofStdout
  BY <1>18 DEF EofStdout, EndOfFile
<1>19. CASE EofStderr
  BY <1>19 DEF EofStderr, EndOfFile
<1>20. CASE ExitLookup
  BY <1>20 DEF ExitLookup
<1>21. CASE ExitStore
  BY <1>21 DEF ExitStore
<1>22. CASE ExitNotify
  BY <1>22 DEF ExitNotify
<1>23. CASE UNCHANGED processVars
  BY <1>23 DEF processVars
<1>24. QED
  BY <1>1, <1>2, <1>3, <1>4, <1>5, <1>6, <1>7, <1>8, <1>9, <1>10, <1>11, <1>12, <1>13,
     <1>14, <1>15, <1>16, <1>17, <1>18, <1>19, <1>20, <1>21, <1>22, <1>23
  DEF ProcessNext, WaitStep, ProcessMainStep


\* Every variable keeps its type; in particular the exit code that proc_exit stores is a
\* number, never the null that Node passes for a process that died of a signal.
THEOREM TypeCorrect == Spec => []ProcessTypeOK
<1>1. QED
  BY ProcessPart, InitTyped, StepTyped, PTL DEF ProcessSpec

-----------------------------------------------------------------------------
(* No missed exit.                                                          *)

\* WaitSeesExit is not inductive, since the look at the code and the park are two steps.
\* It holds from the look on: an exit that came after a look that found nothing has its
\* notify still to come, or the notify has set woken.
WaitGuarded ==
    \A p \in Procs : wpc[p] \in {"looked", "parked"} /\ ~woken[p] /\ code[p] # "none" =>
        main.proc = p /\ main.at = "notify"

LEMMA StepGuarded == ProcessTypeOK /\ WaitGuarded /\ [ProcessNext]_processVars => WaitGuarded'
<1> SUFFICES ASSUME ProcessTypeOK, WaitGuarded, [ProcessNext]_processVars PROVE WaitGuarded'
  OBVIOUS
<1>a. NotReporting.at = "idle"
  BY DEF NotReporting
<1> USE <1>a DEF ProcessTypeOK, WaitGuarded, guest, exits, data, host
<1>1. ASSUME NEW p \in Procs, Spawn(p) PROVE WaitGuarded'
  BY <1>1 DEF Spawn, Call
<1>2. ASSUME NEW p \in Procs, StartKill(p) PROVE WaitGuarded'
  BY <1>2 DEF StartKill, Call
<1>3. ASSUME NEW p \in Procs, DropChild(p) PROVE WaitGuarded'
  BY <1>3 DEF DropChild, Call
<1>4. ASSUME NEW p \in Procs, Unregister(p) PROVE WaitGuarded'
  BY <1>4 DEF Unregister
<1>5. ASSUME NEW p \in Procs, WaitArm(p) PROVE WaitGuarded'
  BY <1>5 DEF WaitArm
<1>6. ASSUME NEW p \in Procs, WaitLook(p) PROVE WaitGuarded'
  BY <1>6 DEF WaitLook
<1>7. ASSUME NEW p \in Procs, WaitPark(p) PROVE WaitGuarded'
  BY <1>7 DEF WaitPark
<1>8. ASSUME NEW p \in Procs, Disarm(p) PROVE WaitGuarded'
  BY <1>8 DEF Disarm
<1>9. ASSUME NEW p \in Procs, WaitReturn(p) \/ WaitWake(p) \/ WaitCancel(p) PROVE WaitGuarded'
  BY <1>8, <1>9 DEF WaitReturn, WaitWake, WaitCancel
<1>10. ASSUME NEW p \in Procs, ProcExits(p) PROVE WaitGuarded'
  BY <1>10 DEF ProcExits
<1>11. ASSUME NEW p \in Procs, HostSpawn(p) PROVE WaitGuarded'
  BY <1>11 DEF HostSpawn
<1>12. ASSUME NEW p \in Procs, HostSpawnThrows(p) PROVE WaitGuarded'
  BY <1>12 DEF HostSpawnThrows, Push, Report, Takes
<1>13. ASSUME NEW p \in Procs, ErrorEvent(p) PROVE WaitGuarded'
  BY <1>13 DEF ErrorEvent, Push
<1>14. ASSUME NEW p \in Procs, HostKill(p) PROVE WaitGuarded'
  BY <1>14 DEF HostKill
<1>15. ASSUME NEW p \in Procs, CloseEvent(p) PROVE WaitGuarded'
  BY <1>15 DEF CloseEvent, Report
<1>16. ASSUME NEW p \in Procs, NEW s \in Streams, ProcWrites(p, s) PROVE WaitGuarded'
  BY <1>16 DEF ProcWrites
<1>17. ASSUME NEW p \in Procs, NEW s \in Streams, DataEvent(p, s) PROVE WaitGuarded'
  BY <1>17 DEF DataEvent, Push
<1>18. CASE EofStdout
  BY <1>18 DEF EofStdout, EndOfFile
<1>19. CASE EofStderr
  BY <1>19 DEF EofStderr, EndOfFile
<1>20. CASE ExitLookup
  BY <1>20 DEF ExitLookup
<1>21. CASE ExitStore
  BY <1>21 DEF ExitStore
<1>22. CASE ExitNotify
  BY <1>22 DEF ExitNotify
<1>23. CASE UNCHANGED processVars
  BY <1>23 DEF processVars
<1>24. QED
  BY <1>1, <1>2, <1>3, <1>4, <1>5, <1>6, <1>7, <1>8, <1>9, <1>10, <1>11, <1>12, <1>13,
     <1>14, <1>15, <1>16, <1>17, <1>18, <1>19, <1>20, <1>21, <1>22, <1>23
  DEF ProcessNext, WaitStep, ProcessMainStep

\* "Cancel-safe, callable repeatedly" (patches-16.1/0016:562): Child::wait never sleeps
\* through the exit report, for any interleaving with proc_exit and any cancellations.
THEOREM WaitNeverMissesExit == Spec => []WaitSeesExit
<1>1. ProcessInit => WaitGuarded
  BY DEF ProcessInit, WaitGuarded
<1>2. WaitGuarded => WaitSeesExit
  BY DEF WaitGuarded, WaitSeesExit
<1>3. QED
  BY ProcessPart, InitTyped, StepTyped, <1>1, <1>2, StepGuarded, PTL DEF ProcessSpec

-----------------------------------------------------------------------------
(* The life of a process.                                                   *)

\* Before the host has run its spawn call, nothing has happened to a process.
Unborn(p) ==
    /\ child[p] = "none" => os[p] = "none" /\ ~Queued("spawn", p) /\ ~killed[p]
    /\ Queued("spawn", p) => os[p] = "none"
    /\ os[p] = "none" =>
        /\ child[p] # "none" => sender[p] = Streams
        /\ main.proc # p /\ p \notin hostProcs /\ code[p] = "none"
        /\ \A s \in Streams : written[p][s] = 0 /\ pushed[p][s] = 0

\* Once an exit report is under way the process is gone and its pipes are drained; its
\* streams end in order, and the code comes last.
Ending(p) ==
    /\ \A s \in Streams : child[p] # "none" /\ s \notin sender[p] =>
           os[p] \in Gone /\ pushed[p][s] = written[p][s]
    /\ main.proc = p => os[p] \in Gone /\ Drained(p)
    /\ main.proc = p /\ main.at \in {"lookup", "store", "notify"} => sender[p] = {}
    /\ main.proc = p /\ main.at = "stderr" => "out" \notin sender[p]
    /\ code[p] # "none" => sender[p] = {} /\ os[p] \in Gone

\* A process is asked for at most once.
Lives == Once(calls["spawn"]) /\ \A p \in Procs : Unborn(p) /\ Ending(p)


LEMMA StepLives == ProcessTypeOK /\ Lives /\ [ProcessNext]_processVars => Lives'
<1> SUFFICES ASSUME ProcessTypeOK, Lives, [ProcessNext]_processVars PROVE Lives'
  OBVIOUS
<1>a. /\ NotReporting.at = "idle" /\ NotReporting.proc = NoProc /\ NoProc \notin Procs
      /\ Streams = {"out", "err"} /\ Gone = {"exited", "signalled", "unspawned"}
  BY ProcessAssumption DEF NotReporting, Streams, Gone
<1>b. Once(calls["spawn"])
  BY DEF Lives
<1>c. ASSUME NEW p \in Procs, HostKill(p), NEW r \in Procs
      PROVE  os'[r] = os[r] \/ (os[r] = "running" /\ os'[r] = "signalled")
  <2>1. os \in [Procs -> Gone \union {"none", "running", "error"}]
    BY DEF ProcessTypeOK
  <2>2. os' = [os EXCEPT ![p] = IF p \in hostProcs /\ os[p] = "running"
                                THEN "signalled" ELSE os[p]]
    BY <1>c DEF HostKill
  <2>3. QED
    BY <2>1, <2>2
<1>d. UNCHANGED calls => \A r \in Procs : Queued("spawn", r)' <=> Queued("spawn", r)
  BY DEF Queued
<1> USE <1>a, <1>d DEF ProcessTypeOK, Lives, Unborn, Ending, Drained, guest, exits, data, host
<1>1. ASSUME NEW p \in Procs, Spawn(p) PROVE Lives'
  <2>1. ~Queued("spawn", p) /\ Call("spawn", p)
    BY <1>1 DEF Spawn
  <2>2. /\ Once(calls'["spawn"])
        /\ \A r \in Procs : Queued("spawn", r)' <=> Queued("spawn", r) \/ r = p
    BY <1>b, <2>1, Calling
  <2>3. QED
    BY <1>1, <2>2 DEF Spawn
<1>2. ASSUME NEW p \in Procs, StartKill(p) PROVE Lives'
  <2>1. Call("action", p)
    BY <1>2 DEF StartKill
  <2>2. /\ Once(calls'["spawn"])
        /\ \A r \in Procs : Queued("spawn", r)' <=> Queued("spawn", r)
    BY <1>b, <2>1, Calling
  <2>3. QED
    BY <1>2, <2>2 DEF StartKill
<1>3. ASSUME NEW p \in Procs, DropChild(p) PROVE Lives'
  <2>1. /\ Once(calls'["spawn"])
        /\ \A r \in Procs : Queued("spawn", r)' <=> Queued("spawn", r)
    <3>1. CASE Call("action", p)
      BY <1>b, <3>1, Calling
    <3>2. CASE calls' = calls
      BY <1>b, <3>2 DEF Queued
    <3>3. QED
      BY <1>3, <3>1, <3>2 DEF DropChild
  <2>2. QED
    BY <1>3, <2>1 DEF DropChild
<1>4. ASSUME NEW p \in Procs, Unregister(p) PROVE Lives'
  BY <1>4 DEF Unregister
<1>5. ASSUME NEW p \in Procs, WaitArm(p) PROVE Lives'
  BY <1>5 DEF WaitArm
<1>6. ASSUME NEW p \in Procs, WaitLook(p) PROVE Lives'
  BY <1>6 DEF WaitLook
<1>7. ASSUME NEW p \in Procs, WaitPark(p) PROVE Lives'
  BY <1>7 DEF WaitPark
<1>8. ASSUME NEW p \in Procs, Disarm(p) PROVE Lives'
  BY <1>8 DEF Disarm
<1>9. ASSUME NEW p \in Procs, WaitReturn(p) \/ WaitWake(p) \/ WaitCancel(p) PROVE Lives'
  BY <1>8, <1>9 DEF WaitReturn, WaitWake, WaitCancel
<1>10. ASSUME NEW p \in Procs, ProcExits(p) PROVE Lives'
  BY <1>10 DEF ProcExits
<1>11. ASSUME NEW p \in Procs, HostSpawn(p) PROVE Lives'
  <2>1. /\ Once(calls'["spawn"])
        /\ \A r \in Procs : Queued("spawn", r)' => Queued("spawn", r)
        /\ Queued("spawn", p) /\ ~Queued("spawn", p)'
    BY <1>b, <1>11, Serving DEF HostSpawn
  <2>2. child[p] # "none" /\ os[p] = "none"
    BY <2>1
  <2>3. QED
    BY <1>11, <2>1, <2>2, SMTT(20) DEF HostSpawn
<1>12. ASSUME NEW p \in Procs, HostSpawnThrows(p) PROVE Lives'
  <2>1. /\ Once(calls'["spawn"])
        /\ \A r \in Procs : Queued("spawn", r)' => Queued("spawn", r)
        /\ Queued("spawn", p) /\ ~Queued("spawn", p)'
    BY <1>b, <1>12, Serving DEF HostSpawnThrows
  <2>2. child[p] # "none" /\ os[p] = "none"
    BY <2>1
  <2>3. QED
    BY <1>12, <2>1, <2>2, SMTT(20) DEF HostSpawnThrows, Push, Report
<1>13. ASSUME NEW p \in Procs, ErrorEvent(p) PROVE Lives'
  BY <1>13 DEF ErrorEvent, Push
<1>14. ASSUME NEW p \in Procs, HostKill(p) PROVE Lives'
  <2>2. /\ Once(calls'["spawn"])
        /\ \A r \in Procs : Queued("spawn", r)' => Queued("spawn", r)
    BY <1>b, <1>14, Serving DEF HostKill
  <2>3. main = NotReporting /\ UNCHANGED <<guest, sender, exits, hostProcs, data, main>>
    BY <1>14 DEF HostKill, Takes
  <2>4. ASSUME NEW r \in Procs PROVE Unborn(r)' /\ Ending(r)'
    <3>1. os'[r] = os[r] \/ (os[r] = "running" /\ os'[r] = "signalled")
      BY <1>c, <1>14
    <3>2. Unborn(r)'
      <4>1. Queued("spawn", r)' => Queued("spawn", r)
        BY <2>2
      <4>2. /\ UNCHANGED <<child, killed, sender, main, hostProcs, code, written, pushed>>
            /\ os'[r] = "none" <=> os[r] = "none"
        BY <2>3, <3>1
      <4>3. Unborn(r)
        OBVIOUS
      <4>4. QED
        BY <4>1, <4>2, <4>3
    <3>3. Ending(r)'
      BY <2>3, <3>1
    <3>4. QED
      BY <3>2, <3>3
  <2>5. QED
    BY <2>2, <2>4
<1>15. ASSUME NEW p \in Procs, CloseEvent(p) PROVE Lives'
  BY <1>15 DEF CloseEvent, Report
<1>16. ASSUME NEW p \in Procs, NEW s \in Streams, ProcWrites(p, s) PROVE Lives'
  <2>1. /\ os[p] = "running" /\ written' = [written EXCEPT ![p][s] = @ + 1]
        /\ UNCHANGED <<guest, sender, exits, calls, host, pushed, main>>
    BY <1>16 DEF ProcWrites
  <2>2. QED
    BY <2>1
<1>17. ASSUME NEW p \in Procs, NEW s \in Streams, DataEvent(p, s) PROVE Lives'
  BY <1>17 DEF DataEvent, Push
<1>18. CASE EofStdout
  BY <1>18 DEF EofStdout, EndOfFile
<1>19. CASE EofStderr
  BY <1>19 DEF EofStderr, EndOfFile
<1>20. CASE ExitLookup
  BY <1>20 DEF ExitLookup
<1>21. CASE ExitStore
  BY <1>21 DEF ExitStore
<1>22. CASE ExitNotify
  BY <1>22 DEF ExitNotify
<1>23. CASE UNCHANGED processVars
  BY <1>23 DEF processVars
<1>24. QED
  BY <1>1, <1>2, <1>3, <1>4, <1>5, <1>6, <1>7, <1>8, <1>9, <1>10, <1>11, <1>12, <1>13,
     <1>14, <1>15, <1>16, <1>17, <1>18, <1>19, <1>20, <1>21, <1>22, <1>23
  DEF ProcessNext, WaitStep, ProcessMainStep

\* "'close' (not 'exit') so stdio is fully drained before EOF+exit" (loader.cjs:435): a
\* stream that the guest sees end has delivered every chunk, and both streams end before
\* the exit code is there, in whatever order the host calls run.
THEOREM OutputFirst == Spec => []OutputPrecedesExit
<1>1. ProcessInit => Lives
  BY ProcessAssumption DEF ProcessInit, Lives, Once, Queued, Unborn, Ending, Drained, NotReporting, Streams
<1>2. Lives => OutputPrecedesExit
  BY DEF Lives, Ending, OutputPrecedesExit
<1>3. QED
  BY ProcessPart, InitTyped, StepTyped, <1>1, <1>2, StepLives, PTL DEF ProcessSpec

-----------------------------------------------------------------------------
(* What the host keeps.                                                     *)

\* The host forgets a process with the second end of file of its report.
Released ==
    \A p \in Procs :
        /\ sender[p] = {} /\ main.proc # p => p \notin hostProcs
        /\ main.proc = p /\ main.at \in {"lookup", "store", "notify"} => p \notin hostProcs

LEMMA StepReleases == ProcessTypeOK /\ Lives /\ Released /\ [ProcessNext]_processVars => Released'
<1> SUFFICES ASSUME ProcessTypeOK, Lives, Released, [ProcessNext]_processVars PROVE Released'
  OBVIOUS
<1>a. /\ NotReporting.at = "idle" /\ NotReporting.proc = NoProc /\ NoProc \notin Procs
      /\ Streams = {"out", "err"}
  BY ProcessAssumption DEF NotReporting, Streams
<1>b. /\ sender \in [Procs -> SUBSET Streams] /\ hostProcs \subseteq Procs
      /\ main # NotReporting => main.proc \in Procs
  BY DEF ProcessTypeOK
<1>c. ASSUME UNCHANGED <<hostProcs, main>>, \A p \in Procs : sender'[p] = {} => sender[p] = {}
      PROVE  Released'
  BY <1>c DEF Released
<1>d. ASSUME main = NotReporting, UNCHANGED <<sender, hostProcs>>, main' = NotReporting \/ main'.at = "stdout"
      PROVE  Released'
  <2>1. \A p \in Procs : main.proc # p
    BY <1>a, <1>d
  <2>2. \A p \in Procs : sender[p] = {} => p \notin hostProcs
    BY <2>1 DEF Released
  <2>3. main'.at \notin {"lookup", "store", "notify"}
    BY <1>a, <1>d
  <2>4. QED
    BY <1>d, <2>2, <2>3 DEF Released
<1>1. ASSUME NEW p \in Procs, Spawn(p) PROVE Released'
  <2>1. /\ sender' = [sender EXCEPT ![p] = Streams] /\ UNCHANGED <<hostProcs, main>>
    BY <1>1 DEF Spawn, host
  <2>2. \A r \in Procs : sender'[r] = {} => sender[r] = {}
    BY <1>a, <1>b, <2>1
  <2>3. QED
    BY <1>c, <2>1, <2>2
<1>2. ASSUME NEW p \in Procs,
             StartKill(p) \/ DropChild(p) \/ Unregister(p) \/ WaitArm(p) \/ WaitStep(p)
               \/ WaitCancel(p) \/ ProcExits(p) \/ \E s \in Streams : ProcWrites(p, s)
      PROVE  Released'
  <2>1. UNCHANGED <<sender, hostProcs, main>>
    BY <1>2 DEF StartKill, DropChild, Unregister, WaitArm, WaitStep, WaitLook, WaitReturn, WaitPark,
                WaitWake, WaitCancel, Disarm, ProcExits, ProcWrites, guest, host
  <2>2. QED
    BY <1>c, <2>1
<1>3. ASSUME NEW p \in Procs, HostSpawn(p) PROVE Released'
  <2>2. Queued("spawn", p)
    BY <1>3, Serving DEF HostSpawn
  <2>3. sender[p] = Streams
    BY <2>2 DEF Lives, Unborn
  <2>4. main = NotReporting /\ hostProcs' = hostProcs \union {p} /\ UNCHANGED <<sender, main>>
    BY <1>3 DEF HostSpawn, Takes
  <2>5. QED
    BY <1>a, <2>3, <2>4 DEF Released
<1>4. ASSUME NEW p \in Procs,
             HostSpawnThrows(p) \/ ErrorEvent(p) \/ HostKill(p) \/ CloseEvent(p)
               \/ \E s \in Streams : DataEvent(p, s)
      PROVE  Released'
  <2>1. main = NotReporting /\ UNCHANGED <<sender, hostProcs>>
    BY <1>4 DEF HostSpawnThrows, ErrorEvent, HostKill, CloseEvent, DataEvent, Takes, host
  <2>2. main' = NotReporting \/ main'.at = "stdout"
    BY <1>4 DEF HostSpawnThrows, ErrorEvent, HostKill, CloseEvent, DataEvent, Report, Takes
  <2>3. QED
    BY <1>d, <2>1, <2>2
<1>5. CASE EofStdout
  <2>1. /\ main.at = "stdout" /\ sender' = [sender EXCEPT ![main.proc] = @ \ {"out"}]
        /\ main' = [main EXCEPT !.at = "stderr"] /\ hostProcs' = hostProcs
    BY <1>5 DEF EofStdout, EndOfFile
  <2>2. main'.proc = main.proc /\ main'.at = "stderr"
    BY <1>a, <1>b, <2>1 DEF ProcessTypeOK, NotReporting
  <2>3. \A r \in Procs : r # main.proc => sender'[r] = sender[r]
    BY <1>b, <2>1
  <2>4. QED
    BY <2>1, <2>2, <2>3 DEF Released
<1>6. CASE EofStderr
  <2>1. /\ main.at = "stderr" /\ sender' = [sender EXCEPT ![main.proc] = @ \ {"err"}]
        /\ main' = [main EXCEPT !.at = "lookup"] /\ hostProcs' = hostProcs \ {main.proc}
    BY <1>6 DEF EofStderr, EndOfFile
  <2>2. main'.proc = main.proc
    BY <1>a, <1>b, <2>1 DEF ProcessTypeOK, NotReporting
  <2>3. \A r \in Procs : r # main.proc => sender'[r] = sender[r]
    BY <1>b, <2>1
  <2>4. QED
    BY <2>1, <2>2, <2>3 DEF Released
<1>7. CASE ExitLookup \/ ExitStore \/ ExitNotify
  <2>1. /\ main.at \in {"lookup", "store", "notify"} /\ UNCHANGED <<sender, hostProcs>>
    BY <1>7 DEF ExitLookup, ExitStore, ExitNotify, guest, host
  <2>2. main' = NotReporting \/ (main'.proc = main.proc /\ main'.at \in {"store", "notify"})
    BY <1>7, <1>a, <1>b, <2>1 DEF ExitLookup, ExitStore, ExitNotify, ProcessTypeOK
  <2>3. QED
    BY <1>a, <2>1, <2>2 DEF Released
<1>8. CASE UNCHANGED processVars
  BY <1>8, <1>c DEF processVars, host
<1>9. QED
  BY <1>1, <1>2, <1>3, <1>4, <1>5, <1>6, <1>7, <1>8 DEF ProcessNext, ProcessMainStep

\* Once its streams have ended and its exit report is over, the host keeps nothing of a
\* process (procs, loader.cjs:410), and the registries are well typed.
THEOREM HostForgets == Spec => []RegistriesAgree
<1>1. ProcessInit => Lives /\ Released
  BY ProcessAssumption DEF ProcessInit, Lives, Once, Queued, Unborn, Ending, Drained, NotReporting, Streams,
                           Released
<1>2. ProcessTypeOK /\ Released => RegistriesAgree
  BY DEF Released, RegistriesAgree, NothingLeft
<1>3. QED
  BY ProcessPart, InitTyped, StepTyped, <1>1, <1>2, StepLives, StepReleases, PTL DEF ProcessSpec

-----------------------------------------------------------------------------
(* Kills.                                                                   *)

\* The host knows every process that runs, so that a kill that is run finds it.
Known == \A p \in Procs : os[p] = "running" => p \in hostProcs

LEMMA StepKnown == ProcessTypeOK /\ Lives /\ Known /\ [ProcessNext]_processVars => Known'
<1> SUFFICES ASSUME ProcessTypeOK, Lives, Known, [ProcessNext]_processVars PROVE Known'
  OBVIOUS
<1>a. os \in [Procs -> Gone \union {"none", "running", "error"}] /\ "running" \notin Gone
  BY DEF ProcessTypeOK, Gone
<1>1. ASSUME NEW p \in Procs,
             Spawn(p) \/ StartKill(p) \/ DropChild(p) \/ Unregister(p) \/ WaitArm(p)
               \/ WaitStep(p) \/ WaitCancel(p) \/ CloseEvent(p)
               \/ \E s \in Streams : ProcWrites(p, s) \/ DataEvent(p, s)
      PROVE  UNCHANGED host
  BY <1>1 DEF Spawn, StartKill, DropChild, Unregister, WaitArm, WaitStep, WaitLook, WaitReturn,
              WaitPark, WaitWake, WaitCancel, Disarm, CloseEvent, ProcWrites, DataEvent
<1>2. ASSUME NEW p \in Procs,
             ProcExits(p) \/ HostSpawn(p) \/ HostSpawnThrows(p) \/ ErrorEvent(p) \/ HostKill(p)
      PROVE  /\ \E o \in Gone \union {"none", "running", "error"} :
                    /\ os' = [os EXCEPT ![p] = o]
                    /\ o = "running" => os[p] = "running" \/ p \in hostProcs'
             /\ hostProcs \subseteq hostProcs'
  <2>1. CASE ProcExits(p)
    BY <2>1 DEF ProcExits, Gone
  <2>2. CASE HostSpawn(p)
    BY <2>2 DEF HostSpawn
  <2>3. CASE HostSpawnThrows(p)
    BY <2>3 DEF HostSpawnThrows, Gone
  <2>4. CASE ErrorEvent(p)
    BY <2>4 DEF ErrorEvent, Gone
  <2>5. CASE HostKill(p)
    BY <1>a, <2>5 DEF HostKill, Gone
  <2>6. QED
    BY <1>2, <2>1, <2>2, <2>3, <2>4, <2>5
<1>3. ASSUME NEW p \in Procs,
             ProcExits(p) \/ HostSpawn(p) \/ HostSpawnThrows(p) \/ ErrorEvent(p) \/ HostKill(p)
      PROVE  Known'
  BY <1>a, <1>2, <1>3 DEF Known
<1>4. CASE EofStderr
  <2>1. hostProcs' = hostProcs \ {main.proc} /\ os' = os
    BY <1>4 DEF EofStderr, EndOfFile
  <2>2. \A p \in Procs : main.proc = p => os[p] \in Gone
    BY DEF Lives, Ending
  <2>3. QED
    BY <1>a, <2>1, <2>2 DEF Known
<1>5. CASE EofStdout \/ ExitLookup \/ ExitStore \/ ExitNotify \/ UNCHANGED processVars
  BY <1>5 DEF EofStdout, EndOfFile, ExitLookup, ExitStore, ExitNotify, processVars, host, Known
<1>6. QED
  BY <1>1, <1>3, <1>4, <1>5 DEF ProcessNext, ProcessMainStep, Known, host

LEMMA StepMisses ==
    ProcessTypeOK /\ Lives /\ Known /\ [ProcessNext]_processVars =>
        [\A p \in Procs : MissedKill(p)' /\ ~MissedKill(p) => os[p] = "none"]_processVars
<1> SUFFICES ASSUME ProcessTypeOK, Lives, Known, ProcessNext, NEW p \in Procs,
                    MissedKill(p)', ~MissedKill(p), os[p] # "none"
             PROVE  FALSE
  OBVIOUS
<1>a. /\ os \in [Procs -> Gone \union {"none", "running", "error"}]
      /\ child \in [Procs -> {"none", "owned", "dropping", "dropped"}]
      /\ killed \in [Procs -> BOOLEAN] /\ Gone = {"exited", "signalled", "unspawned"}
  BY DEF ProcessTypeOK, Gone
<1>b. os'[p] = "running" /\ ~Queued("action", p)'
      /\ (killed'[p] \/ child'[p] \in {"dropping", "dropped"})
  BY DEF MissedKill
\* The process ran before: only a spawn call starts one, and there was none left.
<1>1. os[p] = "running"
  <2>1. ASSUME os[p] # "running" PROVE HostSpawn(p)
    <3>1. \E r \in Procs : ProcExits(r) \/ HostSpawn(r) \/ HostSpawnThrows(r) \/ ErrorEvent(r)
                             \/ HostKill(r)
      <4>1. os' # os
        BY <1>b, <2>1
      <4>2. QED
        BY <4>1 DEF ProcessNext, ProcessMainStep, Spawn, StartKill, DropChild, Unregister, WaitArm,
              WaitStep, WaitLook, WaitReturn, WaitPark, WaitWake, WaitCancel, Disarm, CloseEvent,
              ProcWrites, DataEvent, EofStdout, EofStderr, EndOfFile, ExitLookup, ExitStore,
              ExitNotify, host
    <3>2. PICK r \in Procs : ProcExits(r) \/ HostSpawn(r) \/ HostSpawnThrows(r) \/ ErrorEvent(r)
                              \/ HostKill(r)
      BY <3>1
    <3>3. \E o : os' = [os EXCEPT ![r] = o] /\ (o = "running" /\ os[r] # "running" => HostSpawn(r))
      BY <1>a, <3>2 DEF ProcExits, HostSpawn, HostSpawnThrows, ErrorEvent, HostKill
    <3>4. QED
      BY <1>a, <1>b, <2>1, <3>3
  <2>2. HostSpawn(p) => Queued("spawn", p)
    BY Serving DEF HostSpawn
  <2>3. Queued("spawn", p) => os[p] = "none"
    BY DEF Lives, Unborn
  <2>4. QED
    BY <2>1, <2>2, <2>3
\* It was to go and its kill was on the way: the kill has run, and has found it.
<1>2. CASE Queued("action", p)
  <2>1. calls' # calls
    BY <1>b, <1>2 DEF Queued
  <2>2. \A r \in Procs, f \in {"spawn", "action"} : Call(f, r) => Queued("action", p)'
    BY <1>2, Calling
  <2>3. \E r \in Procs : HostSpawn(r) \/ HostSpawnThrows(r) \/ HostKill(r)
    <3>1. ~(\E r \in Procs : Spawn(r) \/ StartKill(r) \/ DropChild(r))
      BY <1>b, <2>1, <2>2 DEF Spawn, StartKill, DropChild
    <3>2. QED
      BY <2>1, <3>1 DEF ProcessNext, ProcessMainStep, Unregister, WaitArm, WaitStep, WaitLook,
            WaitReturn, WaitPark, WaitWake, WaitCancel, Disarm, ProcExits, CloseEvent, ErrorEvent,
            ProcWrites, DataEvent, EofStdout, EofStderr, EndOfFile, ExitLookup, ExitStore,
            ExitNotify
  <2>4. PICK r \in Procs : HostSpawn(r) \/ HostSpawnThrows(r) \/ HostKill(r)
    BY <2>3
  <2>5. HostKill(r) /\ r = p
    BY <1>2, <1>b, <2>4, Serving DEF HostSpawn, HostSpawnThrows, HostKill
  <2>6. os' = [os EXCEPT ![p] = "signalled"]
    BY <1>1, <2>5 DEF HostKill, Known
  <2>7. QED
    BY <1>a, <1>b, <2>6
\* Nobody wanted it to go before: whoever does so now asks for a kill.
<1>3. CASE ~killed[p] /\ child[p] \notin {"dropping", "dropped"}
  <2>1. StartKill(p) \/ DropChild(p)
    <3>1. killed' # killed \/ child' # child
      BY <1>b, <1>3
    <3>2. PICK r \in Procs : Spawn(r) \/ StartKill(r) \/ DropChild(r) \/ Unregister(r)
      BY <3>1 DEF ProcessNext, ProcessMainStep, WaitArm, WaitStep, WaitLook, WaitReturn, WaitPark,
            WaitWake, WaitCancel, Disarm, ProcExits, CloseEvent, ErrorEvent, ProcWrites, DataEvent,
            HostSpawn, HostSpawnThrows, HostKill, EofStdout, EofStderr, EndOfFile, ExitLookup,
            ExitStore, ExitNotify, guest
    <3>3. QED
      BY <1>a, <1>b, <1>3, <3>2 DEF Spawn, StartKill, DropChild, Unregister
  <2>2. code[p] = "none"
    <3>1. code[p] # "none" => os[p] \in Gone
      BY DEF Lives, Ending
    <3>2. QED
      BY <1>1, <1>a, <3>1
  <2>3. Call("action", p)
    BY <1>3, <2>1, <2>2 DEF StartKill, DropChild
  <2>4. QED
    BY <1>b, <2>3, Calling
<1>4. QED
  BY <1>1, <1>2, <1>3 DEF MissedKill

\* "Bridged children are always killed on drop" (patches-16.1/0016:460) holds but for one
\* race: whatever the order in which host calls run, a process that its guest wants gone is
\* running with no kill on its way only if the kill ran before the spawn.
THEOREM KillsMissNothingElse == Spec => KillsMissOnlySpawns
<1>1. ProcessInit => Lives /\ Known
  BY ProcessAssumption DEF ProcessInit, Lives, Once, Queued, Unborn, Ending, Drained, NotReporting,
                           Streams, Known
<1>2. ProcessTypeOK /\ Lives /\ Known /\ [ProcessNext]_processVars =>
          ProcessTypeOK' /\ Lives' /\ Known'
  BY StepTyped, StepLives, StepKnown
<1>3. QED
  BY ProcessPart, InitTyped, <1>1, <1>2, StepMisses, PTL DEF ProcessSpec, KillsMissOnlySpawns
=============================================================================
