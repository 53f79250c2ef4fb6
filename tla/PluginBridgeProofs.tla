------------------------- MODULE PluginBridgeProofs -------------------------
(***************************************************************************)
(* Proofs about PluginBridge, for any threads, addresses and bounds.       *)
(***************************************************************************)
EXTENDS PluginBridgeImpl, SequenceTheorems, TLAPS

\* Free marks the queued signals of the freed instance; the queue keeps its type.
LEMMA DangleType ==
    ASSUME NEW q \in Seq(Signals), NEW a
    PROVE  [i \in DOMAIN q |-> Dangle(q[i], a)] \in Seq(Signals)
<1> DEFINE r == [i \in DOMAIN q |-> Dangle(q[i], a)]
<1>1. DOMAIN q = 1 .. Len(q) /\ Len(q) \in Nat
  OBVIOUS
<1>2. \A m \in Signals : Dangle(m, a) \in Signals
  BY DEF Signals, Dangle
<1>3. \A i \in 1 .. Len(q) : q[i] \in Signals
  OBVIOUS
<1>4. r \in [1 .. Len(q) -> Signals]
  BY <1>1, <1>2, <1>3
<1>5. QED
  BY <1>1, <1>4

LEMMA DangleOne ==
    ASSUME NEW a \in Addrs
    PROVE  /\ \A m \in Signals : Dangle(m, a) \in Signals
           /\ Dangle(NoSignal, a) = NoSignal
<1>1. \A m \in Signals : Dangle(m, a) \in Signals
  BY DEF Signals, Dangle
<1>2. NoSignal.addr # a
  BY BridgeAssumption DEF NoSignal
<1>3. QED
  BY <1>1, <1>2 DEF Dangle

-----------------------------------------------------------------------------
(* Type correctness and wiring.                                             *)

\* A thread in a call has a channel of its own, and the worker in serveChannel has
\* a message: what makes every access of the model one to an existing Channel.
Wiring ==
    /\ \A t \in Threads : tpc[t] # "idle" => tch[t] \in Addrs /\ owner[tch[t]] = t
    /\ \A t \in Threads : tpc[t] = "idle" => tch[t] = NoAddr /\ tstage[t] = "new"
    /\ \A t \in Threads : tstage[t] = "new" => tpc[t] \in {"idle", "start", "hand"}
    /\ ppc \notin {"idle", "dead"} => pmsg \in Signals
    /\ ppc = "idle" => pmsg = NoSignal

LEMMA InitWired == Init => TypeOK /\ Wiring
BY BridgeAssumption DEF Init, TypeOK, Wiring, Turns, Ops, ThreadPCs, Frames, Stages, DriverPCs,
   NoSignal

LEMMA StepWired == TypeOK /\ Wiring /\ [Next]_vars => TypeOK' /\ Wiring'
<1> SUFFICES ASSUME TypeOK, Wiring, [Next]_vars PROVE TypeOK' /\ Wiring'
  OBVIOUS
<1>a. /\ {"P", "T"} \subseteq Turns
      /\ {"none", "INIT", "TRANSFORM", "CLOSE", "IMPORT", "CALLER", "DONE", "ERROR", "junk"}
          \subseteq Ops
      /\ {"idle", "start", "hand", "notify", "check", "wait", "asleep", "read", "closure",
          "top", "drop", "free", "crashed"} \subseteq ThreadPCs
      /\ Frames = {"serve", "closure", "top"}
      /\ {"new", "init", "ready", "transform", "done", "closing"} \subseteq Stages
      /\ {"idle", "check", "wait", "asleep", "read", "act", "plugin", "hand", "notify", "dead"}
          \subseteq DriverPCs
  BY DEF Turns, Ops, ThreadPCs, Frames, Stages, DriverPCs
<1>b. NoAddr \notin Addrs /\ NoThread \notin Threads
  BY BridgeAssumption
<1>c. \A m \in Signals : m.addr \in Addrs
  BY DEF Signals
<1> USE <1>a, <1>b DEF TypeOK, Wiring, memory, thread, host, driver
<1>d. ASSUME Fail, ppc \in {"act", "plugin"} PROVE TypeOK' /\ Wiring'
  BY <1>c, <1>d DEF Fail, Answer, PGoto
<1>1. ASSUME NEW t \in Threads, AllocChannel(t) PROVE TypeOK' /\ Wiring'
  BY <1>1 DEF AllocChannel, Goto
<1>2. ASSUME NEW t \in Threads, Start(t) PROVE TypeOK' /\ Wiring'
  BY <1>2 DEF Start, Goto, Request, Signals
<1>3. ASSUME NEW t \in Threads, HandOff(t) PROVE TypeOK' /\ Wiring'
  BY <1>3 DEF HandOff, Goto
<1>4. ASSUME NEW t \in Threads, Notify(t) PROVE TypeOK' /\ Wiring'
  BY <1>4 DEF Notify, Goto
<1>5. ASSUME NEW t \in Threads, ParkCheck(t) PROVE TypeOK' /\ Wiring'
  BY <1>5 DEF ParkCheck, Goto
<1>6. ASSUME NEW t \in Threads, ParkWait(t) PROVE TypeOK' /\ Wiring'
  BY <1>6 DEF ParkWait, Goto
<1>7. ASSUME NEW t \in Threads, ServeDone(t) PROVE TypeOK' /\ Wiring'
  BY <1>7 DEF ServeDone, Goto
<1>8. ASSUME NEW t \in Threads, ServeBail(t) PROVE TypeOK' /\ Wiring'
  BY <1>8 DEF ServeBail, Goto
<1>9. ASSUME NEW t \in Threads, ServeImport(t) PROVE TypeOK' /\ Wiring'
  BY <1>9 DEF ServeImport, Goto
<1>10. ASSUME NEW t \in Threads, RequestDone(t) PROVE TypeOK' /\ Wiring'
  BY <1>10 DEF RequestDone, Goto
<1>11. ASSUME NEW t \in Threads, RequestBail(t) PROVE TypeOK' /\ Wiring'
  BY <1>11 DEF RequestBail, Goto
<1>12. ASSUME NEW t \in Threads, CallerRequest(t) PROVE TypeOK' /\ Wiring'
  BY <1>12 DEF CallerRequest, Goto, Request
<1>13. ASSUME NEW t \in Threads, ClosureReturn(t) PROVE TypeOK' /\ Wiring'
  BY <1>13 DEF ClosureReturn, Goto, Request
<1>14. ASSUME NEW t \in Threads, Transform(t) PROVE TypeOK' /\ Wiring'
  BY <1>14 DEF Transform, Goto, Request
<1>15. ASSUME NEW t \in Threads, Finish(t) PROVE TypeOK' /\ Wiring'
  BY <1>15 DEF Finish, Goto
<1>16. ASSUME NEW t \in Threads, Drop(t) PROVE TypeOK' /\ Wiring'
  <2>1. CASE tstage[t] = "init"
    <3>1. /\ Goto(t, "free")
          /\ UNCHANGED <<turn, op, mod, owner, tch, tctx, tstage, ran, host, driver>>
      BY <1>16, <2>1 DEF Drop
    <3>2. tpc[t] = "drop"
      BY <1>16 DEF Drop
    <3>3. TypeOK'
      BY <3>1 DEF Goto
    <3>4. Wiring'
      BY <3>1, <3>2 DEF Goto
    <3>5. QED
      BY <3>3, <3>4
  <2>2. CASE tstage[t] # "init"
    <3>0. Request(t, "CLOSE", "serve") /\ tstage' = [tstage EXCEPT ![t] = "closing"]
      BY <1>16, <2>2 DEF Drop
    <3>a. op' \in [Addrs -> Ops] /\ tctx' \in [Threads -> Frames]
      BY <3>0 DEF Request
    <3>b. tstage' \in [Threads -> Stages]
      BY <3>0
    <3>c. tpc' \in [Threads -> ThreadPCs]
      BY <3>0 DEF Request, Goto
    <3>1. TypeOK'
      BY <1>16, <3>a, <3>b, <3>c DEF Drop
    <3>2. Wiring'
      BY <1>16, <2>2 DEF Drop, Goto, Request
    <3>3. QED
      BY <3>1, <3>2
  <2>3. QED
    BY <2>1, <2>2
<1>17. ASSUME NEW t \in Threads, Free(t) PROVE TypeOK' /\ Wiring'
  <2>1. tsfn' \in Seq(Signals) /\ inbox' \in Seq(Signals)
    <3>1. /\ tsfn' = [i \in DOMAIN tsfn |-> Dangle(tsfn[i], tch[t])]
          /\ inbox' = [i \in DOMAIN inbox |-> Dangle(inbox[i], tch[t])]
      BY <1>17 DEF Free
    <3>2. tsfn \in Seq(Signals) /\ inbox \in Seq(Signals)
      OBVIOUS
    <3>3. QED
      BY ONLY <3>1, <3>2, DangleType
  <2>2. pmsg' \in Signals \union {NoSignal} /\ (pmsg \in Signals => pmsg' \in Signals)
        /\ (pmsg = NoSignal => pmsg' = NoSignal)
    BY <1>17, DangleOne DEF Free
  <2>3. tch[t] \in Addrs /\ \A u \in Threads : u # t => tch[u] # tch[t]
    <3>1. tch[t] \in Addrs /\ owner[tch[t]] = t
      BY <1>17 DEF Free
    <3>2. \A u \in Threads : tch[u] = tch[t] => owner[tch[t]] = u
      BY <3>1
    <3>3. QED
      BY <3>1, <3>2
  <2>4. TypeOK'
    BY <1>17, <2>1, <2>2, <2>3 DEF Free, Goto
  <2>5. Wiring'
    BY <1>17, <2>2, <2>3 DEF Free, Goto
  <2>6. QED
    BY <2>4, <2>5
<1>18. CASE ForwardSignal
  BY <1>c, <1>18 DEF ForwardSignal
<1>19. CASE WorkerDies
  BY <1>c, <1>19 DEF WorkerDies
<1>20. CASE Accept
  <2>1. Head(inbox) \in Signals /\ Tail(inbox) \in Seq(Signals)
    BY <1>20, HeadTailProperties DEF Accept
  <2>2. QED
    BY <1>20, <2>1 DEF Accept, PGoto
<1>21. CASE WaitCheck
  BY <1>c, <1>21 DEF WaitCheck, PGoto
<1>22. CASE WaitPark
  BY <1>c, <1>22 DEF WaitPark, PGoto
<1>23. CASE ReadOp
  BY <1>c, <1>23 DEF ReadOp, PGoto
<1>24. CASE ActInit
  BY <1>c, <1>24 DEF ActInit, PGoto
<1>25. CASE ActTransform
  BY <1>c, <1>25 DEF ActTransform, PGoto
<1>26. CASE ServiceCaller
  BY <1>c, <1>26 DEF ServiceCaller, PGoto, Answer
<1>27. CASE CallerTrap
  BY <1>d, <1>27 DEF CallerTrap
<1>28. CASE ActClose
  BY <1>c, <1>28 DEF ActClose, PGoto
<1>29. CASE ActUnexpected
  BY <1>d, <1>29 DEF ActUnexpected
<1>30. CASE ImportReturn
  BY <1>c, <1>30 DEF ImportReturn, PGoto
<1>31. CASE PluginImport
  BY <1>c, <1>31 DEF PluginImport, PGoto, Answer
<1>32. CASE PluginReturn
  BY <1>c, <1>32 DEF PluginReturn, PGoto, Answer
<1>33. CASE PluginTrap
  BY <1>d, <1>33 DEF PluginTrap
<1>34. CASE HandToT
  BY <1>c, <1>34 DEF HandToT, PGoto
<1>35. CASE NotifyT
  BY <1>c, <1>35 DEF NotifyT, PGoto
<1>36. CASE UNCHANGED vars
  BY <1>36 DEF vars
<1>37. QED
  BY <1>1, <1>2, <1>3, <1>4, <1>5, <1>6, <1>7, <1>8, <1>9, <1>10, <1>11, <1>12, <1>13,
     <1>14, <1>15, <1>16, <1>17, <1>18, <1>19, <1>20, <1>21, <1>22, <1>23, <1>24,
     <1>25, <1>26, <1>27, <1>28, <1>29, <1>30, <1>31, <1>32, <1>33, <1>34, <1>35, <1>36
  DEF Next, ThreadStep, DriverStep

\* Every variable of the bridge keeps its type: in particular the Channel accesses of
\* both parties (patches/0026 and swc-plugin-worker.mjs) store known opcodes only.
THEOREM TypeCorrect == Spec => []TypeOK
<1>1. Init => TypeOK /\ Wiring
  BY InitWired
<1>2. TypeOK /\ Wiring /\ [Next]_vars => TypeOK' /\ Wiring'
  BY StepWired
<1>3. QED
  BY <1>1, <1>2, PTL DEF Spec

-----------------------------------------------------------------------------
(* The rendezvous: alternation, and no lost wakeup on the worker's side.     *)

\* Two threads in a call never share a channel.
LEMMA OwnChannel ==
    ASSUME TypeOK, Wiring, NEW t \in Threads, NEW u \in Threads, tpc[t] # "idle", u # t
    PROVE  tch[t] \in Addrs /\ tch[u] # tch[t]
<1>1. tch[t] \in Addrs /\ owner[tch[t]] = t
  BY DEF Wiring
<1>2. tch[u] = tch[t] => owner[tch[t]] = u
  BY <1>1, BridgeAssumption DEF Wiring
<1>3. QED
  BY <1>1, <1>2

\* TURN is what keeps the parties apart.  The stores of turn are HandOff and HandToT, by
\* whoever holds it; a party starts to act only on finding its own value there.
LEMMA StepAlternates ==
    TypeOK /\ Wiring /\ StrictAlternation /\ [Next]_vars => StrictAlternation'
<1> SUFFICES ASSUME TypeOK, Wiring, StrictAlternation, [Next]_vars,
                    NEW u \in Threads, tstage'[u] # "new"
             PROVE  /\ ThreadActs(u)' => turn'[tch'[u]] = "T"
                    /\ DriverActsOn(tch[u])' => turn'[tch'[u]] = "P" /\ ~ThreadActs(u)'
  BY DEF StrictAlternation
<1> DEFINE Goal == /\ ThreadActs(u)' => turn'[tch'[u]] = "T"
                   /\ DriverActsOn(tch[u])' => turn'[tch'[u]] = "P" /\ ~ThreadActs(u)'
<1>a. tpc[u] = "idle" => tstage[u] = "new"
  BY DEF Wiring
<1>b. \A t \in Threads : tpc[t] # "idle" /\ u # t => tch[t] \in Addrs /\ tch[u] # tch[t]
  BY OwnChannel
<1>c. tpc[u] # "idle" => tch[u] \in Addrs /\ owner[tch[u]] = u
  BY DEF Wiring
<1>d. NoThread \notin Threads
  BY BridgeAssumption
<1>e. tstage[u] = "new" => tpc[u] \in {"idle", "start", "hand"}
  BY DEF Wiring
<1> USE <1>a, <1>b, <1>c, <1>d, <1>e
    DEF TypeOK, StrictAlternation, ThreadActs, DriverActsOn, memory, thread, host, driver
<1>1. ASSUME NEW t \in Threads, AllocChannel(t) PROVE Goal
  BY <1>1 DEF AllocChannel, Goto
<1>2. ASSUME NEW t \in Threads, Start(t) PROVE Goal
  BY <1>2 DEF Start, Goto, Request
<1>3. ASSUME NEW t \in Threads, HandOff(t) PROVE Goal
  BY <1>3 DEF HandOff, Goto
<1>4. ASSUME NEW t \in Threads, Notify(t) PROVE Goal
  BY <1>4 DEF Notify, Goto
<1>5. ASSUME NEW t \in Threads, ParkCheck(t) PROVE Goal
  BY <1>5 DEF ParkCheck, Goto
<1>6. ASSUME NEW t \in Threads, ParkWait(t) PROVE Goal
  BY <1>6 DEF ParkWait, Goto
<1>7. ASSUME NEW t \in Threads, ServeDone(t) PROVE Goal
  BY <1>7 DEF ServeDone, Goto
<1>8. ASSUME NEW t \in Threads, ServeBail(t) PROVE Goal
  BY <1>8 DEF ServeBail, Goto
<1>9. ASSUME NEW t \in Threads, ServeImport(t) PROVE Goal
  BY <1>9 DEF ServeImport, Goto
<1>10. ASSUME NEW t \in Threads, RequestDone(t) PROVE Goal
  BY <1>10 DEF RequestDone, Goto
<1>11. ASSUME NEW t \in Threads, RequestBail(t) PROVE Goal
  BY <1>11 DEF RequestBail, Goto
<1>12. ASSUME NEW t \in Threads, CallerRequest(t) PROVE Goal
  BY <1>12 DEF CallerRequest, Goto, Request
<1>13. ASSUME NEW t \in Threads, ClosureReturn(t) PROVE Goal
  BY <1>13 DEF ClosureReturn, Goto, Request
<1>14. ASSUME NEW t \in Threads, Transform(t) PROVE Goal
  BY <1>14 DEF Transform, Goto, Request
<1>15. ASSUME NEW t \in Threads, Finish(t) PROVE Goal
  BY <1>15 DEF Finish, Goto
<1>16. ASSUME NEW t \in Threads, Drop(t) PROVE Goal
  <2>1. CASE tstage[t] = "init"
    BY <1>16, <2>1 DEF Drop, Goto
  <2>2. CASE tstage[t] # "init"
    <3>1. Goto(t, "hand") /\ tstage' = [tstage EXCEPT ![t] = "closing"]
      BY <1>16, <2>2 DEF Drop, Request
    <3>2. tpc[t] = "drop" /\ UNCHANGED <<turn, tch, ppc, pmsg>>
      BY <1>16 DEF Drop
    <3>3. QED
      BY <3>1, <3>2 DEF Goto
  <2>3. QED
    BY <2>1, <2>2
<1>17. ASSUME NEW t \in Threads, Free(t) PROVE Goal
  BY <1>17 DEF Free, Goto, Dangle
<1>18. CASE ForwardSignal
  BY <1>18 DEF ForwardSignal
<1>19. CASE WorkerDies
  BY <1>19 DEF WorkerDies
<1>20. CASE Accept
  BY <1>20 DEF Accept, PGoto
<1>21. CASE WaitCheck
  BY <1>21 DEF WaitCheck, PGoto
<1>22. CASE WaitPark
  BY <1>22 DEF WaitPark, PGoto
<1>23. CASE ReadOp
  BY <1>23 DEF ReadOp, PGoto
<1>24. CASE ActInit
  BY <1>24 DEF ActInit, PGoto
<1>25. CASE ActTransform
  BY <1>25 DEF ActTransform, PGoto
<1>26. CASE ServiceCaller
  BY <1>26 DEF ServiceCaller, PGoto, Answer
<1>27. CASE CallerTrap
  BY <1>27 DEF CallerTrap, PGoto, Fail, Answer
<1>28. CASE ActClose
  BY <1>28 DEF ActClose, PGoto
<1>29. CASE ActUnexpected
  BY <1>29 DEF ActUnexpected, PGoto, Fail, Answer
<1>30. CASE ImportReturn
  BY <1>30 DEF ImportReturn, PGoto
<1>31. CASE PluginImport
  BY <1>31 DEF PluginImport, PGoto, Answer
<1>32. CASE PluginReturn
  BY <1>32 DEF PluginReturn, PGoto, Answer
<1>33. CASE PluginTrap
  BY <1>33 DEF PluginTrap, PGoto, Fail, Answer
<1>34. CASE HandToT
  BY <1>34 DEF HandToT, PGoto
<1>35. CASE NotifyT
  BY <1>35 DEF NotifyT, PGoto
<1>36. CASE UNCHANGED vars
  BY <1>36 DEF vars
<1>37. QED
  BY <1>1, <1>2, <1>3, <1>4, <1>5, <1>6, <1>7, <1>8, <1>9, <1>10, <1>11, <1>12, <1>13,
     <1>14, <1>15, <1>16, <1>17, <1>18, <1>19, <1>20, <1>21, <1>22, <1>23, <1>24,
     <1>25, <1>26, <1>27, <1>28, <1>29, <1>30, <1>31, <1>32, <1>33, <1>34, <1>35, <1>36
  DEF Next, ThreadStep, DriverStep

\* A sleeping worker is woken: only HandOff stores "P" in the word it sleeps on, and the
\* thread then stands at its notify; only Free takes the word away, and the message dies.
LEMMA StepWakes ==
    TypeOK /\ Wiring /\ WorkerSeesEveryHandOff /\ [Next]_vars => WorkerSeesEveryHandOff'
<1> SUFFICES ASSUME TypeOK, Wiring, WorkerSeesEveryHandOff, [Next]_vars,
                    ppc' = "asleep", pmsg'.live
             PROVE  \/ turn'[pmsg'.addr] = "T"
                    \/ \E u \in Threads : tch'[u] = pmsg'.addr /\ tpc'[u] = "notify"
  BY DEF WorkerSeesEveryHandOff
<1> DEFINE Goal == \/ turn'[pmsg'.addr] = "T"
                   \/ \E u \in Threads : tch'[u] = pmsg'.addr /\ tpc'[u] = "notify"
<1>a. \A t \in Threads : tpc[t] # "idle" => tch[t] \in Addrs /\ owner[tch[t]] = t
  BY DEF Wiring
<1>b. ppc = "asleep" => pmsg \in Signals /\ pmsg.addr \in Addrs
  BY DEF Wiring, Signals
<1> USE <1>a, <1>b DEF TypeOK, WorkerSeesEveryHandOff, memory, thread, host, driver
<1>1. ASSUME NEW t \in Threads, AllocChannel(t) PROVE Goal
  BY <1>1 DEF AllocChannel, Goto
<1>2. ASSUME NEW t \in Threads, Start(t) PROVE Goal
  BY <1>2 DEF Start, Goto, Request
<1>3. ASSUME NEW t \in Threads, HandOff(t) PROVE Goal
  BY <1>3 DEF HandOff, Goto
<1>4. ASSUME NEW t \in Threads, Notify(t) PROVE Goal
  BY <1>4 DEF Notify, Goto
<1>5. ASSUME NEW t \in Threads, ParkCheck(t) PROVE Goal
  BY <1>5 DEF ParkCheck, Goto
<1>6. ASSUME NEW t \in Threads, ParkWait(t) PROVE Goal
  BY <1>6 DEF ParkWait, Goto
<1>7. ASSUME NEW t \in Threads, ServeDone(t) PROVE Goal
  BY <1>7 DEF ServeDone, Goto
<1>8. ASSUME NEW t \in Threads, ServeBail(t) PROVE Goal
  BY <1>8 DEF ServeBail, Goto
<1>9. ASSUME NEW t \in Threads, ServeImport(t) PROVE Goal
  BY <1>9 DEF ServeImport, Goto
<1>10. ASSUME NEW t \in Threads, RequestDone(t) PROVE Goal
  BY <1>10 DEF RequestDone, Goto
<1>11. ASSUME NEW t \in Threads, RequestBail(t) PROVE Goal
  BY <1>11 DEF RequestBail, Goto
<1>12. ASSUME NEW t \in Threads, CallerRequest(t) PROVE Goal
  BY <1>12 DEF CallerRequest, Goto, Request
<1>13. ASSUME NEW t \in Threads, ClosureReturn(t) PROVE Goal
  BY <1>13 DEF ClosureReturn, Goto, Request
<1>14. ASSUME NEW t \in Threads, Transform(t) PROVE Goal
  BY <1>14 DEF Transform, Goto, Request
<1>15. ASSUME NEW t \in Threads, Finish(t) PROVE Goal
  BY <1>15 DEF Finish, Goto
<1>16. ASSUME NEW t \in Threads, Drop(t) PROVE Goal
  BY <1>16 DEF Drop, Goto, Request
<1>17. ASSUME NEW t \in Threads, Free(t) PROVE Goal
  BY <1>17 DEF Free, Goto, Dangle
<1>18. CASE ForwardSignal
  BY <1>18 DEF ForwardSignal
<1>19. CASE WorkerDies
  BY <1>19 DEF WorkerDies
<1>20. CASE Accept
  BY <1>20 DEF Accept, PGoto
<1>21. CASE WaitCheck
  BY <1>21 DEF WaitCheck, PGoto
<1>22. CASE WaitPark
  BY <1>22 DEF WaitPark, PGoto
<1>23. CASE ReadOp
  BY <1>23 DEF ReadOp, PGoto
<1>24. CASE ActInit
  BY <1>24 DEF ActInit, PGoto
<1>25. CASE ActTransform
  BY <1>25 DEF ActTransform, PGoto
<1>26. CASE ServiceCaller
  BY <1>26 DEF ServiceCaller, PGoto, Answer
<1>27. CASE CallerTrap
  BY <1>27 DEF CallerTrap, PGoto, Fail, Answer
<1>28. CASE ActClose
  BY <1>28 DEF ActClose, PGoto
<1>29. CASE ActUnexpected
  BY <1>29 DEF ActUnexpected, PGoto, Fail, Answer
<1>30. CASE ImportReturn
  BY <1>30 DEF ImportReturn, PGoto
<1>31. CASE PluginImport
  BY <1>31 DEF PluginImport, PGoto, Answer
<1>32. CASE PluginReturn
  BY <1>32 DEF PluginReturn, PGoto, Answer
<1>33. CASE PluginTrap
  BY <1>33 DEF PluginTrap, PGoto, Fail, Answer
<1>34. CASE HandToT
  BY <1>34 DEF HandToT, PGoto
<1>35. CASE NotifyT
  BY <1>35 DEF NotifyT, PGoto
<1>36. CASE UNCHANGED vars
  BY <1>36 DEF vars
<1>37. QED
  BY <1>1, <1>2, <1>3, <1>4, <1>5, <1>6, <1>7, <1>8, <1>9, <1>10, <1>11, <1>12, <1>13,
     <1>14, <1>15, <1>16, <1>17, <1>18, <1>19, <1>20, <1>21, <1>22, <1>23, <1>24,
     <1>25, <1>26, <1>27, <1>28, <1>29, <1>30, <1>31, <1>32, <1>33, <1>34, <1>35, <1>36
  DEF Next, ThreadStep, DriverStep

\* The two parties strictly alternate on the channel via TURN (patches/0026:482), for any
\* number of threads, addresses, reuses and failures.
THEOREM Alternation == Spec => []StrictAlternation
<1>1. Init => TypeOK /\ Wiring /\ StrictAlternation
  BY InitWired DEF Init, StrictAlternation
<1>2. TypeOK /\ Wiring /\ StrictAlternation /\ [Next]_vars =>
          (TypeOK /\ Wiring /\ StrictAlternation)'
  BY StepWired, StepAlternates
<1>3. QED
  BY <1>1, <1>2, PTL DEF Spec

\* "Check-then-wait so a notify delivered before we parked isn't missed"
\* (swc-plugin-worker.mjs:153): the worker never sleeps through a hand-off.
THEOREM WorkerWakes == Spec => []WorkerSeesEveryHandOff
<1>1. Init => TypeOK /\ Wiring /\ WorkerSeesEveryHandOff
  BY InitWired DEF Init, WorkerSeesEveryHandOff
<1>2. TypeOK /\ Wiring /\ WorkerSeesEveryHandOff /\ [Next]_vars
      => (TypeOK /\ Wiring /\ WorkerSeesEveryHandOff)'
  BY StepWired, StepWakes
<1>3. QED
  BY <1>1, <1>2, PTL DEF Spec

-----------------------------------------------------------------------------
(* Every answer is earned.                                                  *)

\* The export whose end a thread in serve() waits for.
Export(t) == IF tstage[t] \in {"new", "init"} THEN "INIT" ELSE "TRANSFORM"

\* A thread is between its hand-off and the look that finds its turn.
Waits(t) == tpc[t] \in {"notify", "check", "wait", "asleep"} /\ tstage[t] # "closing"

\* The worker may see the thread's request: it waits, or is about to hand over the channel
\* for the first time, to a serveChannel that a freed instance has left at the address.
Asks(t) == Waits(t) \/ (tpc[t] = "hand" /\ tstage[t] = "new")

InService == ppc \notin {"idle", "dead"}

\* How the thread's frame, its progress and its control point go together.
Framed(t) ==
    /\ tpc[t] = "start" => tstage[t] = "new"
    /\ tctx[t] = "top" => tstage[t] \in {"ready", "done"}
    /\ tctx[t] = "closure" => tstage[t] \in {"init", "transform"}
    /\ tpc[t] = "closure" => tstage[t] \in {"init", "transform"}
    /\ tpc[t] = "top" => tstage[t] \in {"ready", "done"} /\ tctx[t] # "closure"
    /\ tpc[t] \in {"notify", "check", "wait", "asleep", "read"} /\ tctx[t] = "serve" =>
           tstage[t] \in {"init", "transform"} \/ (tpc[t] = "notify" /\ tstage[t] = "closing")
    /\ tpc[t] = "drop" => tstage[t] \in {"init", "ready", "transform", "done"}
    /\ tpc[t] = "hand" => tstage[t] \in {"new", "init", "transform", "closing"} \/ tctx[t] # "serve"
    /\ tstage[t] = "closing" => tpc[t] \in {"hand", "notify", "free"}
    /\ tpc[t] = "free" => tstage[t] \in {"init", "closing"}
    /\ tpc[t] \in {"drop", "free"} /\ tstage[t] = "init" => tctx[t] = "serve"
    /\ tpc[t] = "crashed" => tctx[t] = "closure"

\* A thread that has given up without handing over its channel still holds the turn.
Keeps(t) ==
    tpc[t] = "crashed" \/ (tpc[t] \in {"drop", "free"} /\ tstage[t] # "closing") =>
        turn[tch[t]] = "T"

\* The channel names the module of its thread, and nothing has run for a thread without a call.
Published(t) ==
    /\ tpc[t] \notin {"idle", "start"} => mod[tch[t]] = t
    /\ tpc[t] = "idle" => ran[t] = {}

\* The operations that only the thread of a channel stores in it.
Requested == {"INIT", "TRANSFORM", "CALLER"}

\* A request in a channel is that of its thread.
Own(a) ==
    op[a] \in Requested =>
        \E t \in Threads :
            /\ tch[t] = a /\ tpc[t] # "start"
            /\ op[a] = "CALLER" <=> tctx[t] # "serve"
            /\ op[a] # "CALLER" => op[a] = Export(t) /\ tstage[t] \in {"new", "init", "transform"}

\* A caller request that finds OP_DONE was answered.
Answered(t) ==
    tctx[t] # "serve" /\ tpc[t] \in {"hand", "notify", "check", "wait", "asleep"}
      /\ op[tch[t]] = "DONE" =>
        /\ tpc[t] # "hand"
        /\ turn[tch[t]] = "T" \/ ppc = "dead" \/ (ppc = "hand" /\ pmsg.addr = tch[t])

\* The worker acts on what the thread at its channel asks.
Heard ==
    ppc = "act" /\ (pop \in Requested \/ (pop = "DONE" /\ pctx = "fwd")) =>
        \E t \in Threads :
            /\ tch[t] = pmsg.addr /\ Asks(t) /\ op[pmsg.addr] = pop
            /\ pop = "DONE" => tctx[t] = "serve"

\* An export of the plugin runs for the thread at the channel, also while it waits in an import.
Serves ==
    (InService /\ pctx = "fwd") \/ ppc = "plugin" =>
        \E t \in Threads :
            /\ tch[t] = pmsg.addr /\ tstage[t] \in {"new", "init", "transform"}
            /\ tpc[t] \notin {"start", "top", "drop", "free"}
            /\ prun = Export(t)
            /\ pplugin = t \/ (pplugin = NoThread /\ tstage[t] = "transform")
            /\ ppc = "plugin" => Asks(t) /\ tctx[t] = "serve"

\* The thread has been handed the channel, or is about to be.
Handed(t) ==
    \/ (tpc[t] = "read" \/ Waits(t)) /\ turn[tch[t]] = "T"
    \/ ppc = "hand" /\ pmsg.addr = tch[t] /\ (tpc[t] = "read" \/ Asks(t))

\* What the worker hands to serve(): an import while the export is in one, and OP_DONE
\* only for an export that ran to its end.
Earned(t) ==
    Handed(t) /\ tctx[t] = "serve" =>
        /\ InService /\ pmsg.addr = tch[t] /\ pctx = "fwd" => op[tch[t]] = "IMPORT"
        /\ op[tch[t]] = "DONE" =>
            Export(t) \in ran[t] /\ (pmsg.addr = tch[t] => pplugin \in {t, NoThread})

\* After a start that succeeded the worker has the thread's own plugin, or none.
Loaded(t) ==
    tstage[t] \in {"ready", "transform", "done"} /\ pmsg.addr = tch[t] =>
        pplugin \in {t, NoThread}

ThreadInv == \A t \in Threads : Framed(t) /\ Keeps(t) /\ Published(t)
RequestInv == (\A a \in Addrs : Own(a)) /\ (\A t \in Threads : Answered(t)) /\ Heard
AnswerInv == Serves /\ (\A t \in Threads : Earned(t) /\ Loaded(t))
EarnInv == ThreadInv /\ RequestInv /\ AnswerInv

\* The whole inductive invariant of the bridge.
BridgeInv == TypeOK /\ Wiring /\ StrictAlternation /\ EarnInv

\* Frames, progress and control points of the threads stay matched.
LEMMA StepThreads == BridgeInv /\ [Next]_vars => ThreadInv'
<1> SUFFICES ASSUME TypeOK, Wiring, StrictAlternation, EarnInv, [Next]_vars, NEW u \in Threads
             PROVE  Framed(u)' /\ Keeps(u)' /\ Published(u)'
  BY DEF BridgeInv, ThreadInv
<1>a. tpc[u] = "idle" => tstage[u] = "new" /\ tch[u] = NoAddr
  BY DEF Wiring
<1>b. \A t \in Threads : tpc[t] # "idle" /\ u # t => tch[t] \in Addrs /\ tch[u] # tch[t]
  BY OwnChannel
<1>c. tpc[u] # "idle" => tch[u] \in Addrs /\ owner[tch[u]] = u
  BY DEF Wiring
<1>d. NoThread \notin Threads /\ NoAddr \notin Addrs
  BY BridgeAssumption
<1>e. tstage[u] = "new" => tpc[u] \in {"idle", "start", "hand"}
  BY DEF Wiring
<1>f. ppc \notin {"idle", "dead"} => pmsg.addr \in Addrs
  BY DEF Wiring, Signals
<1>g. Framed(u) /\ Keeps(u) /\ Published(u)
  BY DEF EarnInv, ThreadInv
<1> DEFINE Goal == Framed(u)' /\ Keeps(u)' /\ Published(u)'
<1> USE <1>a, <1>b, <1>c, <1>d, <1>e, <1>f, <1>g
    DEF TypeOK, StrictAlternation, ThreadActs, DriverActsOn, Framed, Keeps, Published, memory,
        thread, host, driver
<1>1. ASSUME NEW t \in Threads, AllocChannel(t) PROVE Goal
  BY <1>1 DEF AllocChannel, Goto
<1>2. ASSUME NEW t \in Threads, Start(t) PROVE Goal
  BY <1>2 DEF Start, Goto, Request
<1>3. ASSUME NEW t \in Threads, HandOff(t) PROVE Goal
  BY <1>3 DEF HandOff, Goto
<1>4. ASSUME NEW t \in Threads, Notify(t) PROVE Goal
  BY <1>4 DEF Notify, Goto
<1>5. ASSUME NEW t \in Threads, ParkCheck(t) PROVE Goal
  BY <1>5 DEF ParkCheck, Goto
<1>6. ASSUME NEW t \in Threads, ParkWait(t) PROVE Goal
  BY <1>6 DEF ParkWait, Goto
<1>7. ASSUME NEW t \in Threads, ServeDone(t) PROVE Goal
  BY <1>7 DEF ServeDone, Goto
<1>8. ASSUME NEW t \in Threads, ServeBail(t) PROVE Goal
  BY <1>8 DEF ServeBail, Goto
<1>9. ASSUME NEW t \in Threads, ServeImport(t) PROVE Goal
  BY <1>9 DEF ServeImport, Goto
<1>10. ASSUME NEW t \in Threads, RequestDone(t) PROVE Goal
  BY <1>10 DEF RequestDone, Goto, Frames
<1>11. ASSUME NEW t \in Threads, RequestBail(t) PROVE Goal
  BY <1>11 DEF RequestBail, Goto, Frames
<1>12. ASSUME NEW t \in Threads, CallerRequest(t) PROVE Goal
  BY <1>12 DEF CallerRequest, Goto, Request
<1>13. ASSUME NEW t \in Threads, ClosureReturn(t) PROVE Goal
  BY <1>13 DEF ClosureReturn, Goto, Request
<1>14. ASSUME NEW t \in Threads, Transform(t) PROVE Goal
  BY <1>14 DEF Transform, Goto, Request
<1>15. ASSUME NEW t \in Threads, Finish(t) PROVE Goal
  BY <1>15 DEF Finish, Goto
<1>16. ASSUME NEW t \in Threads, Drop(t) PROVE Goal
  BY <1>16 DEF Drop, Goto, Request
<1>17. ASSUME NEW t \in Threads, Free(t) PROVE Goal
  BY <1>17 DEF Free, Goto, Dangle
<1>18. CASE ForwardSignal
  BY <1>18 DEF ForwardSignal
<1>19. CASE WorkerDies
  BY <1>19 DEF WorkerDies
<1>20. CASE Accept
  BY <1>20 DEF Accept, PGoto
<1>21. CASE WaitCheck
  BY <1>21 DEF WaitCheck, PGoto
<1>22. CASE WaitPark
  BY <1>22 DEF WaitPark, PGoto
<1>23. CASE ReadOp
  BY <1>23 DEF ReadOp, PGoto
<1>24. CASE ActInit
  BY <1>24 DEF ActInit, PGoto
<1>25. CASE ActTransform
  BY <1>25 DEF ActTransform, PGoto
<1>26. CASE ServiceCaller
  BY <1>26 DEF ServiceCaller, PGoto, Answer
<1>27. CASE CallerTrap
  BY <1>27 DEF CallerTrap, PGoto, Fail, Answer
<1>28. CASE ActClose
  BY <1>28 DEF ActClose, PGoto
<1>29. CASE ActUnexpected
  BY <1>29 DEF ActUnexpected, PGoto, Fail, Answer
<1>30. CASE ImportReturn
  BY <1>30 DEF ImportReturn, PGoto
<1>31. CASE PluginImport
  BY <1>31 DEF PluginImport, PGoto, Answer
<1>32. CASE PluginReturn
  <2>1. pplugin \in Threads /\ tpc[pplugin] # "idle"
    BY <1>a, <1>32 DEF PluginReturn, EarnInv, AnswerInv, Serves, Wiring
  <2>2. QED
    BY <1>32, <2>1 DEF PluginReturn, PGoto, Answer
<1>33. CASE PluginTrap
  BY <1>33 DEF PluginTrap, PGoto, Fail, Answer
<1>34. CASE HandToT
  BY <1>34 DEF HandToT, PGoto
<1>35. CASE NotifyT
  BY <1>35 DEF NotifyT, PGoto
<1>36. CASE UNCHANGED vars
  BY <1>36 DEF vars
<1>37. QED
  BY <1>1, <1>2, <1>3, <1>4, <1>5, <1>6, <1>7, <1>8, <1>9, <1>10, <1>11, <1>12, <1>13,
     <1>14, <1>15, <1>16, <1>17, <1>18, <1>19, <1>20, <1>21, <1>22, <1>23, <1>24,
     <1>25, <1>26, <1>27, <1>28, <1>29, <1>30, <1>31, <1>32, <1>33, <1>34, <1>35, <1>36
  DEF Next, ThreadStep, DriverStep

\* What a thread asks for stays in its channel until the worker answers.
LEMMA StepOwn == BridgeInv /\ [Next]_vars => \A a \in Addrs : Own(a)'
<1> SUFFICES ASSUME TypeOK, Wiring, StrictAlternation, EarnInv, [Next]_vars, NEW b \in Addrs
             PROVE  Own(b)'
  BY DEF BridgeInv
<1>b. \A t, v \in Threads : tpc[t] # "idle" /\ v # t => tch[v] # tch[t]
  BY OwnChannel
<1>c. \A t \in Threads : /\ tpc[t] # "idle" => tch[t] \in Addrs /\ owner[tch[t]] = t
                         /\ tpc[t] = "idle" => tch[t] = NoAddr /\ tstage[t] = "new"
                         /\ tstage[t] = "new" => tpc[t] \in {"idle", "start", "hand"}
  BY DEF Wiring
<1>d. NoThread \notin Threads /\ NoAddr \notin Addrs
  BY BridgeAssumption
<1>f. ppc \notin {"idle", "dead"} => pmsg.addr \in Addrs
  BY DEF Wiring, Signals
<1>h. \A t \in Threads : Framed(t) /\ Keeps(t)
  BY DEF EarnInv, ThreadInv
<1>g. Own(b)
  BY DEF EarnInv, RequestInv
<1> USE <1>b, <1>c, <1>d, <1>f, <1>g, <1>h
    DEF TypeOK, Framed, Own, Export, Requested, memory, thread, host, driver
<1>1. ASSUME NEW t \in Threads, AllocChannel(t) PROVE Own(b)'
  BY <1>1 DEF AllocChannel, Goto
<1>2. ASSUME NEW t \in Threads, Start(t) PROVE Own(b)'
  BY <1>2 DEF Start, Goto, Request
<1>3. ASSUME NEW t \in Threads, HandOff(t) PROVE Own(b)'
  BY <1>3 DEF HandOff, Goto
<1>4. ASSUME NEW t \in Threads, Notify(t) PROVE Own(b)'
  BY <1>4 DEF Notify, Goto
<1>5. ASSUME NEW t \in Threads, ParkCheck(t) PROVE Own(b)'
  BY <1>5 DEF ParkCheck, Goto
<1>6. ASSUME NEW t \in Threads, ParkWait(t) PROVE Own(b)'
  BY <1>6 DEF ParkWait, Goto
<1>7. ASSUME NEW t \in Threads, ServeDone(t) PROVE Own(b)'
  BY <1>7 DEF ServeDone, Goto
<1>8. ASSUME NEW t \in Threads, ServeBail(t) PROVE Own(b)'
  BY <1>8 DEF ServeBail, Goto
<1>9. ASSUME NEW t \in Threads, ServeImport(t) PROVE Own(b)'
  BY <1>9 DEF ServeImport, Goto
<1>10. ASSUME NEW t \in Threads, RequestDone(t) PROVE Own(b)'
  BY <1>10 DEF RequestDone, Goto
<1>11. ASSUME NEW t \in Threads, RequestBail(t) PROVE Own(b)'
  BY <1>11 DEF RequestBail, Goto
<1>12. ASSUME NEW t \in Threads, CallerRequest(t) PROVE Own(b)'
  BY <1>12 DEF CallerRequest, Goto, Request
<1>13. ASSUME NEW t \in Threads, ClosureReturn(t) PROVE Own(b)'
  BY <1>13 DEF ClosureReturn, Goto, Request
<1>14. ASSUME NEW t \in Threads, Transform(t) PROVE Own(b)'
  BY <1>14 DEF Transform, Goto, Request
<1>15. ASSUME NEW t \in Threads, Finish(t) PROVE Own(b)'
  BY <1>15 DEF Finish, Goto
<1>16. ASSUME NEW t \in Threads, Drop(t) PROVE Own(b)'
  BY <1>16 DEF Drop, Goto, Request
<1>17. ASSUME NEW t \in Threads, Free(t) PROVE Own(b)'
  BY <1>17 DEF Free, Goto, Dangle
<1>18. CASE ForwardSignal
  BY <1>18 DEF ForwardSignal
<1>19. CASE WorkerDies
  BY <1>19 DEF WorkerDies
<1>20. CASE Accept
  BY <1>20 DEF Accept, PGoto
<1>21. CASE WaitCheck
  BY <1>21 DEF WaitCheck, PGoto
<1>22. CASE WaitPark
  BY <1>22 DEF WaitPark, PGoto
<1>23. CASE ReadOp
  BY <1>23 DEF ReadOp, PGoto
<1>24. CASE ActInit
  BY <1>24 DEF ActInit, PGoto
<1>25. CASE ActTransform
  BY <1>25 DEF ActTransform, PGoto
<1>26. CASE ServiceCaller
  BY <1>26 DEF ServiceCaller, PGoto, Answer
<1>27. CASE CallerTrap
  BY <1>27 DEF CallerTrap, PGoto, Fail, Answer
<1>28. CASE ActClose
  BY <1>28 DEF ActClose, PGoto
<1>29. CASE ActUnexpected
  BY <1>29 DEF ActUnexpected, PGoto, Fail, Answer
<1>30. CASE ImportReturn
  BY <1>30 DEF ImportReturn, PGoto
<1>31. CASE PluginImport
  BY <1>31 DEF PluginImport, PGoto, Answer
<1>32. CASE PluginReturn
  BY <1>32 DEF PluginReturn, PGoto, Answer
<1>33. CASE PluginTrap
  BY <1>33 DEF PluginTrap, PGoto, Fail, Answer
<1>34. CASE HandToT
  BY <1>34 DEF HandToT, PGoto
<1>35. CASE NotifyT
  BY <1>35 DEF NotifyT, PGoto
<1>36. CASE UNCHANGED vars
  BY <1>36 DEF vars
<1>37. QED
  BY <1>1, <1>2, <1>3, <1>4, <1>5, <1>6, <1>7, <1>8, <1>9, <1>10, <1>11, <1>12, <1>13,
     <1>14, <1>15, <1>16, <1>17, <1>18, <1>19, <1>20, <1>21, <1>22, <1>23, <1>24,
     <1>25, <1>26, <1>27, <1>28, <1>29, <1>30, <1>31, <1>32, <1>33, <1>34, <1>35, <1>36
  DEF Next, ThreadStep, DriverStep

\* Only a hand-over by the worker lets a thread find its caller request answered.
LEMMA StepAnswered == BridgeInv /\ [Next]_vars => \A t \in Threads : Answered(t)'
<1> SUFFICES ASSUME TypeOK, Wiring, StrictAlternation, EarnInv, [Next]_vars, NEW u \in Threads
             PROVE  Answered(u)'
  BY DEF BridgeInv
<1>a. tpc[u] = "idle" => tstage[u] = "new" /\ tch[u] = NoAddr
  BY DEF Wiring
<1>b. \A t \in Threads : tpc[t] # "idle" /\ u # t => tch[t] \in Addrs /\ tch[u] # tch[t]
  BY OwnChannel
<1>c. tpc[u] # "idle" => tch[u] \in Addrs /\ owner[tch[u]] = u
  BY DEF Wiring
<1>d. NoThread \notin Threads /\ NoAddr \notin Addrs
  BY BridgeAssumption
<1>e. tstage[u] = "new" => tpc[u] \in {"idle", "start", "hand"}
  BY DEF Wiring
<1>f. ppc \notin {"idle", "dead"} => pmsg.addr \in Addrs
  BY DEF Wiring, Signals
<1>g. Answered(u) /\ Framed(u)
  BY DEF EarnInv, RequestInv, ThreadInv
<1> USE <1>a, <1>b, <1>c, <1>d, <1>e, <1>f, <1>g
    DEF TypeOK, StrictAlternation, ThreadActs, DriverActsOn, Framed, Answered, memory, thread,
        host, driver
<1>1. ASSUME NEW t \in Threads, AllocChannel(t) PROVE Answered(u)'
  BY <1>1 DEF AllocChannel, Goto
<1>2. ASSUME NEW t \in Threads, Start(t) PROVE Answered(u)'
  BY <1>2 DEF Start, Goto, Request
<1>3. ASSUME NEW t \in Threads, HandOff(t) PROVE Answered(u)'
  BY <1>3 DEF HandOff, Goto
<1>4. ASSUME NEW t \in Threads, Notify(t) PROVE Answered(u)'
  BY <1>4 DEF Notify, Goto
<1>5. ASSUME NEW t \in Threads, ParkCheck(t) PROVE Answered(u)'
  BY <1>5 DEF ParkCheck, Goto
<1>6. ASSUME NEW t \in Threads, ParkWait(t) PROVE Answered(u)'
  BY <1>6 DEF ParkWait, Goto
<1>7. ASSUME NEW t \in Threads, ServeDone(t) PROVE Answered(u)'
  BY <1>7 DEF ServeDone, Goto
<1>8. ASSUME NEW t \in Threads, ServeBail(t) PROVE Answered(u)'
  BY <1>8 DEF ServeBail, Goto
<1>9. ASSUME NEW t \in Threads, ServeImport(t) PROVE Answered(u)'
  BY <1>9 DEF ServeImport, Goto
<1>10. ASSUME NEW t \in Threads, RequestDone(t) PROVE Answered(u)'
  BY <1>10 DEF RequestDone, Goto, Frames
<1>11. ASSUME NEW t \in Threads, RequestBail(t) PROVE Answered(u)'
  BY <1>11 DEF RequestBail, Goto
<1>12. ASSUME NEW t \in Threads, CallerRequest(t) PROVE Answered(u)'
  BY <1>12 DEF CallerRequest, Goto, Request
<1>13. ASSUME NEW t \in Threads, ClosureReturn(t) PROVE Answered(u)'
  BY <1>13 DEF ClosureReturn, Goto, Request
<1>14. ASSUME NEW t \in Threads, Transform(t) PROVE Answered(u)'
  BY <1>14 DEF Transform, Goto, Request
<1>15. ASSUME NEW t \in Threads, Finish(t) PROVE Answered(u)'
  BY <1>15 DEF Finish, Goto
<1>16. ASSUME NEW t \in Threads, Drop(t) PROVE Answered(u)'
  BY <1>16 DEF Drop, Goto, Request
<1>17. ASSUME NEW t \in Threads, Free(t) PROVE Answered(u)'
  BY <1>17 DEF Free, Goto, Dangle
<1>18. CASE ForwardSignal
  BY <1>18 DEF ForwardSignal
<1>19. CASE WorkerDies
  BY <1>19 DEF WorkerDies
<1>20. CASE Accept
  BY <1>20 DEF Accept, PGoto
<1>21. CASE WaitCheck
  BY <1>21 DEF WaitCheck, PGoto
<1>22. CASE WaitPark
  BY <1>22 DEF WaitPark, PGoto
<1>23. CASE ReadOp
  BY <1>23 DEF ReadOp, PGoto
<1>24. CASE ActInit
  BY <1>24 DEF ActInit, PGoto
<1>25. CASE ActTransform
  BY <1>25 DEF ActTransform, PGoto
<1>26. CASE ServiceCaller
  BY <1>26 DEF ServiceCaller, PGoto, Answer, Frames
<1>27. CASE CallerTrap
  BY <1>27 DEF CallerTrap, PGoto, Fail, Answer
<1>28. CASE ActClose
  BY <1>28 DEF ActClose, PGoto
<1>29. CASE ActUnexpected
  BY <1>29 DEF ActUnexpected, PGoto, Fail, Answer
<1>30. CASE ImportReturn
  BY <1>30 DEF ImportReturn, PGoto
<1>31. CASE PluginImport
  BY <1>31 DEF PluginImport, PGoto, Answer
<1>32. CASE PluginReturn
  BY <1>32 DEF PluginReturn, PGoto, Answer, Frames
<1>33. CASE PluginTrap
  BY <1>33 DEF PluginTrap, PGoto, Fail, Answer
<1>34. CASE HandToT
  BY <1>34 DEF HandToT, PGoto
<1>35. CASE NotifyT
  BY <1>35 DEF NotifyT, PGoto
<1>36. CASE UNCHANGED vars
  BY <1>36 DEF vars
<1>37. QED
  BY <1>1, <1>2, <1>3, <1>4, <1>5, <1>6, <1>7, <1>8, <1>9, <1>10, <1>11, <1>12, <1>13,
     <1>14, <1>15, <1>16, <1>17, <1>18, <1>19, <1>20, <1>21, <1>22, <1>23, <1>24,
     <1>25, <1>26, <1>27, <1>28, <1>29, <1>30, <1>31, <1>32, <1>33, <1>34, <1>35, <1>36
  DEF Next, ThreadStep, DriverStep

\* Whatever the worker read, the thread at the channel is still asking for it.
LEMMA StepHeard == BridgeInv /\ [Next]_vars => Heard'
<1> SUFFICES ASSUME TypeOK, Wiring, StrictAlternation, EarnInv, [Next]_vars PROVE Heard'
  BY DEF BridgeInv
<1>b. \A t, v \in Threads : tpc[t] # "idle" /\ v # t => tch[v] # tch[t]
  BY OwnChannel
<1>c. \A t \in Threads : /\ tpc[t] # "idle" => tch[t] \in Addrs /\ owner[tch[t]] = t
                         /\ tpc[t] = "idle" => tch[t] = NoAddr /\ tstage[t] = "new"
                         /\ tstage[t] = "new" => tpc[t] \in {"idle", "start", "hand"}
  BY DEF Wiring
<1>d. NoThread \notin Threads /\ NoAddr \notin Addrs
  BY BridgeAssumption
<1>f. ppc \notin {"idle", "dead"} => pmsg.addr \in Addrs
  BY DEF Wiring, Signals
<1>h. \A t \in Threads : Framed(t) /\ Keeps(t)
  BY DEF EarnInv, ThreadInv
<1>g. Heard
  BY DEF EarnInv, RequestInv
<1> USE <1>b, <1>c, <1>d, <1>f, <1>g, <1>h
    DEF TypeOK, StrictAlternation, ThreadActs, DriverActsOn, Framed, Heard, Asks, Waits,
        Requested, memory, thread, host, driver
<1>1. ASSUME NEW t \in Threads, AllocChannel(t) PROVE Heard'
  BY <1>1 DEF AllocChannel, Goto
<1>2. ASSUME NEW t \in Threads, Start(t) PROVE Heard'
  <2>1. ASSUME NEW v \in Threads, tch[v] = pmsg.addr, Asks(v) PROVE v # t
    BY <1>2, <2>1 DEF Start
  <2>2. QED
    BY <1>2, <2>1 DEF Start, Goto, Request
<1>3. ASSUME NEW t \in Threads, HandOff(t) PROVE Heard'
  BY <1>3 DEF HandOff, Goto
<1>4. ASSUME NEW t \in Threads, Notify(t) PROVE Heard'
  BY <1>4 DEF Notify, Goto
<1>5. ASSUME NEW t \in Threads, ParkCheck(t) PROVE Heard'
  BY <1>5 DEF ParkCheck, Goto
<1>6. ASSUME NEW t \in Threads, ParkWait(t) PROVE Heard'
  BY <1>6 DEF ParkWait, Goto
<1>7. ASSUME NEW t \in Threads, ServeDone(t) PROVE Heard'
  BY <1>7 DEF ServeDone, Goto
<1>8. ASSUME NEW t \in Threads, ServeBail(t) PROVE Heard'
  BY <1>8 DEF ServeBail, Goto
<1>9. ASSUME NEW t \in Threads, ServeImport(t) PROVE Heard'
  BY <1>9 DEF ServeImport, Goto
<1>10. ASSUME NEW t \in Threads, RequestDone(t) PROVE Heard'
  BY <1>10 DEF RequestDone, Goto
<1>11. ASSUME NEW t \in Threads, RequestBail(t) PROVE Heard'
  BY <1>11 DEF RequestBail, Goto
<1>12. ASSUME NEW t \in Threads, CallerRequest(t) PROVE Heard'
  BY <1>12 DEF CallerRequest, Goto, Request
<1>13. ASSUME NEW t \in Threads, ClosureReturn(t) PROVE Heard'
  BY <1>13 DEF ClosureReturn, Goto, Request
<1>14. ASSUME NEW t \in Threads, Transform(t) PROVE Heard'
  BY <1>14 DEF Transform, Goto, Request
<1>15. ASSUME NEW t \in Threads, Finish(t) PROVE Heard'
  BY <1>15 DEF Finish, Goto
<1>16. ASSUME NEW t \in Threads, Drop(t) PROVE Heard'
  BY <1>16 DEF Drop, Goto, Request
<1>17. ASSUME NEW t \in Threads, Free(t) PROVE Heard'
  <2>1. ASSUME NEW v \in Threads, tch[v] = pmsg.addr, Asks(v) PROVE v # t
    BY <1>17, <2>1 DEF Free
  <2>2. pmsg'.addr = pmsg.addr /\ ppc' = ppc /\ pop' = pop /\ pctx' = pctx
    BY <1>17 DEF Free, Dangle
  <2>3. QED
    BY <1>17, <2>1, <2>2 DEF Free, Goto
<1>18. CASE ForwardSignal
  BY <1>18 DEF ForwardSignal
<1>19. CASE WorkerDies
  BY <1>19 DEF WorkerDies
<1>20. CASE Accept
  BY <1>20 DEF Accept, PGoto
<1>21. CASE WaitCheck
  BY <1>21 DEF WaitCheck, PGoto
<1>22. CASE WaitPark
  BY <1>22 DEF WaitPark, PGoto
<1>23. CASE ReadOp
  <2>1. ppc = "read" /\ pop' = op[pmsg.addr] /\ UNCHANGED <<op, tch, tpc, tstage, tctx, pctx, pmsg>>
    BY <1>23 DEF ReadOp
  <2>2. ASSUME NEW v \in Threads, tch[v] = pmsg.addr, tpc[v] # "start", tstage[v] # "closing"
        PROVE  Asks(v)
    <3>1. CASE tstage[v] = "new"
      BY <2>2, <3>1, <2>1
    <3>2. CASE tstage[v] # "new"
      BY <2>1, <2>2, <3>2 DEF ThreadPCs, Keeps
    <3>3. QED
      BY <3>1, <3>2
  <2>3. CASE op[pmsg.addr] \in {"INIT", "TRANSFORM", "CALLER"}
    <3>1. PICK v \in Threads : tch[v] = pmsg.addr /\ tpc[v] # "start" /\ tstage[v] # "closing"
      BY <2>1, <2>3 DEF EarnInv, RequestInv, Own, Export, Frames
    <3>2. QED
      BY <2>1, <2>2, <2>3, <3>1
  <2>4. CASE op[pmsg.addr] = "DONE" /\ pctx = "fwd"
    <3>1. PICK v \in Threads :
              tch[v] = pmsg.addr /\ tpc[v] # "start" /\ tstage[v] \in {"new", "init", "transform"}
      BY <2>1, <2>4 DEF EarnInv, AnswerInv, Serves, InService
    <3>2. Asks(v)
      BY <2>2, <3>1
    <3>3. tctx[v] = "serve"
      BY <2>1, <2>4, <3>1, <3>2 DEF EarnInv, RequestInv, Answered, Frames
    <3>4. QED
      BY <2>1, <2>4, <3>1, <3>2, <3>3
  <2>5. QED
    BY <2>1, <2>3, <2>4
<1>24. CASE ActInit
  BY <1>24 DEF ActInit, PGoto
<1>25. CASE ActTransform
  BY <1>25 DEF ActTransform, PGoto
<1>26. CASE ServiceCaller
  BY <1>26 DEF ServiceCaller, PGoto, Answer
<1>27. CASE CallerTrap
  BY <1>27 DEF CallerTrap, PGoto, Fail, Answer
<1>28. CASE ActClose
  BY <1>28 DEF ActClose, PGoto
<1>29. CASE ActUnexpected
  BY <1>29 DEF ActUnexpected, PGoto, Fail, Answer
<1>30. CASE ImportReturn
  BY <1>30 DEF ImportReturn, PGoto
<1>31. CASE PluginImport
  BY <1>31 DEF PluginImport, PGoto, Answer
<1>32. CASE PluginReturn
  BY <1>32 DEF PluginReturn, PGoto, Answer
<1>33. CASE PluginTrap
  BY <1>33 DEF PluginTrap, PGoto, Fail, Answer
<1>34. CASE HandToT
  BY <1>34 DEF HandToT, PGoto
<1>35. CASE NotifyT
  BY <1>35 DEF NotifyT, PGoto
<1>36. CASE UNCHANGED vars
  BY <1>36 DEF vars
<1>37. QED
  BY <1>1, <1>2, <1>3, <1>4, <1>5, <1>6, <1>7, <1>8, <1>9, <1>10, <1>11, <1>12, <1>13,
     <1>14, <1>15, <1>16, <1>17, <1>18, <1>19, <1>20, <1>21, <1>22, <1>23, <1>24,
     <1>25, <1>26, <1>27, <1>28, <1>29, <1>30, <1>31, <1>32, <1>33, <1>34, <1>35, <1>36
  DEF Next, ThreadStep, DriverStep

\* The export that runs is the one the thread at the channel waits for.
LEMMA StepServes == BridgeInv /\ [Next]_vars => Serves'
<1> SUFFICES ASSUME TypeOK, Wiring, StrictAlternation, EarnInv, [Next]_vars PROVE Serves'
  BY DEF BridgeInv
<1>b. \A t, v \in Threads : tpc[t] # "idle" /\ v # t => tch[v] # tch[t]
  BY OwnChannel
<1>c. \A t \in Threads : /\ tpc[t] # "idle" => tch[t] \in Addrs /\ owner[tch[t]] = t
                         /\ tpc[t] = "idle" => tch[t] = NoAddr /\ tstage[t] = "new"
                         /\ tstage[t] = "new" => tpc[t] \in {"idle", "start", "hand"}
  BY DEF Wiring
<1>d. NoThread \notin Threads /\ NoAddr \notin Addrs
  BY BridgeAssumption
<1>f. ppc \notin {"idle", "dead"} => pmsg.addr \in Addrs
  BY DEF Wiring, Signals
<1>h. \A t \in Threads : Framed(t) /\ Keeps(t)
  BY DEF EarnInv, ThreadInv
<1>g. Serves /\ (\A a \in Addrs : Own(a)) /\ \A t \in Threads : Earned(t)
  BY DEF EarnInv, AnswerInv, RequestInv
<1> USE <1>b, <1>c, <1>d, <1>f, <1>g, <1>h
    DEF TypeOK, StrictAlternation, ThreadActs, DriverActsOn, Framed, Serves, Asks, Waits,
        InService, Export, memory, thread, host, driver
<1>1. ASSUME NEW t \in Threads, AllocChannel(t) PROVE Serves'
  BY <1>1 DEF AllocChannel, Goto
<1>2. ASSUME NEW t \in Threads, Start(t) PROVE Serves'
  BY <1>2 DEF Start, Goto, Request
<1>3. ASSUME NEW t \in Threads, HandOff(t) PROVE Serves'
  BY <1>3 DEF HandOff, Goto
<1>4. ASSUME NEW t \in Threads, Notify(t) PROVE Serves'
  BY <1>4 DEF Notify, Goto
<1>5. ASSUME NEW t \in Threads, ParkCheck(t) PROVE Serves'
  BY <1>5 DEF ParkCheck, Goto
<1>6. ASSUME NEW t \in Threads, ParkWait(t) PROVE Serves'
  BY <1>6 DEF ParkWait, Goto
<1>7. ASSUME NEW t \in Threads, ServeDone(t) PROVE Serves'
  BY <1>7 DEF ServeDone, Goto, Earned, Handed
<1>8. ASSUME NEW t \in Threads, ServeBail(t) PROVE Serves'
  <2>1. tch[t] = pmsg.addr => ~(InService /\ pctx = "fwd") /\ ppc # "plugin"
    BY <1>8 DEF ServeBail, Earned, Handed
  <2>2. /\ \A v \in Threads : v # t => tpc'[v] = tpc[v]
        /\ UNCHANGED <<tch, tctx, tstage, ppc, pctx, pmsg, prun, pplugin>>
    BY <1>8 DEF ServeBail, Goto
  <2>3. QED
    BY <2>1, <2>2
<1>9. ASSUME NEW t \in Threads, ServeImport(t) PROVE Serves'
  BY <1>9 DEF ServeImport, Goto
<1>10. ASSUME NEW t \in Threads, RequestDone(t) PROVE Serves'
  BY <1>10 DEF RequestDone, Goto, Frames
<1>11. ASSUME NEW t \in Threads, RequestBail(t) PROVE Serves'
  BY <1>11 DEF RequestBail, Goto
<1>12. ASSUME NEW t \in Threads, CallerRequest(t) PROVE Serves'
  BY <1>12 DEF CallerRequest, Goto, Request
<1>13. ASSUME NEW t \in Threads, ClosureReturn(t) PROVE Serves'
  BY <1>13 DEF ClosureReturn, Goto, Request
<1>14. ASSUME NEW t \in Threads, Transform(t) PROVE Serves'
  BY <1>14 DEF Transform, Goto, Request
<1>15. ASSUME NEW t \in Threads, Finish(t) PROVE Serves'
  BY <1>15 DEF Finish, Goto
<1>16. ASSUME NEW t \in Threads, Drop(t) PROVE Serves'
  BY <1>16 DEF Drop, Goto, Request
<1>17. ASSUME NEW t \in Threads, Free(t) PROVE Serves'
  BY <1>17 DEF Free, Goto, Dangle
<1>18. CASE ForwardSignal
  BY <1>18 DEF ForwardSignal
<1>19. CASE WorkerDies
  BY <1>19 DEF WorkerDies
<1>20. CASE Accept
  BY <1>20 DEF Accept, PGoto
<1>21. CASE WaitCheck
  BY <1>21 DEF WaitCheck, PGoto
<1>22. CASE WaitPark
  BY <1>22 DEF WaitPark, PGoto
<1>23. CASE ReadOp
  BY <1>23 DEF ReadOp, PGoto
<1>24. CASE ActInit
  <2>1. PICK t \in Threads : tch[t] = pmsg.addr /\ Asks(t) /\ op[pmsg.addr] = "INIT"
    BY <1>24 DEF ActInit, EarnInv, RequestInv, Heard, Requested
  <2>2. tctx[t] = "serve" /\ tstage[t] \in {"new", "init"}
    BY <2>1, <1>24 DEF ActInit, Own, Requested
  <2>3. mod[pmsg.addr] = t
    BY <2>1 DEF EarnInv, ThreadInv, Published
  <2>4. QED
    BY <1>24, <2>1, <2>2, <2>3 DEF ActInit, PGoto
<1>25. CASE ActTransform
  <2>1. PICK t \in Threads : tch[t] = pmsg.addr /\ Asks(t) /\ op[pmsg.addr] = "TRANSFORM"
    BY <1>25 DEF ActTransform, EarnInv, RequestInv, Heard, Requested
  <2>2. tctx[t] = "serve" /\ tstage[t] = "transform"
    BY <2>1, <1>25 DEF ActTransform, Own, Requested
  <2>3. pplugin \in {t, NoThread}
    BY <2>1, <2>2 DEF EarnInv, AnswerInv, Loaded
  <2>4. QED
    BY <1>25, <2>1, <2>2, <2>3 DEF ActTransform, PGoto
<1>26. CASE ServiceCaller
  BY <1>26 DEF ServiceCaller, PGoto, Answer
<1>27. CASE CallerTrap
  BY <1>27 DEF CallerTrap, PGoto, Fail, Answer
<1>28. CASE ActClose
  BY <1>28 DEF ActClose, PGoto
<1>29. CASE ActUnexpected
  BY <1>29 DEF ActUnexpected, PGoto, Fail, Answer
<1>30. CASE ImportReturn
  <2>1. PICK t \in Threads : tch[t] = pmsg.addr /\ Asks(t) /\ tctx[t] = "serve"
    BY <1>30 DEF ImportReturn, EarnInv, RequestInv, Heard
  <2>2. QED
    BY <1>30, <2>1 DEF ImportReturn, PGoto
<1>31. CASE PluginImport
  BY <1>31 DEF PluginImport, PGoto, Answer
<1>32. CASE PluginReturn
  BY <1>32 DEF PluginReturn, PGoto, Answer
<1>33. CASE PluginTrap
  BY <1>33 DEF PluginTrap, PGoto, Fail, Answer
<1>34. CASE HandToT
  BY <1>34 DEF HandToT, PGoto
<1>35. CASE NotifyT
  BY <1>35 DEF NotifyT, PGoto
<1>36. CASE UNCHANGED vars
  BY <1>36 DEF vars
<1>37. QED
  BY <1>1, <1>2, <1>3, <1>4, <1>5, <1>6, <1>7, <1>8, <1>9, <1>10, <1>11, <1>12, <1>13,
     <1>14, <1>15, <1>16, <1>17, <1>18, <1>19, <1>20, <1>21, <1>22, <1>23, <1>24,
     <1>25, <1>26, <1>27, <1>28, <1>29, <1>30, <1>31, <1>32, <1>33, <1>34, <1>35, <1>36
  DEF Next, ThreadStep, DriverStep

\* OP_DONE comes to serve() only from the export's return.
LEMMA StepEarned == BridgeInv /\ [Next]_vars => \A t \in Threads : Earned(t)'
<1> SUFFICES ASSUME TypeOK, Wiring, StrictAlternation, EarnInv, [Next]_vars, NEW u \in Threads
             PROVE  Earned(u)'
  BY DEF BridgeInv
<1>a. tpc[u] = "idle" => tstage[u] = "new" /\ tch[u] = NoAddr
  BY DEF Wiring
<1>b. \A t \in Threads : tpc[t] # "idle" /\ u # t => tch[t] \in Addrs /\ tch[u] # tch[t]
  BY OwnChannel
<1>c. tpc[u] # "idle" => tch[u] \in Addrs /\ owner[tch[u]] = u
  BY DEF Wiring
<1>d. NoThread \notin Threads /\ NoAddr \notin Addrs
  BY BridgeAssumption
<1>e. tstage[u] = "new" => tpc[u] \in {"idle", "start", "hand"}
  BY DEF Wiring
<1>f. ppc \notin {"idle", "dead"} => pmsg.addr \in Addrs
  BY DEF Wiring, Signals
<1>g. Earned(u) /\ Framed(u) /\ Serves
  BY DEF EarnInv, AnswerInv, ThreadInv
<1> USE <1>a, <1>b, <1>c, <1>d, <1>e, <1>f, <1>g
    DEF TypeOK, StrictAlternation, ThreadActs, DriverActsOn, Earned, Handed, Asks, Waits,
        InService, Export, memory, thread, host, driver
<1>1. ASSUME NEW t \in Threads, AllocChannel(t) PROVE Earned(u)'
  BY <1>1 DEF AllocChannel, Goto
<1>2. ASSUME NEW t \in Threads, Start(t) PROVE Earned(u)'
  <2>1. CASE t = u
    <3>1. tch[u] = pmsg.addr => ~(InService /\ pctx = "fwd")
      BY <1>2, <2>1 DEF Start, Serves, Wiring
    <3>2. QED
      BY <1>2, <2>1, <3>1 DEF Start, Goto, Request
  <2>2. CASE t # u
    BY <1>2, <2>2 DEF Start, Goto, Request
  <2>3. QED
    BY <2>1, <2>2
<1>3. ASSUME NEW t \in Threads, HandOff(t) PROVE Earned(u)'
  BY <1>3 DEF HandOff, Goto
<1>4. ASSUME NEW t \in Threads, Notify(t) PROVE Earned(u)'
  BY <1>4 DEF Notify, Goto
<1>5. ASSUME NEW t \in Threads, ParkCheck(t) PROVE Earned(u)'
  BY <1>5 DEF ParkCheck, Goto, Framed
<1>6. ASSUME NEW t \in Threads, ParkWait(t) PROVE Earned(u)'
  BY <1>6 DEF ParkWait, Goto
<1>7. ASSUME NEW t \in Threads, ServeDone(t) PROVE Earned(u)'
  BY <1>7 DEF ServeDone, Goto
<1>8. ASSUME NEW t \in Threads, ServeBail(t) PROVE Earned(u)'
  BY <1>8 DEF ServeBail, Goto
<1>9. ASSUME NEW t \in Threads, ServeImport(t) PROVE Earned(u)'
  BY <1>9 DEF ServeImport, Goto
<1>10. ASSUME NEW t \in Threads, RequestDone(t) PROVE Earned(u)'
  BY <1>10 DEF RequestDone, Goto, Frames
<1>11. ASSUME NEW t \in Threads, RequestBail(t) PROVE Earned(u)'
  BY <1>11 DEF RequestBail, Goto
<1>12. ASSUME NEW t \in Threads, CallerRequest(t) PROVE Earned(u)'
  BY <1>12 DEF CallerRequest, Goto, Request
<1>13. ASSUME NEW t \in Threads, ClosureReturn(t) PROVE Earned(u)'
  BY <1>13 DEF ClosureReturn, Goto, Request, Framed
<1>14. ASSUME NEW t \in Threads, Transform(t) PROVE Earned(u)'
  BY <1>14 DEF Transform, Goto, Request
<1>15. ASSUME NEW t \in Threads, Finish(t) PROVE Earned(u)'
  BY <1>15 DEF Finish, Goto
<1>16. ASSUME NEW t \in Threads, Drop(t) PROVE Earned(u)'
  BY <1>16 DEF Drop, Goto, Request
<1>17. ASSUME NEW t \in Threads, Free(t) PROVE Earned(u)'
  BY <1>17 DEF Free, Goto, Dangle
<1>18. CASE ForwardSignal
  BY <1>18 DEF ForwardSignal
<1>19. CASE WorkerDies
  BY <1>19 DEF WorkerDies
<1>20. CASE Accept
  BY <1>20 DEF Accept, PGoto
<1>21. CASE WaitCheck
  BY <1>21 DEF WaitCheck, PGoto
<1>22. CASE WaitPark
  BY <1>22 DEF WaitPark, PGoto
<1>23. CASE ReadOp
  BY <1>23 DEF ReadOp, PGoto
<1>24. CASE ActInit
  BY <1>24 DEF ActInit, PGoto
<1>25. CASE ActTransform
  BY <1>25 DEF ActTransform, PGoto
<1>26. CASE ServiceCaller
  <2>1. CASE pmsg.addr = tch[u]
    <3>1. PICK t \in Threads : tch[t] = pmsg.addr /\ Asks(t) /\ op[pmsg.addr] = "CALLER"
      BY <1>26 DEF ServiceCaller, EarnInv, RequestInv, Heard, Requested
    <3>2. t = u
      BY <3>1, <2>1
    <3>3. Own(pmsg.addr) /\ pmsg.addr \in Addrs
      BY <1>26 DEF ServiceCaller, EarnInv, RequestInv
    <3>4. tctx[u] # "serve"
      BY <3>1, <3>2, <3>3 DEF Own, Requested, Wiring
    <3>5. QED
      BY <3>4, <1>26 DEF ServiceCaller
  <2>2. CASE pmsg.addr # tch[u]
    BY <1>26, <2>2 DEF ServiceCaller, PGoto, Answer
  <2>3. QED
    BY <2>1, <2>2
<1>27. CASE CallerTrap
  BY <1>27 DEF CallerTrap, PGoto, Fail, Answer
<1>28. CASE ActClose
  BY <1>28 DEF ActClose, PGoto
<1>29. CASE ActUnexpected
  BY <1>29 DEF ActUnexpected, PGoto, Fail, Answer
<1>30. CASE ImportReturn
  BY <1>30 DEF ImportReturn, PGoto
<1>31. CASE PluginImport
  BY <1>31 DEF PluginImport, PGoto, Answer
<1>32. CASE PluginReturn
  <2>1. CASE pmsg.addr = tch[u]
    <3>1. prun = Export(u) /\ pplugin = u
      BY <1>32, <2>1 DEF PluginReturn, Serves
    <3>2. QED
      BY <1>32, <2>1, <3>1 DEF PluginReturn, PGoto, Answer
  <2>2. CASE pmsg.addr # tch[u]
    BY <1>32, <2>2 DEF PluginReturn, PGoto, Answer
  <2>3. QED
    BY <2>1, <2>2
<1>33. CASE PluginTrap
  BY <1>33 DEF PluginTrap, PGoto, Fail, Answer
<1>34. CASE HandToT
  BY <1>34 DEF HandToT, PGoto, Framed
<1>35. CASE NotifyT
  BY <1>35 DEF NotifyT, PGoto
<1>36. CASE UNCHANGED vars
  BY <1>36 DEF vars
<1>37. QED
  BY <1>1, <1>2, <1>3, <1>4, <1>5, <1>6, <1>7, <1>8, <1>9, <1>10, <1>11, <1>12, <1>13,
     <1>14, <1>15, <1>16, <1>17, <1>18, <1>19, <1>20, <1>21, <1>22, <1>23, <1>24,
     <1>25, <1>26, <1>27, <1>28, <1>29, <1>30, <1>31, <1>32, <1>33, <1>34, <1>35, <1>36
  DEF Next, ThreadStep, DriverStep

\* The worker's plugin stays that of the thread it started for.
LEMMA StepLoaded == BridgeInv /\ [Next]_vars => \A t \in Threads : Loaded(t)'
<1> SUFFICES ASSUME TypeOK, Wiring, StrictAlternation, EarnInv, [Next]_vars, NEW u \in Threads
             PROVE  Loaded(u)'
  BY DEF BridgeInv
<1>a. tpc[u] = "idle" => tstage[u] = "new" /\ tch[u] = NoAddr
  BY DEF Wiring
<1>b. \A t \in Threads : tpc[t] # "idle" /\ u # t => tch[t] \in Addrs /\ tch[u] # tch[t]
  BY OwnChannel
<1>c. tpc[u] # "idle" => tch[u] \in Addrs /\ owner[tch[u]] = u
  BY DEF Wiring
<1>d. NoThread \notin Threads /\ NoAddr \notin Addrs
  BY BridgeAssumption
<1>e. tstage[u] = "new" => tpc[u] \in {"idle", "start", "hand"}
  BY DEF Wiring
<1>f. ppc \notin {"idle", "dead"} => pmsg.addr \in Addrs
  BY DEF Wiring, Signals
<1>g. Loaded(u) /\ Framed(u)
  BY DEF EarnInv, AnswerInv, ThreadInv
<1> USE <1>a, <1>b, <1>c, <1>d, <1>e, <1>f, <1>g
    DEF TypeOK, Loaded, memory, thread, host, driver
<1>1. ASSUME NEW t \in Threads, AllocChannel(t) PROVE Loaded(u)'
  BY <1>1 DEF AllocChannel
<1>2. ASSUME NEW t \in Threads, Start(t) PROVE Loaded(u)'
  BY <1>2 DEF Start, Goto, Request
<1>3. ASSUME NEW t \in Threads, HandOff(t) PROVE Loaded(u)'
  BY <1>3 DEF HandOff, Goto
<1>4. ASSUME NEW t \in Threads, Notify(t) PROVE Loaded(u)'
  BY <1>4 DEF Notify, Goto
<1>5. ASSUME NEW t \in Threads, ParkCheck(t) PROVE Loaded(u)'
  BY <1>5 DEF ParkCheck, Goto
<1>6. ASSUME NEW t \in Threads, ParkWait(t) PROVE Loaded(u)'
  BY <1>6 DEF ParkWait, Goto
<1>7. ASSUME NEW t \in Threads, ServeDone(t) PROVE Loaded(u)'
  BY <1>7 DEF ServeDone, Goto, StrictAlternation, ThreadActs, EarnInv, AnswerInv, Earned, Handed
<1>8. ASSUME NEW t \in Threads, ServeBail(t) PROVE Loaded(u)'
  BY <1>8 DEF ServeBail, Goto
<1>9. ASSUME NEW t \in Threads, ServeImport(t) PROVE Loaded(u)'
  BY <1>9 DEF ServeImport, Goto
<1>10. ASSUME NEW t \in Threads, RequestDone(t) PROVE Loaded(u)'
  BY <1>10 DEF RequestDone, Goto
<1>11. ASSUME NEW t \in Threads, RequestBail(t) PROVE Loaded(u)'
  BY <1>11 DEF RequestBail, Goto
<1>12. ASSUME NEW t \in Threads, CallerRequest(t) PROVE Loaded(u)'
  BY <1>12 DEF CallerRequest, Goto, Request
<1>13. ASSUME NEW t \in Threads, ClosureReturn(t) PROVE Loaded(u)'
  BY <1>13 DEF ClosureReturn, Goto, Request
<1>14. ASSUME NEW t \in Threads, Transform(t) PROVE Loaded(u)'
  BY <1>14 DEF Transform, Goto, Request
<1>15. ASSUME NEW t \in Threads, Finish(t) PROVE Loaded(u)'
  BY <1>15 DEF Finish, Goto
<1>16. ASSUME NEW t \in Threads, Drop(t) PROVE Loaded(u)'
  BY <1>16 DEF Drop, Goto, Request
<1>17. ASSUME NEW t \in Threads, Free(t) PROVE Loaded(u)'
  BY <1>17 DEF Free, Goto, Dangle
<1>18. CASE ForwardSignal
  BY <1>18 DEF ForwardSignal
<1>19. CASE WorkerDies
  BY <1>19 DEF WorkerDies
<1>20. CASE Accept
  BY <1>20 DEF Accept
<1>21. CASE WaitCheck
  BY <1>21 DEF WaitCheck, PGoto
<1>22. CASE WaitPark
  BY <1>22 DEF WaitPark, PGoto
<1>23. CASE ReadOp
  BY <1>23 DEF ReadOp, PGoto
<1>24. CASE ActInit
  BY <1>24 DEF ActInit, PGoto, Framed, EarnInv, ThreadInv, Published
<1>25. CASE ActTransform
  BY <1>25 DEF ActTransform, PGoto
<1>26. CASE ServiceCaller
  BY <1>26 DEF ServiceCaller, PGoto, Answer
<1>27. CASE CallerTrap
  BY <1>27 DEF CallerTrap, PGoto, Fail, Answer
<1>28. CASE ActClose
  BY <1>28 DEF ActClose
<1>29. CASE ActUnexpected
  BY <1>29 DEF ActUnexpected, PGoto, Fail, Answer
<1>30. CASE ImportReturn
  BY <1>30 DEF ImportReturn, PGoto
<1>31. CASE PluginImport
  BY <1>31 DEF PluginImport, PGoto, Answer
<1>32. CASE PluginReturn
  BY <1>32 DEF PluginReturn, PGoto, Answer
<1>33. CASE PluginTrap
  BY <1>33 DEF PluginTrap, PGoto, Fail, Answer
<1>34. CASE HandToT
  BY <1>34 DEF HandToT, PGoto
<1>35. CASE NotifyT
  BY <1>35 DEF NotifyT, PGoto
<1>36. CASE UNCHANGED vars
  BY <1>36 DEF vars
<1>37. QED
  BY <1>1, <1>2, <1>3, <1>4, <1>5, <1>6, <1>7, <1>8, <1>9, <1>10, <1>11, <1>12, <1>13,
     <1>14, <1>15, <1>16, <1>17, <1>18, <1>19, <1>20, <1>21, <1>22, <1>23, <1>24,
     <1>25, <1>26, <1>27, <1>28, <1>29, <1>30, <1>31, <1>32, <1>33, <1>34, <1>35, <1>36
  DEF Next, ThreadStep, DriverStep

LEMMA InitEarns == Init => EarnInv
<1> SUFFICES ASSUME Init PROVE EarnInv
  OBVIOUS
<1> USE BridgeAssumption DEF Init
<1>1. ThreadInv
  BY DEF ThreadInv, Framed, Keeps, Published
<1>2. RequestInv
  BY DEF RequestInv, Own, Answered, Heard, Requested
<1>3. AnswerInv
  BY DEF AnswerInv, Serves, Earned, Handed, Waits, Loaded, InService
<1>4. QED
  BY <1>1, <1>2, <1>3 DEF EarnInv

LEMMA EarnedAnswers == TypeOK /\ StrictAlternation /\ EarnInv => AnswersAreEarned
<1> SUFFICES ASSUME TypeOK, StrictAlternation, EarnInv, NEW t \in Threads,
                    tpc[t] = "read", tctx[t] = "serve", op[tch[t]] = "DONE"
             PROVE  (IF tstage[t] = "init" THEN "INIT" ELSE "TRANSFORM") \in ran[t]
  BY DEF AnswersAreEarned
<1>1. tstage[t] \in {"init", "transform"}
  BY DEF EarnInv, ThreadInv, Framed
<1>2. Handed(t)
  BY <1>1 DEF StrictAlternation, ThreadActs, Handed
<1>3. Export(t) \in ran[t]
  BY <1>2 DEF EarnInv, AnswerInv, Earned
<1>4. QED
  BY <1>1, <1>3 DEF Export
LEMMA StepEarns == BridgeInv /\ [Next]_vars => EarnInv'
BY StepThreads, StepOwn, StepAnswered, StepHeard, StepServes, StepEarned, StepLoaded
DEF EarnInv, RequestInv, AnswerInv

LEMMA BridgeInvariant == Spec => []BridgeInv
<1>1. Init => BridgeInv
  BY InitWired, InitEarns DEF BridgeInv, Init, StrictAlternation
<1>2. BridgeInv /\ [Next]_vars => BridgeInv'
  BY StepWired, StepAlternates, StepEarns DEF BridgeInv
<1>3. QED
  BY <1>1, <1>2, PTL DEF Spec

\* serve() returns Ok only for what the worker executed for this thread: start after its own
\* module was instantiated, transform after its export returned -- although an address, and
\* with it a left-over serveChannel, may pass from one instance to the next.
THEOREM AnswersEarned == Spec => []AnswersAreEarned
<1>1. BridgeInv => AnswersAreEarned
  BY EarnedAnswers DEF BridgeInv
<1>2. QED
  BY <1>1, BridgeInvariant, PTL

-----------------------------------------------------------------------------
(* PluginBridge implements PluginCall.                                      *)

LEMMA CallStutters ==
    ASSUME \A t \in Threads : /\ CallPhase(t)' = CallPhase(t)
                              /\ CallPhase(t) \notin {"idle", "over"} => ran'[t] = ran[t]
    PROVE  phaseBar' = phaseBar /\ doneBar' = doneBar
<1>1. phaseBar' = phaseBar
  BY DEF phaseBar
<1>2. doneBar' = doneBar
  BY DEF doneBar
<1>3. QED
  BY <1>1, <1>2

\* A step that moves the call of one thread.
LEMMA CallMoves ==
    ASSUME NEW t \in Threads, NEW p, CallPhase(t)' = p,
           \A v \in Threads : v # t => /\ CallPhase(v)' = CallPhase(v)
                                       /\ CallPhase(v) \notin {"idle", "over"} => ran'[v] = ran[v]
    PROVE  /\ phaseBar' = [phaseBar EXCEPT ![t] = p]
           /\ doneBar' = [doneBar EXCEPT ![t] = IF p \in {"idle", "over"} THEN {} ELSE ran'[t]]
           /\ doneBar[t] = (IF p \in {"idle", "over"} THEN {} ELSE ran'[t]) => doneBar' = doneBar
<1>1. phaseBar' = [phaseBar EXCEPT ![t] = p]
  BY DEF phaseBar
<1>2. doneBar' = [doneBar EXCEPT ![t] = IF p \in {"idle", "over"} THEN {} ELSE ran'[t]]
  BY DEF doneBar
<1>3. doneBar[t] = (IF p \in {"idle", "over"} THEN {} ELSE ran'[t]) => doneBar' = doneBar
  BY DEF doneBar
<1>4. QED
  BY <1>1, <1>2, <1>3

LEMMA StepImplements ==
    BridgeInv /\ [Next]_vars => [Call!Next]_(Call!vars)
<1> SUFFICES ASSUME TypeOK, Wiring, StrictAlternation, EarnInv, [Next]_vars
             PROVE  Call!Next \/ UNCHANGED Call!vars
  BY DEF BridgeInv
<1>a. \A t \in Threads : /\ Framed(t) /\ Published(t)
                         /\ tstage[t] = "new" => tpc[t] \in {"idle", "start", "hand"}
                         /\ tpc[t] = "idle" => tstage[t] = "new"
  BY DEF EarnInv, ThreadInv, Wiring
<1>b. AnswersAreEarned
  BY EarnedAnswers
<1> DEFINE Same == \A v \in Threads :
                       /\ CallPhase(v)' = CallPhase(v)
                       /\ CallPhase(v) \notin {"idle", "over"} => ran'[v] = ran[v]
           Others(t) == \A v \in Threads : v # t =>
                            /\ CallPhase(v)' = CallPhase(v)
                            /\ CallPhase(v) \notin {"idle", "over"} => ran'[v] = ran[v]
           Goal == Call!Next \/ UNCHANGED Call!vars
<1>c. ASSUME Same PROVE Goal
  <2>1. phaseBar' = phaseBar /\ doneBar' = doneBar
    BY <1>c, CallStutters
  <2>2. QED
    BY <2>1 DEF Call!vars
<1>d. ASSUME NEW t \in Threads, Others(t) PROVE
        /\ phaseBar' = [phaseBar EXCEPT ![t] = CallPhase(t)']
        /\ doneBar' = [doneBar EXCEPT ![t] = IF CallPhase(t)' \in {"idle", "over"}
                                             THEN {} ELSE ran'[t]]
        /\ doneBar[t] = (IF CallPhase(t)' \in {"idle", "over"} THEN {} ELSE ran'[t])
           => doneBar' = doneBar
  BY <1>d, CallMoves
<1>e. ASSUME NEW t \in Threads, Others(t), CallPhase(t) \in {"init", "ready", "transform", "done"},
             CallPhase(t)' = "over"
      PROVE  Goal
  <2>1. Call!End(t)
    BY <1>d, <1>e DEF Call!End, Call!Move, phaseBar
  <2>2. QED
    BY <2>1 DEF Call!Next
<1> SUFFICES Goal
  OBVIOUS
<1> HIDE DEF Goal
<1> USE <1>a DEF TypeOK, Framed, CallPhase, memory, thread, host, driver
<1>1. ASSUME NEW t \in Threads, AllocChannel(t) PROVE Goal
  <2>1. Others(t) /\ CallPhase(t) = "idle" /\ CallPhase(t)' = "init" /\ ran'[t] = {}
    BY <1>1 DEF AllocChannel, Goto, Published
  <2>2. Call!Begin(t)
    BY <2>1, <1>d DEF Call!Begin, Call!Move, phaseBar, doneBar
  <2>3. QED
    BY <2>2 DEF Call!Next, Goal
<1>2. ASSUME NEW t \in Threads, Start(t) PROVE Goal
  BY <1>2, <1>c DEF Start, Goto, Request
<1>3. ASSUME NEW t \in Threads, HandOff(t) PROVE Goal
  BY <1>3, <1>c DEF HandOff, Goto
<1>4. ASSUME NEW t \in Threads, Notify(t) PROVE Goal
  BY <1>4, <1>c DEF Notify, Goto
<1>5. ASSUME NEW t \in Threads, ParkCheck(t) PROVE Goal
  BY <1>5, <1>c DEF ParkCheck, Goto
<1>6. ASSUME NEW t \in Threads, ParkWait(t) PROVE Goal
  BY <1>6, <1>c DEF ParkWait, Goto
<1>7. ASSUME NEW t \in Threads, ServeDone(t) PROVE Goal
  <2>1. Others(t) /\ ran' = ran
    BY <1>7 DEF ServeDone, Goto
  <2>2. CASE tstage[t] = "init"
    <3>1. CallPhase(t) = "init" /\ CallPhase(t)' = "ready" /\ "INIT" \in ran[t]
      BY <1>7, <2>2, <1>b DEF ServeDone, Goto, AnswersAreEarned
    <3>2. Call!InitOk(t)
      BY <2>1, <3>1, <1>d DEF Call!InitOk, Call!Move, phaseBar, doneBar
    <3>3. QED
      BY <3>2 DEF Call!Next, Goal
  <2>3. CASE tstage[t] # "init"
    <3>1. CallPhase(t) = "transform" /\ CallPhase(t)' = "done" /\ "TRANSFORM" \in ran[t]
      BY <1>7, <2>3, <1>b DEF ServeDone, Goto, AnswersAreEarned
    <3>2. Call!TransformOk(t)
      BY <2>1, <3>1, <1>d DEF Call!TransformOk, Call!Move, phaseBar, doneBar
    <3>3. QED
      BY <3>2 DEF Call!Next, Goal
  <2>4. QED
    BY <2>2, <2>3
<1>8. ASSUME NEW t \in Threads, ServeBail(t) PROVE Goal
  <2>1. Others(t) /\ CallPhase(t) \in {"init", "transform"} /\ CallPhase(t)' = "over"
    BY <1>8 DEF ServeBail, Goto
  <2>2. QED
    BY <2>1, <1>e
<1>9. ASSUME NEW t \in Threads, ServeImport(t) PROVE Goal
  BY <1>9, <1>c DEF ServeImport, Goto
<1>10. ASSUME NEW t \in Threads, RequestDone(t) PROVE Goal
  BY <1>10, <1>c DEF RequestDone, Goto, Frames
<1>11. ASSUME NEW t \in Threads, RequestBail(t) PROVE Goal
  <2>1. Others(t) /\ CallPhase(t) \in {"init", "ready", "transform", "done"}
    BY <1>11 DEF RequestBail, Goto, Frames
  <2>2. CASE tpc'[t] = "closure"
    <3>1. CallPhase(t)' = CallPhase(t) /\ ran' = ran
      BY <1>11, <2>2 DEF RequestBail, Goto, Frames
    <3>2. QED
      BY <1>c, <2>1, <3>1
  <2>3. CASE tpc'[t] # "closure"
    <3>1. CallPhase(t)' = "over"
      BY <1>11, <2>3 DEF RequestBail, Goto, Frames
    <3>2. QED
      BY <1>e, <2>1, <3>1
  <2>4. QED
    BY <2>2, <2>3
<1>12. ASSUME NEW t \in Threads, CallerRequest(t) PROVE Goal
  BY <1>12, <1>c DEF CallerRequest, Goto, Request
<1>13. ASSUME NEW t \in Threads, ClosureReturn(t) PROVE Goal
  BY <1>13, <1>c DEF ClosureReturn, Goto, Request
<1>14. ASSUME NEW t \in Threads, Transform(t) PROVE Goal
  <2>1. Others(t) /\ CallPhase(t) = "ready" /\ CallPhase(t)' = "transform" /\ ran' = ran
    BY <1>14 DEF Transform, Goto, Request
  <2>2. Call!AskTransform(t)
    BY <2>1, <1>d DEF Call!AskTransform, Call!Move, phaseBar, doneBar
  <2>3. QED
    BY <2>2 DEF Call!Next, Goal
<1>15. ASSUME NEW t \in Threads, Finish(t) PROVE Goal
  <2>1. Others(t) /\ CallPhase(t) \in {"ready", "done"} /\ CallPhase(t)' = "over"
    BY <1>15 DEF Finish, Goto
  <2>2. QED
    BY <2>1, <1>e
<1>16. ASSUME NEW t \in Threads, Drop(t) PROVE Goal
  BY <1>16, <1>c DEF Drop, Goto, Request
<1>17. ASSUME NEW t \in Threads, Free(t) PROVE Goal
  <2>1. Others(t) /\ CallPhase(t) = "over" /\ CallPhase(t)' = "idle"
    BY <1>17 DEF Free, Goto
  <2>2. Call!Release(t)
    BY <2>1, <1>d DEF Call!Release, Call!Move, phaseBar, doneBar
  <2>3. QED
    BY <2>2 DEF Call!Next, Goal
<1>18. CASE ForwardSignal
  BY <1>18, <1>c DEF ForwardSignal
<1>19. CASE WorkerDies
  BY <1>19, <1>c DEF WorkerDies
<1>20. CASE Accept
  BY <1>20, <1>c DEF Accept, PGoto
<1>21. CASE WaitCheck
  BY <1>21, <1>c DEF WaitCheck, PGoto
<1>22. CASE WaitPark
  BY <1>22, <1>c DEF WaitPark, PGoto
<1>23. CASE ReadOp
  BY <1>23, <1>c DEF ReadOp, PGoto
<1>24. CASE ActInit
  BY <1>24, <1>c DEF ActInit, PGoto
<1>25. CASE ActTransform
  BY <1>25, <1>c DEF ActTransform, PGoto
<1>26. CASE ServiceCaller
  BY <1>26, <1>c DEF ServiceCaller, PGoto, Answer
<1>27. CASE CallerTrap
  BY <1>27, <1>c DEF CallerTrap, PGoto, Fail, Answer
<1>28. CASE ActClose
  BY <1>28, <1>c DEF ActClose, PGoto
<1>29. CASE ActUnexpected
  BY <1>29, <1>c DEF ActUnexpected, PGoto, Fail, Answer
<1>30. CASE ImportReturn
  BY <1>30, <1>c DEF ImportReturn, PGoto
<1>31. CASE PluginImport
  BY <1>31, <1>c DEF PluginImport, PGoto, Answer
<1>32. CASE PluginReturn
  <2>1. PICK t \in Threads : /\ pplugin = t /\ prun = Export(t) /\ Asks(t)
                             /\ tstage[t] \in {"new", "init", "transform"}
    BY <1>32 DEF PluginReturn, EarnInv, AnswerInv, Serves
  <2>2. Others(t) /\ CallPhase(t)' = CallPhase(t) /\ ran'[t] = ran[t] \union {prun}
    BY <1>32, <2>1 DEF PluginReturn, Answer, PGoto
  <2>3. <<CallPhase(t), prun>> \in {<<"init", "INIT">>, <<"transform", "TRANSFORM">>}
    BY <2>1 DEF Asks, Waits, Export
  <2>4. Call!Execute(t, prun)
    <3>1. phaseBar' = phaseBar
      BY <2>2 DEF phaseBar
    <3>2. doneBar' = [doneBar EXCEPT ![t] = doneBar[t] \union {prun}]
      <4>1. CallPhase(t)' \notin {"idle", "over"} /\ doneBar[t] = ran[t]
        BY <2>2, <2>3 DEF doneBar
      <4>2. QED
        BY <2>2, <4>1, <1>d
    <3>3. QED
      BY <2>3, <3>1, <3>2 DEF Call!Execute, phaseBar
  <2>5. QED
    BY <2>3, <2>4 DEF Call!Next, Call!Exports, Goal
<1>33. CASE PluginTrap
  BY <1>33, <1>c DEF PluginTrap, PGoto, Fail, Answer
<1>34. CASE HandToT
  BY <1>34, <1>c DEF HandToT, PGoto
<1>35. CASE NotifyT
  BY <1>35, <1>c DEF NotifyT, PGoto
<1>36. CASE UNCHANGED vars
  BY <1>36, <1>c DEF vars
<1>37. QED
  BY <1>1, <1>2, <1>3, <1>4, <1>5, <1>6, <1>7, <1>8, <1>9, <1>10, <1>11, <1>12, <1>13,
     <1>14, <1>15, <1>16, <1>17, <1>18, <1>19, <1>20, <1>21, <1>22, <1>23, <1>24,
     <1>25, <1>26, <1>27, <1>28, <1>29, <1>30, <1>31, <1>32, <1>33, <1>34, <1>35, <1>36
  DEF Next, ThreadStep, DriverStep

LEMMA InitImplements == Init => Call!Init
<1> SUFFICES ASSUME Init PROVE Call!Init
  OBVIOUS
<1>1. \A t \in Threads : CallPhase(t) = "idle"
  BY DEF Init, CallPhase
<1>2. QED
  BY <1>1 DEF Call!Init, phaseBar, doneBar

\* The bridge keeps the promise of HostBridgeRuntime::init and Instance::transform: seen from
\* swc's plugin runner it is a PluginCall, in every interleaving and after every failure.
THEOREM BridgeImplementsCall == Spec => ImplementsCall
<1>1. Spec => Call!Init
  BY InitImplements DEF Spec
<1>2. BridgeInv /\ [Next]_vars => [Call!Next]_(Call!vars)
  BY StepImplements
<1>3. Spec => [][Next]_vars
  BY DEF Spec
<1>4. QED
  BY <1>1, <1>2, <1>3, BridgeInvariant, PTL DEF ImplementsCall, Call!Spec
=============================================================================
