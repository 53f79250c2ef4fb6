---------------------------- MODULE HostProcess ----------------------------
(***************************************************************************)
(* The process half of the host process bridge (patches-16.1/0016,         *)
(* host_pool.rs: Command::spawn, Child, push_bytes, proc_exit) and its     *)
(* host side (pkg/loader.cjs, initTurbopackProcessBridge): the guest asks  *)
(* the JS main thread to spawn and to kill through two threadsafe          *)
(* functions, and learns of output, end of file and exit through exported  *)
(* entry points that the main thread calls.                                *)
(*                                                                         *)
(* A JS callback runs alone on the main thread, but guest threads see each *)
(* registry change it makes; main says which exit report is under way.     *)
(***************************************************************************)
EXTENDS Naturals, Sequences

CONSTANTS
    Procs,       \* process ids (NEXT_ID, never reused)
    NoProc,
    WaitedFor,   \* bound: the processes that wait() is called for
    MaxOut       \* bound: chunks a process writes to its streams

ASSUME ProcessAssumption == NoProc \notin Procs /\ WaitedFor \subseteq Procs /\ MaxOut \in Nat

VARIABLES
    child, killed,          \* the guest's Child, and its killed flag
    registered,             \* PROCS: the ids proc_exit finds
    sender,                 \* STREAMS: the stdio streams push_bytes finds, by process
    code, wpc, woken,       \* ExitState: code; the wait() future and its Notified
    calls,                  \* host calls made and not yet run, by threadsafe function
    hostProcs,              \* loader.cjs: procs
    os,                     \* the operating system's process
    written, pushed,        \* chunks a stream was given, and chunks that reached the guest
    main                    \* the exit report the main thread is in the middle of

guest == <<child, killed, registered, wpc>>
exits == <<code, woken>>
data  == <<written, pushed>>
host  == <<hostProcs, os>>
processVars == <<guest, sender, exits, calls, host, data, main>>

Streams == {"out", "err"}
Codes == {"status", "signal", "failed", "errno"}   \* code, 137, 127, a negative code
Gone == {"exited", "signalled", "unspawned"}     \* no process any more
NotReporting == [proc |-> NoProc, at |-> "idle", code |-> "none"]

ProcessTypeOK ==
    /\ child \in [Procs -> {"none", "owned", "dropping", "dropped"}]
    /\ killed \in [Procs -> BOOLEAN]
    /\ registered \subseteq Procs /\ sender \in [Procs -> SUBSET Streams]
    /\ code \in [Procs -> Codes \union {"none"}]
    /\ wpc \in [Procs -> {"idle", "armed", "looked", "parked"}]
    /\ woken \in [Procs -> BOOLEAN]
    /\ calls \in [{"spawn", "action"} -> Seq(Procs)]
    /\ hostProcs \subseteq Procs
    /\ os \in [Procs -> Gone \union {"none", "running", "error"}]
    /\ written \in [Procs -> [Streams -> Nat]] /\ pushed \in [Procs -> [Streams -> Nat]]
    /\ main \in [proc : Procs, at : {"stdout", "stderr", "lookup", "store", "notify"},
                 code : Codes] \union {NotReporting}

ProcessInit ==
    /\ child = [p \in Procs |-> "none"] /\ killed = [p \in Procs |-> FALSE]
    /\ registered = {} /\ sender = [p \in Procs |-> {}]
    /\ code = [p \in Procs |-> "none"]
    /\ wpc = [p \in Procs |-> "idle"] /\ woken = [p \in Procs |-> FALSE]
    /\ calls = [f \in {"spawn", "action"} |-> <<>>] /\ hostProcs = {}
    /\ os = [p \in Procs |-> "none"]
    /\ written = [p \in Procs |-> [s \in Streams |-> 0]] /\ pushed = written
    /\ main = NotReporting

-----------------------------------------------------------------------------
(* The guest.                                                               *)

\* Each threadsafe function has a queue of its own, and nothing orders two of them.  The
\* action function carries kills.
Call(f, p) == calls' = [calls EXCEPT ![f] = Append(@, p)]
Queued(f, p) == \E i \in DOMAIN calls[f] : calls[f][i] = p

\* Command::spawn: register both streams and the exit state, then call the host.
Spawn(p) ==
    /\ child[p] = "none"
    /\ child' = [child EXCEPT ![p] = "owned"]
    /\ registered' = registered \union {p}
    /\ sender' = [sender EXCEPT ![p] = Streams]
    /\ Call("spawn", p)
    /\ UNCHANGED <<killed, wpc, exits, host, data, main>>

\* Child::start_kill, at most once.
StartKill(p) ==
    /\ child[p] = "owned" /\ ~killed[p]
    /\ killed' = [killed EXCEPT ![p] = TRUE]
    /\ Call("action", p)
    /\ UNCHANGED <<child, registered, wpc, sender, exits, host, data, main>>

\* (Mutant) a Child that is not told to kill_on_drop does not.
DropChildAlive(p) ==
    /\ child[p] = "owned" /\ wpc[p] = "idle"
    /\ child' = [child EXCEPT ![p] = "dropping"]
    /\ UNCHANGED <<killed, registered, wpc, sender, exits, calls, host, data, main>>

\* Drop for Child: kill unless it has exited or was killed before ...
DropChild(p) ==
    /\ child[p] = "owned" /\ wpc[p] = "idle"
    /\ child' = [child EXCEPT ![p] = "dropping"]
    /\ IF code[p] = "none" /\ ~killed[p] THEN Call("action", p) ELSE UNCHANGED calls
    /\ UNCHANGED <<killed, registered, wpc, sender, exits, host, data, main>>

\* ... and forget the exit state.
Unregister(p) ==
    /\ child[p] = "dropping"
    /\ child' = [child EXCEPT ![p] = "dropped"]
    /\ registered' = registered \ {p}
    /\ UNCHANGED <<killed, wpc, sender, exits, calls, host, data, main>>

\* Child::wait: create the Notified, which catches every later notify_waiters ...
WaitArm(p) ==
    /\ p \in WaitedFor /\ child[p] = "owned" /\ wpc[p] = "idle"
    /\ wpc' = [wpc EXCEPT ![p] = "armed"]
    /\ UNCHANGED <<child, killed, registered, sender, exits, calls, host, data, main>>

\* The Notified is dropped.
Disarm(p) ==
    /\ wpc' = [wpc EXCEPT ![p] = "idle"]
    /\ woken' = [woken EXCEPT ![p] = FALSE]
    /\ UNCHANGED <<child, killed, registered, sender, code, calls, host, data, main>>

\* ... then look at the code: none yet ...
WaitLook(p) ==
    /\ wpc[p] = "armed" /\ code[p] = "none"
    /\ wpc' = [wpc EXCEPT ![p] = "looked"]
    /\ UNCHANGED <<child, killed, registered, sender, exits, calls, host, data, main>>

\* ... or the one to return.
WaitReturn(p) == wpc[p] = "armed" /\ code[p] # "none" /\ Disarm(p)

\* (Mutant) the Notified is created only now, after the look.
WaitParkFresh(p) ==
    /\ wpc[p] = "looked"
    /\ wpc' = [wpc EXCEPT ![p] = "parked"]
    /\ woken' = [woken EXCEPT ![p] = FALSE]
    /\ UNCHANGED <<child, killed, registered, sender, code, calls, host, data, main>>

\* ... and await the Notified if there is none.
WaitPark(p) ==
    /\ wpc[p] = "looked"
    /\ wpc' = [wpc EXCEPT ![p] = "parked"]
    /\ UNCHANGED <<child, killed, registered, sender, exits, calls, host, data, main>>

\* The Notified resolves: round the loop.
WaitWake(p) == wpc[p] = "parked" /\ woken[p] /\ Disarm(p)

\* The future is dropped: the pool races wait() against accept().
WaitCancel(p) == wpc[p] \in {"armed", "looked", "parked"} /\ Disarm(p)

-----------------------------------------------------------------------------
(* The operating system and Node's child_process (external).                *)

ProcWrites(p, s) ==
    /\ os[p] = "running" /\ written[p]["out"] + written[p]["err"] < MaxOut
    /\ written' = [written EXCEPT ![p][s] = @ + 1]
    /\ UNCHANGED <<guest, sender, exits, calls, host, pushed, main>>

ProcExits(p) ==
    /\ os[p] = "running"
    /\ os' = [os EXCEPT ![p] = "exited"]
    /\ UNCHANGED <<guest, sender, exits, calls, hostProcs, data, main>>

\* Node emits 'close' when the process is gone and both pipes are drained.
Drained(p) == \A s \in Streams : pushed[p][s] = written[p][s]

-----------------------------------------------------------------------------
(* The JS main thread.                                                      *)

\* A callback runs: the main thread takes the oldest call of function f.
Takes(f, p) ==
    /\ main = NotReporting
    /\ calls[f] # <<>> /\ p = Head(calls[f])
    /\ calls' = [calls EXCEPT ![f] = Tail(@)]

\* push(id, data) with data: lost unless the stream is still registered.
Push(p, s) ==
    pushed' = [pushed EXCEPT ![p][s] = @ + (IF s \in sender[p] THEN 1 ELSE 0)]

\* exit(code), from its first statement on.
Report(p, c) == main' = [proc |-> p, at |-> "stdout", code |-> c]

\* The spawn callback; cp.spawn starts a process or fails with an 'error' event.
HostSpawn(p) ==
    /\ Takes("spawn", p)
    /\ hostProcs' = hostProcs \union {p}
    /\ \E o \in {"running", "error"} : os' = [os EXCEPT ![p] = o]
    /\ UNCHANGED <<guest, sender, exits, data, main>>

\* cp.spawn throws: the text goes to stderr and exit(127) follows at once.
HostSpawnThrows(p) ==
    /\ Takes("spawn", p)
    /\ os' = [os EXCEPT ![p] = "unspawned"]
    /\ written' = [written EXCEPT ![p]["err"] = @ + 1] /\ Push(p, "err")
    /\ Report(p, "failed")
    /\ UNCHANGED <<guest, sender, exits, hostProcs>>

\* child 'error': the text goes to stderr; 'close' follows.
ErrorEvent(p) ==
    /\ main = NotReporting /\ os[p] = "error"
    /\ os' = [os EXCEPT ![p] = "unspawned"]
    /\ written' = [written EXCEPT ![p]["err"] = @ + 1] /\ Push(p, "err")
    /\ UNCHANGED <<guest, sender, exits, calls, hostProcs, main>>

\* The action callback with op "kill": SIGKILL if the child is known.
HostKill(p) ==
    /\ Takes("action", p)
    /\ os' = [os EXCEPT ![p] = IF p \in hostProcs /\ @ = "running" THEN "signalled" ELSE @]
    /\ UNCHANGED <<guest, sender, exits, hostProcs, data, main>>

\* stdout or stderr 'data'.
DataEvent(p, s) ==
    /\ main = NotReporting /\ pushed[p][s] < written[p][s]
    /\ Push(p, s)
    /\ UNCHANGED <<guest, sender, exits, calls, host, written, main>>

\* (Mutant) the report is made on 'exit', when output may still be in the pipes.
CloseEventEarly(p) ==
    /\ main = NotReporting /\ p \in hostProcs /\ os[p] \in Gone
    /\ Report(p, CASE os[p] = "exited" -> "status"
                   [] os[p] = "signalled" -> "signal"
                   [] os[p] = "unspawned" -> "errno")
    /\ UNCHANGED <<guest, sender, exits, calls, host, data>>

\* child 'close', not 'exit': stdio is fully drained before EOF and exit.  After an 'error'
\* Node gives the negative errno as the code, so the 127 of the callback is not used.
CloseEvent(p) ==
    /\ main = NotReporting /\ p \in hostProcs /\ os[p] \in Gone /\ Drained(p)
    /\ Report(p, CASE os[p] = "exited" -> "status"
                   [] os[p] = "signalled" -> "signal"
                   [] os[p] = "unspawned" -> "errno")
    /\ UNCHANGED <<guest, sender, exits, calls, host, data>>

\* push(id, null) for one stream: the sender is dropped.
EndOfFile(s, here, next) ==
    /\ main.at = here
    /\ sender' = [sender EXCEPT ![main.proc] = @ \ {s}]
    /\ main' = [main EXCEPT !.at = next]
    /\ UNCHANGED <<guest, exits, calls, os, data>>

EofStdout == EndOfFile("out", "stdout", "stderr") /\ UNCHANGED hostProcs
\* (Mutant) the host keeps the process in its table.
EofStderrKept == EndOfFile("err", "stderr", "lookup") /\ UNCHANGED hostProcs

EofStderr == EndOfFile("err", "stderr", "lookup") /\ hostProcs' = hostProcs \ {main.proc}

\* turbopack_pool_proc_exit: find the exit state, or give up ...
ExitLookup ==
    /\ main.at = "lookup"
    /\ main' = IF main.proc \in registered THEN [main EXCEPT !.at = "store"] ELSE NotReporting
    /\ UNCHANGED <<guest, sender, exits, calls, host, data>>

\* ... store the code ...
ExitStore ==
    /\ main.at = "store"
    /\ code' = [code EXCEPT ![main.proc] = main.code]
    /\ main' = [main EXCEPT !.at = "notify"]
    /\ UNCHANGED <<guest, sender, woken, calls, host, data>>

\* (Mutant) the code is stored and nobody is told.
ExitSilent ==
    /\ main.at = "notify"
    /\ main' = NotReporting
    /\ UNCHANGED <<guest, sender, exits, calls, host, data>>

\* ... and wake every Notified that exists by now.
ExitNotify ==
    /\ main.at = "notify"
    /\ woken' = [woken EXCEPT ![main.proc] = wpc[main.proc] # "idle"]
    /\ main' = NotReporting
    /\ UNCHANGED <<guest, sender, code, calls, host, data>>

-----------------------------------------------------------------------------
WaitStep(p) == WaitLook(p) \/ WaitReturn(p) \/ WaitPark(p) \/ WaitWake(p)
ProcessMainStep ==
    \/ \E p \in Procs : \/ HostSpawn(p) \/ HostSpawnThrows(p) \/ ErrorEvent(p) \/ HostKill(p)
                        \/ CloseEvent(p) \/ \E s \in Streams : DataEvent(p, s)
    \/ EofStdout \/ EofStderr \/ ExitLookup \/ ExitStore \/ ExitNotify

ProcessNext ==
    \/ \E p \in Procs : \/ Spawn(p) \/ StartKill(p) \/ DropChild(p) \/ Unregister(p)
                        \/ WaitArm(p) \/ WaitStep(p) \/ WaitCancel(p)
                        \/ ProcExits(p) \/ \E s \in Streams : ProcWrites(p, s)
    \/ ProcessMainStep

ProcessSpec == ProcessInit /\ [][ProcessNext]_processVars

\* The event loop turns and serves its sources one after the other, and a future that
\* can make progress is polled; nothing obliges the guest to wait or to drop, or a
\* process to exit by itself.
ProcessFairness ==
    /\ WF_processVars(ProcessMainStep)
    /\ \A p \in Procs : WF_processVars(WaitStep(p))

-----------------------------------------------------------------------------
\* "'close' (not 'exit') so stdio is fully drained before EOF+exit" (loader.cjs:435):
\* a stream the guest sees end has delivered every chunk, the text of a spawn failure
\* included, and both ends come before the exit code.
OutputPrecedesExit ==
    \A p \in Procs :
        /\ \A s \in Streams : child[p] # "none" /\ s \notin sender[p] =>
               pushed[p][s] = written[p][s]
        /\ code[p] # "none" => sender[p] = {}

\* "Cancel-safe, callable repeatedly" (patches-16.1/0016:562): a parked wait() whose
\* child has exited is woken, or the main thread is about to do it, though the look
\* and the park are two steps and the store and the notify are two more.
WaitSeesExit ==
    \A p \in Procs : wpc[p] = "parked" /\ ~woken[p] /\ code[p] # "none" =>
        main.proc = p /\ main.at = "notify"

\* "Bridged children are always killed on drop" (patches-16.1/0016:460): a running
\* process whose Child was dropped has its kill request on the way.
NoOrphans ==
    \A p \in Procs : child[p] \in {"dropping", "dropped"} /\ os[p] = "running" =>
        Queued("action", p)

\* A process that its guest wants gone runs, and no kill is on its way.
MissedKill(p) ==
    /\ killed[p] \/ child[p] \in {"dropping", "dropped"}
    /\ os[p] = "running" /\ ~Queued("action", p)

\* What the code gives of that promise: a kill is made for every Child that goes, and it
\* misses in one way alone, by running before the spawn.  Neither a kill that runs nor a
\* drop that finds the Child killed leaves a process running, unless it began like that.
KillsMissOnlySpawns ==
    [][\A p \in Procs : MissedKill(p)' /\ ~MissedKill(p) => os[p] = "none"]_processVars

\* wait() returns once the process is gone: it never stays parked for good then.
WaitReturns == \A p \in WaitedFor : os[p] \in Gone /\ wpc[p] = "parked" ~> wpc[p] # "parked"

\* Once its streams have ended and its exit report is over, the host keeps nothing of a
\* process (procs, loader.cjs:410), whenever its Child was dropped.
NothingLeft == \A p \in Procs : sender[p] = {} /\ main.proc # p => p \notin hostProcs

\* The registries of both sides (PROCS, STREAMS, procs) hold what they should.
RegistriesAgree == ProcessTypeOK /\ NothingLeft
=============================================================================
