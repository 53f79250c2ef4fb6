-------------------------------- MODULE PoolRpc --------------------------------
(***************************************************************************)
(* The workers of turbopack-node's pool and the binding on the main thread *)
(* (pkg/loader.cjs): a worker has no wasm of its own, its binding sends    *)
(* three calls over its port, handleRpc makes them on the main thread and  *)
(* posts the answers; two callbacks create and terminate workers for Rust. *)
(*                                                                         *)
(* A step is one turn of the event loop, of the main thread or a worker.   *)
(* The Rust side of the three calls and the program of a worker are        *)
(* external: they are modelled from how loader.cjs uses them.              *)
(***************************************************************************)
EXTENDS Naturals, Sequences, FiniteSets

CONSTANTS
  Workers,      \* threads, by their threadId, which is never used again
  MaxCalls,     \* bound: calls a worker makes
  MaxMessages   \* bound: messages Rust has for a worker

ASSUME PoolAssumption == MaxCalls \in Nat /\ MaxMessages \in Nat

VARIABLES
  scheduler,    \* registerWorkerScheduler was called
  thread,       \* "none", "running", "terminating", "stopped", "exited"
  poolWorkers,  \* poolWorkers, by threadId
  up, down,     \* what is under way on the port, to and from the main thread
  pending,      \* of a worker: the calls that wait, by id, which starts at 1
  calls,        \* of a worker: [method, answer] by id; the answer is 0 until there is one
  busy,         \* handleRpc: calls that await the binding
  known,        \* Rust: the workers that told it they are there
  inbox,        \* Rust: how many messages it has put to each worker
  handed,       \* Rust: how many of them it has handed out
  unknownAsked  \* history: Rust was asked for messages of a worker it did not know

poolVars == <<scheduler, thread, poolWorkers, up, down, pending, calls, busy, known, inbox, handed,
              unknownAsked>>

Methods == {"workerCreated", "sendTaskMessage", "recvTaskMessageInWorker"}
Alive(w) == thread[w] \in {"running", "terminating"}

\* An answer is a number: a message of the binding, the call's own number, or the refusal of one.
Refused == MaxCalls + MaxMessages + 1

-----------------------------------------------------------------------------
(* The main thread.                                                         *)

\* registerWorkerScheduler.
RegisterScheduler ==
  /\ ~scheduler /\ scheduler' = TRUE
  /\ UNCHANGED <<thread, poolWorkers, up, down, pending, calls, busy, known, inbox, handed,
                 unknownAsked>>

\* The creation callback.
CreateWorker(w) ==
  /\ scheduler /\ thread[w] = "none"
  /\ thread' = [thread EXCEPT ![w] = "running"]
  /\ poolWorkers' = poolWorkers \union {w}
  /\ UNCHANGED <<scheduler, up, down, pending, calls, busy, known, inbox, handed, unknownAsked>>

\* The termination callback, for a worker that Rust knows; it may have ended by itself.
TerminateWorker(w) ==
  /\ w \in known
  /\ known' = known \ {w}
  /\ poolWorkers' = poolWorkers \ {w}
  /\ thread' = IF w \in poolWorkers /\ thread[w] = "running"
               THEN [thread EXCEPT ![w] = "terminating"] ELSE thread
  /\ UNCHANGED <<scheduler, up, down, pending, calls, busy, inbox, handed, unknownAsked>>

\* worker.postMessage: nothing goes to a thread that has stopped.
Reply(w, id, value) ==
  down' = IF Alive(w) THEN [down EXCEPT ![w] = Append(@, [id |-> id, value |-> value])] ELSE down

\* worker.on('message'): handleRpc up to its await.  workerCreated gives no promise, so that its
\* answer is posted before anything else runs.
TakeCall(w) ==
  LET call == Head(up[w]) IN
  /\ up[w] # << >>
  /\ up' = [up EXCEPT ![w] = Tail(@)]
  /\ IF call.method = "workerCreated"
       THEN /\ known' = known \union {w}
            /\ Reply(w, call.id, call.id)
            /\ UNCHANGED <<busy, unknownAsked>>
       ELSE /\ busy' = busy \union {[by |-> w, id |-> call.id, method |-> call.method]}
            /\ unknownAsked' = (unknownAsked \/ (call.method # "sendTaskMessage"
                                                   /\ w \notin known /\ thread[w] = "running"))
            /\ UNCHANGED <<known, down>>

HandleRpc(w) ==
  /\ TakeCall(w)
  /\ UNCHANGED <<scheduler, thread, poolWorkers, pending, calls, inbox, handed>>

\* handleRpc after its await: the binding's answer, or its error, as a reply.
FinishRpc(call) ==
  LET w == call.by IN
  /\ call \in busy /\ busy' = busy \ {call}
  /\ IF call.method = "sendTaskMessage"
       THEN Reply(w, call.id, call.id) /\ UNCHANGED handed
       ELSE /\ handed[w] < inbox[w]
            /\ handed' = [handed EXCEPT ![w] = @ + 1]
            /\ Reply(w, call.id, handed[w] + 1)
  /\ UNCHANGED <<scheduler, thread, poolWorkers, up, pending, calls, known, inbox, unknownAsked>>

FailRpc(call) ==
  /\ call \in busy /\ busy' = busy \ {call}
  /\ Reply(call.by, call.id, Refused)
  /\ UNCHANGED <<scheduler, thread, poolWorkers, up, pending, calls, known, inbox, handed,
                 unknownAsked>>

\* Rust has a message for a worker.
PutMessage(w) ==
  /\ w \in known /\ inbox[w] < MaxMessages
  /\ inbox' = [inbox EXCEPT ![w] = @ + 1]
  /\ UNCHANGED <<scheduler, thread, poolWorkers, up, down, pending, calls, busy, known, handed,
                 unknownAsked>>

-----------------------------------------------------------------------------
(* A worker.                                                                *)

Awaits(w, method) == \E id \in pending[w] : calls[w][id].method = method

\* The worker's program: it tells Rust that it is there first, without waiting, and asks for one
\* message at a time.
MayCall(w, method) ==
  /\ thread[w] # "none" /\ Alive(w) /\ Len(calls[w]) < MaxCalls
  /\ (method = "workerCreated") = (calls[w] = << >>)
  /\ method = "recvTaskMessageInWorker" => ~Awaits(w, method)

\* rpc(method)
Call(w, method) ==
  LET id == Len(calls[w]) + 1 IN
  /\ MayCall(w, method)
  /\ calls' = [calls EXCEPT ![w] = Append(@, [method |-> method, answer |-> 0])]
  /\ pending' = [pending EXCEPT ![w] = @ \union {id}]
  /\ up' = [up EXCEPT ![w] = Append(@, [id |-> id, method |-> method])]
  /\ UNCHANGED <<scheduler, thread, poolWorkers, down, busy, known, inbox, handed, unknownAsked>>

\* (Mutant) a reply settles the call that waits longest.
OldestWaiting(w, id) == CHOOSE k \in pending[w] : \A j \in pending[w] : k <= j

\* pending.get(reply.id)
Waiting(w, id) == id

\* parentPort.on('message'): a reply that nobody waits for is dropped.
TakeReply(w) ==
  LET reply == Head(down[w])
      id == Waiting(w, reply.id) IN
  /\ Alive(w) /\ down[w] # << >>
  /\ down' = [down EXCEPT ![w] = Tail(@)]
  /\ IF id \in pending[w]
       THEN /\ pending' = [pending EXCEPT ![w] = @ \ {id}]
            /\ calls' = [calls EXCEPT ![w][id].answer = reply.value]
       ELSE UNCHANGED <<pending, calls>>
  /\ UNCHANGED <<scheduler, thread, poolWorkers, up, busy, known, inbox, handed, unknownAsked>>

\* The thread stops: terminate() gets to it, or it ends by itself.
Stop(w) ==
  /\ Alive(w)
  /\ thread' = [thread EXCEPT ![w] = "stopped"]
  /\ down' = [down EXCEPT ![w] = << >>]
  /\ UNCHANGED <<scheduler, poolWorkers, up, pending, calls, busy, known, inbox, handed,
                 unknownAsked>>

\* worker.on('exit'), after what the worker had posted: its threadId is -1 by then, and no entry
\* goes.
Exit(w) ==
  /\ thread[w] = "stopped" /\ up[w] = << >>
  /\ thread' = [thread EXCEPT ![w] = "exited"]
  /\ UNCHANGED <<scheduler, poolWorkers, up, down, pending, calls, busy, known, inbox, handed,
                 unknownAsked>>

PoolInit ==
  /\ scheduler = FALSE
  /\ thread = [w \in Workers |-> "none"]
  /\ poolWorkers = {} /\ known = {} /\ busy = {}
  /\ up = [w \in Workers |-> << >>] /\ down = [w \in Workers |-> << >>]
  /\ pending = [w \in Workers |-> {}] /\ calls = [w \in Workers |-> << >>]
  /\ inbox = [w \in Workers |-> 0] /\ handed = [w \in Workers |-> 0]
  /\ unknownAsked = FALSE

PoolNext ==
  \/ \E w \in Workers :
       \/ CreateWorker(w) \/ TerminateWorker(w) \/ HandleRpc(w) \/ PutMessage(w)
       \/ \E method \in Methods : Call(w, method)
       \/ TakeReply(w) \/ Stop(w) \/ Exit(w)
  \/ \E call \in busy : FinishRpc(call) \/ FailRpc(call)

\* The event loops turn, and Rust answers what it can.
PoolFairness ==
  \A w \in Workers :
    /\ WF_poolVars(HandleRpc(w)) /\ WF_poolVars(TakeReply(w))
    /\ WF_poolVars(thread[w] = "terminating" /\ Stop(w)) /\ WF_poolVars(Exit(w))
    /\ \A id \in 1..MaxCalls :
         WF_poolVars(FinishRpc([by |-> w, id |-> id, method |-> "sendTaskMessage"]))

-----------------------------------------------------------------------------
PoolTypeOK ==
  /\ thread \in [Workers -> {"none", "running", "terminating", "stopped", "exited"}]
  /\ poolWorkers \subseteq Workers /\ known \subseteq Workers
  /\ \A w \in Workers :
       /\ Len(calls[w]) <= MaxCalls /\ pending[w] \subseteq DOMAIN calls[w]
       /\ handed[w] <= inbox[w]
  /\ busy \subseteq [by : Workers, id : 1..MaxCalls, method : Methods]

\* The messages a worker has got.
Received(w) ==
  {calls[w][id].answer : id \in {k \in DOMAIN calls[w] :
      calls[w][k].method = "recvTaskMessageInWorker" /\ calls[w][k].answer \notin {0, Refused}}}

\* A call is settled once, with the answer to it, though answers come in another order than calls.
AnswersMatch ==
  \A w \in Workers : \A id \in DOMAIN calls[w] :
    LET c == calls[w][id] IN
    /\ c.answer # 0 => id \notin pending[w]
    /\ c.answer \notin {0, Refused} /\ c.method # "recvTaskMessageInWorker" => c.answer = id

\* "port message ordering keeps it ahead of the first recvTaskMessageInWorker" (loader.cjs:76): Rust
\* knows a worker that is not being terminated before it is asked for the worker's messages.
CreatedFirst == ~unknownAsked

\* While a worker runs, a message that Rust has handed out for it has arrived or is on its way.
MessagesKept ==
  \A w \in Workers : Alive(w) =>
    \A n \in 1..handed[w] :
      \/ n \in Received(w)
      \/ \E k \in DOMAIN down[w] :
           /\ down[w][k].value = n
           /\ calls[w][down[w][k].id].method = "recvTaskMessageInWorker"

\* A worker that Rust may want to terminate can be: whoever runs and is not being terminated is
\* in poolWorkers; entries that stay are of workers that ended by themselves.
WorkersListed == \A w \in Workers : thread[w] = "running" => w \in poolWorkers

PoolSound == PoolTypeOK /\ AnswersMatch /\ CreatedFirst /\ MessagesKept /\ WorkersListed

\* A worker that goes on gets an answer to what it sends, and one that Rust terminates exits.
CallsAnswered ==
  \A w \in Workers :
    /\ \A id \in 1..MaxCalls :
         id \in DOMAIN calls[w] /\ calls[w][id].method # "recvTaskMessageInWorker" ~>
           id \notin pending[w] \/ ~Alive(w)
    /\ thread[w] = "terminating" ~> thread[w] = "exited"
=============================================================================
