----------------------------- MODULE PoolRpcProofs -----------------------------
(***************************************************************************)
(* Calls of the pool's workers and their answers, for any number of        *)
(* workers, calls and messages.  The specification is that of Loader.      *)
(***************************************************************************)
EXTENDS Loader, SequenceTheorems, TLAPS

-----------------------------------------------------------------------------
(* What is in a queue                                                      *)

Elems(s) == {s[k] : k \in DOMAIN s}

\* No id is in the queue twice.
Once(s) == \A j, k \in DOMAIN s : s[j].id = s[k].id => j = k

LEMMA Adding ==
  ASSUME NEW S, NEW s \in Seq(S), NEW e \in S
  PROVE  /\ Append(s, e) \in Seq(S) /\ Append(s, e) # << >>
         /\ Elems(Append(s, e)) = Elems(s) \union {e}
         /\ s # << >> => Head(Append(s, e)) = Head(s)
         /\ s = << >> => Head(Append(s, e)) = e
         /\ Once(s) /\ (\A m \in Elems(s) : m.id # e.id) => Once(Append(s, e))
<1> DEFINE t == Append(s, e)
<1>1. /\ t \in Seq(S) /\ t # << >> /\ Len(t) = Len(s) + 1 /\ t[Len(s) + 1] = e
      /\ \A i \in 1..Len(s) : t[i] = s[i]
  BY AppendProperties
<1>2. DOMAIN s = 1..Len(s) /\ DOMAIN t = 1..(Len(s) + 1) /\ Len(s) \in Nat
  BY <1>1
<1> HIDE DEF t
<1>3. Elems(t) = Elems(s) \union {e}
  <2>1. ASSUME NEW x \in Elems(t) PROVE x \in Elems(s) \union {e}
    BY <1>1, <1>2, <2>1 DEF Elems
  <2>2. ASSUME NEW x \in Elems(s) \union {e} PROVE x \in Elems(t)
    BY <1>1, <1>2, <2>2 DEF Elems
  <2> QED BY <2>1, <2>2
<1>4. (s # << >> => Head(t) = Head(s)) /\ (s = << >> => Head(t) = e)
  BY <1>1, <1>2
<1>5. ASSUME Once(s), \A m \in Elems(s) : m.id # e.id PROVE Once(t)
  BY <1>1, <1>2, <1>5 DEF Once, Elems
<1> QED BY <1>1, <1>3, <1>4, <1>5 DEF t

LEMMA Taking ==
  ASSUME NEW S, NEW s \in Seq(S), s # << >>, Once(s)
  PROVE  /\ Tail(s) \in Seq(S) /\ Head(s) \in S /\ Head(s) \in Elems(s) /\ Once(Tail(s))
         /\ Elems(Tail(s)) \subseteq Elems(s)
         /\ \A m \in Elems(Tail(s)) : m.id # Head(s).id
         /\ \A m \in Elems(s) : m = Head(s) \/ m \in Elems(Tail(s))
<1> DEFINE t == Tail(s)
<1>1. /\ t \in Seq(S) /\ Head(s) \in S /\ Len(t) = Len(s) - 1
      /\ \A i \in 1..Len(t) : t[i] = s[i + 1]
  BY HeadTailProperties
<1>2. /\ DOMAIN s = 1..Len(s) /\ Len(s) \in Nat /\ Len(s) > 0
      /\ DOMAIN t = 1..(Len(s) - 1) /\ Head(s) = s[1]
  BY <1>1
<1> HIDE DEF t
<1>3. Head(s) \in Elems(s)
  BY <1>2 DEF Elems
<1>4. \A i \in DOMAIN t : i + 1 \in DOMAIN s /\ i + 1 # 1 /\ t[i] = s[i + 1]
  BY <1>1, <1>2
<1>5. Once(t)
  BY <1>2, <1>4 DEF Once
<1>6. ASSUME NEW m \in Elems(t) PROVE m \in Elems(s) /\ m.id # Head(s).id
  BY <1>2, <1>4 DEF Elems, Once
<1>7. ASSUME NEW m \in Elems(s), m # Head(s) PROVE m \in Elems(t)
  <2>1. PICK k \in DOMAIN s : m = s[k] /\ k # 1
    BY <1>2, <1>7 DEF Elems
  <2>2. k - 1 \in DOMAIN t /\ t[k - 1] = m
    BY <1>1, <1>2, <2>1
  <2> QED BY <2>2 DEF Elems
<1> QED BY <1>1, <1>3, <1>5, <1>6, <1>7 DEF t

LEMMA Nothing == Elems(<< >>) = {} /\ Once(<< >>)
  BY DEF Elems, Once

-----------------------------------------------------------------------------
(* The inductive invariant                                                 *)

Recv == "recvTaskMessageInWorker"
CallRecords == [method : Methods, answer : Nat]
Requests == [id : Nat, method : Methods]
Replies == [id : Nat, value : Nat]

WorkersTyped ==
  /\ scheduler \in BOOLEAN
  /\ thread \in [Workers -> {"none", "running", "terminating", "stopped", "exited"}]
  /\ poolWorkers \subseteq Workers /\ known \subseteq Workers

CallsTyped ==
  /\ calls \in [Workers -> Seq(CallRecords)]
  /\ pending \in [Workers -> SUBSET Nat]
  /\ \A w \in Workers : Len(calls[w]) <= MaxCalls /\ pending[w] \subseteq DOMAIN calls[w]

QueuesTyped ==
  /\ up \in [Workers -> Seq(Requests)] /\ down \in [Workers -> Seq(Replies)]
  /\ busy \subseteq [by : Workers, id : 1..MaxCalls, method : Methods \ {"workerCreated"}]

MessagesTyped ==
  /\ inbox \in [Workers -> 0..MaxMessages] /\ handed \in [Workers -> 0..MaxMessages]
  /\ \A w \in Workers : handed[w] <= inbox[w]

PTyped == WorkersTyped /\ CallsTyped /\ QueuesTyped /\ MessagesTyped

\* A request that Rust has not answered.
Asked(w, m) == m.id \in pending[w] /\ calls[w][m.id].method = m.method

\* An answer that fits its call.
Fits(w, d) ==
  /\ d.id \in pending[w] /\ d.value # 0
  /\ calls[w][d.id].method # Recv => d.value \in {d.id, Refused}

\* A call that waits is in one place at a time: on its way up, with Rust, or on its way down.
Flow ==
  \A w \in Workers :
    /\ Once(up[w]) /\ Once(down[w])
    /\ \A m \in Elems(up[w]) : Asked(w, m)
    /\ \A c \in busy : c.by = w => Asked(w, c)
    /\ \A d \in Elems(down[w]) : Fits(w, d)
    /\ \A m \in Elems(up[w]), d \in Elems(down[w]) : m.id # d.id
    /\ \A c \in busy : c.by = w =>
         /\ \A m \in Elems(up[w]) : m.id # c.id
         /\ \A d \in Elems(down[w]) : d.id # c.id

\* Until Rust knows a worker that runs, the first call it has not taken is workerCreated.
Introduced ==
  \A w \in Workers :
    /\ calls[w] = << >> => up[w] = << >>
    /\ thread[w] = "none" => calls[w] = << >> /\ handed[w] = 0
    /\ thread[w] = "running" /\ w \notin known /\ calls[w] # << >> =>
         up[w] # << >> /\ Head(up[w]).method = "workerCreated"

Arrived(w, n) == \E id \in DOMAIN calls[w] : calls[w][id].method = Recv /\ calls[w][id].answer = n
Coming(w, n) == \E d \in Elems(down[w]) : calls[w][d.id].method = Recv /\ d.value = n

Kept == \A w \in Workers : Alive(w) => \A n \in 1..handed[w] : Arrived(w, n) \/ Coming(w, n)

PoolInv ==
  PTyped /\ Flow /\ AnswersMatch /\ CreatedFirst /\ Introduced /\ Kept /\ WorkersListed

\* AnswersMatch, call by call.
Answered(w, id) ==
  /\ calls[w][id].answer # 0 => id \notin pending[w]
  /\ calls[w][id].answer \notin {0, Refused} /\ calls[w][id].method # Recv =>
       calls[w][id].answer = id

LEMMA EachAnswered ==
  /\ AnswersMatch <=> \A w \in Workers : \A id \in DOMAIN calls[w] : Answered(w, id)
  /\ AnswersMatch' <=> \A w \in Workers : \A id \in DOMAIN calls'[w] : Answered(w, id)'
BY DEF AnswersMatch, Answered, Recv, Refused

\* What the invariant gives of the properties.
LEMMA PoolInvSound == PoolInv => PoolSound
<1> SUFFICES ASSUME PoolInv PROVE PoolSound
  OBVIOUS
<1>1. PoolTypeOK
  BY DEF PoolInv, PTyped, WorkersTyped, CallsTyped, QueuesTyped, MessagesTyped, PoolTypeOK
<1>2. MessagesKept
  <2> SUFFICES ASSUME NEW w \in Workers, Alive(w), NEW n \in 1..handed[w]
               PROVE  \/ n \in Received(w)
                      \/ \E k \in DOMAIN down[w] :
                           /\ down[w][k].value = n
                           /\ calls[w][down[w][k].id].method = Recv
    BY DEF MessagesKept, Recv
  <2>1. Arrived(w, n) \/ Coming(w, n)
    BY DEF PoolInv, Kept
  <2>2. n \notin {0, Refused}
    BY PoolAssumption DEF PoolInv, PTyped, MessagesTyped, Refused
  <2>3. Arrived(w, n) => n \in Received(w)
    BY <2>2 DEF Arrived, Received, Recv
  <2> QED BY <2>1, <2>3 DEF Coming, Elems
<1> QED BY <1>1, <1>2 DEF PoolInv, PoolSound

LEMMA PoolInitially == PoolInit => PoolInv
<1> SUFFICES ASSUME PoolInit PROVE PoolInv
  OBVIOUS
<1>1. PTyped
  <2>1. WorkersTyped
    BY DEF PoolInit, WorkersTyped
  <2>2. CallsTyped
    BY PoolAssumption DEF PoolInit, CallsTyped
  <2>3. QueuesTyped
    BY DEF PoolInit, QueuesTyped
  <2>4. 0 \in 0..MaxMessages
    BY PoolAssumption
  <2>5. MessagesTyped
    BY <2>4 DEF PoolInit, MessagesTyped
  <2> QED BY <2>1, <2>2, <2>3, <2>5 DEF PTyped
<1>2. Flow /\ Introduced
  BY Nothing DEF PoolInit, Flow, Introduced
<1>3. AnswersMatch /\ CreatedFirst /\ Kept /\ WorkersListed
  BY DEF PoolInit, AnswersMatch, CreatedFirst, Kept, WorkersListed, Alive
<1> QED BY <1>1, <1>2, <1>3 DEF PoolInv

-----------------------------------------------------------------------------
(* Workers come and go                                                     *)

\* A step that leaves all calls and queues alone.
LEMMA CallsKept ==
  ASSUME PoolInv, UNCHANGED <<up, down, pending, calls, busy>>
  PROVE  CallsTyped' /\ QueuesTyped' /\ Flow' /\ AnswersMatch'
BY DEF PoolInv, PTyped, CallsTyped, QueuesTyped, Flow, AnswersMatch, Asked, Fits

LEMMA WorkerKeeps ==
  ASSUME PoolInv, NEW w \in Workers, CreateWorker(w) \/ TerminateWorker(w) \/ Exit(w) \/ PutMessage(w)
  PROVE  PoolInv'
<1>1. UNCHANGED <<up, down, pending, calls, busy, handed, unknownAsked>>
  BY DEF CreateWorker, TerminateWorker, Exit, PutMessage
<1>2. CallsTyped' /\ QueuesTyped' /\ Flow' /\ AnswersMatch'
  BY <1>1, CallsKept
<1>3. WorkersTyped' /\ WorkersListed'
  BY DEF CreateWorker, TerminateWorker, Exit, PutMessage, PoolInv, PTyped, WorkersTyped, WorkersListed
<1>4. MessagesTyped'
  BY PoolAssumption DEF CreateWorker, TerminateWorker, Exit, PutMessage, PoolInv, PTyped, MessagesTyped
<1>5. Introduced'
  BY <1>1 DEF CreateWorker, TerminateWorker, Exit, PutMessage, PoolInv, PTyped, WorkersTyped,
              Introduced, WorkersListed
<1>6. Kept'
  <2>1. \A v \in Workers : Alive(v)' => Alive(v) \/ handed[v] = 0
    BY DEF CreateWorker, TerminateWorker, Exit, PutMessage, PoolInv, PTyped, WorkersTyped,
           Introduced, Alive
  <2>2. \A v \in Workers : handed[v] = 0 => 1..handed[v] = {}
    OBVIOUS
  <2> QED BY <1>1, <2>1, <2>2 DEF PoolInv, Kept, Arrived, Coming
<1> QED BY <1>1, <1>2, <1>3, <1>4, <1>5, <1>6 DEF PoolInv, PTyped, CreatedFirst

LEMMA SchedulerKeeps == ASSUME PoolInv, RegisterScheduler PROVE PoolInv'
BY CallsKept DEF RegisterScheduler, PoolInv, PTyped, WorkersTyped, MessagesTyped, CreatedFirst,
                 Introduced, Kept, Arrived, Coming, Alive, WorkersListed

LEMMA StopKeeps == ASSUME PoolInv, NEW w \in Workers, Stop(w) PROVE PoolInv'
<1>1. UNCHANGED <<scheduler, poolWorkers, up, pending, calls, busy, known, inbox, handed, unknownAsked>>
      /\ thread' = [thread EXCEPT ![w] = "stopped"] /\ down' = [down EXCEPT ![w] = << >>]
  BY DEF Stop
<1>2. PTyped'
  BY <1>1 DEF PoolInv, PTyped, WorkersTyped, CallsTyped, QueuesTyped, MessagesTyped
<1>3. \A v \in Workers : down'[v] = down[v] \/ down'[v] = << >>
  BY <1>1 DEF PoolInv, PTyped, QueuesTyped
<1>4. Flow' /\ AnswersMatch'
  BY <1>1, <1>3, Nothing DEF PoolInv, Flow, AnswersMatch, Asked, Fits
<1>5. Introduced' /\ WorkersListed' /\ CreatedFirst'
  BY <1>1 DEF PoolInv, PTyped, WorkersTyped, Introduced, WorkersListed, CreatedFirst
<1>6. \A v \in Workers : Alive(v)' => Alive(v) /\ down'[v] = down[v]
  BY <1>1 DEF PoolInv, PTyped, WorkersTyped, QueuesTyped, Alive
<1>7. Kept'
  BY <1>1, <1>6 DEF PoolInv, Kept, Arrived, Coming
<1> QED BY <1>2, <1>4, <1>5, <1>7 DEF PoolInv

-----------------------------------------------------------------------------
(* A worker calls                                                          *)

LEMMA CallKeeps ==
  ASSUME PoolInv, NEW w \in Workers, NEW method \in Methods, Call(w, method)
  PROVE  PoolInv'
<1>0. PICK id \in Nat : id = Len(calls[w]) + 1
  BY DEF PoolInv, PTyped, CallsTyped
<1> DEFINE r == [method |-> method, answer |-> 0]
           m0 == [id |-> id, method |-> method]
<1>1. /\ calls' = [calls EXCEPT ![w] = Append(@, r)]
      /\ pending' = [pending EXCEPT ![w] = @ \union {id}]
      /\ up' = [up EXCEPT ![w] = Append(@, m0)]
      /\ UNCHANGED <<scheduler, thread, poolWorkers, down, busy, known, inbox, handed, unknownAsked>>
      /\ thread[w] # "none" /\ Len(calls[w]) < MaxCalls
      /\ (method = "workerCreated") = (calls[w] = << >>)
  BY <1>0 DEF Call, MayCall
<1>2. /\ calls[w] \in Seq(CallRecords) /\ up[w] \in Seq(Requests) /\ id \in Nat
      /\ r \in CallRecords /\ m0 \in Requests /\ DOMAIN calls[w] = 1..Len(calls[w])
      /\ pending[w] \subseteq DOMAIN calls[w] /\ Len(calls[w]) \in Nat
  BY <1>0 DEF PoolInv, PTyped, CallsTyped, QueuesTyped, CallRecords, Requests, Methods
<1>3. /\ calls'[w] \in Seq(CallRecords) /\ Len(calls'[w]) = id /\ calls'[w][id] = r
      /\ DOMAIN calls'[w] = 1..id
      /\ \A k \in DOMAIN calls[w] : calls'[w][k] = calls[w][k] /\ k # id
  <2>1. calls'[w] = Append(calls[w], r)
    BY <1>1 DEF PoolInv, PTyped, CallsTyped
  <2> QED BY <1>0, <1>2, <2>1, AppendProperties
<1>4. id \notin pending[w]
  BY <1>0, <1>2
<1>5. \A m \in Elems(up[w]) : m.id # id
  BY <1>4 DEF PoolInv, Flow, Asked
<1>6. /\ up'[w] \in Seq(Requests) /\ up'[w] # << >> /\ Elems(up'[w]) = Elems(up[w]) \union {m0}
      /\ Once(up'[w]) /\ (up[w] # << >> => Head(up'[w]) = Head(up[w]))
      /\ (up[w] = << >> => Head(up'[w]) = m0)
  <2>1. up'[w] = Append(up[w], m0) /\ Once(up[w])
    BY <1>1 DEF PoolInv, PTyped, QueuesTyped, Flow
  <2> HIDE DEF m0
  <2>2. m0.id = id
    BY DEF m0
  <2> QED BY <1>2, <1>5, <2>1, <2>2, Adding
<1>7. /\ calls' \in [Workers -> Seq(CallRecords)] /\ up' \in [Workers -> Seq(Requests)]
      /\ pending' \in [Workers -> SUBSET Nat] /\ pending'[w] = pending[w] \union {id}
      /\ \A v \in Workers : v # w => calls'[v] = calls[v] /\ up'[v] = up[v] /\ pending'[v] = pending[v]
  BY <1>1, <1>2, <1>3, <1>6 DEF PoolInv, PTyped, CallsTyped, QueuesTyped
<1>8. PTyped'
  <2>1. \A v \in Workers : Len(calls'[v]) <= MaxCalls /\ pending'[v] \subseteq DOMAIN calls'[v]
    BY <1>0, <1>1, <1>2, <1>3, <1>7, PoolAssumption DEF PoolInv, PTyped, CallsTyped
  <2> QED BY <1>1, <1>7, <2>1 DEF PoolInv, PTyped, WorkersTyped, CallsTyped, QueuesTyped, MessagesTyped
\* What was asked or answered before stays so.
<1>9. /\ \A v \in Workers : \A m : Asked(v, m) => Asked(v, m)' /\ (v = w => m.id # id)
      /\ \A v \in Workers : \A d : Fits(v, d) => Fits(v, d)' /\ (v = w => d.id # id)
  BY <1>2, <1>3, <1>4, <1>7 DEF Asked, Fits, PoolInv, PTyped, CallsTyped
<1>10. Asked(w, m0)'
  BY <1>3, <1>7 DEF Asked
<1>11. Flow'
  <2>1. ASSUME NEW v \in Workers, v # w
        PROVE  /\ Once(up'[v]) /\ Once(down'[v])
               /\ \A m \in Elems(up'[v]) : Asked(v, m)'
               /\ \A c \in busy' : c.by = v => Asked(v, c)'
               /\ \A d \in Elems(down'[v]) : Fits(v, d)'
               /\ \A m \in Elems(up'[v]), d \in Elems(down'[v]) : m.id # d.id
               /\ \A c \in busy' : c.by = v =>
                    /\ \A m \in Elems(up'[v]) : m.id # c.id
                    /\ \A d \in Elems(down'[v]) : d.id # c.id
    BY <1>1, <1>7, <1>9, <2>1 DEF PoolInv, Flow
  <2>2. m0.id = id
    OBVIOUS
  <2> HIDE DEF m0
  <2>3. /\ Once(up'[w]) /\ Once(down'[w])
        /\ \A m \in Elems(up'[w]) : Asked(w, m)'
        /\ \A c \in busy' : c.by = w => Asked(w, c)'
        /\ \A d \in Elems(down'[w]) : Fits(w, d)'
        /\ \A m \in Elems(up'[w]), d \in Elems(down'[w]) : m.id # d.id
        /\ \A c \in busy' : c.by = w =>
             /\ \A m \in Elems(up'[w]) : m.id # c.id
             /\ \A d \in Elems(down'[w]) : d.id # c.id
    BY <1>1, <1>6, <1>9, <1>10, <2>2 DEF PoolInv, Flow
  <2> QED BY <2>1, <2>3 DEF Flow
<1>12. AnswersMatch'
  <2>1. \A k \in DOMAIN calls'[w] : k = id \/ k \in DOMAIN calls[w]
    BY <1>0, <1>2, <1>3
  <2>2. \A v \in Workers : \A k \in DOMAIN calls[v] : Answered(v, k)
    BY EachAnswered DEF PoolInv
  <2>3. ASSUME NEW k \in DOMAIN calls'[w] PROVE Answered(w, k)'
    <3>1. CASE k = id
      BY <1>3, <3>1 DEF Answered
    <3>2. CASE k # id
      <4>1. k \in DOMAIN calls[w] /\ calls'[w][k] = calls[w][k] /\ (k \in pending'[w] => k \in pending[w])
        BY <1>3, <1>7, <2>1, <3>2
      <4> QED BY <2>2, <4>1 DEF Answered, Refused
    <3> QED BY <3>1, <3>2
  <2>4. ASSUME NEW v \in Workers, v # w, NEW k \in DOMAIN calls'[v] PROVE Answered(v, k)'
    <3>1. calls'[v] = calls[v] /\ pending'[v] = pending[v]
      BY <1>7, <2>4
    <3>2. Answered(v, k)
      BY <2>2, <3>1
    <3> QED BY <3>1, <3>2 DEF Answered, Refused
  <2> QED BY <2>3, <2>4, EachAnswered
<1>13. Introduced'
  BY <1>1, <1>3, <1>6, <1>7 DEF PoolInv, PTyped, CallsTyped, Introduced
<1>14. Kept'
  <2>1. \A v \in Workers : \A n : Arrived(v, n) => Arrived(v, n)'
    <3>1. \A n : Arrived(w, n) => Arrived(w, n)'
      BY <1>0, <1>2, <1>3 DEF Arrived
    <3>2. ASSUME NEW v \in Workers, v # w, NEW n, Arrived(v, n) PROVE Arrived(v, n)'
      <4>1. calls'[v] = calls[v]
        BY <1>7, <3>2
      <4> QED BY <3>2, <4>1 DEF Arrived
    <3> QED BY <3>1, <3>2
  <2>2. \A v \in Workers : \A n : Coming(v, n) => Coming(v, n)'
    BY <1>1, <1>3, <1>7, SMTT(20) DEF Coming, PoolInv, Flow, Fits, PTyped, CallsTyped
  <2> QED BY <1>1, <2>1, <2>2 DEF PoolInv, Kept, Alive
<1> QED
  BY <1>1, <1>8, <1>11, <1>12, <1>13, <1>14 DEF PoolInv, CreatedFirst, WorkersListed

-----------------------------------------------------------------------------
(* A worker takes a reply                                                  *)

LEMMA TakeReplyKeeps == ASSUME PoolInv, NEW w \in Workers, TakeReply(w) PROVE PoolInv'
<1>1. PICK reply \in Replies : reply = Head(down[w])
  BY Taking DEF TakeReply, PoolInv, PTyped, QueuesTyped, Flow
<1>2. /\ down[w] # << >> /\ Once(down[w]) /\ down[w] \in Seq(Replies)
  BY DEF TakeReply, PoolInv, PTyped, QueuesTyped, Flow
<1>3. /\ reply \in Elems(down[w]) /\ Once(Tail(down[w])) /\ Tail(down[w]) \in Seq(Replies)
      /\ Elems(Tail(down[w])) \subseteq Elems(down[w])
      /\ \A d \in Elems(Tail(down[w])) : d.id # reply.id
      /\ \A d \in Elems(down[w]) : d = reply \/ d \in Elems(Tail(down[w]))
  BY <1>1, <1>2, Taking
<1> DEFINE id == reply.id
           r == [calls[w][id] EXCEPT !.answer = reply.value]
\* The call waits: the reply is not dropped.
<1>4. Fits(w, reply) /\ id \in pending[w] /\ id \in DOMAIN calls[w]
  BY <1>3 DEF PoolInv, PTyped, CallsTyped, Flow, Fits
<1>5. /\ Alive(w) /\ down' = [down EXCEPT ![w] = Tail(@)]
      /\ pending' = [pending EXCEPT ![w] = @ \ {id}]
      /\ calls' = [calls EXCEPT ![w][id].answer = reply.value]
      /\ UNCHANGED <<scheduler, thread, poolWorkers, up, busy, known, inbox, handed, unknownAsked>>
  BY <1>1, <1>4 DEF TakeReply, Waiting
<1>6. /\ down'[w] = Tail(down[w]) /\ down' \in [Workers -> Seq(Replies)]
      /\ pending'[w] = pending[w] \ {id} /\ pending' \in [Workers -> SUBSET Nat]
      /\ calls'[w] = [calls[w] EXCEPT ![id] = [calls[w][id] EXCEPT !.answer = reply.value]]
      /\ \A v \in Workers : v # w => calls'[v] = calls[v] /\ down'[v] = down[v] /\ pending'[v] = pending[v]
  BY <1>3, <1>5 DEF PoolInv, PTyped, CallsTyped, QueuesTyped
<1>7. /\ calls[w] \in Seq(CallRecords) /\ calls[w][id] \in CallRecords /\ id \in 1..Len(calls[w])
      /\ reply.value \in Nat /\ id \in Nat
  BY <1>4 DEF PoolInv, PTyped, CallsTyped, Replies
<1>8. [calls[w][id] EXCEPT !.answer = reply.value] \in CallRecords
  BY <1>7 DEF CallRecords
<1>9. /\ calls'[w] \in Seq(CallRecords) /\ Len(calls'[w]) = Len(calls[w])
      /\ DOMAIN calls'[w] = DOMAIN calls[w]
      /\ \A k \in DOMAIN calls[w] : k # id => calls'[w][k] = calls[w][k]
      /\ calls'[w][id].answer = reply.value /\ calls'[w][id].method = calls[w][id].method
  BY <1>6, <1>7, <1>8, ExceptSeq DEF CallRecords
<1>10. \A v \in Workers : /\ DOMAIN calls'[v] = DOMAIN calls[v]
                          /\ \A k \in DOMAIN calls[v] : calls'[v][k].method = calls[v][k].method
  BY <1>6, <1>9
<1>11. PTyped'
  <2>1. CallsTyped'
    BY <1>5, <1>6, <1>9 DEF PoolInv, PTyped, CallsTyped
  <2> QED BY <1>5, <1>6, <2>1 DEF PoolInv, PTyped, WorkersTyped, QueuesTyped, MessagesTyped
\* Whatever else is under way for the worker is for another call.
<1>12. /\ \A v \in Workers : \A m : Asked(v, m) /\ (v = w => m.id # id) => Asked(v, m)'
       /\ \A v \in Workers : \A d : Fits(v, d) /\ (v = w => d.id # id) => Fits(v, d)'
  <2>1. \A v \in Workers : pending[v] \subseteq DOMAIN calls[v]
    BY DEF PoolInv, PTyped, CallsTyped
  <2> QED BY <1>6, <1>10, <2>1 DEF Asked, Fits, Recv, Refused
<1>13. Flow'
  <2>1. ASSUME NEW v \in Workers
        PROVE  /\ Once(up'[v]) /\ Once(down'[v])
               /\ \A m \in Elems(up'[v]) : Asked(v, m)'
               /\ \A c \in busy' : c.by = v => Asked(v, c)'
               /\ \A d \in Elems(down'[v]) : Fits(v, d)'
               /\ \A m \in Elems(up'[v]), d \in Elems(down'[v]) : m.id # d.id
               /\ \A c \in busy' : c.by = v =>
                    /\ \A m \in Elems(up'[v]) : m.id # c.id
                    /\ \A d \in Elems(down'[v]) : d.id # c.id
    <3>1. CASE v = w
      <4>1. /\ \A m \in Elems(up[w]) : Asked(w, m) /\ m.id # id
            /\ \A c \in busy : c.by = w => Asked(w, c) /\ c.id # id
            /\ \A d \in Elems(down'[w]) : Fits(w, d) /\ d.id # id /\ d \in Elems(down[w])
        BY <1>3, <1>6 DEF PoolInv, Flow
      <4>2. /\ \A m \in Elems(up[w]) : Asked(w, m)'
            /\ \A c \in busy : c.by = w => Asked(w, c)'
            /\ \A d \in Elems(down'[w]) : Fits(w, d)'
        BY <1>12, <4>1
      <4> QED BY <1>3, <1>5, <1>6, <3>1, <4>1, <4>2 DEF PoolInv, Flow
    <3>2. CASE v # w
      BY <1>5, <1>6, <1>12, <3>2 DEF PoolInv, Flow
    <3> QED BY <3>1, <3>2
  <2> QED BY <2>1 DEF Flow
<1>14. AnswersMatch'
  <2>1. \A v \in Workers : \A k \in DOMAIN calls[v] : Answered(v, k)
    BY EachAnswered DEF PoolInv
  <2>2. Answered(w, id)'
    BY <1>4, <1>6, <1>9 DEF Fits, Answered, Refused
  <2>3. ASSUME NEW v \in Workers, NEW k \in DOMAIN calls'[v], v # w \/ k # id PROVE Answered(v, k)'
    <3>1. k \in DOMAIN calls[v] /\ calls'[v][k] = calls[v][k] /\ pending'[v] \subseteq pending[v]
      BY <1>6, <1>9, <2>3
    <3>2. Answered(v, k)
      BY <2>1, <3>1
    <3> QED BY <3>1, <3>2 DEF Answered, Refused
  <2> QED BY <2>2, <2>3, EachAnswered
<1>15. Introduced'
  BY <1>4, <1>5, <1>6, <1>9 DEF PoolInv, Introduced
\* A call that waited had no answer; a message has arrived, is still coming, or is the reply.
<1>16. Kept'
  <2> SUFFICES ASSUME NEW v \in Workers, Alive(v), NEW n \in 1..handed[v]
               PROVE  Arrived(v, n)' \/ Coming(v, n)'
    BY <1>5 DEF Kept, Alive
  <2>1. Arrived(v, n) \/ Coming(v, n)
    BY DEF PoolInv, Kept
  <2>2. CASE v # w
    BY <1>6, <2>1, <2>2 DEF Arrived, Coming
  <2>3. CASE v = w /\ Arrived(w, n)
    <3>1. PICK k \in DOMAIN calls[w] : calls[w][k].method = Recv /\ calls[w][k].answer = n
      BY <2>3 DEF Arrived
    <3>2. n # 0
      BY DEF PoolInv, PTyped, MessagesTyped
    <3>3. k # id
      BY <1>4, <3>1, <3>2, EachAnswered DEF PoolInv, Answered
    <3> QED BY <1>9, <2>3, <3>1, <3>3 DEF Arrived
  <2>4. CASE v = w /\ Coming(w, n)
    <3>1. PICK d \in Elems(down[w]) : calls[w][d.id].method = Recv /\ d.value = n
      BY <2>4 DEF Coming
    <3>2. CASE d = reply
      BY <1>4, <1>9, <2>4, <3>1, <3>2 DEF Arrived
    <3>3. CASE d # reply
      <4>1. d \in Elems(down'[w]) /\ d.id # id
        BY <1>3, <1>6, <3>3
      <4>2. d.id \in DOMAIN calls[w]
        BY DEF PoolInv, PTyped, CallsTyped, Flow, Fits
      <4> QED BY <1>10, <2>4, <3>1, <4>1, <4>2 DEF Coming
    <3> QED BY <3>2, <3>3
  <2> QED BY <2>1, <2>2, <2>3, <2>4
<1> QED
  BY <1>5, <1>11, <1>13, <1>14, <1>15, <1>16 DEF PoolInv, CreatedFirst, WorkersListed

-----------------------------------------------------------------------------
(* The main thread answers                                                 *)

\* What a reply adds to a worker's queue.
LEMMA Replying ==
  ASSUME PoolInv, NEW w \in Workers, NEW id \in Nat, NEW value \in Nat, Reply(w, id, value),
         \A d \in Elems(down[w]) : d.id # id
  PROVE  /\ down' \in [Workers -> Seq(Replies)]
         /\ \A v \in Workers : Once(down'[v]) /\ Elems(down[v]) \subseteq Elems(down'[v])
         /\ \A v \in Workers : \A d \in Elems(down'[v]) :
              d \in Elems(down[v]) \/ (v = w /\ d = [id |-> id, value |-> value])
         /\ Alive(w) => [id |-> id, value |-> value] \in Elems(down'[w])
<1>1. CASE Alive(w)
  <2> DEFINE e == [id |-> id, value |-> value]
  <2>1. down' = [down EXCEPT ![w] = Append(@, e)] /\ down \in [Workers -> Seq(Replies)]
    BY <1>1 DEF Reply, PoolInv, PTyped, QueuesTyped
  <2>2. e \in Replies /\ e.id = id /\ Once(down[w])
    BY DEF Replies, PoolInv, Flow
  <2> HIDE DEF e
  <2>3. /\ Append(down[w], e) \in Seq(Replies) /\ Once(Append(down[w], e))
        /\ Elems(Append(down[w], e)) = Elems(down[w]) \union {e}
    BY <2>1, <2>2, Adding
  <2>4. /\ down'[w] = Append(down[w], e) /\ \A v \in Workers : v # w => down'[v] = down[v]
        /\ \A v \in Workers : Once(down[v])
    BY <2>1 DEF PoolInv, Flow
  <2>5. down' \in [Workers -> Seq(Replies)]
    BY <2>1, <2>3
  <2>6. /\ \A v \in Workers : Once(down'[v]) /\ Elems(down[v]) \subseteq Elems(down'[v])
        /\ \A v \in Workers : \A d \in Elems(down'[v]) : d \in Elems(down[v]) \/ (v = w /\ d = e)
        /\ e \in Elems(down'[w])
    BY <2>3, <2>4
  <2> QED BY <2>5, <2>6 DEF e
<1>2. CASE ~Alive(w)
  <2>1. down' = down /\ down \in [Workers -> Seq(Replies)] /\ \A v \in Workers : Once(down[v])
    BY <1>2 DEF Reply, PoolInv, PTyped, QueuesTyped, Flow
  <2> QED BY <1>2, <2>1
<1> QED BY <1>1, <1>2

\* What is left of the invariant is about the queues when the main thread takes or answers a call.
LEMMA MainKeeps ==
  ASSUME PoolInv, UNCHANGED <<scheduler, thread, poolWorkers, pending, calls, inbox>>,
         known \subseteq known', known' \subseteq Workers,
         QueuesTyped', MessagesTyped', Flow', CreatedFirst', Introduced', Kept'
  PROVE  PoolInv'
BY DEF PoolInv, PTyped, WorkersTyped, CallsTyped, AnswersMatch, WorkersListed

\* Messages that arrived or were coming still are.
LEMMA KeptOn ==
  ASSUME PoolInv, UNCHANGED <<thread, calls>>,
         \A v \in Workers : Elems(down[v]) \subseteq Elems(down'[v])
  PROVE  \A v \in Workers : \A n : Arrived(v, n) \/ Coming(v, n) => Arrived(v, n)' \/ Coming(v, n)'
BY DEF Arrived, Coming

LEMMA HandleKeeps == ASSUME PoolInv, NEW w \in Workers, HandleRpc(w) PROVE PoolInv'
<1>1. PICK m \in Requests : m = Head(up[w])
  BY Taking DEF HandleRpc, TakeCall, PoolInv, PTyped, QueuesTyped, Flow
<1>2. /\ up[w] # << >> /\ Once(up[w]) /\ up[w] \in Seq(Requests)
      /\ up' = [up EXCEPT ![w] = Tail(@)] /\ up \in [Workers -> Seq(Requests)]
      /\ UNCHANGED <<scheduler, thread, poolWorkers, pending, calls, inbox, handed>>
  BY DEF HandleRpc, TakeCall, PoolInv, PTyped, QueuesTyped, Flow
<1>3. /\ m \in Elems(up[w]) /\ Once(Tail(up[w])) /\ Tail(up[w]) \in Seq(Requests)
      /\ Elems(Tail(up[w])) \subseteq Elems(up[w]) /\ \A x \in Elems(Tail(up[w])) : x.id # m.id
  BY <1>1, <1>2, Taking
<1>4. /\ up' \in [Workers -> Seq(Requests)] /\ up'[w] = Tail(up[w])
      /\ \A v \in Workers : v # w => up'[v] = up[v]
      /\ \A v \in Workers : Once(up'[v]) /\ Elems(up'[v]) \subseteq Elems(up[v])
      /\ \A x \in Elems(up'[w]) : x.id # m.id
  BY <1>2, <1>3 DEF PoolInv, Flow
<1>5. /\ Asked(w, m) /\ m.id \in Nat /\ m.id \in 1..MaxCalls
      /\ \A d \in Elems(down[w]) : d.id # m.id
      /\ \A c \in busy : c.by = w => c.id # m.id
  <2>1. Asked(w, m)
    BY <1>3 DEF PoolInv, Flow
  <2>2. m.id \in Nat /\ m.id \in 1..MaxCalls
    BY <2>1, PoolAssumption DEF Asked, PoolInv, PTyped, CallsTyped
  <2> QED BY <1>3, <2>1, <2>2 DEF PoolInv, Flow
<1>6. \A v \in Workers : /\ \A x : Asked(v, x)' <=> Asked(v, x)
                         /\ \A d : Fits(v, d)' <=> Fits(v, d)
  BY <1>2 DEF Asked, Fits, Refused
<1>7. MessagesTyped'
  BY <1>2 DEF PoolInv, PTyped, MessagesTyped
\* workerCreated: answered at once.
<1>8. CASE m.method = "workerCreated"
  <2>1. known' = known \union {w} /\ Reply(w, m.id, m.id) /\ UNCHANGED <<busy, unknownAsked>>
    BY <1>1, <1>8 DEF HandleRpc, TakeCall
  <2>2. /\ down' \in [Workers -> Seq(Replies)]
        /\ \A v \in Workers : Once(down'[v]) /\ Elems(down[v]) \subseteq Elems(down'[v])
        /\ \A v \in Workers : \A d \in Elems(down'[v]) :
             d \in Elems(down[v]) \/ (v = w /\ d = [id |-> m.id, value |-> m.id])
    BY <1>5, <2>1, Replying
  <2>3. QueuesTyped'
    BY <1>4, <2>1, <2>2 DEF PoolInv, PTyped, QueuesTyped
  <2>4. Fits(w, [id |-> m.id, value |-> m.id])
    BY <1>5 DEF Fits, Asked
  <2>5. Flow'
    <3>1. \A v \in Workers : \A d \in Elems(down'[v]) :
            Fits(v, d) /\ (d \in Elems(down[v]) \/ (v = w /\ d.id = m.id))
      BY <2>2, <2>4 DEF PoolInv, Flow
    <3>2. ASSUME NEW v \in Workers, NEW x \in Elems(up'[v]), NEW d \in Elems(down'[v])
          PROVE  x.id # d.id
      <4>1. CASE d \in Elems(down[v])
        <5>1. x \in Elems(up[v])
          BY <1>4
        <5> QED BY <4>1, <5>1 DEF PoolInv, Flow
      <4>2. CASE v = w /\ d.id = m.id
        BY <1>4, <4>2
      <4> QED BY <3>1, <4>1, <4>2
    <3>3. ASSUME NEW v \in Workers, NEW c \in busy, c.by = v, NEW d \in Elems(down'[v])
          PROVE  d.id # c.id
      <4>1. CASE d \in Elems(down[v])
        BY <3>3, <4>1 DEF PoolInv, Flow
      <4>2. CASE v = w /\ d.id = m.id
        BY <1>5, <3>3, <4>2
      <4> QED BY <3>1, <4>1, <4>2
    <3> QED BY <1>4, <1>6, <2>1, <2>2, <3>1, <3>2, <3>3 DEF PoolInv, Flow
  <2>6. Introduced'
    BY <1>2, <1>4, <2>1, Taking DEF PoolInv, Introduced
  <2>7. CreatedFirst'
    BY <2>1 DEF PoolInv, CreatedFirst
  <2>8. Kept'
    BY <1>2, <2>2, KeptOn DEF PoolInv, Kept, Alive
  <2> QED BY <1>2, <1>7, <2>1, <2>3, <2>5, <2>6, <2>7, <2>8, MainKeeps DEF PoolInv, PTyped, WorkersTyped
\* The other calls go to Rust.
<1>9. CASE m.method # "workerCreated"
  <2> DEFINE c0 == [by |-> w, id |-> m.id, method |-> m.method]
  <2>1. /\ busy' = busy \union {c0} /\ UNCHANGED <<known, down>>
        /\ unknownAsked' = (unknownAsked \/ (m.method # "sendTaskMessage"
                                               /\ w \notin known /\ thread[w] = "running"))
    BY <1>1, <1>9 DEF HandleRpc, TakeCall
  <2>2. c0 \in [by : Workers, id : 1..MaxCalls, method : Methods \ {"workerCreated"}]
        /\ Asked(w, c0)
    BY <1>5, <1>9 DEF Requests, Asked
  <2>3. c0.by = w /\ c0.id = m.id
    OBVIOUS
  <2> HIDE DEF c0
  <2>4. QueuesTyped'
    BY <1>4, <2>1, <2>2 DEF PoolInv, PTyped, QueuesTyped
  <2>5. Flow'
    <3>1. \A v \in Workers : \A c \in busy' : c.by = v =>
            Asked(v, c) /\ (c \in busy \/ (v = w /\ c.id = m.id))
      BY <2>1, <2>2, <2>3 DEF PoolInv, Flow
    <3>2. ASSUME NEW v \in Workers, NEW c \in busy', c.by = v
          PROVE  /\ \A x \in Elems(up'[v]) : x.id # c.id
                 /\ \A d \in Elems(down[v]) : d.id # c.id
      <4>1. CASE c \in busy
        <5>1. Elems(up'[v]) \subseteq Elems(up[v])
          BY <1>4
        <5> QED BY <3>2, <4>1, <5>1 DEF PoolInv, Flow
      <4>2. CASE v = w /\ c.id = m.id
        BY <1>4, <1>5, <4>2
      <4> QED BY <3>1, <3>2, <4>1, <4>2
    <3> QED BY <1>4, <1>6, <2>1, <3>1, <3>2 DEF PoolInv, Flow
  \* A worker that runs and is unknown has workerCreated at the head of its queue.
  <2>6. thread[w] = "running" => w \in known
    BY <1>1, <1>2, <1>9 DEF PoolInv, Introduced
  <2>7. Introduced'
    BY <1>2, <1>4, <2>1, <2>6, Taking DEF PoolInv, Introduced
  <2>8. CreatedFirst'
    BY <2>1, <2>6 DEF PoolInv, CreatedFirst
  <2>9. Kept'
    BY <1>2, <2>1, KeptOn DEF PoolInv, Kept, Alive
  <2> QED BY <1>2, <1>7, <2>1, <2>4, <2>5, <2>7, <2>8, <2>9, MainKeeps DEF PoolInv, PTyped, WorkersTyped
<1> QED BY <1>8, <1>9

\* Rust answers, or refuses.
LEMMA AnswerKeeps ==
  ASSUME PoolInv, NEW call \in busy, FinishRpc(call) \/ FailRpc(call)
  PROVE  PoolInv'
<1>1. PICK w \in Workers : w = call.by
  BY DEF PoolInv, PTyped, QueuesTyped
<1>2. /\ busy' = busy \ {call}
      /\ UNCHANGED <<scheduler, thread, poolWorkers, up, pending, calls, known, inbox, unknownAsked>>
  BY DEF FinishRpc, FailRpc
<1>3. Asked(w, call) /\ call.id \in Nat /\ call.id # 0
  BY <1>1 DEF PoolInv, PTyped, QueuesTyped, Flow
\* What it answers: a message for a recvTaskMessageInWorker, the next one.
<1>4. PICK value \in Nat :
        /\ Reply(w, call.id, value) /\ value # 0
        /\ call.method # Recv => value \in {call.id, Refused}
        /\ \/ handed' = handed
           \/ /\ call.method = Recv /\ value = handed[w] + 1
              /\ handed[w] < inbox[w] /\ handed' = [handed EXCEPT ![w] = @ + 1]
  <2>1. CASE FinishRpc(call) /\ call.method = "sendTaskMessage"
    BY <1>1, <1>3, <2>1 DEF FinishRpc, Recv
  <2>2. CASE FinishRpc(call) /\ call.method # "sendTaskMessage"
    <3>1. call.method = Recv
      BY <2>2 DEF PoolInv, PTyped, QueuesTyped, Methods, Recv
    <3>2. handed[w] + 1 \in Nat /\ handed[w] + 1 # 0
      BY DEF PoolInv, PTyped, MessagesTyped
    <3> QED BY <1>1, <2>2, <3>1, <3>2 DEF FinishRpc
  <2>3. CASE FailRpc(call)
    <3>1. Refused \in Nat /\ Refused # 0
      BY PoolAssumption DEF Refused
    <3> QED BY <1>1, <2>3, <3>1 DEF FailRpc
  <2> QED BY <2>1, <2>2, <2>3
<1>5. MessagesTyped'
  <2>1. handed \in [Workers -> 0..MaxMessages] /\ inbox \in [Workers -> 0..MaxMessages]
        /\ \A v \in Workers : handed[v] <= inbox[v]
    BY DEF PoolInv, PTyped, MessagesTyped
  <2>2. CASE handed' = handed
    BY <1>2, <2>1, <2>2 DEF MessagesTyped
  <2>3. CASE handed[w] < inbox[w] /\ handed' = [handed EXCEPT ![w] = @ + 1]
    <3>1. handed[w] + 1 \in 0..MaxMessages /\ handed[w] + 1 <= inbox[w]
      BY <2>1, <2>3, PoolAssumption
    <3> QED BY <1>2, <2>1, <2>3, <3>1 DEF MessagesTyped
  <2> QED BY <1>4, <2>2, <2>3
<1> DEFINE e == [id |-> call.id, value |-> value]
<1>6. \A d \in Elems(down[w]) : d.id # call.id
  BY <1>1 DEF PoolInv, Flow
<1>7. /\ down' \in [Workers -> Seq(Replies)]
      /\ \A v \in Workers : Once(down'[v]) /\ Elems(down[v]) \subseteq Elems(down'[v])
      /\ \A v \in Workers : \A d \in Elems(down'[v]) : d \in Elems(down[v]) \/ (v = w /\ d = e)
      /\ Alive(w) => e \in Elems(down'[w])
  BY <1>3, <1>4, <1>6, Replying
<1>8. \A v \in Workers : /\ \A x : Asked(v, x)' <=> Asked(v, x)
                         /\ \A d : Fits(v, d)' <=> Fits(v, d)
  BY <1>2 DEF Asked, Fits, Refused
<1>9. Fits(w, e) /\ e.id = call.id /\ e.value = value
  BY <1>3, <1>4 DEF Fits, Asked
<1> HIDE DEF e
<1>10. QueuesTyped'
  BY <1>2, <1>7 DEF PoolInv, PTyped, QueuesTyped
<1>11. Flow'
  <2>1. \A v \in Workers : \A d \in Elems(down'[v]) :
          Fits(v, d) /\ (d \in Elems(down[v]) \/ (v = w /\ d.id = call.id))
    BY <1>7, <1>9 DEF PoolInv, Flow
  <2>2. \A v \in Workers : \A x \in Elems(up[v]), d \in Elems(down'[v]) : x.id # d.id
    BY <1>1, <2>1 DEF PoolInv, Flow
  \* Two calls with Rust are of different workers or have different ids.
  <2>3. \A c \in busy \ {call} : c.by = w => c.id # call.id
    <3> SUFFICES ASSUME NEW c \in busy, c.by = w, c.id = call.id PROVE c = call
      OBVIOUS
    <3>1. c.method = call.method
      BY <1>1 DEF PoolInv, Flow, Asked
    <3>2. /\ c \in [by : Workers, id : 1..MaxCalls, method : Methods \ {"workerCreated"}]
          /\ call \in [by : Workers, id : 1..MaxCalls, method : Methods \ {"workerCreated"}]
      BY DEF PoolInv, PTyped, QueuesTyped
    <3>3. c.by = call.by
      BY <1>1
    <3> QED BY <3>1, <3>2, <3>3
  <2>4. \A v \in Workers : \A c \in busy' : c.by = v => \A d \in Elems(down'[v]) : d.id # c.id
    BY <1>2, <2>1, <2>3 DEF PoolInv, Flow
  <2> QED BY <1>2, <1>7, <1>8, <2>1, <2>2, <2>4 DEF PoolInv, Flow
<1>12. Introduced'
  <2>1. calls[w] # << >>
    BY <1>3 DEF Asked, PoolInv, PTyped, CallsTyped
  <2> QED BY <1>2, <1>4, <2>1 DEF PoolInv, PTyped, MessagesTyped, Introduced
<1>13. Kept'
  <2> SUFFICES ASSUME NEW v \in Workers, Alive(v), NEW n \in 1..handed'[v]
               PROVE  Arrived(v, n)' \/ Coming(v, n)'
    BY <1>2 DEF Kept, Alive
  <2>1. n \in 1..handed[v] \/ (v = w /\ n = value /\ call.method = Recv)
    BY <1>4 DEF PoolInv, PTyped, MessagesTyped
  <2>2. CASE n \in 1..handed[v]
    BY <1>2, <1>7, <2>2, KeptOn DEF PoolInv, Kept
  <2>3. CASE v = w /\ n = value /\ call.method = Recv
    BY <1>2, <1>3, <1>7, <1>9, <2>3 DEF Coming, Asked
  <2> QED BY <2>1, <2>2, <2>3
<1> QED
  BY <1>2, <1>5, <1>10, <1>11, <1>12, <1>13, MainKeeps
  DEF PoolInv, PTyped, WorkersTyped, CreatedFirst

-----------------------------------------------------------------------------
(* Theorem                                                                 *)

\* A worker's call is settled once and with its own answer, Rust knows a worker before it is asked
\* for its messages, a message handed out for a worker that runs has arrived or is coming, and a
\* worker that runs can be terminated.
THEOREM PoolIsSound == LoaderSpec => []PoolSound
<1>1. MainInit => PoolInv
  BY PoolInitially DEF MainInit
<1>2. PoolInv /\ [LoaderNext]_loaderVars => PoolInv'
  <2> SUFFICES ASSUME PoolInv, [LoaderNext]_loaderVars PROVE PoolInv'
    OBVIOUS
  <2>1. RegisterScheduler \/ PoolNext \/ UNCHANGED poolVars
    BY DEF LoaderNext, loaderVars, Register
  <2>2. CASE PoolNext
    <3>1. ASSUME NEW w \in Workers, NEW method \in Methods, Call(w, method) PROVE PoolInv'
      BY <3>1, CallKeeps
    <3>2. ASSUME NEW call \in busy, FinishRpc(call) \/ FailRpc(call) PROVE PoolInv'
      BY <3>2, AnswerKeeps
    <3> QED BY <2>2, <3>1, <3>2, WorkerKeeps, HandleKeeps, TakeReplyKeeps, StopKeeps DEF PoolNext
  <2>3. CASE UNCHANGED poolVars
    <3>1. CallsTyped' /\ QueuesTyped' /\ Flow' /\ AnswersMatch'
      BY <2>3, CallsKept DEF poolVars
    <3> QED BY <2>3, <3>1 DEF poolVars, PoolInv, PTyped, WorkersTyped, MessagesTyped, CreatedFirst,
                              Introduced, Kept, Arrived, Coming, Alive, WorkersListed
  <2> QED BY <2>1, <2>2, <2>3, SchedulerKeeps
<1>3. PoolInv => PoolSound
  BY PoolInvSound
<1> QED BY <1>1, <1>2, <1>3, PTL DEF LoaderSpec
=============================================================================
