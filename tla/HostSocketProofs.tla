--------------------------- MODULE HostSocketProofs ---------------------------
(***************************************************************************)
(* Proofs about HostSocket, for any number of listeners and connections    *)
(* and any amount of data.                                                 *)
(***************************************************************************)
EXTENDS HostBridge, FiniteSetTheorems, FunctionTheorems, SequenceTheorems, TLAPS

\* A behaviour of the bridge is one of its socket half.
LEMMA SocketPart == Spec => SocketSpec
<1>1. Init => SocketInit
  BY DEF Init
<1>2. [Next]_hostBridgeVars => [SocketNext]_socketVars
  BY DEF Next, hostBridgeVars
<1>3. QED
  BY <1>1, <1>2, PTL DEF Spec, SocketSpec

-----------------------------------------------------------------------------
(* The queues of host calls.                                                *)

\* Request o for x is queued, as Asked has it.
Has(a, o, x) == \E i \in DOMAIN a[Via(o)] : a[Via(o)][i] = [op |-> o, id |-> x]

\* The writes for a connection that are queued, and how many they are.
WritesIn(a, c) == {i \in DOMAIN a["write"] : a["write"][i] = [op |-> "write", id |-> c]}
Pending(a, c) == Cardinality(WritesIn(a, c))

Queues == [Functions -> Seq(Requests)]

LEMMA OwnFunction ==
    /\ \A o : Via(o) \in Functions
    /\ \A o : Via(o) = "write" <=> o = "write"
BY DEF Via, Functions

LEMMA PendingType ==
    ASSUME NEW a \in Queues, NEW c
    PROVE  /\ IsFiniteSet(WritesIn(a, c)) /\ Pending(a, c) \in Nat
           /\ Pending(a, c) = 0 <=> ~Has(a, "write", c)
<1>1. IsFiniteSet(DOMAIN a["write"])
  <2>1. a["write"] \in Seq(Requests)
    BY DEF Queues, Functions
  <2>2. DOMAIN a["write"] = 1 .. Len(a["write"]) /\ Len(a["write"]) \in Nat
    BY <2>1
  <2>3. QED
    BY <2>2, FS_Interval
<1>2. IsFiniteSet(WritesIn(a, c))
  BY <1>1, FS_Subset DEF WritesIn
<1>3. Pending(a, c) \in Nat
  BY <1>2, FS_CardinalityType DEF Pending
<1>4. Pending(a, c) = 0 <=> WritesIn(a, c) = {}
  BY <1>2, FS_EmptySet DEF Pending
<1>5. WritesIn(a, c) = {} <=> ~Has(a, "write", c)
  BY OwnFunction DEF WritesIn, Has
<1>6. QED
  BY <1>2, <1>3, <1>4, <1>5

\* A new request is behind the others of its function.
LEMMA Adding ==
    ASSUME asked \in Queues, NEW o, NEW x, [op |-> o, id |-> x] \in Requests, Ask(o, x)
    PROVE  /\ asked' \in Queues
           /\ \A p, y : Has(asked', p, y) <=> Has(asked, p, y) \/ (p = o /\ y = x)
           /\ \A c : Pending(asked', c) =
                     IF o = "write" /\ c = x THEN Pending(asked, c) + 1 ELSE Pending(asked, c)
<1> DEFINE r == [op |-> o, id |-> x]
           q == asked[Via(o)]
           n == Len(q) + 1
<1>1. r \in Requests /\ q \in Seq(Requests) /\ Via(o) \in Functions
  BY OwnFunction DEF Queues
<1>2. asked' = [asked EXCEPT ![Via(o)] = Append(q, r)] /\ Append(q, r) \in Seq(Requests)
  BY <1>1 DEF Ask
<1>3. asked' \in Queues
  BY <1>2 DEF Queues
<1>4. /\ \A g \in Functions : g # Via(o) => asked'[g] = asked[g]
      /\ DOMAIN asked'[Via(o)] = DOMAIN q \union {n} /\ n \notin DOMAIN q
      /\ \A k \in DOMAIN q : asked'[Via(o)][k] = q[k]
      /\ asked'[Via(o)][n] = r
  <2>1. asked'[Via(o)] = Append(q, r) /\ \A g \in Functions : g # Via(o) => asked'[g] = asked[g]
    BY <1>1, <1>2 DEF Queues
  <2>2. Len(q) \in Nat /\ DOMAIN q = 1 .. Len(q)
    BY <1>1
  <2>. HIDE DEF r, q
  <2>3. QED
    BY <1>1, <2>1, <2>2, AppendProperties
<1>5. \A p, y : r = [op |-> p, id |-> y] <=> p = o /\ y = x
  OBVIOUS
<1>. HIDE DEF r, n
<1>6. ASSUME NEW p, NEW y PROVE Has(asked', p, y) <=> Has(asked, p, y) \/ (p = o /\ y = x)
  <2>1. CASE Via(p) = Via(o)
    BY <1>4, <1>5, <2>1 DEF Has
  <2>2. CASE Via(p) # Via(o)
    BY <1>4, <2>2, OwnFunction DEF Has
  <2>3. QED
    BY <2>1, <2>2
<1>7. ASSUME NEW c
      PROVE  Pending(asked', c) =
             IF o = "write" /\ c = x THEN Pending(asked, c) + 1 ELSE Pending(asked, c)
  <2>1. WritesIn(asked', c) = IF o = "write" /\ c = x THEN WritesIn(asked, c) \union {n}
                              ELSE WritesIn(asked, c)
    <3>1. CASE o = "write"
      BY <1>4, <1>5, <3>1, OwnFunction DEF WritesIn
    <3>2. CASE o # "write"
      <4>1. asked'["write"] = asked["write"]
        BY <1>4, <3>2, OwnFunction DEF Functions
      <4>2. QED
        BY <3>2, <4>1 DEF WritesIn
    <3>3. QED
      BY <3>1, <3>2
  <2>2. o = "write" => n \notin WritesIn(asked, c)
    BY <1>4, OwnFunction DEF WritesIn
  <2>3. IsFiniteSet(WritesIn(asked, c)) /\ Pending(asked, c) \in Nat
    BY PendingType
  <2>4. o = "write" =>
            Cardinality(WritesIn(asked, c) \union {n}) = Cardinality(WritesIn(asked, c)) + 1
    BY <2>2, <2>3, FS_AddElement
  <2>5. QED
    BY <2>1, <2>3, <2>4 DEF Pending
<1>8. QED
  BY <1>3, <1>6, <1>7

\* Taking the oldest request of a function removes it and leaves the others.
LEMMA Taking ==
    ASSUME asked \in Queues, NEW o, NEW x, Serves(o, x)
    PROVE  /\ offered = NoneOffered /\ asked' \in Queues /\ Has(asked, o, x)
           /\ \A p, y : Has(asked', p, y) => Has(asked, p, y)
           /\ \A p, y : Has(asked, p, y) /\ ~(p = o /\ y = x) => Has(asked', p, y)
           /\ \A c : Pending(asked', c) =
                     IF o = "write" /\ c = x THEN Pending(asked, c) - 1 ELSE Pending(asked, c)
<1> DEFINE q == asked[Via(o)]
           w == Tail(q)
<1>1. /\ q \in Seq(Requests) /\ q # << >> /\ Head(q) = [op |-> o, id |-> x]
      /\ Via(o) \in Functions /\ offered = NoneOffered /\ asked' = [asked EXCEPT ![Via(o)] = w]
  BY OwnFunction DEF Serves, Queues
<1>2. /\ w \in Seq(Requests) /\ Len(q) \in Nat \ {0} /\ DOMAIN q = 1 .. Len(q)
      /\ q[1] = [op |-> o, id |-> x]
      /\ DOMAIN w = 1 .. Len(q) - 1
      /\ \A k \in 1 .. Len(q) - 1 : w[k] = q[k + 1]
  <2>. HIDE DEF q
  <2>1. Len(q) \in Nat \ {0} /\ DOMAIN q = 1 .. Len(q) /\ Head(q) = q[1]
    BY <1>1, EmptySeq
  <2>2. w \in Seq(Requests) /\ Len(w) = Len(q) - 1 /\ \A k \in 1 .. Len(w) : w[k] = q[k + 1]
    BY <1>1, HeadTailProperties
  <2>3. DOMAIN w = 1 .. Len(w)
    BY <2>2
  <2>4. QED
    BY <1>1, <2>1, <2>2, <2>3
<1>3. asked' \in Queues /\ asked'[Via(o)] = w /\ \A g \in Functions : g # Via(o) => asked'[g] = asked[g]
  <2>. HIDE DEF w
  <2>1. QED
    BY <1>1, <1>2 DEF Queues
<1>4. /\ 1 \in DOMAIN q
      /\ \A k \in DOMAIN w : k + 1 \in DOMAIN q /\ k + 1 # 1 /\ w[k] = q[k + 1] /\ k \in Int
      /\ \A k \in DOMAIN q \ {1} : k - 1 \in DOMAIN w /\ w[k - 1] = q[k] /\ k - 1 + 1 = k
  <2>. HIDE DEF q, w
  <2>1. QED
    BY <1>2
<1>. HIDE DEF w
<1>5. Has(asked, o, x)
  BY <1>2, <1>4 DEF Has
<1>6. ASSUME NEW p, NEW y, Has(asked', p, y) PROVE Has(asked, p, y)
  <2>1. CASE Via(p) = Via(o)
    BY <1>3, <1>4, <1>6, <2>1 DEF Has
  <2>2. CASE Via(p) # Via(o)
    BY <1>3, <1>6, <2>2, OwnFunction DEF Has
  <2>3. QED
    BY <2>1, <2>2
<1>7. ASSUME NEW p, NEW y, Has(asked, p, y), ~(p = o /\ y = x) PROVE Has(asked', p, y)
  <2>1. CASE Via(p) = Via(o)
    <3>1. PICK k \in DOMAIN q : q[k] = [op |-> p, id |-> y]
      BY <1>7, <2>1 DEF Has
    <3>2. k # 1
      <4>1. [op |-> p, id |-> y] # [op |-> o, id |-> x]
        BY <1>7
      <4>2. QED
        BY <1>2, <3>1, <4>1
    <3>3. QED
      BY <1>3, <1>4, <2>1, <3>1, <3>2 DEF Has
  <2>2. CASE Via(p) # Via(o)
    BY <1>3, <1>7, <2>2, OwnFunction DEF Has
  <2>3. QED
    BY <2>1, <2>2
<1>8. ASSUME NEW c
      PROVE  Pending(asked', c) =
             IF o = "write" /\ c = x THEN Pending(asked, c) - 1 ELSE Pending(asked, c)
  <2>1. CASE o # "write"
    <3>1. asked'["write"] = asked["write"]
      BY <1>3, <2>1, OwnFunction DEF Functions
    <3>2. QED
      BY <2>1, <3>1 DEF Pending, WritesIn
  <2>2. CASE o = "write"
    <3> DEFINE S == WritesIn(asked', c)
               T == WritesIn(asked, c) \ {1}
               g == [k \in S |-> k + 1]
    <3>1. /\ IsFiniteSet(WritesIn(asked, c)) /\ IsFiniteSet(S) /\ Pending(asked, c) \in Nat
          /\ Via(o) = "write"
      BY <1>3, <2>2, PendingType, OwnFunction
    <3>2. g \in Bijection(S, T)
      <4>1. \A k \in S : k + 1 \in T /\ k \in Int
        BY <1>3, <1>4, <3>1 DEF WritesIn
      <4>2. \A t \in T : t - 1 \in S /\ t - 1 + 1 = t
        BY <1>3, <1>4, <3>1 DEF WritesIn
      <4>. HIDE DEF S, T
      <4>3. g \in [S -> T] /\ (\A a, b \in S : g[a] = g[b] => a = b)
        BY <4>1
      <4>4. \A t \in T : \E k \in S : g[k] = t
        BY <4>2
      <4>5. QED
        BY <4>3, <4>4, Fun_IsBij
    <3>3. Cardinality(T) = Cardinality(S)
      BY <3>1, <3>2, FS_Bijection DEF ExistsBijection
    <3>4. Cardinality(T) = IF 1 \in WritesIn(asked, c) THEN Cardinality(WritesIn(asked, c)) - 1
                           ELSE Cardinality(WritesIn(asked, c))
      BY <3>1, FS_RemoveElement
    <3>5. 1 \in WritesIn(asked, c) <=> c = x
      <4>1. [op |-> "write", id |-> c] = [op |-> o, id |-> x] <=> c = x
        BY <2>2
      <4>2. QED
        BY <1>2, <1>4, <3>1, <4>1 DEF WritesIn
    <3>6. QED
      BY <2>2, <3>1, <3>3, <3>4, <3>5 DEF Pending
  <2>3. QED
    BY <2>1, <2>2
<1>9. QED
  BY <1>1, <1>3, <1>5, <1>6, <1>7, <1>8

-----------------------------------------------------------------------------
(* Type correctness.                                                        *)

LEMMA InitTyped == SocketInit => SocketTypeOK
BY DEF SocketInit, SocketTypeOK

LEMMA StepTyped == SocketTypeOK /\ [SocketNext]_socketVars => SocketTypeOK'
<1> SUFFICES ASSUME SocketTypeOK, [SocketNext]_socketVars PROVE SocketTypeOK'
  OBVIOUS
<1> USE DEF SocketTypeOK, Queues, binding, held, hostL, hostC, outward, inward
<1>1. ASSUME NEW l \in Listeners, Bind(l) PROVE SocketTypeOK'
  <2>1. Ask("listen", l) /\ [op |-> "listen", id |-> l] \in Requests
    BY <1>1 DEF Bind, Requests
  <2>2. asked' \in Queues
    BY <2>1, Adding
  <2>3. QED
    BY <1>1, <2>2 DEF Bind
<1>2. ASSUME NEW l \in Listeners, BindReturns(l) PROVE SocketTypeOK'
  <2>1. /\ listener' \in [Listeners -> {"none", "binding", "bound", "failed", "closing", "dropped"}]
        /\ listening' \subseteq Listeners
    BY <1>2 DEF BindReturns
  <2>2. acceptRx' \in [Listeners -> Seq(Conns)]
    <3>1. << >> \in Seq(Conns)
      OBVIOUS
    <3>2. acceptRx' \in {acceptRx, [acceptRx EXCEPT ![l] = << >>]}
      BY <1>2 DEF BindReturns
    <3>3. QED
      BY <3>1, <3>2
  <2>3. stream' \in [Conns -> {"none", "queued", "held", "dropped", "lost"}]
    BY <1>2 DEF BindReturns
  <2>4. QED
    BY <1>2, <2>1, <2>2, <2>3 DEF BindReturns
<1>3. ASSUME NEW l \in Listeners, Accept(l) PROVE SocketTypeOK'
  <2>1. acceptRx[l] \in Seq(Conns) /\ acceptRx[l] # << >>
    BY <1>3 DEF Accept
  <2>2. Tail(acceptRx[l]) \in Seq(Conns) /\ Head(acceptRx[l]) \in Conns
    BY <2>1
  <2>3. QED
    BY <1>3, <2>2 DEF Accept
<1>4. ASSUME NEW l \in Listeners, DropListener(l) PROVE SocketTypeOK'
  BY <1>4 DEF DropListener
<1>5. ASSUME NEW l \in Listeners, CloseListener(l) PROVE SocketTypeOK'
  <2>1. Ask("closeListener", l) /\ [op |-> "closeListener", id |-> l] \in Requests
    BY <1>5 DEF CloseListener, Requests
  <2>2. asked' \in Queues
    BY <2>1, Adding
  <2>3. QED
    BY <1>5, <2>2 DEF CloseListener
<1>6. ASSUME NEW l \in Listeners, HostListen(l) PROVE SocketTypeOK'
  <2>1. asked' \in Queues
    BY <1>6, Taking DEF HostListen
  <2>2. QED
    BY <1>6, <2>1 DEF HostListen
<1>7. ASSUME NEW l \in Listeners, ListenSettles(l) PROVE SocketTypeOK'
  BY <1>7 DEF ListenSettles
<1>8. ASSUME NEW l \in Listeners, HostCloseListener(l) PROVE SocketTypeOK'
  <2>1. asked' \in Queues
    BY <1>8, Taking DEF HostCloseListener
  <2>2. QED
    BY <1>8, <2>1 DEF HostCloseListener
<1>9. ASSUME NEW c \in Conns, Write(c) PROVE SocketTypeOK'
  <2>1. Ask("write", c) /\ [op |-> "write", id |-> c] \in Requests
    BY <1>9 DEF Write, Requests
  <2>2. asked' \in Queues
    BY <2>1, Adding
  <2>3. QED
    BY <1>9, <2>2 DEF Write
<1>10. ASSUME NEW c \in Conns, Shutdown(c) PROVE SocketTypeOK'
  <2>1. Ask("closeWrite", c) /\ [op |-> "closeWrite", id |-> c] \in Requests
    BY <1>10 DEF Shutdown, Requests
  <2>2. asked' \in Queues
    BY <2>1, Adding
  <2>3. QED
    BY <1>10, <2>2 DEF Shutdown
<1>11. ASSUME NEW c \in Conns, DropStream(c) PROVE SocketTypeOK'
  <2>1. Ask("dropConn", c) /\ [op |-> "dropConn", id |-> c] \in Requests
    BY <1>11 DEF DropStream, Requests
  <2>2. asked' \in Queues
    BY <2>1, Adding
  <2>3. QED
    BY <1>11, <2>2 DEF DropStream
<1>12. ASSUME NEW c \in Conns, HostWrite(c) PROVE SocketTypeOK'
  <2>1. asked' \in Queues
    BY <1>12, Taking DEF HostWrite
  <2>2. sent' \in [Conns -> Nat]
    <3>1. sent' = sent \/ sent' = [sent EXCEPT ![c] = sent[c] + 1]
      BY <1>12 DEF HostWrite
    <3>2. sent \in [Conns -> Nat] /\ sent[c] + 1 \in Nat
      OBVIOUS
    <3>. HIDE DEF SocketTypeOK
    <3>3. QED
      BY <3>1, <3>2
  <2>3. sock' \in [Conns -> {"none", "open", "ended", "destroyed", "closed"}]
    BY <1>12 DEF HostWrite
  <2>4. QED
    BY <1>12, <2>1, <2>2, <2>3 DEF HostWrite
<1>13. ASSUME NEW c \in Conns, HostCloseWrite(c) PROVE SocketTypeOK'
  <2>1. asked' \in Queues
    BY <1>13, Taking DEF HostCloseWrite
  <2>2. QED
    BY <1>13, <2>1 DEF HostCloseWrite, Overtakes
<1>14. ASSUME NEW c \in Conns, HostDropConn(c) PROVE SocketTypeOK'
  <2>1. asked' \in Queues
    BY <1>14, Taking DEF HostDropConn
  <2>2. QED
    BY <1>14, <2>1 DEF HostDropConn, Overtakes
<1>15. ASSUME NEW c \in Conns, SockData(c) PROVE SocketTypeOK'
  BY <1>15 DEF SockData
<1>16. ASSUME NEW c \in Conns, SockClose(c) PROVE SocketTypeOK'
  BY <1>16 DEF SockClose, Closes
<1>17. ASSUME NEW c \in Conns, PeerSends(c) PROVE SocketTypeOK'
  BY <1>17 DEF PeerSends
<1>18. ASSUME NEW c \in Conns, PeerLeaves(c) PROVE SocketTypeOK'
  BY <1>18 DEF PeerLeaves
<1>19. ASSUME NEW c \in Conns, NEW l \in Listeners, Connect(c, l) PROVE SocketTypeOK'
  BY <1>19 DEF Connect
<1>20. CASE Offer
  <2>1. offered.conn \in Conns /\ offered.via \in Listeners
    BY <1>20 DEF Offer
  <2>2. CASE offered.via \in listening
    <3>1. Append(acceptRx[offered.via], offered.conn) \in Seq(Conns)
      BY <2>1
    <3>2. acceptRx' = [acceptRx EXCEPT ![offered.via] = Append(acceptRx[offered.via], offered.conn)]
      BY <1>20, <2>2 DEF Offer
    <3>3. acceptRx' \in [Listeners -> Seq(Conns)]
      BY <2>1, <3>1, <3>2
    <3>4. stream' \in [Conns -> {"none", "queued", "held", "dropped", "lost"}]
      BY <1>20, <2>2 DEF Offer
    <3>5. QED
      BY <1>20, <2>2, <3>3, <3>4 DEF Offer
  <2>3. CASE offered.via \notin listening
    <3>1. /\ Ask("dropConn", offered.conn)
          /\ [op |-> "dropConn", id |-> offered.conn] \in Requests
      BY <1>20, <2>1, <2>3 DEF Offer, Requests
    <3>2. asked' \in Queues
      BY <3>1, Adding
    <3>3. QED
      BY <1>20, <2>3, <3>2 DEF Offer, NoneOffered
  <2>4. QED
    BY <2>2, <2>3
<1>21. CASE UNCHANGED socketVars
  BY <1>21 DEF socketVars
<1>22. QED
  BY <1>1, <1>2, <1>3, <1>4, <1>5, <1>6, <1>7, <1>8, <1>9, <1>10, <1>11, <1>12, <1>13,
     <1>14, <1>15, <1>16, <1>17, <1>18, <1>19, <1>20, <1>21
  DEF SocketNext, GuestStep, SocketMainStep

\* Every variable keeps its type.
THEOREM TypeCorrect == Spec => []SocketTypeOK
BY SocketPart, InitTyped, StepTyped, PTL DEF SocketSpec

-----------------------------------------------------------------------------
(* A connection on its way to accept(), and the end of what it receives.    *)

\* Each connection waits for accept() in one place.
Waiting ==
    \A l, m \in Listeners : \A i \in DOMAIN acceptRx[l], j \in DOMAIN acceptRx[m] :
        /\ stream[acceptRx[l][i]] = "queued"
        /\ acceptRx[l][i] = acceptRx[m][j] => l = m /\ i = j

\* The main thread is in the middle of offering c, which nobody knows of but STREAMS.
Offering(c) == offered.conn = c => stream[c] = "none" /\ c \in streams /\ sock[c] = "open"

\* The host is asked to drop a connection once the guest cannot have it or has dropped it,
\* and what the guest cannot have or has dropped, it is asked to drop.
Released(c) ==
    /\ Has(asked, "dropConn", c) =>
            stream[c] \in {"none", "dropped"} /\ offered.conn # c /\ sock[c] # "none"
    /\ c \in conns /\ stream[c] \in {"none", "dropped"} => offered.conn = c \/ Has(asked, "dropConn", c)

\* The guest gets what Node emits, and a connection that it has ends with Node's 'close': after
\* the last chunk, a reset, or a write that was lost.
Fed(c) ==
    /\ c \in streams \/ stream[c] \in {"queued", "held"} => given[c] = emitted[c]
    /\ stream[c] \in {"queued", "held"} =>
        /\ sock[c] = "destroyed" => sent[c] < wrote[c]
        /\ c \notin streams =>
            /\ sock[c] = "closed"
            /\ \/ peer[c] # "open" /\ given[c] = arrived[c]
               \/ peer[c] = "reset"
               \/ sent[c] < wrote[c]
    /\ sent[c] + Pending(asked, c) <= wrote[c]

Connection(c) ==
    /\ sock[c] = "none" =>
        /\ stream[c] = "none" /\ offered.conn # c /\ c \notin streams \union conns
        /\ given[c] = emitted[c]
    /\ Offering(c) /\ Released(c) /\ Fed(c)

Connections == \A c \in Conns : Connection(c)

LEMMA StepConnections == SocketTypeOK /\ Waiting /\ Connections /\ [SocketNext]_socketVars => Connections'
<1> SUFFICES ASSUME SocketTypeOK, Waiting, Connections, [SocketNext]_socketVars PROVE Connections'
  OBVIOUS
<1> USE SocketAssumption DEF Waiting, Connections, Connection, Offering, Released, Fed, NoneOffered,
        binding, held, hostL, hostC, outward, inward
<1>0. /\ asked \in Queues /\ acceptRx \in [Listeners -> Seq(Conns)]
      /\ stream \in [Conns -> {"none", "queued", "held", "dropped", "lost"}]
      /\ sock \in [Conns -> {"none", "open", "ended", "destroyed", "closed"}]
      /\ peer \in [Conns -> {"none", "open", "closed", "reset"}]
      /\ wrote \in [Conns -> Nat] /\ sent \in [Conns -> Nat] /\ arrived \in [Conns -> Nat]
      /\ emitted \in [Conns -> Nat] /\ given \in [Conns -> Nat]
      /\ offered \in [conn : Conns, via : Listeners] \union {NoneOffered}
      /\ \A d \in Conns : Pending(asked, d) \in Nat
  <2>1. asked \in Queues
    BY DEF SocketTypeOK, Queues
  <2>2. \A d \in Conns : Pending(asked, d) \in Nat
    BY <2>1, PendingType
  <2>3. QED
    BY <2>1, <2>2 DEF SocketTypeOK
<1>1. ASSUME NEW l \in Listeners, Bind(l) PROVE Connections'
  <2>1. Ask("listen", l) /\ [op |-> "listen", id |-> l] \in Requests
    BY <1>1 DEF Bind, Requests
  <2>2. /\ \A p, y : Has(asked', p, y) <=> Has(asked, p, y) \/ (p = "listen" /\ y = l)
        /\ \A d \in Conns : Pending(asked', d) = Pending(asked, d)
    BY <2>1, <1>0, Adding
  <2>3. ASSUME NEW d \in Conns PROVE Connection(d)'
    BY <1>1, <1>0, <2>2 DEF Bind
  <2>4. QED
    BY <2>3
<1>2. ASSUME NEW l \in Listeners, BindReturns(l) PROVE Connections'
  <2>1. \A d \in Conns : stream'[d] = stream[d] \/ (stream[d] = "queued" /\ stream'[d] = "lost")
    <3>1. \A d \in ToSet(acceptRx[l]) : stream[d] = "queued"
      BY DEF ToSet
    <3>2. \A d \in Conns : (stream'[d] = IF d \in ToSet(acceptRx[l]) THEN "lost" ELSE stream[d])
                             \/ stream'[d] = stream[d]
      BY <1>2, <1>0, SMTT(20) DEF BindReturns
    <3>3. QED
      BY <3>1, <3>2
  <2>2. UNCHANGED <<writeClosed, streams, asked, hostC, peer, outward, inward, offered>>
    BY <1>2 DEF BindReturns
  <2>3. ASSUME NEW d \in Conns PROVE Connection(d)'
    <3>1. Connection(d) /\ (stream'[d] = stream[d] \/ (stream[d] = "queued" /\ stream'[d] = "lost"))
      BY <2>1
    <3>2. QED
      BY <2>2, <3>1
  <2>4. QED
    BY <2>3
<1>3. ASSUME NEW l \in Listeners, Accept(l) PROVE Connections'
  <2>1. /\ Head(acceptRx[l]) \in Conns /\ stream[Head(acceptRx[l])] = "queued"
        /\ stream' = [stream EXCEPT ![Head(acceptRx[l])] = "held"]
    <3>1. acceptRx[l] \in Seq(Conns) /\ acceptRx[l] # << >>
      BY <1>3, <1>0 DEF Accept
    <3>2. 1 \in DOMAIN acceptRx[l] /\ Head(acceptRx[l]) = acceptRx[l][1]
      BY <3>1
    <3>3. QED
      BY <1>3, <3>1, <3>2 DEF Accept
  <2>2. UNCHANGED <<writeClosed, streams, asked, hostC, peer, outward, inward, offered>>
    BY <1>3 DEF Accept
  <2>3. ASSUME NEW d \in Conns PROVE Connection(d)'
    <3>1. stream'[d] = stream[d] \/ (stream[d] = "queued" /\ stream'[d] = "held")
      <4>1. stream'[d] = IF d = Head(acceptRx[l]) THEN "held" ELSE stream[d]
        BY <1>0, <2>1
      <4>2. QED
        BY <2>1, <4>1
    <3>2. Connection(d)
      OBVIOUS
    <3>3. QED
      BY <2>2, <3>1, <3>2
  <2>4. QED
    BY <2>3
<1>4. ASSUME NEW l \in Listeners, DropListener(l) PROVE Connections'
  <2>1. ASSUME NEW d \in Conns PROVE Connection(d)'
    BY <1>4, <1>0 DEF DropListener
  <2>2. QED
    BY <2>1
<1>5. ASSUME NEW l \in Listeners, CloseListener(l) PROVE Connections'
  <2>1. Ask("closeListener", l) /\ [op |-> "closeListener", id |-> l] \in Requests
    BY <1>5 DEF CloseListener, Requests
  <2>2. /\ \A p, y : Has(asked', p, y) <=> Has(asked, p, y) \/ (p = "closeListener" /\ y = l)
        /\ \A d \in Conns : Pending(asked', d) = Pending(asked, d)
    BY <2>1, <1>0, Adding
  <2>3. \A d \in Conns : stream'[d] = stream[d] \/ (stream[d] = "queued" /\ stream'[d] = "lost")
    <3>1. \A d \in ToSet(acceptRx[l]) : stream[d] = "queued"
      BY DEF ToSet
    <3>2. \A d \in Conns : (stream'[d] = IF d \in ToSet(acceptRx[l]) THEN "lost" ELSE stream[d])
                             \/ stream'[d] = stream[d]
      BY <1>5, <1>0 DEF CloseListener
    <3>3. QED
      BY <3>1, <3>2
  <2>4. UNCHANGED <<writeClosed, streams, hostC, peer, outward, inward, offered>>
    BY <1>5 DEF CloseListener
  <2>5. ASSUME NEW d \in Conns PROVE Connection(d)'
    <3>1. Connection(d) /\ (stream'[d] = stream[d] \/ (stream[d] = "queued" /\ stream'[d] = "lost"))
      BY <2>3
    <3>2. (Has(asked', "dropConn", d) <=> Has(asked, "dropConn", d)) /\ Pending(asked', d) = Pending(asked, d)
      BY <2>2
    <3>3. QED
      BY <2>4, <3>1, <3>2
  <2>6. QED
    BY <2>5
<1>6. ASSUME NEW l \in Listeners, HostListen(l) PROVE Connections'
  <2>1. /\ offered = NoneOffered /\ Has(asked, "listen", l)
        /\ \A p, y : Has(asked', p, y) => Has(asked, p, y)
        /\ \A p, y : Has(asked, p, y) /\ ~(p = "listen" /\ y = l) => Has(asked', p, y)
        /\ \A d \in Conns : Pending(asked', d) = Pending(asked, d)
    BY <1>6, <1>0, Taking DEF HostListen
  <2>2. ASSUME NEW d \in Conns PROVE Connection(d)'
    BY <1>6, <1>0, <2>1 DEF HostListen
  <2>3. QED
    BY <2>2
<1>7. ASSUME NEW l \in Listeners, ListenSettles(l) PROVE Connections'
  <2>1. ASSUME NEW d \in Conns PROVE Connection(d)'
    BY <1>7, <1>0 DEF ListenSettles
  <2>2. QED
    BY <2>1
<1>8. ASSUME NEW l \in Listeners, HostCloseListener(l) PROVE Connections'
  <2>1. /\ offered = NoneOffered /\ Has(asked, "closeListener", l)
        /\ \A p, y : Has(asked', p, y) => Has(asked, p, y)
        /\ \A p, y : Has(asked, p, y) /\ ~(p = "closeListener" /\ y = l) => Has(asked', p, y)
        /\ \A d \in Conns : Pending(asked', d) = Pending(asked, d)
    BY <1>8, <1>0, Taking DEF HostCloseListener
  <2>2. ASSUME NEW d \in Conns PROVE Connection(d)'
    BY <1>8, <1>0, <2>1 DEF HostCloseListener
  <2>3. QED
    BY <2>2
<1>9. ASSUME NEW c \in Conns, Write(c) PROVE Connections'
  <2>1. Ask("write", c) /\ [op |-> "write", id |-> c] \in Requests
    BY <1>9 DEF Write, Requests
  <2>2. /\ \A p, y : Has(asked', p, y) <=> Has(asked, p, y) \/ (p = "write" /\ y = c)
        /\ \A d \in Conns : Pending(asked', d) = IF d = c THEN Pending(asked, d) + 1 ELSE Pending(asked, d)
    BY <2>1, <1>0, Adding, SMTT(20)
  <2>3. ASSUME NEW d \in Conns PROVE Connection(d)'
    <3>1. sock'[d] = "none" => /\ stream'[d] = "none" /\ offered'.conn # d /\ d \notin streams' \union conns'
                                 /\ given'[d] = emitted'[d]
      BY <1>9, <1>0, <2>2 DEF Write
    <3>2. Offering(d)'
      BY <1>9, <1>0, <2>2 DEF Write
    <3>3. Released(d)'
      BY <1>9, <1>0, <2>2 DEF Write
    <3>4. Fed(d)'
      <4>1. /\ wrote'[d] = IF d = c THEN wrote[d] + 1 ELSE wrote[d]
            /\ Pending(asked', d) = IF d = c THEN Pending(asked, d) + 1 ELSE Pending(asked, d)
            /\ UNCHANGED <<stream, streams, sock, peer, sent, arrived, emitted, given>>
        BY <1>9, <1>0, <2>2 DEF Write
      <4>2. sent[d] \in Nat /\ wrote[d] \in Nat /\ Pending(asked, d) \in Nat /\ Fed(d)
        BY <1>0
      <4>3. QED
        BY <4>1, <4>2
    <3>5. QED
      BY <3>1, <3>2, <3>3, <3>4 DEF Connection
  <2>4. QED
    BY <2>3
<1>10. ASSUME NEW c \in Conns, Shutdown(c) PROVE Connections'
  <2>1. Ask("closeWrite", c) /\ [op |-> "closeWrite", id |-> c] \in Requests
    BY <1>10 DEF Shutdown, Requests
  <2>2. /\ \A p, y : Has(asked', p, y) <=> Has(asked, p, y) \/ (p = "closeWrite" /\ y = c)
        /\ \A d \in Conns : Pending(asked', d) = Pending(asked, d)
    BY <2>1, <1>0, Adding, SMTT(20)
  <2>3. ASSUME NEW d \in Conns PROVE Connection(d)'
    <3>1. sock'[d] = "none" => /\ stream'[d] = "none" /\ offered'.conn # d /\ d \notin streams' \union conns'
                                 /\ given'[d] = emitted'[d]
      BY <1>10, <1>0, <2>2 DEF Shutdown
    <3>2. Offering(d)'
      BY <1>10, <1>0, <2>2 DEF Shutdown
    <3>3. Released(d)'
      BY <1>10, <1>0, <2>2 DEF Shutdown
    <3>4. Fed(d)'
      BY <1>10, <1>0, <2>2 DEF Shutdown
    <3>5. QED
      BY <3>1, <3>2, <3>3, <3>4 DEF Connection
  <2>4. QED
    BY <2>3
<1>11. ASSUME NEW c \in Conns, DropStream(c) PROVE Connections'
  <2>1. Ask("dropConn", c) /\ [op |-> "dropConn", id |-> c] \in Requests
    BY <1>11 DEF DropStream, Requests
  <2>2. /\ \A p, y : Has(asked', p, y) <=> Has(asked, p, y) \/ (p = "dropConn" /\ y = c)
        /\ \A d \in Conns : Pending(asked', d) = Pending(asked, d)
    BY <2>1, <1>0, Adding, SMTT(20)
  <2>3. ASSUME NEW d \in Conns PROVE Connection(d)'
    <3>1. sock'[d] = "none" => /\ stream'[d] = "none" /\ offered'.conn # d /\ d \notin streams' \union conns'
                                 /\ given'[d] = emitted'[d]
      BY <1>11, <1>0, <2>2 DEF DropStream
    <3>2. Offering(d)'
      BY <1>11, <1>0, <2>2 DEF DropStream
    <3>3. Released(d)'
      <4>1. /\ stream'[d] = IF d = c THEN "dropped" ELSE stream[d]
            /\ stream[c] = "held" /\ UNCHANGED <<offered, sock, conns>>
        BY <1>11, <1>0 DEF DropStream
      <4>2. Released(d) /\ Offering(d) /\ (sock[d] = "none" => stream[d] = "none")
        BY DEF Connection
      <4>3. Has(asked', "dropConn", d) <=> Has(asked, "dropConn", d) \/ d = c
        BY <2>2
      <4>4. QED
        BY <4>1, <4>2, <4>3
    <3>4. Fed(d)'
      <4>1. /\ stream'[d] = IF d = c THEN "dropped" ELSE stream[d]
            /\ d # c => (d \in streams' <=> d \in streams)
            /\ c \notin streams'
            /\ Pending(asked', d) = Pending(asked, d)
            /\ UNCHANGED <<sock, peer, wrote, sent, arrived, emitted, given>>
        BY <1>11, <1>0, <2>2 DEF DropStream
      <4>2. Fed(d)
        BY DEF Connection
      <4>3. QED
        BY <4>1, <4>2
    <3>5. QED
      BY <3>1, <3>2, <3>3, <3>4 DEF Connection
  <2>4. QED
    BY <2>3
<1>12. ASSUME NEW c \in Conns, HostWrite(c) PROVE Connections'
  <2>1. /\ offered = NoneOffered /\ Has(asked, "write", c)
        /\ \A p, y : Has(asked', p, y) => Has(asked, p, y)
        /\ \A p, y : Has(asked, p, y) /\ ~(p = "write" /\ y = c) => Has(asked', p, y)
        /\ \A d \in Conns : Pending(asked', d) = IF d = c THEN Pending(asked, d) - 1 ELSE Pending(asked, d)
    BY <1>12, <1>0, Taking DEF HostWrite
  <2>2. ASSUME NEW d \in Conns PROVE Connection(d)'
    <3>1. sock'[d] = "none" => /\ stream'[d] = "none" /\ offered'.conn # d /\ d \notin streams' \union conns'
                                 /\ given'[d] = emitted'[d]
      BY <1>12, <1>0, <2>1, SMTT(20) DEF HostWrite
    <3>2. Offering(d)'
      BY <1>12, <1>0, <2>1 DEF HostWrite
    <3>3. Released(d)'
      BY <1>12, <1>0, <2>1, SMTT(20) DEF HostWrite
    <3>4. Fed(d)'
      <4>1. /\ sent[d] \in Nat /\ wrote[d] \in Nat /\ Pending(asked, d) \in Nat /\ Fed(d)
            /\ Pending(asked, c) # 0
        BY <1>0, <2>1, PendingType
      <4>2. UNCHANGED <<stream, streams, peer, wrote, arrived, emitted, given>>
        BY <1>12 DEF HostWrite
      <4>3. CASE d # c
        <5>1. sent'[d] = sent[d] /\ sock'[d] = sock[d] /\ Pending(asked', d) = Pending(asked, d)
          BY <1>12, <1>0, <2>1, <4>3 DEF HostWrite
        <5>2. QED
          BY <4>1, <4>2, <5>1
      <4>4. CASE d = c /\ sock[c] = "open"
        <5>1. /\ sent'[d] \in {sent[d], sent[d] + 1} /\ sock'[d] = "open"
              /\ Pending(asked', d) = Pending(asked, d) - 1
          BY <1>12, <1>0, <2>1, <4>4 DEF HostWrite
        <5>2. QED
          BY <4>1, <4>2, <4>4, <5>1
      <4>5. CASE d = c /\ sock[c] # "open"
        <5>1. /\ sent'[d] = sent[d] /\ Pending(asked', d) = Pending(asked, d) - 1
              /\ sock'[d] = sock[d] \/ (sock'[d] = "destroyed" /\ sock[d] = "ended")
          BY <1>12, <1>0, <2>1, <4>5 DEF HostWrite
        <5>2. QED
          BY <4>1, <4>2, <4>5, <5>1
      <4>6. QED
        BY <4>3, <4>4, <4>5
    <3>5. QED
      BY <3>1, <3>2, <3>3, <3>4 DEF Connection
  <2>3. QED
    BY <2>2
<1>13. ASSUME NEW c \in Conns, HostCloseWrite(c) PROVE Connections'
  <2>1. /\ offered = NoneOffered /\ Has(asked, "closeWrite", c)
        /\ \A p, y : Has(asked', p, y) => Has(asked, p, y)
        /\ \A p, y : Has(asked, p, y) /\ ~(p = "closeWrite" /\ y = c) => Has(asked', p, y)
        /\ \A d \in Conns : Pending(asked', d) = Pending(asked, d)
    BY <1>13, <1>0, Taking DEF HostCloseWrite
  <2>2. ASSUME NEW d \in Conns PROVE Connection(d)'
    BY <1>13, <1>0, <2>1 DEF HostCloseWrite
  <2>3. QED
    BY <2>2
<1>14. ASSUME NEW c \in Conns, HostDropConn(c) PROVE Connections'
  <2>1. /\ offered = NoneOffered /\ Has(asked, "dropConn", c)
        /\ \A p, y : Has(asked', p, y) => Has(asked, p, y)
        /\ \A p, y : Has(asked, p, y) /\ ~(p = "dropConn" /\ y = c) => Has(asked', p, y)
        /\ \A d \in Conns : Pending(asked', d) = Pending(asked, d)
    BY <1>14, <1>0, Taking DEF HostDropConn
  <2>2. ASSUME NEW d \in Conns PROVE Connection(d)'
    BY <1>14, <1>0, <2>1 DEF HostDropConn
  <2>3. QED
    BY <2>2
<1>15. ASSUME NEW c \in Conns, SockData(c) PROVE Connections'
  <2>1. ASSUME NEW d \in Conns PROVE Connection(d)'
    BY <1>15, <1>0, SMTT(20) DEF SockData
  <2>2. QED
    BY <2>1
<1>16. ASSUME NEW c \in Conns, SockClose(c) PROVE Connections'
  <2>1. ASSUME NEW d \in Conns PROVE Connection(d)'
    BY <1>16, <1>0 DEF SockClose, Closes
  <2>2. QED
    BY <2>1
<1>17. ASSUME NEW c \in Conns, PeerSends(c) PROVE Connections'
  <2>1. ASSUME NEW d \in Conns PROVE Connection(d)'
    <3>1. /\ arrived'[d] = IF d = c THEN arrived[d] + 1 ELSE arrived[d]
          /\ peer[c] = "open"
          /\ UNCHANGED <<stream, streams, conns, sock, offered, asked, peer, sent, wrote, emitted, given>>
      BY <1>17, <1>0 DEF PeerSends
    <3>2. Connection(d)
      OBVIOUS
    <3>3. QED
      BY <3>1, <3>2
  <2>2. QED
    BY <2>1
<1>18. ASSUME NEW c \in Conns, PeerLeaves(c) PROVE Connections'
  <2>1. ASSUME NEW d \in Conns PROVE Connection(d)'
    <3>1. /\ peer'[d] = peer[d] \/ (peer[d] = "open" /\ peer'[d] \in {"closed", "reset"})
          /\ UNCHANGED <<stream, streams, conns, sock, offered, asked, sent, wrote, arrived, emitted,
                         given>>
      BY <1>18, <1>0 DEF PeerLeaves
    <3>2. Connection(d)
      OBVIOUS
    <3>3. QED
      BY <3>1, <3>2
  <2>2. QED
    BY <2>1
<1>19. ASSUME NEW c \in Conns, NEW l \in Listeners, Connect(c, l) PROVE Connections'
  <2>1. ASSUME NEW d \in Conns PROVE Connection(d)'
    BY <1>19, <1>0 DEF Connect
  <2>2. QED
    BY <2>1
<1>20. CASE Offer
  <2>1. offered.conn \in Conns /\ offered.via \in Listeners
    BY <1>20, <1>0 DEF Offer
  <2>2. CASE offered.via \in listening
    BY <1>20, <1>0, <2>1, <2>2, SMTT(20) DEF Offer
  <2>3. CASE offered.via \notin listening
    <3>1. /\ Ask("dropConn", offered.conn)
          /\ [op |-> "dropConn", id |-> offered.conn] \in Requests
      BY <1>20, <2>1, <2>3 DEF Offer, Requests
    <3>2. /\ \A p, y : Has(asked', p, y) <=> Has(asked, p, y) \/ (p = "dropConn" /\ y = offered.conn)
          /\ \A d \in Conns : Pending(asked', d) = Pending(asked, d)
      BY <3>1, <1>0, Adding
    <3>3. ASSUME NEW d \in Conns PROVE Connection(d)'
      BY <1>20, <1>0, <2>1, <2>3, <3>2 DEF Offer
    <3>4. QED
      BY <3>3
  <2>4. QED
    BY <2>2, <2>3
<1>21. CASE UNCHANGED socketVars
  BY <1>21 DEF socketVars
<1>22. QED
  BY <1>1, <1>2, <1>3, <1>4, <1>5, <1>6, <1>7, <1>8, <1>9, <1>10, <1>11, <1>12, <1>13,
     <1>14, <1>15, <1>16, <1>17, <1>18, <1>19, <1>20, <1>21
  DEF SocketNext, GuestStep, SocketMainStep

\* What changes who waits for accept().
LEMMA AcceptSteps ==
    [SocketNext]_socketVars =>
        \/ \E l \in Listeners : Accept(l) \/ BindReturns(l) \/ CloseListener(l)
        \/ \E c \in Conns : DropStream(c)
        \/ Offer
        \/ UNCHANGED <<acceptRx, stream>>
<1> USE DEF binding, held
<1>1. ASSUME NEW l \in Listeners,
             \/ Bind(l) \/ DropListener(l) \/ HostListen(l) \/ ListenSettles(l) \/ HostCloseListener(l)
      PROVE  UNCHANGED <<acceptRx, stream>>
  BY <1>1 DEF Bind, DropListener, HostListen, ListenSettles, HostCloseListener
<1>2. ASSUME NEW c \in Conns, Write(c) \/ Shutdown(c) \/ PeerSends(c) \/ PeerLeaves(c)
      PROVE  UNCHANGED <<acceptRx, stream>>
  BY <1>2 DEF Write, Shutdown, PeerSends, PeerLeaves
<1>3. ASSUME NEW c \in Conns,
             \/ HostWrite(c) \/ HostCloseWrite(c) \/ HostDropConn(c) \/ SockData(c) \/ SockClose(c)
      PROVE  UNCHANGED <<acceptRx, stream>>
  BY <1>3 DEF HostWrite, HostCloseWrite, HostDropConn, SockData, SockClose, Closes
<1>4. ASSUME NEW c \in Conns, NEW l \in Listeners, Connect(c, l) PROVE UNCHANGED <<acceptRx, stream>>
  BY <1>4 DEF Connect
<1>5. CASE UNCHANGED socketVars
  BY <1>5 DEF socketVars
<1>6. QED
  BY <1>1, <1>2, <1>3, <1>4, <1>5 DEF SocketNext, GuestStep, SocketMainStep

LEMMA StepWaiting == SocketTypeOK /\ Waiting /\ Connections /\ [SocketNext]_socketVars => Waiting'
<1> SUFFICES ASSUME SocketTypeOK, Waiting, Connections, [SocketNext]_socketVars PROVE Waiting'
  OBVIOUS
<1>0. /\ acceptRx \in [Listeners -> Seq(Conns)]
      /\ stream \in [Conns -> {"none", "queued", "held", "dropped", "lost"}]
      /\ offered \in [conn : Conns, via : Listeners] \union {NoneOffered}
  BY DEF SocketTypeOK
<1>1. \A l \in Listeners : \A i \in DOMAIN acceptRx[l] :
        acceptRx[l][i] \in Conns /\ stream[acceptRx[l][i]] = "queued"
  BY <1>0 DEF Waiting
<1>2. ASSUME NEW l \in Listeners, Accept(l) PROVE Waiting'
  <2> DEFINE q == acceptRx[l]
  <2>1. /\ q \in Seq(Conns) /\ q # << >>
        /\ acceptRx' = [acceptRx EXCEPT ![l] = Tail(q)]
        /\ stream' = [stream EXCEPT ![Head(q)] = "held"]
    BY <1>0, <1>2 DEF Accept
  <2>2. /\ 1 \in DOMAIN q /\ Head(q) = q[1]
        /\ \A i \in DOMAIN Tail(q) : i + 1 \in DOMAIN q /\ i + 1 # 1 /\ Tail(q)[i] = q[i + 1]
    BY <2>1
  <2>3. ASSUME NEW m \in Listeners, NEW i \in DOMAIN acceptRx'[m]
        PROVE  \E k \in DOMAIN acceptRx[m] :
                 /\ acceptRx'[m][i] = acceptRx[m][k] /\ k = (IF m = l THEN i + 1 ELSE i)
                 /\ acceptRx[m][k] # Head(q)
    <3>1. CASE m = l
      <4>1. acceptRx'[m] = Tail(q) /\ acceptRx[m] = q
        BY <1>0, <2>1, <3>1
      <4>2. i + 1 \in DOMAIN q /\ i + 1 # 1 /\ Tail(q)[i] = q[i + 1]
        BY <2>2, <4>1
      <4>3. q[i + 1] # q[1]
        BY <2>2, <4>2 DEF Waiting
      <4>4. QED
        BY <2>2, <3>1, <4>1, <4>2, <4>3
    <3>2. CASE m # l
      <4>1. acceptRx'[m] = acceptRx[m]
        BY <1>0, <2>1, <3>2
      <4>2. acceptRx[m][i] # q[1]
        BY <2>2, <3>2, <4>1 DEF Waiting
      <4>3. QED
        BY <2>2, <3>2, <4>1, <4>2
    <3>3. QED
      BY <3>1, <3>2
  <2>. HIDE DEF q
  <2>4. SUFFICES ASSUME NEW m \in Listeners, NEW n \in Listeners,
                        NEW i \in DOMAIN acceptRx'[m], NEW j \in DOMAIN acceptRx'[n]
                 PROVE  /\ stream'[acceptRx'[m][i]] = "queued"
                        /\ acceptRx'[m][i] = acceptRx'[n][j] => m = n /\ i = j
    BY DEF Waiting
  <2>5. PICK k \in DOMAIN acceptRx[m] :
          /\ acceptRx'[m][i] = acceptRx[m][k] /\ k = (IF m = l THEN i + 1 ELSE i)
          /\ acceptRx[m][k] # Head(q)
    BY <2>3
  <2>6. PICK h \in DOMAIN acceptRx[n] :
          acceptRx'[n][j] = acceptRx[n][h] /\ h = (IF n = l THEN j + 1 ELSE j)
    BY <2>3
  <2>7. stream'[acceptRx'[m][i]] = "queued"
    BY <1>0, <1>1, <2>1, <2>5
  <2>8. ASSUME acceptRx'[m][i] = acceptRx'[n][j] PROVE m = n /\ i = j
    <3>1. m = n /\ k = h
      BY <2>5, <2>6, <2>8 DEF Waiting
    <3>2. i \in Int /\ j \in Int
      BY <1>0, <2>1, <2>2
    <3>3. QED
      BY <2>5, <2>6, <3>1, <3>2
  <2>9. QED
    BY <2>7, <2>8
<1>3. ASSUME NEW l \in Listeners, BindReturns(l) \/ CloseListener(l) PROVE Waiting'
  <2>1. CASE UNCHANGED <<acceptRx, stream>>
    BY <2>1 DEF Waiting
  <2>2. CASE /\ acceptRx' = [acceptRx EXCEPT ![l] = << >>]
             /\ stream' = [c \in Conns |-> IF c \in ToSet(acceptRx[l]) THEN "lost" ELSE stream[c]]
    <3>1. \A m \in Listeners : \A i \in DOMAIN acceptRx'[m] :
            /\ m # l /\ acceptRx'[m] = acceptRx[m] /\ acceptRx[m][i] \notin ToSet(acceptRx[l])
      <4> SUFFICES ASSUME NEW m \in Listeners, NEW i \in DOMAIN acceptRx'[m]
                   PROVE  /\ m # l /\ acceptRx'[m] = acceptRx[m]
                          /\ acceptRx[m][i] \notin ToSet(acceptRx[l])
        OBVIOUS
      <4>1. m # l /\ acceptRx'[m] = acceptRx[m]
        BY <1>0, <2>2
      <4>2. \A j \in DOMAIN acceptRx[l] : acceptRx[m][i] # acceptRx[l][j]
        BY <4>1 DEF Waiting
      <4>3. QED
        BY <4>1, <4>2 DEF ToSet
    <3>2. \A m \in Listeners : \A i \in DOMAIN acceptRx'[m] : stream'[acceptRx'[m][i]] = "queued"
      BY <1>1, <2>2, <3>1
    <3>3. QED
      BY <3>1, <3>2 DEF Waiting
  <2>3. QED
    BY <1>3, <2>1, <2>2 DEF BindReturns, CloseListener
<1>4. ASSUME NEW c \in Conns, DropStream(c) PROVE Waiting'
  <2>1. /\ acceptRx' = acceptRx /\ stream[c] = "held" /\ stream' = [stream EXCEPT ![c] = "dropped"]
    BY <1>4 DEF DropStream, binding
  <2>2. \A d \in Conns : stream[d] = "queued" => stream'[d] = "queued"
    BY <1>0, <2>1
  <2>3. QED
    BY <1>1, <2>1, <2>2 DEF Waiting
<1>5. CASE Offer
  <2>1. offered.conn \in Conns /\ offered.via \in Listeners /\ stream[offered.conn] = "none"
    BY <1>0, <1>5 DEF Offer, Connections, Connection, Offering
  <2>2. CASE UNCHANGED <<acceptRx, stream>>
    BY <2>2 DEF Waiting
  <2>3. CASE /\ acceptRx' = [acceptRx EXCEPT ![offered.via] = Append(acceptRx[offered.via], offered.conn)]
             /\ stream' = [stream EXCEPT ![offered.conn] = "queued"]
    <3> DEFINE last == Len(acceptRx[offered.via]) + 1
    <3>1. \A m \in Listeners : \A i \in DOMAIN acceptRx'[m] :
            \/ i \in DOMAIN acceptRx[m] /\ acceptRx'[m][i] = acceptRx[m][i]
            \/ m = offered.via /\ i = last /\ acceptRx'[m][i] = offered.conn
      <4> SUFFICES ASSUME NEW m \in Listeners, NEW i \in DOMAIN acceptRx'[m]
                   PROVE  \/ i \in DOMAIN acceptRx[m] /\ acceptRx'[m][i] = acceptRx[m][i]
                          \/ m = offered.via /\ i = last /\ acceptRx'[m][i] = offered.conn
        OBVIOUS
      <4>1. CASE m = offered.via
        <5>1. acceptRx[m] \in Seq(Conns) /\ acceptRx'[m] = Append(acceptRx[m], offered.conn)
          BY <1>0, <2>1, <2>3, <4>1
        <5>2. QED
          BY <2>1, <4>1, <5>1, AppendProperties
      <4>2. CASE m # offered.via
        BY <1>0, <2>3, <4>2
      <4>3. QED
        BY <4>1, <4>2
    <3>. HIDE DEF last
    <3>2. \A m \in Listeners : \A i \in DOMAIN acceptRx[m] : acceptRx[m][i] # offered.conn
      BY <1>1, <2>1
    <3>3. \A m \in Listeners : \A i \in DOMAIN acceptRx'[m] : stream'[acceptRx'[m][i]] = "queued"
      BY <1>0, <1>1, <2>1, <2>3, <3>1
    <3>4. ASSUME NEW m \in Listeners, NEW n \in Listeners,
                 NEW i \in DOMAIN acceptRx'[m], NEW j \in DOMAIN acceptRx'[n],
                 acceptRx'[m][i] = acceptRx'[n][j]
          PROVE  m = n /\ i = j
      <4>1. CASE i \in DOMAIN acceptRx[m] /\ acceptRx'[m][i] = acceptRx[m][i]
                 /\ j \in DOMAIN acceptRx[n] /\ acceptRx'[n][j] = acceptRx[n][j]
        <5>1. acceptRx[m][i] = acceptRx[n][j]
          BY <3>4, <4>1
        <5>. HIDE <3>4
        <5>2. QED
          BY <4>1, <5>1 DEF Waiting
      <4>2. QED
        BY <3>1, <3>2, <3>4, <4>1
    <3>5. QED
      BY <3>3, <3>4 DEF Waiting
  <2>4. QED
    BY <1>5, <2>2, <2>3 DEF Offer
<1>6. CASE UNCHANGED <<acceptRx, stream>>
  BY <1>6 DEF Waiting
<1>7. QED
  BY <1>2, <1>3, <1>4, <1>5, <1>6, AcceptSteps

SocketInv == SocketTypeOK /\ Waiting /\ Connections

LEMMA SocketInductive == Spec => []SocketInv
<1>1. SocketInit => SocketInv
  <2> SUFFICES ASSUME SocketInit PROVE Waiting /\ Connections
    BY InitTyped DEF SocketInv
  <2>1. Waiting
    BY DEF SocketInit, Waiting
  <2>2. asked \in Queues /\ \A o, x : ~Has(asked, o, x)
    BY OwnFunction DEF SocketInit, Has, Queues
  <2>3. \A c \in Conns : Pending(asked, c) = 0
    BY <2>2, PendingType
  <2>4. \A c \in Conns : offered.conn # c
    BY SocketAssumption DEF SocketInit, NoneOffered
  <2>5. \A c \in Conns : sent[c] = 0 /\ wrote[c] = 0 /\ given[c] = emitted[c]
    BY DEF SocketInit
  <2>6. \A c \in Conns : stream[c] = "none" /\ sock[c] = "none" /\ c \notin streams /\ c \notin conns
    BY DEF SocketInit
  <2>7. QED
    BY <2>1, <2>2, <2>3, <2>4, <2>5, <2>6 DEF Connections, Connection, Offering, Released, Fed
<1>2. SocketInv /\ [SocketNext]_socketVars => SocketInv'
  BY StepTyped, StepConnections, StepWaiting DEF SocketInv
<1>3. QED
  BY SocketPart, <1>1, <1>2, PTL DEF SocketSpec

\* "register the channel BEFORE returning so no data push can beat it" (patches-16.1/0016:312): a
\* connection that the guest has or will have is given all that Node emits, and ends only with the
\* peer's last chunk, a reset, or a write of the guest's own that was lost.
THEOREM InboundIsComplete == Spec => []InboundComplete
<1>1. SocketInv => InboundComplete
  BY DEF SocketInv, SocketTypeOK, Connections, Connection, Fed, InboundComplete
<1>2. QED
  BY <1>1, SocketInductive, PTL

\* A host socket that the guest cannot have, or has dropped, has its dropConn queued (Drop for
\* TcpStream, and pool_accept after its listener has gone).
THEOREM NothingForgotten == Spec => []NoForgottenSocket
<1>1. SocketInv => NoForgottenSocket
  <2> SUFFICES ASSUME SocketInv, NEW c \in conns, stream[c] \in {"none", "dropped"}, offered.conn # c
               PROVE  Has(asked, "dropConn", c)
    BY DEF NoForgottenSocket, Asked, Has
  <2>1. c \in Conns
    BY DEF SocketInv, SocketTypeOK
  <2>2. QED
    BY <2>1 DEF SocketInv, Connections, Connection, Released
<1>2. QED
  BY <1>1, SocketInductive, PTL

-----------------------------------------------------------------------------
(* Writes that are lost.                                                    *)

\* Until the host ends or destroys the socket of c, what was written is given to it or queued.
\* Afterwards nothing more is written, and all that was is with the socket, unless the call
\* that did so overtook a write.
Kept(c) ==
    /\ stream[c] \notin {"held", "dropped"} => ~Has(asked, "write", c) /\ ~Has(asked, "closeWrite", c)
    /\ Has(asked, "closeWrite", c) => writeClosed[c]
    /\ sock[c] \in {"none", "open"} => sent[c] + Pending(asked, c) = wrote[c]
    /\ sock[c] = "open" => c \in conns
    /\ sock[c] = "ended" => writeClosed[c]
    /\ c \notin cutOff =>
        /\ sock[c] = "destroyed" => stream[c] \in {"none", "dropped"}
        /\ sock[c] = "closed" /\ peer[c] = "open" => stream[c] \in {"none", "dropped"}
        /\ sock[c] \in {"ended", "destroyed"} \/ (sock[c] = "closed" /\ peer[c] = "open") =>
               sent[c] = wrote[c] /\ ~Has(asked, "write", c)

AllKept == \A c \in Conns : Kept(c)

\* A connection leaves its place in front of accept() to be held, or is lost with its listener.
LEMMA Leaving ==
    ASSUME SocketTypeOK, Waiting, NEW l \in Listeners, NEW d \in Conns
    PROVE  /\ Accept(l) => stream'[d] = stream[d] \/ (stream[d] = "queued" /\ stream'[d] = "held")
           /\ BindReturns(l) \/ CloseListener(l) =>
                  stream'[d] = stream[d] \/ (stream[d] = "queued" /\ stream'[d] = "lost")
<1>0. /\ acceptRx[l] \in Seq(Conns)
      /\ stream \in [Conns -> {"none", "queued", "held", "dropped", "lost"}]
  BY DEF SocketTypeOK
<1>1. \A i \in DOMAIN acceptRx[l] : stream[acceptRx[l][i]] = "queued"
  BY DEF Waiting
<1>2. ASSUME Accept(l) PROVE stream'[d] = stream[d] \/ (stream[d] = "queued" /\ stream'[d] = "held")
  <2>1. acceptRx[l] # << >> /\ stream' = [stream EXCEPT ![Head(acceptRx[l])] = "held"]
    BY <1>2 DEF Accept
  <2>2. stream[Head(acceptRx[l])] = "queued"
    BY <1>0, <1>1, <2>1
  <2>3. stream'[d] = IF d = Head(acceptRx[l]) THEN "held" ELSE stream[d]
    BY <1>0, <2>1
  <2>4. QED
    BY <2>2, <2>3
<1>3. ASSUME BindReturns(l) \/ CloseListener(l)
      PROVE  stream'[d] = stream[d] \/ (stream[d] = "queued" /\ stream'[d] = "lost")
  <2>1. \/ stream'[d] = IF d \in ToSet(acceptRx[l]) THEN "lost" ELSE stream[d]
        \/ stream'[d] = stream[d]
    BY <1>3 DEF BindReturns, CloseListener
  <2>2. d \in ToSet(acceptRx[l]) => stream[d] = "queued"
    BY <1>1 DEF ToSet
  <2>3. QED
    BY <2>1, <2>2
<1>4. QED
  BY <1>2, <1>3

LEMMA StepKept == SocketInv /\ AllKept /\ [SocketNext]_socketVars => AllKept'
<1> SUFFICES ASSUME SocketInv, AllKept, [SocketNext]_socketVars PROVE AllKept'
  OBVIOUS
<1> USE DEF AllKept, Kept, binding, held, hostL, hostC, outward, inward
<1>0. /\ asked \in Queues
      /\ stream \in [Conns -> {"none", "queued", "held", "dropped", "lost"}]
      /\ writeClosed \in [Conns -> BOOLEAN]
      /\ sock \in [Conns -> {"none", "open", "ended", "destroyed", "closed"}]
      /\ wrote \in [Conns -> Nat] /\ sent \in [Conns -> Nat]
      /\ peer \in [Conns -> {"none", "open", "closed", "reset"}]
      /\ offered \in [conn : Conns, via : Listeners] \union {NoneOffered}
      /\ \A d \in Conns : Pending(asked, d) \in Nat /\ Connection(d) /\ Kept(d)
      /\ \A d \in Conns : sock[d] = "none" => stream[d] = "none"
      /\ \A d \in Conns : Has(asked, "dropConn", d) => stream[d] \in {"none", "dropped"}
  <2>1. asked \in Queues
    BY DEF SocketInv, SocketTypeOK, Queues
  <2>2. \A d \in Conns : Pending(asked, d) \in Nat
    BY <2>1, PendingType
  <2>3. QED
    BY <2>1, <2>2 DEF SocketInv, SocketTypeOK, Connections, Connection, Released
<1>99. \A l \in Listeners, d \in Conns :
        /\ Accept(l) => stream'[d] = stream[d] \/ (stream[d] = "queued" /\ stream'[d] = "held")
        /\ BindReturns(l) \/ CloseListener(l) =>
               stream'[d] = stream[d] \/ (stream[d] = "queued" /\ stream'[d] = "lost")
  BY Leaving DEF SocketInv
<1>1. ASSUME NEW l \in Listeners, Bind(l) PROVE AllKept'
  <2>1. /\ Ask("listen", l)
        /\ [op |-> "listen", id |-> l] \in Requests
    BY <1>1 DEF Bind, Requests
  <2>2. /\ \A p, y : Has(asked', p, y) <=> Has(asked, p, y) \/ (p = "listen" /\ y = l)
        /\ \A d \in Conns : Pending(asked', d) = Pending(asked, d)
    BY <1>0, <2>1, Adding
  <2>4. ASSUME NEW d \in Conns PROVE Kept(d)'
    <3>1. /\ UNCHANGED <<stream, writeClosed, conns, cutOff, sock, peer, wrote, sent>>
      BY <1>1, <1>0 DEF Bind
    <3>2. Kept(d)
      BY <1>0
    <3>3. QED
      BY <1>0, <2>2, <3>1, <3>2
  <2>5. QED
    BY <2>4
<1>2. ASSUME NEW l \in Listeners, BindReturns(l) PROVE AllKept'
  <2>1. ASSUME NEW d \in Conns PROVE Kept(d)'
    <3>1. /\ stream'[d] = stream[d] \/ (stream[d] = "queued" /\ stream'[d] = "lost")
          /\ UNCHANGED <<writeClosed, asked, conns, cutOff, sock, peer, wrote, sent>>
      BY <1>2, <1>0, <1>99 DEF BindReturns
    <3>2. Kept(d)
      BY <1>0
    <3>3. QED
      BY <3>1, <3>2
  <2>2. QED
    BY <2>1
<1>3. ASSUME NEW l \in Listeners, Accept(l) PROVE AllKept'
  <2>1. ASSUME NEW d \in Conns PROVE Kept(d)'
    <3>1. /\ stream'[d] = stream[d] \/ (stream[d] = "queued" /\ stream'[d] = "held")
          /\ UNCHANGED <<writeClosed, asked, conns, cutOff, sock, peer, wrote, sent>>
      BY <1>3, <1>0, <1>99 DEF Accept
    <3>2. Kept(d)
      BY <1>0
    <3>3. QED
      BY <3>1, <3>2
  <2>2. QED
    BY <2>1
<1>4. ASSUME NEW l \in Listeners, DropListener(l) PROVE AllKept'
  <2>1. UNCHANGED <<stream, writeClosed, asked, conns, cutOff, sock, peer, wrote, sent>>
    BY <1>4 DEF DropListener
  <2>2. QED
    BY <1>0, <2>1 DEF AllKept
<1>5. ASSUME NEW l \in Listeners, CloseListener(l) PROVE AllKept'
  <2>1. /\ Ask("closeListener", l)
        /\ [op |-> "closeListener", id |-> l] \in Requests
    BY <1>5 DEF CloseListener, Requests
  <2>2. /\ \A p, y : Has(asked', p, y) <=> Has(asked, p, y) \/ (p = "closeListener" /\ y = l)
        /\ \A d \in Conns : Pending(asked', d) = Pending(asked, d)
    BY <1>0, <2>1, Adding
  <2>4. ASSUME NEW d \in Conns PROVE Kept(d)'
    <3>1. /\ stream'[d] = stream[d] \/ (stream[d] = "queued" /\ stream'[d] = "lost")
          /\ UNCHANGED <<writeClosed, conns, cutOff, sock, peer, wrote, sent>>
      BY <1>5, <1>0, <1>99 DEF CloseListener
    <3>2. Kept(d)
      BY <1>0
    <3>3. QED
      BY <1>0, <2>2, <3>1, <3>2
  <2>5. QED
    BY <2>4
<1>6. ASSUME NEW l \in Listeners, HostListen(l) PROVE AllKept'
  <2>1. /\ Has(asked, "listen", l)
        /\ \A p, y : Has(asked', p, y) => Has(asked, p, y)
        /\ \A d \in Conns : Pending(asked', d) = Pending(asked, d)
    BY <1>6, <1>0, Taking DEF HostListen
  <2>2. UNCHANGED <<stream, writeClosed, conns, cutOff, sock, peer, wrote, sent>>
    BY <1>6 DEF HostListen
  <2>3. ASSUME NEW d \in Conns PROVE Kept(d)'
    <3>1. Kept(d)
      BY <1>0
    <3>2. QED
      BY <1>0, <2>1, <2>2, <3>1
  <2>4. QED
    BY <2>3
<1>7. ASSUME NEW l \in Listeners, ListenSettles(l) PROVE AllKept'
  <2>1. UNCHANGED <<stream, writeClosed, asked, conns, cutOff, sock, peer, wrote, sent>>
    BY <1>7 DEF ListenSettles
  <2>2. QED
    BY <1>0, <2>1 DEF AllKept
<1>8. ASSUME NEW l \in Listeners, HostCloseListener(l) PROVE AllKept'
  <2>1. /\ Has(asked, "closeListener", l)
        /\ \A p, y : Has(asked', p, y) => Has(asked, p, y)
        /\ \A d \in Conns : Pending(asked', d) = Pending(asked, d)
    BY <1>8, <1>0, Taking DEF HostCloseListener
  <2>2. UNCHANGED <<stream, writeClosed, conns, cutOff, sock, peer, wrote, sent>>
    BY <1>8 DEF HostCloseListener
  <2>3. ASSUME NEW d \in Conns PROVE Kept(d)'
    <3>1. Kept(d)
      BY <1>0
    <3>2. QED
      BY <1>0, <2>1, <2>2, <3>1
  <2>4. QED
    BY <2>3
<1>9. ASSUME NEW c \in Conns, Write(c) PROVE AllKept'
  <2>1. /\ Ask("write", c)
        /\ [op |-> "write", id |-> c] \in Requests
    BY <1>9 DEF Write, Requests
  <2>2. /\ \A p, y : Has(asked', p, y) <=> Has(asked, p, y) \/ (p = "write" /\ y = c)
        /\ \A d \in Conns : Pending(asked', d) = IF d = c THEN Pending(asked, d) + 1
                                                ELSE Pending(asked, d)
    BY <1>0, <2>1, Adding
  <2>3. /\ stream[c] = "held" /\ ~writeClosed[c]
        /\ ~Has(asked, "closeWrite", c) /\ ~Has(asked, "dropConn", c)
    <3>1. stream[c] = "held" /\ ~writeClosed[c]
      BY <1>9 DEF Write
    <3>2. Kept(c)
      BY <1>0
    <3>3. Has(asked, "dropConn", c) => stream[c] \in {"none", "dropped"}
      BY <1>0
    <3>4. QED
      BY <3>1, <3>2, <3>3
  <2>5. ASSUME NEW d \in Conns PROVE Kept(d)'
    <3>1. /\ wrote'[d] = (IF d = c THEN wrote[d] + 1 ELSE wrote[d])
          /\ UNCHANGED <<stream, writeClosed, conns, cutOff, sock, peer, sent>>
      BY <1>9, <1>0 DEF Write
    <3>2. /\ Kept(d)
          /\ d = c /\ d \notin cutOff =>
                 /\ sock[d] \notin {"ended", "destroyed"}
                 /\ ~(sock[d] = "closed" /\ peer[d] = "open")
      BY <1>0, <2>3
    <3>3. QED
      BY <1>0, <2>2, <2>3, <3>1, <3>2
  <2>6. QED
    BY <2>5
<1>10. ASSUME NEW c \in Conns, Shutdown(c) PROVE AllKept'
  <2>1. /\ Ask("closeWrite", c)
        /\ [op |-> "closeWrite", id |-> c] \in Requests
    BY <1>10 DEF Shutdown, Requests
  <2>2. /\ \A p, y : Has(asked', p, y) <=> Has(asked, p, y) \/ (p = "closeWrite" /\ y = c)
        /\ \A d \in Conns : Pending(asked', d) = Pending(asked, d)
    BY <1>0, <2>1, Adding
  <2>4. ASSUME NEW d \in Conns PROVE Kept(d)'
    <3>1. /\ UNCHANGED <<stream, conns, cutOff, sock, peer, wrote, sent>>
          /\ writeClosed'[d] = (d = c \/ writeClosed[d]) /\ stream[c] = "held"
      BY <1>10, <1>0 DEF Shutdown
    <3>2. Kept(d)
      BY <1>0
    <3>3. QED
      BY <1>0, <2>2, <3>1, <3>2
  <2>5. QED
    BY <2>4
<1>11. ASSUME NEW c \in Conns, DropStream(c) PROVE AllKept'
  <2>1. /\ Ask("dropConn", c)
        /\ [op |-> "dropConn", id |-> c] \in Requests
    BY <1>11 DEF DropStream, Requests
  <2>2. /\ \A p, y : Has(asked', p, y) <=> Has(asked, p, y) \/ (p = "dropConn" /\ y = c)
        /\ \A d \in Conns : Pending(asked', d) = Pending(asked, d)
    BY <1>0, <2>1, Adding
  <2>4. ASSUME NEW d \in Conns PROVE Kept(d)'
    <3>1. /\ UNCHANGED <<writeClosed, conns, cutOff, sock, peer, wrote, sent>>
          /\ stream'[d] = (IF d = c THEN "dropped" ELSE stream[d]) /\ stream[c] = "held"
      BY <1>11, <1>0 DEF DropStream
    <3>2. Kept(d)
      BY <1>0
    <3>3. QED
      BY <1>0, <2>2, <3>1, <3>2
  <2>5. QED
    BY <2>4
<1>12. ASSUME NEW c \in Conns, HostWrite(c) PROVE AllKept'
  <2>1. /\ Has(asked, "write", c)
        /\ \A p, y : Has(asked', p, y) => Has(asked, p, y)
        /\ \A d \in Conns : Pending(asked', d) = IF d = c THEN Pending(asked, d) - 1
                                                ELSE Pending(asked, d)
    BY <1>12, <1>0, Taking DEF HostWrite
  <2>2. /\ stream[c] \in {"held", "dropped"} /\ sock[c] # "none"
        /\ c \notin cutOff => sock[c] \notin {"ended", "destroyed"}
        /\ sock[c] = "open" => c \in conns
    BY <1>0, <2>1 DEF Connection
  <2>3. /\ UNCHANGED <<stream, writeClosed, conns, cutOff, peer, wrote>>
        /\ \A d \in Conns : sock'[d] = sock[d]
                               \/ (d = c /\ sock[c] = "ended" /\ sock'[d] = "destroyed")
        /\ sock[c] = "open" => sent' = [sent EXCEPT ![c] = sent[c] + 1]
        /\ sock[c] # "open" => sent' = sent
    BY <1>12, <1>0, <2>2 DEF HostWrite
  <2>4. ASSUME NEW d \in Conns PROVE Kept(d)'
    <3>1. Kept(d) /\ wrote[d] \in Nat /\ sent[d] \in Nat /\ Pending(asked, d) \in Nat
      BY <1>0
    <3>2. CASE d = c
      BY <1>0, <2>1, <2>2, <2>3, <3>1, <3>2
    <3>3. CASE d # c
      BY <1>0, <2>1, <2>3, <3>1, <3>3
    <3>4. QED
      BY <3>2, <3>3
  <2>5. QED
    BY <2>4
<1>13. ASSUME NEW c \in Conns, HostCloseWrite(c) PROVE AllKept'
  <2>1. /\ Has(asked, "closeWrite", c)
        /\ \A p, y : Has(asked', p, y) => Has(asked, p, y)
        /\ \A d \in Conns : Pending(asked', d) = Pending(asked, d)
    BY <1>13, <1>0, Taking DEF HostCloseWrite
  <2>2. /\ c \notin cutOff' => ~Has(asked, "write", c) /\ Pending(asked, c) = 0
        /\ \A d \in Conns : d \in cutOff => d \in cutOff'
        /\ writeClosed[c]
    BY <1>13, <1>0, <2>1, PendingType DEF HostCloseWrite, Overtakes, Asked, Has
  <2>3. ASSUME NEW d \in Conns PROVE Kept(d)'
    <3>1. /\ sock'[d] = sock[d] \/ (d = c /\ sock[c] = "open" /\ sock'[d] = "ended")
          /\ UNCHANGED <<stream, writeClosed, conns, peer, wrote, sent>>
      BY <1>13, <1>0 DEF HostCloseWrite
    <3>2. Kept(d) /\ wrote[d] \in Nat /\ sent[d] \in Nat
      BY <1>0
    <3>3. QED
      BY <2>1, <2>2, <3>1, <3>2
  <2>4. QED
    BY <2>3
<1>14. ASSUME NEW c \in Conns, HostDropConn(c) PROVE AllKept'
  <2>1. /\ Has(asked, "dropConn", c)
        /\ \A p, y : Has(asked', p, y) => Has(asked, p, y)
        /\ \A d \in Conns : Pending(asked', d) = Pending(asked, d)
    BY <1>14, <1>0, Taking DEF HostDropConn
  <2>2. /\ c \notin cutOff' => ~Has(asked, "write", c) /\ Pending(asked, c) = 0
        /\ \A d \in Conns : d \in cutOff => d \in cutOff'
        /\ stream[c] \in {"none", "dropped"}
    BY <1>14, <1>0, <2>1, PendingType DEF HostDropConn, Overtakes, Asked, Has
  <2>3. ASSUME NEW d \in Conns PROVE Kept(d)'
    <3>1. /\ sock'[d] = sock[d] \/ (d = c /\ sock[c] \in {"open", "ended"} /\ sock'[d] = "destroyed")
          /\ UNCHANGED <<stream, writeClosed, peer, wrote, sent>>
          /\ d # c => (d \in conns' <=> d \in conns)
          /\ d = c => sock'[d] # "open"
      BY <1>14, <1>0 DEF HostDropConn
    <3>2. Kept(d) /\ wrote[d] \in Nat /\ sent[d] \in Nat
      BY <1>0
    <3>3. QED
      BY <2>1, <2>2, <3>1, <3>2
  <2>4. QED
    BY <2>3
<1>15. ASSUME NEW c \in Conns, SockData(c) PROVE AllKept'
  <2>1. UNCHANGED <<stream, writeClosed, asked, conns, cutOff, sock, peer, wrote, sent>>
    BY <1>15 DEF SockData
  <2>2. QED
    BY <1>0, <2>1 DEF AllKept
<1>16. ASSUME NEW c \in Conns, SockClose(c) PROVE AllKept'
  <2>1. ASSUME NEW d \in Conns PROVE Kept(d)'
    <3>1. /\ d # c => sock'[d] = sock[d] /\ (d \in conns' <=> d \in conns)
          /\ d = c => sock'[d] = "closed"
          /\ sock[c] = "destroyed" \/ peer[c] # "open"
          /\ UNCHANGED <<stream, writeClosed, asked, cutOff, peer, wrote, sent>>
      BY <1>16, <1>0 DEF SockClose, Closes
    <3>2. Kept(d)
      BY <1>0
    <3>3. QED
      BY <3>1, <3>2
  <2>2. QED
    BY <2>1
<1>17. ASSUME NEW c \in Conns, PeerSends(c) PROVE AllKept'
  <2>1. UNCHANGED <<stream, writeClosed, asked, conns, cutOff, sock, peer, wrote, sent>>
    BY <1>17 DEF PeerSends
  <2>2. QED
    BY <1>0, <2>1 DEF AllKept
<1>18. ASSUME NEW c \in Conns, PeerLeaves(c) PROVE AllKept'
  <2>1. ASSUME NEW d \in Conns PROVE Kept(d)'
    <3>1. /\ peer'[d] = peer[d] \/ peer'[d] \in {"closed", "reset"}
          /\ UNCHANGED <<stream, writeClosed, asked, conns, cutOff, sock, wrote, sent>>
      BY <1>18, <1>0 DEF PeerLeaves
    <3>2. Kept(d)
      BY <1>0
    <3>3. QED
      BY <3>1, <3>2
  <2>2. QED
    BY <2>1
<1>19. ASSUME NEW c \in Conns, NEW l \in Listeners, Connect(c, l) PROVE AllKept'
  <2>1. ASSUME NEW d \in Conns PROVE Kept(d)'
    <3>1. /\ \/ sock'[d] = sock[d] /\ peer'[d] = peer[d]
             \/ sock[d] = "none" /\ sock'[d] = "open" /\ d \in conns'
          /\ d \in conns => d \in conns'
          /\ UNCHANGED <<stream, writeClosed, asked, cutOff, wrote, sent>>
      BY <1>19, <1>0 DEF Connect
    <3>2. Kept(d)
      BY <1>0
    <3>3. QED
      BY <3>1, <3>2
  <2>2. QED
    BY <2>1
<1>20. CASE Offer
  <2>1. offered.conn \in Conns /\ stream[offered.conn] = "none" /\ sock[offered.conn] = "open"
    BY <1>20, <1>0 DEF Offer, Connection, Offering
  <2>2. UNCHANGED <<writeClosed, conns, cutOff, sock, peer, wrote, sent>>
    BY <1>20 DEF Offer
  <2>3. /\ \A d \in Conns : stream'[d] = stream[d] \/ (d = offered.conn /\ stream'[d] = "queued")
        /\ \A d \in Conns : Pending(asked', d) = Pending(asked, d)
        /\ \A d \in Conns : Has(asked', "write", d) => Has(asked, "write", d)
        /\ \A d \in Conns : Has(asked', "closeWrite", d) => Has(asked, "closeWrite", d)
    <3>1. CASE offered.via \in listening
      BY <1>20, <1>0, <3>1 DEF Offer
    <3>2. CASE offered.via \notin listening
      <4>1. /\ Ask("dropConn", offered.conn) /\ stream' = stream
            /\ [op |-> "dropConn", id |-> offered.conn] \in Requests
        BY <1>20, <2>1, <3>2 DEF Offer, Requests
      <4>2. QED
        BY <1>0, <4>1, Adding
    <3>3. QED
      BY <3>1, <3>2
  <2>4. ASSUME NEW d \in Conns PROVE Kept(d)'
    <3>1. Kept(d)
      BY <1>0
    <3>2. /\ stream'[d] = stream[d]
             \/ (sock[d] = "open" /\ stream[d] = "none" /\ stream'[d] = "queued")
      BY <2>1, <2>3
    <3>3. /\ Pending(asked', d) = Pending(asked, d)
          /\ Has(asked', "write", d) => Has(asked, "write", d)
          /\ Has(asked', "closeWrite", d) => Has(asked, "closeWrite", d)
      <4>. HIDE DEF Kept, AllKept
      <4>1. QED
        BY <2>3
    <3>4. QED
      BY <2>2, <3>1, <3>2, <3>3
  <2>5. QED
    BY <2>4
<1>21. CASE UNCHANGED socketVars
  BY <1>21 DEF socketVars
<1>22. QED
  BY <1>1, <1>2, <1>3, <1>4, <1>5, <1>6, <1>7, <1>8, <1>9, <1>10, <1>11, <1>12, <1>13,
     <1>14, <1>15, <1>16, <1>17, <1>18, <1>19, <1>20, <1>21
  DEF SocketNext, GuestStep, SocketMainStep

\* "per-stream ordering is the JS event ordering" (patches-16.1/0016:100-102): whatever the order
\* in which host calls run, what was written to a peer that stays is lost only if the closeWrite
\* or dropConn ran before the write.
THEOREM LostOnlyIfOvertaken == Spec => []LostWritesWereOvertaken
<1>1. SocketInit => AllKept
  <2> SUFFICES ASSUME SocketInit PROVE AllKept
    OBVIOUS
  <2>1. asked \in Queues /\ \A o, x : ~Has(asked, o, x)
    BY OwnFunction DEF SocketInit, Has, Queues
  <2>2. \A c \in Conns : Pending(asked, c) = 0
    BY <2>1, PendingType
  <2>3. QED
    BY <2>1, <2>2 DEF SocketInit, AllKept, Kept
<1>2. SocketInv /\ AllKept /\ [SocketNext]_socketVars => AllKept'
  BY StepKept
<1>3. AllKept => LostWritesWereOvertaken
  BY DEF AllKept, Kept, LostWritesWereOvertaken
<1>4. QED
  BY SocketPart, <1>1, <1>2, <1>3, SocketInductive, PTL DEF SocketSpec
=============================================================================
