----------------------------- MODULE HostSocket -----------------------------
(***************************************************************************)
(* The socket half of the host process bridge (patches-16.1/0016,          *)
(* host_pool.rs: TcpListener, TcpStream, push_bytes, pool_accept) and its  *)
(* host side (pkg/loader.cjs, initTurbopackProcessBridge): listen, write   *)
(* and action requests go to the JS main thread through one threadsafe     *)
(* function each; connections, bytes and end of file come back through     *)
(* exported entry points that the main thread calls.                       *)
(***************************************************************************)
EXTENDS Naturals, Sequences, SequencesExt

CONSTANTS
    Listeners,   \* listener ids (NEXT_ID, never reused)
    Conns,       \* connection ids (nextConnId, never reused)
    NoConn, NoListener,
    MaxChunks    \* bound: chunks written on a connection, either way

ASSUME SocketAssumption ==
    /\ NoConn \notin Conns /\ NoListener \notin Listeners
    /\ MaxChunks \in Nat

VARIABLES
    listener, promise,       \* the guest's TcpListener, and the port promise it awaits
    listening,               \* LISTENERS: the ids pool_accept finds
    acceptRx,                \* the connections waiting for accept(), by listener
    stream, writeClosed,     \* the guest's TcpStream, and its write_closed flag
    streams,                 \* STREAMS: the connections push_bytes finds
    asked,                   \* host calls made and not yet run, by threadsafe function
    servers, server,         \* loader.cjs: servers; what each net.Server is doing
    conns, sock,             \* loader.cjs: conns; what each net.Socket is doing
    peer,                    \* the other end of the connection
    wrote, sent,             \* chunks the guest wrote, and chunks given to the socket
    arrived, emitted, given,  \* chunks the peer sent, Node emitted, and the guest was given
    offered,                 \* the accept callback the main thread is in the middle of
    cutOff                   \* history: closed by the host while writes were queued

binding == <<listener, promise, listening, acceptRx>>
held    == <<stream, writeClosed>>
hostL   == <<servers, server>>
hostC   == <<conns, sock, cutOff>>
outward == <<wrote, sent>>
inward  == <<arrived, emitted, given>>
socketVars == <<binding, held, streams, asked, hostL, hostC, peer, outward, inward, offered>>

\* The threadsafe function that carries a request: each has a queue of its own, and nothing
\* orders two of them.
Functions == {"listen", "write", "action"}
Via(o) == IF o \in {"listen", "write"} THEN o ELSE "action"
Requests == [op : {"listen", "closeListener"}, id : Listeners]
       \union [op : {"write", "closeWrite", "dropConn"}, id : Conns]
NoneOffered == [conn |-> NoConn, via |-> NoListener]

SocketTypeOK ==
    /\ listener \in [Listeners -> {"none", "binding", "bound", "failed", "closing", "dropped"}]
    /\ promise \in [Listeners -> {"pending", "resolved", "rejected"}]
    /\ listening \subseteq Listeners /\ acceptRx \in [Listeners -> Seq(Conns)]
    /\ stream \in [Conns -> {"none", "queued", "held", "dropped", "lost"}]
    /\ writeClosed \in [Conns -> BOOLEAN]
    /\ streams \subseteq Conns /\ asked \in [Functions -> Seq(Requests)]
    /\ servers \subseteq Listeners
    /\ server \in [Listeners -> {"none", "opening", "open", "failed", "closed"}]
    /\ conns \subseteq Conns
    /\ sock \in [Conns -> {"none", "open", "ended", "destroyed", "closed"}]
    /\ peer \in [Conns -> {"none", "open", "closed", "reset"}]
    /\ {wrote, sent, arrived, emitted, given} \subseteq [Conns -> Nat]
    /\ offered \in [conn : Conns, via : Listeners] \union {NoneOffered}
    /\ cutOff \subseteq Conns

SocketInit ==
    /\ listener = [l \in Listeners |-> "none"] /\ promise = [l \in Listeners |-> "pending"]
    /\ listening = {} /\ acceptRx = [l \in Listeners |-> <<>>]
    /\ stream = [c \in Conns |-> "none"] /\ writeClosed = [c \in Conns |-> FALSE]
    /\ streams = {} /\ asked = [f \in Functions |-> <<>>]
    /\ servers = {} /\ server = [l \in Listeners |-> "none"]
    /\ conns = {} /\ sock = [c \in Conns |-> "none"] /\ peer = [c \in Conns |-> "none"]
    /\ wrote = [c \in Conns |-> 0] /\ sent = wrote
    /\ arrived = wrote /\ emitted = wrote /\ given = wrote
    /\ offered = NoneOffered /\ cutOff = {}

-----------------------------------------------------------------------------
(* The guest.                                                               *)

Ask(o, x) == asked' = [asked EXCEPT ![Via(o)] = Append(@, [op |-> o, id |-> x])]
Asked(o, x) == \E i \in DOMAIN asked[Via(o)] : asked[Via(o)][i] = [op |-> o, id |-> x]

\* TcpListener::bind: register the listener, then ask the host to listen.
Bind(l) ==
    /\ listener[l] = "none"
    /\ listener' = [listener EXCEPT ![l] = "binding"]
    /\ listening' = listening \union {l}
    /\ Ask("listen", l)
    /\ UNCHANGED <<promise, acceptRx, held, streams, hostL, hostC, peer, outward, inward, offered>>

\* bind resumes: a port, or the error that unregisters the listener.
BindReturns(l) ==
    /\ listener[l] = "binding" /\ promise[l] # "pending"
    /\ IF promise[l] = "resolved"
       THEN listener' = [listener EXCEPT ![l] = "bound"] /\ UNCHANGED <<listening, acceptRx, stream>>
       ELSE /\ listener' = [listener EXCEPT ![l] = "failed"]
            /\ listening' = listening \ {l}
            /\ acceptRx' = [acceptRx EXCEPT ![l] = <<>>]
            /\ stream' = [c \in Conns |-> IF c \in ToSet(acceptRx[l]) THEN "lost" ELSE stream[c]]
    /\ UNCHANGED <<promise, writeClosed, streams, asked, hostL, hostC, peer, outward, inward, offered>>

\* TcpListener::accept.
Accept(l) ==
    /\ listener[l] = "bound" /\ acceptRx[l] # <<>>
    /\ acceptRx' = [acceptRx EXCEPT ![l] = Tail(@)]
    /\ stream' = [stream EXCEPT ![Head(acceptRx[l])] = "held"]
    /\ UNCHANGED <<listener, promise, listening, writeClosed, streams, asked, hostL, hostC, peer,
                   outward, inward, offered>>

\* Drop for TcpListener: unregister ...
DropListener(l) ==
    /\ listener[l] = "bound"
    /\ listener' = [listener EXCEPT ![l] = "closing"]
    /\ listening' = listening \ {l}
    /\ UNCHANGED <<promise, acceptRx, held, streams, asked, hostL, hostC, peer, outward, inward, offered>>

\* ... ask the host to close the server; then the receiver goes, and with it every
\* AcceptedConn nobody took: nothing tells the host about those.
CloseListener(l) ==
    /\ listener[l] = "closing"
    /\ listener' = [listener EXCEPT ![l] = "dropped"]
    /\ Ask("closeListener", l)
    /\ acceptRx' = [acceptRx EXCEPT ![l] = <<>>]
    /\ stream' = [c \in Conns |-> IF c \in ToSet(acceptRx[l]) THEN "lost" ELSE stream[c]]
    /\ UNCHANGED <<promise, listening, writeClosed, streams, hostL, hostC, peer, outward, inward, offered>>

\* TcpStream::poll_write: always ready, never refused.
Write(c) ==
    /\ stream[c] = "held" /\ ~writeClosed[c] /\ wrote[c] < MaxChunks
    /\ wrote' = [wrote EXCEPT ![c] = @ + 1]
    /\ Ask("write", c)
    /\ UNCHANGED <<binding, held, streams, hostL, hostC, peer, sent, inward, offered>>

\* (Mutant) the stream does not remember that it was shut down.
ShutdownForgotten(c) ==
    /\ stream[c] = "held" /\ ~writeClosed[c]
    /\ Ask("closeWrite", c)
    /\ UNCHANGED <<binding, held, streams, hostL, hostC, peer, outward, inward, offered>>

\* TcpStream::poll_shutdown, at most once.
Shutdown(c) ==
    /\ stream[c] = "held" /\ ~writeClosed[c]
    /\ writeClosed' = [writeClosed EXCEPT ![c] = TRUE]
    /\ Ask("closeWrite", c)
    /\ UNCHANGED <<binding, stream, streams, hostL, hostC, peer, outward, inward, offered>>

\* Drop for TcpStream.
DropStream(c) ==
    /\ stream[c] = "held"
    /\ stream' = [stream EXCEPT ![c] = "dropped"]
    /\ streams' = streams \ {c}
    /\ Ask("dropConn", c)
    /\ UNCHANGED <<binding, writeClosed, hostL, hostC, peer, outward, inward, offered>>

-----------------------------------------------------------------------------
(* The peer: a pool child, a plain node process (external).                 *)

PeerSends(c) ==
    /\ peer[c] = "open" /\ arrived[c] < MaxChunks
    /\ arrived' = [arrived EXCEPT ![c] = @ + 1]
    /\ UNCHANGED <<binding, held, streams, asked, hostL, hostC, peer, outward, emitted, given, offered>>

PeerLeaves(c) ==
    /\ peer[c] = "open"
    /\ \E how \in {"closed", "reset"} : peer' = [peer EXCEPT ![c] = how]
    /\ UNCHANGED <<binding, held, streams, asked, hostL, hostC, outward, inward, offered>>

-----------------------------------------------------------------------------
(* The JS main thread.                                                      *)

\* A callback runs: the main thread takes the oldest call of its threadsafe function.
Serves(o, x) ==
    /\ offered = NoneOffered
    /\ asked[Via(o)] # <<>> /\ Head(asked[Via(o)]) = [op |-> o, id |-> x]
    /\ asked' = [asked EXCEPT ![Via(o)] = Tail(@)]

\* The listen callback: a server, opening.
HostListen(l) ==
    /\ Serves("listen", l)
    /\ servers' = servers \union {l}
    /\ server' = [server EXCEPT ![l] = "opening"]
    /\ UNCHANGED <<binding, held, streams, hostC, peer, outward, inward, offered>>

\* (Mutant) the promise is settled with what the server became, not with its port.
ListenSettlesRaw(l) ==
    /\ offered = NoneOffered /\ server[l] = "opening"
    /\ server' = [server EXCEPT ![l] = "open"]
    /\ promise' = [promise EXCEPT ![l] = "open"]
    /\ UNCHANGED <<listener, listening, acceptRx, held, streams, asked, servers, hostC, peer,
                   outward, inward, offered>>

\* 'listening' resolves the promise, 'error' rejects it; servers keeps the entry.
ListenSettles(l) ==
    /\ offered = NoneOffered /\ server[l] = "opening"
    /\ \/ /\ server' = [server EXCEPT ![l] = "open"]
          /\ promise' = [promise EXCEPT ![l] = "resolved"]
       \/ /\ server' = [server EXCEPT ![l] = "failed"]
          /\ promise' = [promise EXCEPT ![l] = "rejected"]
    /\ UNCHANGED <<listener, listening, acceptRx, held, streams, asked, servers, hostC, peer,
                   outward, inward, offered>>

\* createServer's callback, first half: conns.set, then pool_accept registers the stream.
Connect(c, l) ==
    /\ offered = NoneOffered /\ server[l] = "open" /\ sock[c] = "none"
    /\ sock' = [sock EXCEPT ![c] = "open"] /\ peer' = [peer EXCEPT ![c] = "open"]
    /\ conns' = conns \union {c}
    /\ streams' = streams \union {c}
    /\ offered' = [conn |-> c, via |-> l]
    /\ UNCHANGED <<binding, held, asked, hostL, cutOff, outward, inward>>

\* (Mutant) a connection nobody listens for any more is simply forgotten.
OfferForgets ==
    /\ offered # NoneOffered
    /\ IF offered.via \in listening
       THEN /\ acceptRx' = [acceptRx EXCEPT ![offered.via] = Append(@, offered.conn)]
            /\ stream' = [stream EXCEPT ![offered.conn] = "queued"]
            /\ UNCHANGED <<streams, asked>>
       ELSE /\ streams' = streams \ {offered.conn}
            /\ UNCHANGED <<acceptRx, stream, asked>>
    /\ offered' = NoneOffered
    /\ UNCHANGED <<listener, promise, listening, writeClosed, hostL, hostC, peer, outward, inward>>

\* pool_accept, second half, under the lock of LISTENERS: hand the connection to
\* accept(), or undo the registration and have the host drop it.
Offer ==
    /\ offered # NoneOffered
    /\ IF offered.via \in listening
       THEN /\ acceptRx' = [acceptRx EXCEPT ![offered.via] = Append(@, offered.conn)]
            /\ stream' = [stream EXCEPT ![offered.conn] = "queued"]
            /\ UNCHANGED <<streams, asked>>
       ELSE /\ streams' = streams \ {offered.conn}
            /\ Ask("dropConn", offered.conn)
            /\ UNCHANGED <<acceptRx, stream>>
    /\ offered' = NoneOffered
    /\ UNCHANGED <<listener, promise, listening, writeClosed, hostL, hostC, peer, outward, inward>>

\* The write callback: sock.write if the connection is known and not destroyed.  After
\* sock.end() it is an error: the chunk is lost and the socket destroyed.
HostWrite(c) ==
    /\ Serves("write", c)
    /\ IF c \in conns /\ sock[c] = "open"
       THEN sent' = [sent EXCEPT ![c] = @ + 1] /\ UNCHANGED sock
       ELSE /\ UNCHANGED sent
            /\ sock' = [sock EXCEPT ![c] = IF c \in conns /\ @ = "ended" THEN "destroyed" ELSE @]
    /\ UNCHANGED <<binding, held, streams, hostL, conns, cutOff, peer, wrote, inward, offered>>

\* What the host does to c overtakes the writes of c that are still queued.
Overtakes(c) ==
    cutOff' = IF Asked("write", c) THEN cutOff \union {c} ELSE cutOff

\* action "closeWrite": sock.end().
HostCloseWrite(c) ==
    /\ Serves("closeWrite", c) /\ Overtakes(c)
    /\ sock' = [sock EXCEPT ![c] = IF c \in conns /\ @ = "open" THEN "ended" ELSE @]
    /\ UNCHANGED <<binding, held, streams, hostL, conns, peer, outward, inward, offered>>

\* action "dropConn": conns.delete, sock.destroy().
HostDropConn(c) ==
    /\ Serves("dropConn", c) /\ Overtakes(c)
    /\ conns' = conns \ {c}
    /\ sock' = [sock EXCEPT ![c] = IF c \in conns /\ @ \in {"open", "ended"} THEN "destroyed" ELSE @]
    /\ UNCHANGED <<binding, held, streams, hostL, peer, outward, inward, offered>>

\* (Mutant) the server leaves the table without being closed.
HostForgetListener(l) ==
    /\ Serves("closeListener", l)
    /\ servers' = servers \ {l}
    /\ UNCHANGED <<binding, held, streams, server, hostC, peer, outward, inward, offered>>

\* action "closeListener": servers.delete, server.close().
HostCloseListener(l) ==
    /\ Serves("closeListener", l)
    /\ servers' = servers \ {l}
    /\ server' = [server EXCEPT ![l] = IF l \in servers THEN "closed" ELSE @]
    /\ UNCHANGED <<binding, held, streams, hostC, peer, outward, inward, offered>>

\* sock 'data': push(connId, b), which reaches the guest while the stream is registered.
SockData(c) ==
    /\ offered = NoneOffered /\ sock[c] \in {"open", "ended"} /\ emitted[c] < arrived[c]
    /\ emitted' = [emitted EXCEPT ![c] = @ + 1]
    /\ given' = [given EXCEPT ![c] = @ + (IF c \in streams THEN 1 ELSE 0)]
    /\ UNCHANGED <<binding, held, streams, asked, hostL, hostC, peer, outward, arrived, offered>>

\* What 'close' does: push(connId, null), conns.delete.
Closes(c) ==
    /\ sock' = [sock EXCEPT ![c] = "closed"]
    /\ streams' = streams \ {c}
    /\ conns' = conns \ {c}
    /\ UNCHANGED <<binding, held, asked, hostL, cutOff, peer, outward, inward, offered>>

\* (Mutant) end of file is reported as soon as the peer has gone.
SockCloseEarly(c) ==
    /\ offered = NoneOffered /\ sock[c] \in {"open", "ended", "destroyed"}
    /\ sock[c] = "destroyed" \/ peer[c] \in {"reset", "closed"}
    /\ Closes(c)

\* sock 'close': destroyed, reset, or the peer is gone and all its bytes were emitted.
SockClose(c) ==
    /\ offered = NoneOffered /\ sock[c] \in {"open", "ended", "destroyed"}
    /\ \/ sock[c] = "destroyed" \/ peer[c] = "reset"
       \/ peer[c] = "closed" /\ emitted[c] = arrived[c]
    /\ Closes(c)

-----------------------------------------------------------------------------
GuestStep ==
    \/ \E l \in Listeners : \/ Bind(l) \/ BindReturns(l) \/ Accept(l)
                            \/ DropListener(l) \/ CloseListener(l)
    \/ \E c \in Conns : Write(c) \/ Shutdown(c) \/ DropStream(c)

SocketMainStep ==
    \/ \E l \in Listeners : HostListen(l) \/ ListenSettles(l) \/ HostCloseListener(l)
    \/ \E c \in Conns : \/ HostWrite(c) \/ HostCloseWrite(c) \/ HostDropConn(c)
                        \/ SockData(c) \/ SockClose(c)
    \/ Offer

SocketNext ==
    \/ GuestStep \/ SocketMainStep
    \/ \E c \in Conns, l \in Listeners : Connect(c, l)
    \/ \E c \in Conns : PeerSends(c) \/ PeerLeaves(c)

SocketSpec == SocketInit /\ [][SocketNext]_socketVars

\* The event loop turns, and a bind or a drop that was begun goes on.  Nobody has to
\* connect, send, accept or drop.
SocketFairness ==
    /\ WF_socketVars(SocketMainStep)
    /\ \A l \in Listeners : WF_socketVars(BindReturns(l)) /\ WF_socketVars(CloseListener(l))

-----------------------------------------------------------------------------
\* "per-stream ordering is the JS event ordering, which is the same guarantee a real
\* socket gives" (patches-16.1/0016:100-102): a connection the guest shut down or dropped
\* has been given everything the guest wrote, unless the peer left before.
WritesPrecedeClose ==
    \A c \in Conns : sock[c] \in {"ended", "destroyed"} /\ peer[c] = "open" => sent[c] = wrote[c]

\* What the code gives of that guarantee: while the peer stays, a chunk the guest wrote is lost
\* in one way alone, by a closeWrite or dropConn that ran before it.  Nothing is written after
\* a shutdown, and no write finds its socket ended or gone for another reason.
LostWritesWereOvertaken ==
    \A c \in Conns :
        sock[c] \in {"ended", "destroyed", "closed"} /\ peer[c] = "open" /\ c \notin cutOff =>
            sent[c] = wrote[c]

\* "register the channel BEFORE returning so no data push can beat it"
\* (patches-16.1/0016:312) and EOF as removal of the sender (:294): a connection the guest
\* has or will have is given every chunk Node emits, and it ends only when the peer's
\* last chunk is in, when the peer reset it or when the guest's own writes broke it.
InboundComplete ==
    \A c \in Conns : stream[c] \in {"queued", "held"} =>
        /\ given[c] = emitted[c]
        /\ c \notin streams => given[c] = arrived[c] \/ peer[c] = "reset" \/ sent[c] < wrote[c]

\* A host socket the guest has no use for is on its way out: dropped streams and
\* connections that came too late have their dropConn queued.  The one exception is a
\* connection that was queued for accept() when the listener went ("lost").
NoForgottenSocket ==
    \A c \in conns : stream[c] \in {"none", "dropped"} =>
        offered.conn = c \/ Asked("dropConn", c)

\* Dropping the listener or the stream closes the server and the socket on the host and
\* clears both registries (Drop for TcpListener and TcpStream, 0016:698 and :751).
DropReleases ==
    /\ \A l \in Listeners : listener[l] = "closing" ~> l \notin servers /\ server[l] = "closed"
    /\ \A c \in Conns : stream[c] = "dropped" ~> c \notin conns \union streams /\ sock[c] = "closed"
=============================================================================
