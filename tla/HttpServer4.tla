----------------------------- MODULE HttpServer4 -----------------------------
(***************************************************************************)
(* The HTTP server of examples/c++11/http_server4: one stackless coroutine *)
(* that is the handler of every operation it starts.  An operation holds a *)
(* copy of the coroutine; a fork makes one more, which serves a connection *)
(* while its parent goes on to accept.  Copies share what they point to,   *)
(* and it is up to the coroutine to point to something else in time.       *)
(*                                                                         *)
(* One thread runs the handlers.  A handler resumes a coroutine and is one *)
(* action, up to the next yield; what the child of a fork does until its   *)
(* first yield belongs to the handler of its parent.                       *)
(***************************************************************************)
EXTENDS Naturals, Sequences, FiniteSets

CONSTANTS
    Conn,        \* connections that clients may open
    MaxChunks    \* bound: pieces of a request each client sends

ASSUME MaxChunksAssumption == MaxChunks \in [Conn -> Nat]

\* request_parser::result_type: what parsing a chunk, after those before it,
\* comes to.
ParseResult == {"good", "bad", "indeterminate"}

VARIABLES
    client,    \* the client's end of the connection
    chunks,    \* the chunks the client has sent, each by its ParseResult
    taken,     \* how many of them reads have taken off the socket
    received,  \* the replies the client has been sent
    peers,     \* for each tcp::socket made so far, the connection it is one end of
    memory,    \* for each buffer made so far, the last chunk read into it
    accept,    \* the async_accept, whose handler is the parent, or its outcome
    socket,    \* the parent's socket_
    failed,    \* the system has failed an accept
    children,  \* the coroutines forked so far, each at the operation it waits for
    signal,    \* the async_wait for a signal, or its outcome
    stopped    \* io_context::stop has been called

clientVars == <<client, chunks>>
parentVars == <<accept, socket, failed>>
stopVars   == <<signal, stopped>>
vars == <<clientVars, taken, received, peers, memory, parentVars, children, stopVars>>

Child == DOMAIN children

\* The connection of child i's socket, and the chunk in its buffer.
Peer(i) == CHOOSE c \in Conn : c \in peers[children[i].socket]

Buffer(i) == memory[children[i].buffer]

AcceptedConns == UNION {peers[s] : s \in DOMAIN peers}

\* The sockets that some coroutine holds a shared_ptr to; others are closed.
HeldSockets == {socket} \cup {children[i].socket : i \in {j \in Child : children[j].at # "end"}}

WaitsFor(i, op, state) == children[i].at = op /\ children[i].state = state

-----------------------------------------------------------------------------
(* The clients, and whoever sends the signal.                              *)

Connect(c) ==
    /\ client[c] = "away"
    /\ client' = [client EXCEPT ![c] = "open"]
    /\ UNCHANGED <<chunks, taken, received, peers, memory, parentVars, children, stopVars>>

SendChunk(c, result) ==
    /\ client[c] = "open"
    /\ Len(chunks[c]) < MaxChunks[c]
    /\ chunks' = [chunks EXCEPT ![c] = Append(@, result)]
    /\ UNCHANGED <<client, taken, received, peers, memory, parentVars, children, stopVars>>

Quit(c) ==
    /\ client[c] = "open"
    /\ client' = [client EXCEPT ![c] = "gone"]
    /\ UNCHANGED <<chunks, taken, received, peers, memory, parentVars, children, stopVars>>

Signal ==
    /\ signal = "pending"
    /\ signal' = "ok"
    /\ UNCHANGED <<clientVars, taken, received, peers, memory, parentVars, children, stopped>>

-----------------------------------------------------------------------------
(* Outcomes of the operations in flight.                                   *)

AcceptCompletes(c) ==
    /\ accept = "pending"
    /\ client[c] # "away" /\ c \notin AcceptedConns
    /\ accept' = "ok"
    /\ peers' = [peers EXCEPT ![socket] = {c}]
    /\ UNCHANGED <<clientVars, taken, received, memory, socket, failed, children, stopVars>>

AcceptFails ==
    /\ accept = "pending"
    /\ accept' = "error"
    /\ failed' = TRUE
    /\ UNCHANGED <<clientVars, taken, received, peers, memory, socket, children, stopVars>>

SetState(i, state) == children' = [children EXCEPT ![i].state = state]

ReadCompletes(i) ==
    /\ WaitsFor(i, "read", "pending")
    /\ taken[Peer(i)] < Len(chunks[Peer(i)])
    /\ taken' = [taken EXCEPT ![Peer(i)] = @ + 1]
    /\ memory' = [memory EXCEPT ![children[i].buffer] = chunks[Peer(i)][taken'[Peer(i)]]]
    /\ SetState(i, "ok")
    /\ UNCHANGED <<clientVars, received, peers, parentVars, stopVars>>

WriteCompletes(i) ==
    /\ WaitsFor(i, "write", "pending")
    /\ client[Peer(i)] # "gone"
    /\ received' = [received EXCEPT ![Peer(i)] = Append(@, children[i].reply)]
    /\ SetState(i, "ok")
    /\ UNCHANGED <<clientVars, taken, peers, memory, parentVars, stopVars>>

Fails(i) ==
    /\ client[Peer(i)] = "gone"
    /\ \/ WaitsFor(i, "read", "pending") /\ taken[Peer(i)] = Len(chunks[Peer(i)])
       \/ WaitsFor(i, "write", "pending")
    /\ SetState(i, "error")
    /\ UNCHANGED <<clientVars, taken, received, peers, memory, parentVars, stopVars>>

-----------------------------------------------------------------------------
(* server::operator(), the parent.                                         *)

\* Mutant: every accept is for the same socket object.
FirstSocket == 1

\* socket_.reset(new tcp::socket)
NewSocket == Len(peers) + 1

\* Mutant: the children share the buffer that the first of them has made.
FirstBuffer == 1

\* buffer_.reset(new std::array)
NewBuffer == Len(memory) + 1

\* The child's part: a buffer and a request of its own, and the first read.
StartChild ==
    /\ children' = Append(children, [at |-> "read", state |-> "pending", socket |-> socket,
                                     buffer |-> NewBuffer, reply |-> "none"])
    /\ memory' = IF NewBuffer \in DOMAIN memory THEN memory ELSE Append(memory, "none")

\* The head of the parent's loop.  A socket that is open already cannot be
\* accepted for.
AcceptNext ==
    /\ socket' = NewSocket
    /\ peers' = IF NewSocket \in DOMAIN peers THEN peers ELSE Append(peers, {})
    /\ accept' = IF peers'[NewSocket] = {} THEN "pending" ELSE "error"

OnAccept ==
    /\ ~stopped
    /\ accept = "ok"
    /\ StartChild
    /\ AcceptNext
    /\ UNCHANGED <<clientVars, taken, received, failed, stopVars>>

\* The coroutine is not resumed on an error, and nobody else accepts.
OnAcceptError ==
    /\ ~stopped
    /\ accept = "error"
    /\ accept' = "none"
    /\ socket' = 0
    /\ UNCHANGED <<clientVars, taken, received, peers, memory, failed, children, stopVars>>

-----------------------------------------------------------------------------
(* server::operator(), a child.                                            *)

Continue(i, op) ==
    children' = [children EXCEPT ![i] = [@ EXCEPT !.at = op, !.state = "pending"]]

OnRead(i) ==
    /\ ~stopped
    /\ WaitsFor(i, "read", "ok")
    /\ IF Buffer(i) = "indeterminate"
       THEN Continue(i, "read")
       ELSE children' = [children EXCEPT ![i] = [@ EXCEPT
                !.at = "write",
                !.state = "pending",
                !.reply = IF Buffer(i) = "good" THEN "page" ELSE "bad_request"]]
    /\ UNCHANGED <<clientVars, taken, received, peers, memory, parentVars, stopVars>>

\* Mutant: the coroutine is resumed on an error, and finds nothing to parse.
OnErrorGoesOn(i) ==
    /\ ~stopped
    /\ children[i].at # "end"
    /\ \/ children[i].state = "error" /\ Continue(i, "read")
       \/ /\ WaitsFor(i, "write", "ok")
          /\ children' = [children EXCEPT ![i].at = "end"]
    /\ UNCHANGED <<clientVars, taken, received, peers, memory, parentVars, stopVars>>

\* After an error the coroutine is not resumed, after the reply it ends; with
\* its last copy go its references.
OnEnd(i) ==
    /\ ~stopped
    /\ children[i].at # "end"
    /\ children[i].state = "error" \/ WaitsFor(i, "write", "ok")
    /\ children' = [children EXCEPT ![i].at = "end"]
    /\ UNCHANGED <<clientVars, taken, received, peers, memory, parentVars, stopVars>>

\* The handler in main.
OnSignal ==
    /\ ~stopped
    /\ signal = "ok"
    /\ signal' = "none"
    /\ stopped' = TRUE
    /\ UNCHANGED <<clientVars, taken, received, peers, memory, parentVars, children>>

-----------------------------------------------------------------------------
\* main has called the initial coroutine, which yields at the first accept.
Init ==
    /\ client = [c \in Conn |-> "away"]
    /\ chunks = [c \in Conn |-> <<>>]
    /\ taken = [c \in Conn |-> 0]
    /\ received = [c \in Conn |-> <<>>]
    /\ peers = <<{}>>
    /\ memory = <<>>
    /\ accept = "pending"
    /\ socket = 1
    /\ failed = FALSE
    /\ children = <<>>
    /\ signal = "pending"
    /\ stopped = FALSE

Outcome(i) == ReadCompletes(i) \/ WriteCompletes(i) \/ Fails(i)

Handler(i) == OnRead(i) \/ OnEnd(i)

Next ==
    \/ \E c \in Conn :
          \/ Connect(c) \/ Quit(c) \/ AcceptCompletes(c)
          \/ \E result \in ParseResult : SendChunk(c, result)
    \/ \E i \in Child : Outcome(i) \/ Handler(i)
    \/ Signal \/ AcceptFails
    \/ OnAccept \/ OnAcceptError \/ OnSignal

\* run() gets to every ready handler.  The system hands over a connection that
\* waits to be accepted, and a read or a write ends as long as the client
\* sends, receives or goes away.
Fairness ==
    /\ WF_vars(OnAccept) /\ WF_vars(OnAcceptError) /\ WF_vars(OnSignal)
    /\ WF_vars(\E c \in Conn : AcceptCompletes(c))
    /\ \A i \in 1..Cardinality(Conn) :
          WF_vars(i \in Child /\ Outcome(i)) /\ WF_vars(i \in Child /\ Handler(i))

Spec == Init /\ [][Next]_vars /\ Fairness

-----------------------------------------------------------------------------
(* Properties.                                                             *)

\* What a client is due: the first chunk that completes or spoils its request
\* decides.
Deserved(c) ==
    LET Decides(i) == /\ chunks[c][i] # "indeterminate"
                      /\ \A j \in 1..(i - 1) : chunks[c][j] = "indeterminate"
        first == CHOOSE i \in DOMAIN chunks[c] : Decides(i)
    IN  IF \E i \in DOMAIN chunks[c] : Decides(i)
        THEN <<IF chunks[c][first] = "good" THEN "page" ELSE "bad_request">>
        ELSE <<>>

\* No client gets a reply to what another one has sent, nor a second one:
\* the coroutines that fork copies from one another never share a buffer.
ReplyFitsRequest ==
    \A c \in Conn : received[c] # <<>> => received[c] = Deserved(c)

\* A client that connects is accepted and gets its reply, unless it leaves, a
\* signal comes, or the system has failed an accept before.  Such a failure
\* ends the accepting coroutine, but never one that serves a connection.
ClientsAreServed ==
    \A c \in Conn :
        (client[c] = "open" /\ Deserved(c) # <<>>)
            ~> \/ received[c] = Deserved(c)
               \/ client[c] = "gone" \/ signal # "pending"
               \/ failed /\ c \notin AcceptedConns

\* "All shared_ptr references will disappear" (server::operator()): no
\* coroutine keeps the socket of a client that is gone or has its reply.
SocketsAreDestroyed ==
    \A s \in 1..Cardinality(Conn) :
        (s \in DOMAIN peers /\ \E c \in peers[s] : client[c] = "gone" \/ received[c] # <<>>)
            ~> (s \notin HeldSockets \/ signal # "pending")
=============================================================================
