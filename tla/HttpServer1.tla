----------------------------- MODULE HttpServer1 -----------------------------
(***************************************************************************)
(* The HTTP server of examples/c++11/http_server1: server, connection and  *)
(* connection_manager, whose handlers one thread runs from one io_context, *)
(* from the first connection to the signal that makes run() return.        *)
(*                                                                         *)
(* A handler is one action.  An asynchronous operation has an outcome      *)
(* before its handler runs, and the handlers that run in between may do    *)
(* anything: above all, the handler of the signal may close the socket of  *)
(* a connection whose read has already succeeded.                          *)
(***************************************************************************)
EXTENDS Naturals, Sequences, FiniteSets

CONSTANTS
    Conn,        \* connections that clients may open
    MaxChunks    \* bound: pieces of a request each client sends

ASSUME MaxChunksAssumption == MaxChunks \in [Conn -> Nat]

\* request_parser::result_type: what parsing a chunk, after those before it,
\* comes to.
ParseResult == {"good", "bad", "indeterminate"}

VARIABLES
    client,        \* the client's end of the connection
    chunks,        \* the chunks the client has sent, each by its ParseResult
    taken,         \* how many of them reads have taken off the socket
    received,      \* the replies the client has been sent
    acceptorOpen,  \* acceptor_.is_open()
    accept,        \* the outstanding async_accept
    accepted,      \* the socket in the result of an async_accept, if any
    signal,        \* the outstanding signals_.async_wait
    connections,   \* connection_manager::connections_
    socket,        \* connection::socket_
    op,            \* the outstanding operation of the connection
    reply,         \* connection::reply_
    exited         \* io_context::run has returned

clientVars == <<client, chunks>>
serverVars == <<acceptorOpen, accept, accepted, signal>>
connVars   == <<connections, socket, op, reply>>
vars == <<clientVars, taken, received, serverVars, connVars, exited>>

OpState == {"idle", "pending", "ok", "error", "aborted"}

Idle == [kind |-> "none", state |-> "idle"]

OpIs(c, kind, state) == op[c] = [kind |-> kind, state |-> state]

-----------------------------------------------------------------------------
(* The clients, and whoever sends the signal.                              *)

Connect(c) ==
    /\ client[c] = "away"
    /\ client' = [client EXCEPT ![c] = "open"]
    /\ UNCHANGED <<chunks, taken, received, serverVars, connVars, exited>>

SendChunk(c, result) ==
    /\ client[c] = "open"
    /\ Len(chunks[c]) < MaxChunks[c]
    /\ chunks' = [chunks EXCEPT ![c] = Append(@, result)]
    /\ UNCHANGED <<client, taken, received, serverVars, connVars, exited>>

\* The client sends no more ("shut") or is gone altogether ("reset").
Quit(c, how) ==
    /\ client[c] = "open" \/ (client[c] = "shut" /\ how = "reset")
    /\ client' = [client EXCEPT ![c] = how]
    /\ UNCHANGED <<chunks, taken, received, serverVars, connVars, exited>>

Signal ==
    /\ signal = "pending"
    /\ signal' = "ok"
    /\ UNCHANGED <<clientVars, taken, received, acceptorOpen, accept, accepted,
                   connVars, exited>>

-----------------------------------------------------------------------------
(* Outcomes of the operations in flight.                                   *)

AcceptCompletes(c) ==
    /\ accept = "pending"
    /\ client[c] # "away"
    /\ socket[c] = "none"
    /\ accept' = "ok"
    /\ accepted' = {c}
    /\ UNCHANGED <<clientVars, taken, received, acceptorOpen, signal, connVars,
                   exited>>

AcceptFails ==
    /\ accept = "pending"
    /\ accept' = "error"
    /\ UNCHANGED <<clientVars, taken, received, acceptorOpen, accepted, signal,
                   connVars, exited>>

SetState(c, state) == op' = [op EXCEPT ![c].state = state]

ReadCompletes(c) ==
    /\ OpIs(c, "read", "pending")
    /\ taken[c] < Len(chunks[c])
    /\ taken' = [taken EXCEPT ![c] = @ + 1]
    /\ SetState(c, "ok")
    /\ UNCHANGED <<clientVars, received, serverVars, connections, socket, reply,
                   exited>>

ReadFails(c) ==
    /\ OpIs(c, "read", "pending")
    /\ taken[c] = Len(chunks[c])
    /\ client[c] \in {"shut", "reset"}
    /\ SetState(c, "error")
    /\ UNCHANGED <<clientVars, taken, received, serverVars, connections, socket,
                   reply, exited>>

WriteCompletes(c) ==
    /\ OpIs(c, "write", "pending")
    /\ client[c] # "reset"
    /\ received' = [received EXCEPT ![c] = Append(@, reply[c])]
    /\ SetState(c, "ok")
    /\ UNCHANGED <<clientVars, taken, serverVars, connections, socket, reply,
                   exited>>

WriteFails(c) ==
    /\ OpIs(c, "write", "pending")
    /\ client[c] = "reset"
    /\ SetState(c, "error")
    /\ UNCHANGED <<clientVars, taken, received, serverVars, connections, socket,
                   reply, exited>>

-----------------------------------------------------------------------------
(* connection and connection_manager.                                      *)

\* An operation on a closed socket fails at once, with an error of its own
\* (bad_descriptor) and not with operation_aborted.
Start(c, kind) ==
    [kind |-> kind, state |-> IF socket[c] = "open" THEN "pending" ELSE "error"]

\* connection::stop of every connection of cs: closing the socket aborts the
\* operations that are in flight, but none that already has its outcome.
StopConnections(cs, ops) ==
    /\ socket' = [c \in Conn |-> IF c \in cs THEN "closed" ELSE socket[c]]
    /\ op' = [c \in Conn |-> IF c \in cs /\ ops[c].state = "pending"
                             THEN [ops[c] EXCEPT !.state = "aborted"]
                             ELSE ops[c]]

\* connection_manager::stop, called by the handler of c's only operation.
ManagerStop(c) ==
    /\ connections' = connections \ {c}
    /\ StopConnections({c}, [op EXCEPT ![c] = Idle])

StopAll ==
    /\ connections' = {}
    /\ StopConnections(connections, op)

\* connection_manager::start and connection::start.
ManagerStart(cs) ==
    /\ connections' = connections \cup cs
    /\ socket' = [c \in Conn |-> IF c \in cs THEN "open" ELSE socket[c]]
    /\ op' = [c \in Conn |-> IF c \in cs THEN [kind |-> "read", state |-> "pending"]
                                          ELSE op[c]]

\* The chunk in connection::buffer_.
Buffer(c) == chunks[c][taken[c]]

\* The handler parses buffer_ and writes a reply or reads on.
OnRead(c) ==
    /\ OpIs(c, "read", "ok")
    /\ IF Buffer(c) = "indeterminate"
       THEN /\ op' = [op EXCEPT ![c] = Start(c, "read")]
            /\ UNCHANGED reply
       ELSE /\ reply' = [reply EXCEPT ![c] =
                            IF Buffer(c) = "good" THEN "page" ELSE "bad_request"]
            /\ op' = [op EXCEPT ![c] = Start(c, "write")]
    /\ UNCHANGED <<clientVars, taken, received, serverVars, connections, socket,
                   exited>>

\* Mutant: any error ends the read, but none ends the connection.
OnErrorForgets(c) ==
    /\ op[c].state = "error"
    /\ op' = [op EXCEPT ![c] = Idle]
    /\ UNCHANGED <<clientVars, taken, received, serverVars, connections, socket,
                   reply, exited>>

\* A read or a write that failed by itself ends the connection.
OnError(c) ==
    /\ op[c].state = "error"
    /\ ManagerStop(c)
    /\ UNCHANGED <<clientVars, taken, received, serverVars, reply, exited>>

\* One that was aborted was ended by whoever closed the socket.
OnAborted(c) ==
    /\ op[c].state = "aborted"
    /\ op' = [op EXCEPT ![c] = Idle]
    /\ UNCHANGED <<clientVars, taken, received, serverVars, connections, socket,
                   reply, exited>>

\* Mutant: the connection is kept for another request, its parser as it is.
OnWrittenReadsOn(c) ==
    /\ OpIs(c, "write", "ok")
    /\ op' = [op EXCEPT ![c] = Start(c, "read")]
    /\ UNCHANGED <<clientVars, taken, received, serverVars, connections, socket,
                   reply, exited>>

OnWritten(c) ==
    /\ OpIs(c, "write", "ok")
    /\ ManagerStop(c)
    /\ UNCHANGED <<clientVars, taken, received, serverVars, reply, exited>>

-----------------------------------------------------------------------------
(* server.                                                                 *)

\* The connection made from the accepted socket, if there is one, is started,
\* then the next accept.
StartAccepted ==
    /\ ManagerStart(accepted)
    /\ accept' = "pending"
    /\ accepted' = {}

\* The accepted socket is closed with the handler that is destroyed.
DropAccepted ==
    /\ socket' = [c \in Conn |-> IF c \in accepted THEN "closed" ELSE socket[c]]
    /\ accept' = "none"
    /\ accepted' = {}
    /\ UNCHANGED <<connections, op>>

\* Mutant: the handler does not ask whether the acceptor is still open.
OnAcceptUnasked ==
    /\ accept \in {"ok", "error", "aborted"}
    /\ StartAccepted
    /\ UNCHANGED <<clientVars, taken, received, acceptorOpen, signal, reply, exited>>

\* Mutant: an accept that failed is not followed by another one.
OnAcceptGivesUp ==
    /\ accept \in {"ok", "error", "aborted"}
    /\ IF acceptorOpen /\ accept = "ok" THEN StartAccepted ELSE DropAccepted
    /\ UNCHANGED <<clientVars, taken, received, acceptorOpen, signal, reply, exited>>

OnAccept ==
    /\ accept \in {"ok", "error", "aborted"}
    /\ IF acceptorOpen THEN StartAccepted ELSE DropAccepted
    /\ UNCHANGED <<clientVars, taken, received, acceptorOpen, signal, reply, exited>>

\* Mutant: the acceptor stays open.
OnSignalKeepsAccepting ==
    /\ signal = "ok"
    /\ signal' = "none"
    /\ StopAll
    /\ UNCHANGED <<clientVars, taken, received, acceptorOpen, accept, accepted,
                   reply, exited>>

\* acceptor_.close() and connection_manager_.stop_all().
OnSignal ==
    /\ signal = "ok"
    /\ signal' = "none"
    /\ acceptorOpen' = FALSE
    /\ accept' = IF accept = "pending" THEN "aborted" ELSE accept
    /\ StopAll
    /\ UNCHANGED <<clientVars, taken, received, accepted, reply, exited>>

\* io_context::run returns when no operation is left.
Exit ==
    /\ ~exited
    /\ accept = "none" /\ signal = "none"
    /\ \A c \in Conn : op[c] = Idle
    /\ exited' = TRUE
    /\ UNCHANGED <<clientVars, taken, received, serverVars, connVars>>

-----------------------------------------------------------------------------
\* server::server: the signal is awaited and the first accept is in flight.
Init ==
    /\ client = [c \in Conn |-> "away"]
    /\ chunks = [c \in Conn |-> <<>>]
    /\ taken = [c \in Conn |-> 0]
    /\ received = [c \in Conn |-> <<>>]
    /\ acceptorOpen = TRUE
    /\ accept = "pending"
    /\ accepted = {}
    /\ signal = "pending"
    /\ connections = {}
    /\ socket = [c \in Conn |-> "none"]
    /\ op = [c \in Conn |-> Idle]
    /\ reply = [c \in Conn |-> "none"]
    /\ exited = FALSE

Outcome(c) ==
    ReadCompletes(c) \/ ReadFails(c) \/ WriteCompletes(c) \/ WriteFails(c)

Handler(c) == OnRead(c) \/ OnError(c) \/ OnAborted(c) \/ OnWritten(c)

ClientStep(c) ==
    \/ Connect(c)
    \/ \E result \in ParseResult : SendChunk(c, result)
    \/ \E how \in {"shut", "reset"} : Quit(c, how)

Next ==
    \/ \E c \in Conn : ClientStep(c) \/ AcceptCompletes(c) \/ Outcome(c) \/ Handler(c)
    \/ Signal
    \/ AcceptFails
    \/ OnAccept
    \/ OnSignal
    \/ Exit

\* io_context::run runs every ready handler and returns when it is done; a
\* read or a write ends as long as the client sends, receives or goes away.
\* Nothing makes a client connect, an accept fail or a signal arrive.
Fairness ==
    /\ WF_vars(OnAccept)
    /\ WF_vars(OnSignal)
    /\ WF_vars(Exit)
    /\ \A c \in Conn : WF_vars(Outcome(c)) /\ WF_vars(Handler(c))

Spec == Init /\ [][Next]_vars

FairSpec == Spec /\ Fairness

-----------------------------------------------------------------------------
(* Properties.                                                             *)

\* Every variable holds what the source's types let it hold, and a socket
\* waits to be handed over only while an accept has completed.
TypeOK ==
    /\ client \in [Conn -> {"away", "open", "shut", "reset"}]
    /\ chunks \in [Conn -> Seq(ParseResult)]
    /\ taken \in [Conn -> Nat] /\ \A c \in Conn : taken[c] <= Len(chunks[c])
    /\ received \in [Conn -> Seq({"page", "bad_request"})]
    /\ acceptorOpen \in BOOLEAN
    /\ accept \in OpState \cup {"none"}
    /\ accepted \subseteq Conn /\ (accepted # {} => accept = "ok")
    /\ signal \in {"none", "pending", "ok"}
    /\ connections \subseteq Conn
    /\ socket \in [Conn -> {"none", "open", "closed"}]
    /\ op \in [Conn -> [kind : {"none", "read", "write"}, state : OpState]]
    /\ reply \in [Conn -> {"none", "page", "bad_request"}]
    /\ exited \in BOOLEAN

\* "While the server is running, there is always at least one asynchronous
\* operation outstanding: the asynchronous accept call" (server::run): as
\* long as the acceptor is open an accept is in flight or its handler is
\* due, and run() does not return before the acceptor is closed.
AcceptIsOutstanding == acceptorOpen => accept # "none" /\ ~exited

\* The manager knows exactly the connections whose socket is open, so that
\* stop_all reaches them all; each of them has one operation in flight whose
\* handler will run; and none is left, or comes, once the server is stopped.
ManagedAreOpen ==
    /\ connections = {c \in Conn : socket[c] = "open"}
    /\ \A c \in connections : op[c].state \in {"pending", "ok", "error"}
    /\ ~acceptorOpen => connections = {}

\* A client gets at most one reply, and the one its request deserves: the
\* first chunk that completes or spoils the request decides, whatever has
\* been sent after it.
ReplyFitsRequest ==
    \A c \in Conn : received[c] # <<>> =>
        /\ Len(received[c]) = 1
        /\ \E i \in 1..Len(chunks[c]) :
              /\ \A j \in 1..(i - 1) : chunks[c][j] = "indeterminate"
              /\ received[c][1] = (CASE chunks[c][i] = "good" -> "page"
                                     [] chunks[c][i] = "bad"  -> "bad_request"
                                     [] OTHER -> "none")

\* The signal ends the server: every operation, those in flight and those
\* that handlers still start, comes to an end, and run() returns.
SignalEndsServer == signal = "ok" ~> exited

\* A connection whose client is gone is not kept.
GoneClientsAreDropped ==
    \A c \in Conn :
        (c \in connections /\ client[c] \in {"shut", "reset"})
            ~> c \notin connections
=============================================================================
