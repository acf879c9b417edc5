----------------------------- MODULE HttpServer2 -----------------------------
(***************************************************************************)
(* The HTTP server of examples/c++11/http_server2: a pool of io_contexts,  *)
(* each run by a thread of its own, handed out in turn to the signal set,  *)
(* the acceptor and every socket that is accepted.                         *)
(*                                                                         *)
(* The handlers of one io_context follow one another; those of different   *)
(* ones interleave.  So a handler of a connection is one step, as nothing  *)
(* but its own thread touches it, while the handler of the accept, which   *)
(* starts a connection that lives on another io_context, and that of the   *)
(* signal, which stops one io_context after the other, are several.        *)
(***************************************************************************)
EXTENDS IoContextPool, Naturals, Sequences, FiniteSets

CONSTANTS
    MaxPool,     \* bound: the largest pool that main is asked for
    Conn,        \* connections that clients may open
    MaxChunks,   \* bound: pieces of a request each client sends
    MaxFails     \* bound: accepts that fail

ASSUME BoundsAssumption ==
    MaxPool \in Nat \ {0} /\ MaxChunks \in Nat /\ MaxFails \in Nat

\* request_parser::result_type: what parsing a chunk, after those before it,
\* comes to.
ParseResult == {"good", "bad", "indeterminate"}

VARIABLES
    client,     \* the client's end of the connection
    chunks,     \* the chunks the client has sent, each by its ParseResult
    taken,      \* how many of them reads have taken off the socket
    received,   \* the replies the client has been sent
    accept,     \* the async_accept, or its outcome
    socketCtx,  \* the io_context of the socket it is for
    incoming,   \* the connection that comes with the outcome, if any
    fails,      \* how many accepts have failed
    home,       \* the io_context of an accepted connection
    op,         \* the operation of a connection, or its outcome
    reply,      \* connection::reply_
    signal,     \* the async_wait for a signal, or its outcome
    stopped,    \* the io_contexts that have been stopped
    at,         \* what the thread of each io_context is doing
    joined      \* how many threads io_context_pool::run has joined

clientVars == <<client, chunks>>
acceptVars == <<accept, socketCtx, incoming, fails>>
connVars   == <<home, op, reply>>
stopVars   == <<signal, stopped, joined>>
vars == <<poolVars, clientVars, taken, received, acceptVars, connVars, stopVars, at>>

\* The first two turns go to the signal set and the acceptor.
SignalCtx == 0
AcceptorCtx == 1 % size

Idle == [kind |-> "none", state |-> "idle"]

Pending(kind) == [kind |-> kind, state |-> "pending"]

Running == [step |-> "run"]

Goes(k, what) == at' = [at EXCEPT ![k] = what]

-----------------------------------------------------------------------------
(* The clients, and whoever sends the signal.                              *)

SendChunk(c, result) ==
    /\ client[c] = "open"
    /\ Len(chunks[c]) < MaxChunks
    /\ chunks' = [chunks EXCEPT ![c] = Append(@, result)]
    /\ UNCHANGED <<poolVars, client, taken, received, acceptVars, connVars, stopVars, at>>

Quit(c) ==
    /\ client[c] = "open"
    /\ client' = [client EXCEPT ![c] = "gone"]
    /\ UNCHANGED <<poolVars, chunks, taken, received, acceptVars, connVars, stopVars, at>>

Signal ==
    /\ signal = "pending"
    /\ signal' = "ok"
    /\ UNCHANGED <<poolVars, clientVars, taken, received, acceptVars, connVars,
                   stopped, joined, at>>

-----------------------------------------------------------------------------
(* Outcomes of the operations in flight.                                   *)

\* A client that has connected.  What it sends or does before it is accepted,
\* the server sees after that.
AcceptCompletes(c) ==
    /\ accept = "pending"
    /\ client[c] = "away"
    /\ client' = [client EXCEPT ![c] = "open"]
    /\ accept' = "ok"
    /\ incoming' = {c}
    /\ home' = [home EXCEPT ![c] = {socketCtx}]
    /\ UNCHANGED <<poolVars, chunks, taken, received, socketCtx, fails, op, reply,
                   stopVars, at>>

AcceptFails ==
    /\ accept = "pending" /\ fails < MaxFails
    /\ accept' = "error"
    /\ fails' = fails + 1
    /\ UNCHANGED <<poolVars, clientVars, taken, received, socketCtx, incoming,
                   connVars, stopVars, at>>

SetState(c, state) == op' = [op EXCEPT ![c].state = state]

ReadCompletes(c) ==
    /\ op[c] = Pending("read")
    /\ taken[c] < Len(chunks[c])
    /\ taken' = [taken EXCEPT ![c] = @ + 1]
    /\ SetState(c, "ok")
    /\ UNCHANGED <<poolVars, clientVars, received, acceptVars, home, reply, stopVars, at>>

WriteCompletes(c) ==
    /\ op[c] = Pending("write")
    /\ client[c] # "gone"
    /\ received' = [received EXCEPT ![c] = Append(@, reply[c])]
    /\ SetState(c, "ok")
    /\ UNCHANGED <<poolVars, clientVars, taken, acceptVars, home, reply, stopVars, at>>

Fails(c) ==
    /\ client[c] = "gone"
    /\ \/ op[c] = Pending("read") /\ taken[c] = Len(chunks[c])
       \/ op[c] = Pending("write")
    /\ SetState(c, "error")
    /\ UNCHANGED <<poolVars, clientVars, taken, received, acceptVars, home, reply,
                   stopVars, at>>

-----------------------------------------------------------------------------
(* The thread of io_context k.                                             *)

\* It can take a handler.
Free(k) == k \in Context /\ at[k] = Running /\ k \notin stopped

\* Mutant: nothing holds run() back when its io_context has nothing to do.
ExitUnguarded(k) ==
    /\ k \in Context \ {SignalCtx, AcceptorCtx} /\ at[k] = Running
    /\ \A c \in Conn : k \in home[c] => op[c] = Idle
    /\ Goes(k, [step |-> "exited"])
    /\ UNCHANGED <<poolVars, clientVars, taken, received, acceptVars, connVars, stopVars>>

\* io_context::run returns.  A work guard holds it back until stop.
Exit(k) ==
    /\ k \in Context /\ at[k] = Running /\ k \in stopped
    /\ Goes(k, [step |-> "exited"])
    /\ UNCHANGED <<poolVars, clientVars, taken, received, acceptVars, connVars, stopVars>>

\* The handler of a read.  It ends with do_write or do_read.
OnRead(c) ==
    /\ \E k \in home[c] : Free(k)
    /\ op[c] = [kind |-> "read", state |-> "ok"]
    /\ LET result == chunks[c][taken[c]]
       IN  IF result = "indeterminate"
           THEN /\ op' = [op EXCEPT ![c] = Pending("read")]
                /\ UNCHANGED reply
           ELSE /\ op' = [op EXCEPT ![c] = Pending("write")]
                /\ reply' = [reply EXCEPT ![c] =
                                IF result = "good" THEN "page" ELSE "bad_request"]
    /\ UNCHANGED <<poolVars, clientVars, taken, received, acceptVars, home, stopVars, at>>

\* The handler of a write, or of an error, starts nothing: the connection goes.
OnEnd(c) ==
    /\ \E k \in home[c] : Free(k)
    /\ op[c].state = "error" \/ op[c] = [kind |-> "write", state |-> "ok"]
    /\ op' = [op EXCEPT ![c] = Idle]
    /\ UNCHANGED <<poolVars, clientVars, taken, received, acceptVars, home, reply,
                   stopVars, at>>

\* The handler of the accept starts the connection, which its own thread may
\* serve from now on, ...
OnAccept ==
    /\ Free(AcceptorCtx) /\ accept \in {"ok", "error"}
    /\ op' = [c \in Conn |-> IF c \in incoming THEN Pending("read") ELSE op[c]]
    /\ accept' = "none"
    /\ incoming' = {}
    /\ Goes(AcceptorCtx, [step |-> "accept_again"])
    /\ UNCHANGED <<poolVars, clientVars, taken, received, socketCtx, fails, home,
                   reply, stopVars>>

\* ... and then accepts again, for a socket of the io_context whose turn it is.
DoAccept ==
    /\ at[AcceptorCtx].step = "accept_again"
    /\ accept' = "pending"
    /\ socketCtx' = next
    /\ GetIoContext
    /\ Goes(AcceptorCtx, Running)
    /\ UNCHANGED <<clientVars, taken, received, incoming, fails, connVars, stopVars>>

OnSignal ==
    /\ Free(SignalCtx) /\ signal = "ok"
    /\ signal' = "none"
    /\ Goes(SignalCtx, [step |-> "stop", i |-> 0])
    /\ UNCHANGED <<poolVars, clientVars, taken, received, acceptVars, connVars,
                   stopped, joined>>

\* Mutant: stop() ends with the io_context that it runs on.
StopNextSelf ==
    /\ at[SignalCtx].step = "stop"
    /\ stopped' = stopped \cup {SignalCtx}
    /\ Goes(SignalCtx, Running)
    /\ UNCHANGED <<poolVars, clientVars, taken, received, acceptVars, connVars,
                   signal, joined>>

\* io_context_pool::stop stops its own io_context first and then the others.
StopNext ==
    /\ at[SignalCtx].step = "stop"
    /\ LET i == at[SignalCtx].i
       IN  /\ stopped' = stopped \cup {i}
           /\ Goes(SignalCtx, IF i + 1 = size THEN Running
                                              ELSE [step |-> "stop", i |-> i + 1])
    /\ UNCHANGED <<poolVars, clientVars, taken, received, acceptVars, connVars,
                   signal, joined>>

\* io_context_pool::run waits for the threads in their order.
Join ==
    /\ joined \in Context
    /\ at[joined].step = "exited"
    /\ joined' = joined + 1
    /\ UNCHANGED <<poolVars, clientVars, taken, received, acceptVars, connVars,
                   signal, stopped, at>>

-----------------------------------------------------------------------------
\* server::server has given a turn to the signal set, the acceptor and the
\* socket of the first accept; io_context_pool::run has started the threads.
Init ==
    /\ size \in 1..MaxPool
    /\ next = 3 % size
    /\ given = [k \in Context |-> Cardinality({i \in 0..2 : i % size = k})]
    /\ client = [c \in Conn |-> "away"]
    /\ chunks = [c \in Conn |-> <<>>]
    /\ taken = [c \in Conn |-> 0]
    /\ received = [c \in Conn |-> <<>>]
    /\ accept = "pending"
    /\ socketCtx = 2 % size
    /\ incoming = {}
    /\ fails = 0
    /\ home = [c \in Conn |-> {}]
    /\ op = [c \in Conn |-> Idle]
    /\ reply = [c \in Conn |-> "none"]
    /\ signal = "pending"
    /\ stopped = {}
    /\ at = [k \in Context |-> Running]
    /\ joined = 0

Outcome(c) == ReadCompletes(c) \/ WriteCompletes(c) \/ Fails(c)

Handler(c) == OnRead(c) \/ OnEnd(c)

Next ==
    \/ \E c \in Conn :
          \/ Quit(c) \/ AcceptCompletes(c) \/ Outcome(c) \/ Handler(c)
          \/ \E result \in ParseResult : SendChunk(c, result)
    \/ Signal \/ AcceptFails
    \/ OnAccept \/ DoAccept \/ OnSignal \/ StopNext \/ Join
    \/ \E k \in Context : Exit(k)

\* Each io_context runs its handlers in the order in which they became ready,
\* so that none is passed over forever, however often the accept takes a
\* turn.  The threads are scheduled; a read or a write ends as long as the
\* client sends, receives or goes away.
Fairness ==
    /\ \A c \in Conn : SF_vars(Handler(c)) /\ WF_vars(Outcome(c))
    /\ SF_vars(OnAccept) /\ SF_vars(OnSignal)
    /\ WF_vars(DoAccept) /\ WF_vars(StopNext) /\ WF_vars(Join)
    /\ \A k \in 0..(MaxPool - 1) : WF_vars(Exit(k))

Spec == Init /\ [][Next]_vars /\ Fairness

-----------------------------------------------------------------------------
(* Properties.                                                             *)

\* What a client is due: the first chunk that completes or spoils its request
\* decides.
Deserved(c) ==
    LET decisive == SelectSeq(chunks[c], LAMBDA result : result # "indeterminate")
    IN  CASE decisive = <<>>         -> <<>>
          [] Head(decisive) = "good" -> <<"page">>
          [] Head(decisive) = "bad"  -> <<"bad_request">>

\* A connection that has been accepted, on whichever io_context, gets the one
\* reply that its request deserves, as long as its client stays and no signal
\* comes: the thread of an io_context that has had nothing to do for a while
\* is still there.
AcceptedAreServed ==
    \A c \in Conn :
        (home[c] # {} /\ Deserved(c) # <<>>)
            ~> (received[c] = Deserved(c) \/ client[c] = "gone" \/ signal # "pending")

\* The signal ends the server: the io_contexts are stopped one by one while
\* the others accept and serve, those that are given a new connection after
\* they have been stopped included, and every thread is joined.
SignalEndsServer == signal = "ok" ~> joined = size
=============================================================================
