----------------------------- MODULE HttpServer3 -----------------------------
(***************************************************************************)
(* The HTTP server of examples/c++11/http_server3: one io_context run by a *)
(* pool of threads, a strand for each connection and no connection_manager *)
(* - a connection lives as long as a handler or an operation holds a       *)
(* shared_ptr to it, and the signal just stops the io_context.             *)
(*                                                                         *)
(* Handlers of different threads interleave, so a handler is several       *)
(* steps: it is taken off the io_context's queue, it enters the strand, it *)
(* looks at its result, it starts the next operation, and it returns.  As  *)
(* soon as an operation is started it may complete and another thread may  *)
(* take its handler, while the one that started it has not returned.       *)
(***************************************************************************)
EXTENDS Naturals, Sequences, FiniteSets

CONSTANTS
    Thread,      \* the threads of the pool
    Conn,        \* connections that clients may open
    MaxChunks    \* bound: pieces of a request each client sends

ASSUME MaxChunksAssumption == MaxChunks \in Nat

\* request_parser::result_type: what parsing a chunk, after those before it,
\* comes to.
ParseResult == {"good", "bad", "indeterminate"}

VARIABLES
    client,     \* the client's end of the connection
    chunks,     \* the chunks the client has sent, each by its ParseResult
    taken,      \* how many of them reads have taken off the socket
    received,   \* the replies the client has been sent
    accept,     \* the async_accept, or its outcome
    incoming,   \* the socket that comes with that outcome, if any
    accepted,   \* the connections that have been accepted
    op,         \* the operation of a connection, or its outcome
    reply,      \* connection::reply_
    strand,     \* strand_impl::locked_, and whether its invoker is queued
    waiting,    \* strand_impl::waiting_queue_
    signal,     \* the async_wait for a signal, or its outcome
    stopped,    \* scheduler::stopped_
    at,         \* what a thread is doing
    joined      \* server::run has returned

clientVars == <<client, chunks>>
acceptVars == <<accept, incoming, accepted>>
strandVars == <<strand, waiting>>
stopVars   == <<signal, stopped, joined>>
vars == <<clientVars, taken, received, acceptVars, op, reply, strandVars,
          stopVars, at>>

-----------------------------------------------------------------------------
(* What a thread is doing.  Between two handlers it is in do_run_one.  The *)
(* handler of the accept comes with the socket, if there is one, and that  *)
(* of a connection with the operation it ends and that operation's state.  *)

Operation == [kind : {"none", "read", "write"},
              state : {"idle", "pending", "ok", "error"}]

Idle == [kind |-> "none", state |-> "idle"]

Pending(kind) == [kind |-> kind, state |-> "pending"]

AcceptStep == {"accept", "accept_again", "accept_return"}

\* Steps of a completion handler of a connection, which is in its strand.
ConnStep == {"complete", "parsed", "return"}

Doing ==
    [step : {"run", "exited", "signal"}]
    \cup [step : AcceptStep, conns : SUBSET Conn]
    \cup [step : ConnStep \cup {"enter"}, conn : Conn, ended : Operation,
          result : ParseResult \cup {"none"}]

Running  == [step |-> "run"]
Returned == [step |-> "exited"]
Signalled == [step |-> "signal"]
OnAccept(s, cs) == [step |-> s, conns |-> cs]
OnConn(s, c, ended, result) ==
    [step |-> s, conn |-> c, ended |-> ended, result |-> result]

\* Threads that are in a completion handler of c.
Inside(c) == {t \in Thread : at[t].step \in ConnStep /\ at[t].conn = c}

\* Somebody holds a shared_ptr to the connection.  Without one it is
\* destroyed, and its socket with it.
Alive(c) ==
    \/ op[c] # Idle
    \/ waiting[c] # <<>>
    \/ \E t \in Thread :
          \/ at[t].step \in ConnStep \cup {"enter"} /\ at[t].conn = c
          \/ at[t].step = "accept_again" /\ c \in at[t].conns

-----------------------------------------------------------------------------
(* The clients, and whoever sends the signal.                              *)

Connect(c) ==
    /\ client[c] = "away"
    /\ client' = [client EXCEPT ![c] = "open"]
    /\ UNCHANGED <<chunks, taken, received, acceptVars, op, reply, strandVars,
                   stopVars, at>>

SendChunk(c, result) ==
    /\ client[c] = "open"
    /\ Len(chunks[c]) < MaxChunks
    /\ chunks' = [chunks EXCEPT ![c] = Append(@, result)]
    /\ UNCHANGED <<client, taken, received, acceptVars, op, reply, strandVars,
                   stopVars, at>>

Quit(c) ==
    /\ client[c] = "open"
    /\ client' = [client EXCEPT ![c] = "gone"]
    /\ UNCHANGED <<chunks, taken, received, acceptVars, op, reply, strandVars,
                   stopVars, at>>

Signal ==
    /\ signal = "pending"
    /\ signal' = "ok"
    /\ UNCHANGED <<clientVars, taken, received, acceptVars, op, reply,
                   strandVars, stopped, joined, at>>

-----------------------------------------------------------------------------
(* Outcomes of the operations in flight: the handler is queued.            *)

AcceptCompletes(c) ==
    /\ accept = "pending"
    /\ client[c] # "away" /\ c \notin accepted
    /\ accept' = "ok"
    /\ incoming' = {c}
    /\ accepted' = accepted \cup {c}
    /\ UNCHANGED <<clientVars, taken, received, op, reply, strandVars, stopVars, at>>

AcceptFails ==
    /\ accept = "pending"
    /\ accept' = "error"
    /\ UNCHANGED <<clientVars, taken, received, incoming, accepted, op, reply,
                   strandVars, stopVars, at>>

SetState(c, state) == op' = [op EXCEPT ![c].state = state]

ReadCompletes(c) ==
    /\ op[c] = Pending("read")
    /\ taken[c] < Len(chunks[c])
    /\ taken' = [taken EXCEPT ![c] = @ + 1]
    /\ SetState(c, "ok")
    /\ UNCHANGED <<clientVars, received, acceptVars, reply, strandVars, stopVars, at>>

WriteCompletes(c) ==
    /\ op[c] = Pending("write")
    /\ client[c] # "gone"
    /\ received' = [received EXCEPT ![c] = Append(@, reply[c])]
    /\ SetState(c, "ok")
    /\ UNCHANGED <<clientVars, taken, acceptVars, reply, strandVars, stopVars, at>>

Fails(c) ==
    /\ client[c] = "gone"
    /\ \/ op[c] = Pending("read") /\ taken[c] = Len(chunks[c])
       \/ op[c] = Pending("write")
    /\ SetState(c, "error")
    /\ UNCHANGED <<clientVars, taken, received, acceptVars, reply, strandVars,
                   stopVars, at>>

-----------------------------------------------------------------------------
(* scheduler::do_run_one: a thread takes a handler whose time has come, or *)
(* leaves once the scheduler is stopped.                                   *)

Goes(t, what) == at' = [at EXCEPT ![t] = what]

TakeAccept(t) ==
    /\ at[t] = Running /\ ~stopped
    /\ accept \in {"ok", "error"}
    /\ accept' = "none"
    /\ incoming' = {}
    /\ Goes(t, OnAccept("accept", incoming))
    /\ UNCHANGED <<clientVars, taken, received, accepted, op, reply, strandVars,
                   stopVars>>

TakeSignal(t) ==
    /\ at[t] = Running /\ ~stopped
    /\ signal = "ok"
    /\ signal' = "none"
    /\ Goes(t, Signalled)
    /\ UNCHANGED <<clientVars, taken, received, acceptVars, op, reply, strandVars,
                   stopped, joined>>

\* Mutant: the operation is not taken off the queue.
TakeOpKeeps(t, c) ==
    /\ at[t] = Running /\ ~stopped
    /\ op[c].state \in {"ok", "error"}
    /\ Goes(t, OnConn("enter", c, op[c], "none"))
    /\ UNCHANGED <<clientVars, taken, received, acceptVars, op, reply, strandVars,
                   stopVars>>

TakeOp(t, c) ==
    /\ at[t] = Running /\ ~stopped
    /\ op[c].state \in {"ok", "error"}
    /\ op' = [op EXCEPT ![c] = Idle]
    /\ Goes(t, OnConn("enter", c, op[c], "none"))
    /\ UNCHANGED <<clientVars, taken, received, acceptVars, reply, strandVars,
                   stopVars>>

\* The strand's invoker runs the handler that was waiting for the strand.
TakeInvoker(t, c) ==
    /\ at[t] = Running /\ ~stopped
    /\ strand[c] = "posted"
    /\ strand' = [strand EXCEPT ![c] = "running"]
    /\ waiting' = [waiting EXCEPT ![c] = Tail(@)]
    /\ Goes(t, OnConn("complete", c, Head(waiting[c]), "none"))
    /\ UNCHANGED <<clientVars, taken, received, acceptVars, op, reply, stopVars>>

\* io_context::run returns.
Exit(t) ==
    /\ at[t] = Running /\ stopped
    /\ Goes(t, Returned)
    /\ UNCHANGED <<clientVars, taken, received, acceptVars, op, reply, strandVars,
                   stopVars>>

-----------------------------------------------------------------------------
(* The strand of a connection.                                             *)

\* Mutant: the socket is accepted without a strand of its own.
EnterUnlocked(t, c) ==
    /\ at[t].step = "enter" /\ at[t].conn = c
    /\ strand' = [strand EXCEPT ![c] = "running"]
    /\ Goes(t, OnConn("complete", c, at[t].ended, "none"))
    /\ UNCHANGED <<clientVars, taken, received, acceptVars, op, reply, waiting,
                   stopVars>>

\* The handler runs at once if the strand is free, and otherwise waits for
\* the one that is in it.
Enter(t, c) ==
    /\ at[t].step = "enter" /\ at[t].conn = c
    /\ IF strand[c] = "free"
       THEN /\ strand' = [strand EXCEPT ![c] = "running"]
            /\ Goes(t, OnConn("complete", c, at[t].ended, "none"))
            /\ UNCHANGED waiting
       ELSE /\ waiting' = [waiting EXCEPT ![c] = Append(@, at[t].ended)]
            /\ Goes(t, Running)
            /\ UNCHANGED strand
    /\ UNCHANGED <<clientVars, taken, received, acceptVars, op, reply, stopVars>>

\* Mutant: nobody is told that another handler is waiting.
LeaveForgets(t, c) ==
    /\ at[t].step = "return" /\ at[t].conn = c
    /\ strand' = [strand EXCEPT ![c] = "free"]
    /\ Goes(t, Running)
    /\ UNCHANGED <<clientVars, taken, received, acceptVars, op, reply, waiting,
                   stopVars>>

\* The handler returns; if another one is waiting, the invoker is posted.
Leave(t, c) ==
    /\ at[t].step = "return" /\ at[t].conn = c
    /\ strand' = [strand EXCEPT ![c] = IF waiting[c] = <<>> THEN "free" ELSE "posted"]
    /\ Goes(t, Running)
    /\ UNCHANGED <<clientVars, taken, received, acceptVars, op, reply, waiting,
                   stopVars>>

-----------------------------------------------------------------------------
(* connection: the handlers of read and write.                             *)

\* The chunk in connection::buffer_.
Buffer(c) == chunks[c][taken[c]]

\* The handler of a read parses the buffer and makes up the reply.
OnRead(t, c) ==
    /\ at[t] = OnConn("complete", c, [kind |-> "read", state |-> "ok"], "none")
    /\ Goes(t, OnConn("parsed", c, at[t].ended, Buffer(c)))
    /\ reply' = [reply EXCEPT ![c] =
                    CASE Buffer(c) = "good" -> "page"
                      [] Buffer(c) = "bad"  -> "bad_request"
                      [] OTHER -> @]
    /\ UNCHANGED <<clientVars, taken, received, acceptVars, op, strandVars, stopVars>>

\* It ends with do_write or do_read.
OnParsed(t, c) ==
    /\ at[t].step = "parsed" /\ at[t].conn = c
    /\ op' = [op EXCEPT ![c] =
                 Pending(IF at[t].result = "indeterminate" THEN "read" ELSE "write")]
    /\ Goes(t, OnConn("return", c, at[t].ended, at[t].result))
    /\ UNCHANGED <<clientVars, taken, received, acceptVars, reply, strandVars,
                   stopVars>>

\* Mutant: the connection is kept for another request, its parser as it is.
OnWrittenReadsOn(t, c) ==
    /\ at[t] = OnConn("complete", c, [kind |-> "write", state |-> "ok"], "none")
    /\ Goes(t, OnConn("parsed", c, at[t].ended, "indeterminate"))
    /\ UNCHANGED <<clientVars, taken, received, acceptVars, op, reply, strandVars,
                   stopVars>>

\* The handler of a write shuts the socket down and starts nothing.
OnWritten(t, c) ==
    /\ at[t] = OnConn("complete", c, [kind |-> "write", state |-> "ok"], "none")
    /\ Goes(t, OnConn("return", c, at[t].ended, "none"))
    /\ UNCHANGED <<clientVars, taken, received, acceptVars, op, reply, strandVars,
                   stopVars>>

\* A handler that finds an error starts nothing either.
OnError(t, c) ==
    /\ at[t].step = "complete" /\ at[t].conn = c
    /\ at[t].ended.state = "error"
    /\ Goes(t, OnConn("return", c, at[t].ended, "none"))
    /\ UNCHANGED <<clientVars, taken, received, acceptVars, op, reply, strandVars,
                   stopVars>>

-----------------------------------------------------------------------------
(* server: the handlers of the accept and of the signal.  The first looks  *)
(* whether the acceptor is open, which nothing ever closes.                *)

\* The connection is made and started outside its strand.
OnAccepted(t) ==
    /\ at[t].step = "accept"
    /\ op' = [c \in Conn |-> IF c \in at[t].conns THEN Pending("read") ELSE op[c]]
    /\ Goes(t, OnAccept("accept_again", at[t].conns))
    /\ UNCHANGED <<clientVars, taken, received, acceptVars, reply, strandVars,
                   stopVars>>

\* Mutant: an accept that failed is not followed by another one.
AcceptAgainIfStarted(t) ==
    /\ at[t].step = "accept_again"
    /\ accept' = IF at[t].conns # {} THEN "pending" ELSE accept
    /\ Goes(t, OnAccept("accept_return", {}))
    /\ UNCHANGED <<clientVars, taken, received, incoming, accepted, op, reply,
                   strandVars, stopVars>>

AcceptAgain(t) ==
    /\ at[t].step = "accept_again"
    /\ accept' = "pending"
    /\ Goes(t, OnAccept("accept_return", {}))
    /\ UNCHANGED <<clientVars, taken, received, incoming, accepted, op, reply,
                   strandVars, stopVars>>

AcceptReturns(t) ==
    /\ at[t].step = "accept_return"
    /\ Goes(t, Running)
    /\ UNCHANGED <<clientVars, taken, received, acceptVars, op, reply, strandVars,
                   stopVars>>

\* Mutant: the thread that handles the signal leaves, alone.
StopEndsOneThread(t) ==
    /\ at[t].step = "signal"
    /\ Goes(t, Returned)
    /\ UNCHANGED <<clientVars, taken, received, acceptVars, op, reply, strandVars,
                   stopVars>>

\* io_context::stop.
Stop(t) ==
    /\ at[t].step = "signal"
    /\ stopped' = TRUE
    /\ Goes(t, Running)
    /\ UNCHANGED <<clientVars, taken, received, acceptVars, op, reply, strandVars,
                   signal, joined>>

\* server::run returns when it has joined every thread.
Join ==
    /\ ~joined
    /\ \A t \in Thread : at[t] = Returned
    /\ joined' = TRUE
    /\ UNCHANGED <<clientVars, taken, received, acceptVars, op, reply, strandVars,
                   signal, stopped, at>>

-----------------------------------------------------------------------------
\* server::server has started the first accept and the wait for a signal,
\* and server::run the threads.
Init ==
    /\ client = [c \in Conn |-> "away"]
    /\ chunks = [c \in Conn |-> <<>>]
    /\ taken = [c \in Conn |-> 0]
    /\ received = [c \in Conn |-> <<>>]
    /\ accept = "pending"
    /\ incoming = {}
    /\ accepted = {}
    /\ op = [c \in Conn |-> Idle]
    /\ reply = [c \in Conn |-> "none"]
    /\ strand = [c \in Conn |-> "free"]
    /\ waiting = [c \in Conn |-> <<>>]
    /\ signal = "pending"
    /\ stopped = FALSE
    /\ at = [t \in Thread |-> Running]
    /\ joined = FALSE

ClientStep(c) ==
    \/ Connect(c)
    \/ \E result \in ParseResult : SendChunk(c, result)
    \/ Quit(c)

Outcome(c) == ReadCompletes(c) \/ WriteCompletes(c) \/ Fails(c)

\* What thread t does with a handler it has taken.
Step(t) ==
    \/ OnAccepted(t) \/ AcceptAgain(t) \/ AcceptReturns(t)
    \/ Stop(t)
    \/ \E c \in Conn :
          \/ Enter(t, c)
          \/ OnRead(t, c) \/ OnParsed(t, c) \/ OnWritten(t, c) \/ OnError(t, c)
          \/ Leave(t, c)

Next ==
    \/ \E c \in Conn : ClientStep(c) \/ AcceptCompletes(c) \/ Outcome(c)
    \/ Signal
    \/ AcceptFails
    \/ \E t \in Thread :
          \/ TakeAccept(t) \/ TakeSignal(t) \/ Exit(t) \/ Step(t)
          \/ \E c \in Conn : TakeOp(t, c) \/ TakeInvoker(t, c)
    \/ Join

\* The queue of the io_context is first in, first out: however busy the
\* threads are, each time one of them takes a handler the others move up, so
\* that none is passed over forever.  The threads are scheduled; a read or a
\* write ends as long as the client sends, receives or goes away.
Fairness ==
    /\ SF_vars(\E t \in Thread : TakeAccept(t))
    /\ SF_vars(\E t \in Thread : TakeSignal(t))
    /\ \A c \in Conn :
          /\ SF_vars(\E t \in Thread : TakeOp(t, c))
          /\ SF_vars(\E t \in Thread : TakeInvoker(t, c))
          /\ WF_vars(Outcome(c))
    /\ \A t \in Thread : WF_vars(Step(t)) /\ WF_vars(Exit(t))
    /\ WF_vars(Join)

Spec == Init /\ [][Next]_vars

FairSpec == Spec /\ Fairness

-----------------------------------------------------------------------------
(* Properties.                                                             *)

\* Every variable holds what the source's types let it hold; what waits for a
\* strand is at most one handler, since a connection has one operation.
TypeOK ==
    /\ client \in [Conn -> {"away", "open", "gone"}]
    /\ chunks \in [Conn -> Seq(ParseResult)]
    /\ taken \in [Conn -> Nat] /\ \A c \in Conn : taken[c] <= Len(chunks[c])
    /\ received \in [Conn -> Seq({"page", "bad_request"})]
    /\ accept \in {"none", "pending", "ok", "error"}
    /\ incoming \subseteq Conn /\ accepted \subseteq Conn
    /\ op \in [Conn -> Operation]
    /\ reply \in [Conn -> {"none", "page", "bad_request"}]
    /\ strand \in [Conn -> {"free", "running", "posted"}]
    /\ waiting \in [Conn -> Seq(Operation)] /\ \A c \in Conn : Len(waiting[c]) <= 1
    /\ signal \in {"none", "pending", "ok"}
    /\ stopped \in BOOLEAN /\ joined \in BOOLEAN
    /\ at \in [Thread -> Doing]

\* "The newly accepted socket is put into its own strand to ensure that all
\* completion handlers associated with the connection do not run
\* concurrently" (server::do_accept), although an operation may complete
\* before the handler that started it has returned.
HandlersDoNotOverlap == \A c \in Conn : Cardinality(Inside(c)) <= 1

\* Threads that have a handler of c which has not started what comes next.
Busy(c) ==
    {t \in Thread : at[t].step \in {"enter", "complete", "parsed"} /\ at[t].conn = c}

\* Whoever may touch buffer_, reply_ and the parser of a connection is alone:
\* an operation in flight, a handler that waits for the strand, or one that
\* is on its way through it until it has started the next operation.
OneAtATime ==
    \A c \in Conn :
        Cardinality(Busy(c)) + Len(waiting[c]) + (IF op[c] # Idle THEN 1 ELSE 0) <= 1

\* Threads that have the handler of an accept and have not started the next.
Acceptors == {t \in Thread : at[t].step \in {"accept", "accept_again"}}

\* An accept is outstanding, or its handler is under way to start the next
\* one, whatever the outcome was; and there are never two, although the
\* handler of the next may run while that of the last has not returned.
AcceptChainHolds ==
    Cardinality(Acceptors) + (IF accept # "none" THEN 1 ELSE 0) = 1

\* A client gets at most one reply, and the one its request deserves: the
\* first chunk that completes or spoils the request decides, although the
\* chunks are parsed by different threads.
ReplyFitsRequest ==
    \A c \in Conn : received[c] # <<>> =>
        /\ Len(received[c]) = 1
        /\ \E i \in 1..Len(chunks[c]) :
              /\ \A j \in 1..(i - 1) : chunks[c][j] = "indeterminate"
              /\ received[c][1] = (CASE chunks[c][i] = "good" -> "page"
                                     [] chunks[c][i] = "bad"  -> "bad_request"
                                     [] OTHER -> "none")

\* The signal ends the server: every thread, one that is in the middle of a
\* handler included, finds the scheduler stopped, and server::run returns.
SignalEndsServer == signal = "ok" ~> joined

\* A connection whose client is gone is destroyed, by whichever thread drops
\* the last shared_ptr, unless the server is stopped before.
GoneClientsAreDropped ==
    \A c \in Conn : (client[c] = "gone" /\ Alive(c)) ~> (~Alive(c) \/ stopped)

\* "Check whether the server was stopped by a signal before this completion
\* handler had a chance to run" (server::do_accept): once the server is
\* stopped no connection is started.
NoneStartedWhenStopped ==
    [][stopped => \A t \in Thread : ~OnAccepted(t) \/ at[t].conns = {}]_vars
=============================================================================
