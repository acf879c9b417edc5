------------------------------ MODULE ChatClient ------------------------------
(***************************************************************************)
(* The chat client of examples/c++11/chat/chat_client.cpp.  The main       *)
(* thread reads lines and posts them, and in the end a close, to an        *)
(* io_context that a second thread runs; everything else is done by that   *)
(* thread: it connects, trying one endpoint after the other, reads what    *)
(* the server sends and writes the lines.  Nothing makes a line wait until *)
(* the connection is there, and nothing makes the close wait until the     *)
(* lines are written.                                                      *)
(***************************************************************************)
EXTENDS Integers, Sequences, FiniteSets

CONSTANTS
    MaxLines,     \* bound: lines that are typed
    MaxFrames,    \* bound: frames that the server sends
    Endpoints     \* how many endpoints the resolver found

ASSUME BoundsAssumption == MaxLines \in Nat /\ MaxFrames \in Nat
ASSUME EndpointsAssumption == Endpoints \in Nat \ {0}

VARIABLES
    typed,      \* lines read from standard input so far
    main,       \* where the main thread is
    posted,     \* what it has posted: the numbers of lines, and 0 for close
    running,    \* io_context::run has not returned yet
    tries,      \* endpoints not tried yet
    socket,     \* socket_
    connect,    \* the async_connect, or its outcome
    reader,     \* the outstanding read: of a header or of a body
    readState,  \* its outcome
    writer,     \* the outstanding write, or its outcome
    queue,      \* write_msgs_
    wire,       \* lines written to the socket
    inbound,    \* what the server has sent and nobody has read yet
    frames,     \* how many frames that was so far
    link        \* the server's end of the connection

mainVars   == <<typed, main>>
socketVars == <<tries, socket, connect>>
readVars   == <<reader, readState>>
writeVars  == <<writer, queue, wire>>
serverVars == <<inbound, frames, link>>
vars == <<mainVars, posted, running, socketVars, readVars, writeVars, serverVars>>

-----------------------------------------------------------------------------
(* The main thread.                                                        *)

\* std::cin.getline, then chat_client::write.
TypeLine ==
    /\ main = "input"
    /\ typed < MaxLines
    /\ typed' = typed + 1
    /\ posted' = Append(posted, typed + 1)
    /\ UNCHANGED <<main, running, socketVars, readVars, writeVars, serverVars>>

\* The input ends, or a line is longer than max_body_length: getline fails
\* and chat_client::close is called.
EndInput ==
    /\ main = "input"
    /\ main' = "joining"
    /\ posted' = Append(posted, 0)
    /\ UNCHANGED <<typed, running, socketVars, readVars, writeVars, serverVars>>

Join ==
    /\ main = "joining"
    /\ ~running
    /\ main' = "done"
    /\ UNCHANGED <<typed, posted, running, socketVars, readVars, writeVars,
                   serverVars>>

-----------------------------------------------------------------------------
(* The server and the network.                                             *)

\* A frame is a header and a body; decode_header rejects a junk one.
ServerSends(frame) ==
    /\ link = "up"
    /\ socket = "connected"
    /\ frames < MaxFrames
    /\ frames' = frames + 1
    /\ inbound' = inbound \o frame
    /\ UNCHANGED <<mainVars, posted, running, socketVars, readVars, writeVars, link>>

\* The server goes, perhaps with a frame half sent.
ServerGoes(half) ==
    /\ link = "up"
    /\ half # <<>> => socket = "connected"
    /\ link' = "down"
    /\ inbound' = inbound \o half
    /\ UNCHANGED <<mainVars, posted, running, socketVars, readVars, writeVars, frames>>

Connected ==
    /\ connect = "pending"
    /\ link = "up"
    /\ connect' = "ok"
    /\ socket' = "connected"
    /\ UNCHANGED <<mainVars, posted, running, tries, readVars, writeVars, serverVars>>

\* A write that waits behind the attempt fails with it.
Refused ==
    /\ connect = "pending"
    /\ connect' = "refused"
    /\ socket' = "refused"
    /\ writer' = IF writer = "pending" THEN "failed" ELSE writer
    /\ UNCHANGED <<mainVars, posted, running, tries, readVars, queue, wire,
                   serverVars>>

ReadCompletes ==
    /\ readState = "pending"
    /\ socket = "connected"
    /\ inbound # <<>>
    /\ readState' = Head(inbound)
    /\ inbound' = Tail(inbound)
    /\ UNCHANGED <<mainVars, posted, running, socketVars, reader, writeVars,
                   frames, link>>

ReadFails ==
    /\ readState = "pending"
    /\ inbound = <<>> /\ link = "down"
    /\ readState' = "failed"
    /\ UNCHANGED <<mainVars, posted, running, socketVars, reader, writeVars,
                   serverVars>>

WriteCompletes ==
    /\ writer = "pending"
    /\ socket = "connected" /\ link = "up"
    /\ writer' = "ok"
    /\ wire' = Append(wire, Head(queue))
    /\ UNCHANGED <<mainVars, posted, running, socketVars, readVars, queue, serverVars>>

WriteFails ==
    /\ writer = "pending"
    /\ socket = "connected" /\ link = "down"
    /\ writer' = "failed"
    /\ UNCHANGED <<mainVars, posted, running, socketVars, readVars, queue, wire,
                   serverVars>>

-----------------------------------------------------------------------------
(* The socket.                                                             *)

\* An operation started on a closed socket, or on one whose attempt to
\* connect has failed, fails at once; on one that is connecting it waits.
Started == IF socket \in {"closed", "refused"} THEN "failed" ELSE "pending"

Abort(state, outcome) == IF state = "pending" THEN outcome ELSE state

\* socket_.close(): what is in flight fails, what has an outcome keeps it.
\* The handlers that close leave reader and writer as reading and writing.
Close(reading, writing) ==
    /\ socket' = "closed"
    /\ connect' = Abort(connect, "aborted")
    /\ readState' = Abort(reading, "failed")
    /\ writer' = Abort(writing, "failed")

-----------------------------------------------------------------------------
(* What the io_context's thread runs.                                      *)

\* The lambda that write posts.
PostedLine ==
    /\ running
    /\ posted # <<>> /\ Head(posted) # 0
    /\ posted' = Tail(posted)
    /\ queue' = Append(queue, Head(posted))
    /\ writer' = IF queue = <<>> THEN Started ELSE writer
    /\ UNCHANGED <<mainVars, running, socketVars, readVars, wire, serverVars>>

\* Mutant: the close is skipped while lines are waiting to be written.
PostedCloseOnlyIfIdle ==
    /\ running
    /\ posted # <<>> /\ Head(posted) = 0
    /\ posted' = Tail(posted)
    /\ IF queue = <<>>
       THEN Close(readState, writer)
       ELSE UNCHANGED <<socket, connect, readState, writer>>
    /\ UNCHANGED <<mainVars, running, tries, reader, queue, wire, serverVars>>

\* The lambda that close posts.
PostedClose ==
    /\ running
    /\ posted # <<>> /\ Head(posted) = 0
    /\ posted' = Tail(posted)
    /\ Close(readState, writer)
    /\ UNCHANGED <<mainVars, running, tries, reader, queue, wire, serverVars>>

\* async_connect goes on to the next endpoint when an attempt fails, unless
\* the socket has been closed; its handler starts to read if there is a
\* connection, and otherwise does nothing.
OnConnectNext ==
    /\ connect = "refused" /\ socket = "refused" /\ tries > 0
    /\ tries' = tries - 1
    /\ socket' = "connecting"
    /\ connect' = "pending"
    /\ UNCHANGED <<mainVars, posted, running, readVars, writeVars, serverVars>>

OnConnect ==
    /\ connect \in {"ok", "refused", "aborted"}
    /\ ~(connect = "refused" /\ socket = "refused" /\ tries > 0)
    /\ connect' = "none"
    /\ IF connect = "ok" /\ socket = "connected"
       THEN reader' = "header" /\ readState' = "pending"
       ELSE UNCHANGED readVars
    /\ UNCHANGED <<mainVars, posted, running, tries, socket, writeVars, serverVars>>

\* A header that decode_header accepts is followed by its body, and a body,
\* which is displayed, by the next header.
OnRead ==
    /\ readState \in {"header", "body"}
    /\ reader' = IF reader = "header" THEN "body" ELSE "header"
    /\ readState' = Started
    /\ UNCHANGED <<mainVars, posted, running, socketVars, writeVars, serverVars>>

OnReadError ==
    /\ readState \in {"junk", "failed"}
    /\ reader' = "none"
    /\ Close("none", writer)
    /\ UNCHANGED <<mainVars, posted, running, tries, queue, wire, serverVars>>

\* Mutant: the handler does not start the next write.
OnWrittenIdles ==
    /\ writer = "ok"
    /\ queue' = Tail(queue)
    /\ writer' = "none"
    /\ UNCHANGED <<mainVars, posted, running, socketVars, readVars, wire, serverVars>>

\* Mutant: the next write starts before the line that is done is taken out.
OnWrittenRepeats ==
    /\ writer = "ok"
    /\ writer' = Started
    /\ UNCHANGED <<mainVars, posted, running, socketVars, readVars, queue, wire,
                   serverVars>>

OnWritten ==
    /\ writer = "ok"
    /\ queue' = Tail(queue)
    /\ writer' = IF Tail(queue) # <<>> THEN Started ELSE "none"
    /\ UNCHANGED <<mainVars, posted, running, socketVars, readVars, wire, serverVars>>

\* Mutant: the handler of a failed write leaves the socket open.
OnWriteErrorKeeps ==
    /\ writer = "failed"
    /\ writer' = "none"
    /\ UNCHANGED <<mainVars, posted, running, socketVars, readVars, queue, wire,
                   serverVars>>

\* The line stays in write_msgs_, so that no later one starts a write.
OnWriteError ==
    /\ writer = "failed"
    /\ Close(readState, "none")
    /\ UNCHANGED <<mainVars, posted, running, tries, reader, queue, wire, serverVars>>

\* io_context::run returns when nothing is outstanding.  What is posted
\* after that is never run.
RunReturns ==
    /\ running
    /\ posted = <<>>
    /\ connect = "none" /\ reader = "none" /\ writer = "none"
    /\ running' = FALSE
    /\ UNCHANGED <<mainVars, posted, socketVars, readVars, writeVars, serverVars>>

-----------------------------------------------------------------------------
\* The constructor has started the first attempt to connect.
Init ==
    /\ typed = 0
    /\ main = "input"
    /\ posted = <<>>
    /\ running = TRUE
    /\ tries = Endpoints - 1
    /\ socket = "connecting"
    /\ connect = "pending"
    /\ reader = "none" /\ readState = "none"
    /\ writer = "none"
    /\ queue = <<>>
    /\ wire = <<>>
    /\ inbound = <<>>
    /\ frames = 0
    /\ link \in {"up", "down"}

Server ==
    \/ \E frame \in {<<"header", "body">>, <<"junk">>} : ServerSends(frame)
    \/ \E half \in {<<>>, <<"header">>} : ServerGoes(half)

Network ==
    \/ Connected \/ Refused
    \/ ReadCompletes \/ ReadFails
    \/ WriteCompletes \/ WriteFails

IoThread ==
    \/ PostedLine \/ PostedClose
    \/ OnConnectNext \/ OnConnect
    \/ OnRead \/ OnReadError
    \/ OnWritten \/ OnWriteError
    \/ RunReturns

Next == TypeLine \/ EndInput \/ Join \/ Server \/ Network \/ IoThread

\* The io_context runs what is ready in the order in which it became ready,
\* so that no handler waits forever; an attempt to connect succeeds or fails
\* and a write ends.  Nobody has to type, to end the input or to send.
Fairness ==
    /\ WF_vars(Join)
    /\ WF_vars(PostedLine \/ PostedClose)
    /\ WF_vars(OnConnectNext \/ OnConnect)
    /\ WF_vars(OnRead \/ OnReadError)
    /\ WF_vars(OnWritten \/ OnWriteError)
    /\ WF_vars(RunReturns)
    /\ WF_vars(Connected \/ Refused)
    /\ WF_vars(WriteCompletes \/ WriteFails)

Spec == Init /\ [][Next]_vars /\ Fairness

-----------------------------------------------------------------------------
(* Properties.                                                             *)

\* Every variable holds what the source's types let it hold: no endpoint is
\* tried that the resolver did not find, and a read has an outcome only while
\* there is a read.
TypeOK ==
    /\ typed \in 0..MaxLines
    /\ main \in {"input", "joining", "done"}
    /\ posted \in Seq(0..MaxLines)
    /\ running \in BOOLEAN
    /\ tries \in 0..Endpoints - 1
    /\ socket \in {"connecting", "connected", "refused", "closed"}
    /\ connect \in {"none", "pending", "ok", "refused", "aborted"}
    /\ reader \in {"none", "header", "body"}
    /\ readState \in {"none", "pending", "header", "junk", "body", "failed"}
    /\ reader = "none" <=> readState = "none"
    /\ writer \in {"none", "pending", "ok", "failed"}
    /\ queue \in Seq(1..MaxLines)
    /\ wire \in Seq(1..MaxLines)
    /\ inbound \in Seq({"header", "junk", "body"})
    /\ frames \in 0..MaxFrames
    /\ link \in {"up", "down"}

\* The lambda of write takes a non-empty write_msgs_ for a write in flight.
\* That is right until the socket is closed: a line is never queued behind a
\* write that nobody starts while the connection could still carry it.
WriteInProgress ==
    /\ writer # "none" => queue # <<>>
    /\ queue # <<>> /\ writer = "none" => socket = "closed"

\* The lines that are in write_msgs_ and not on the wire.
Waiting == IF writer = "ok" THEN Tail(queue) ELSE queue

\* Whatever happens to the connection, the lines go out in the order in
\* which they were typed, none twice and none left out before one that is
\* sent: what is sent, what is queued and what is posted is what was typed,
\* and a close that is posted comes after all of it.
LinesInOrder ==
    \E closing \in {<<>>, <<0>>} :
        wire \o Waiting \o posted = [i \in 1..typed |-> i] \o closing

\* A line is sent, unless the socket is closed or the connection cannot be
\* made; a socket that is neither does not sit on it.
LinesAreSent ==
    \A n \in 1..MaxLines :
        typed >= n ~> (Len(wire) >= n \/ socket = "closed" \/ ~running)

\* The end of the input ends the program: the close that is posted brings
\* every operation to its end, also one that other handlers start later, so
\* that run() returns and the thread can be joined.
InputEndEndsClient == main = "joining" ~> main = "done"
=============================================================================
