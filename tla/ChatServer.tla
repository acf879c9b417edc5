------------------------------ MODULE ChatServer ------------------------------
(***************************************************************************)
(* The chat server of examples/c++11/chat/chat_server.cpp: one chat_server *)
(* with its chat_room and a chat_session per client, all of them driven by *)
(* the completion handlers of one io_context that a single thread runs.    *)
(*                                                                         *)
(* A handler runs to its end before the next one starts, so a handler is   *)
(* one action.  What happens between handlers is up to the clients and to  *)
(* the sockets: a client connects, sends, stops sending or disappears, and *)
(* a write in flight completes or fails some time before the handler that  *)
(* learns of it runs.  The completion of a read is not a step of its own:  *)
(* what it delivers is still the head of the unread input when the handler *)
(* runs, since a session has one read in flight and nobody else consumes   *)
(* its input.                                                              *)
(***************************************************************************)
EXTENDS Naturals, Sequences, FiniteSets

CONSTANTS
    Client,      \* connections that clients may open
    MaxSends,    \* bound: frames a client sends
    MaxRecent    \* chat_room::max_recent_msgs

ASSUME MaxSendsAssumption  == MaxSends \in Nat
ASSUME MaxRecentAssumption == MaxRecent \in Nat \ {0}

VARIABLES
    peer,          \* the client's end of the connection
    sent,          \* frames the client has sent
    inbox,         \* what has arrived on socket_ and is not read yet
    started,       \* clients whose chat_session has been constructed
    reader,        \* the read the session has in flight
    header,        \* the frame whose header chat_session::read_msg_ holds
    writer,        \* the write the session has in flight, or its result
    queue,         \* chat_session::write_msgs_
    wire,          \* messages written to socket_, in order
    participants,  \* chat_room::participants_
    recent,        \* chat_room::recent_msgs_
    log            \* history: every message given to chat_room::deliver

clientVars  == <<peer, sent>>
sessionVars == <<reader, header, writer, queue>>
roomVars    == <<participants, recent, log>>
vars == <<clientVars, inbox, started, sessionVars, wire, roomVars>>

-----------------------------------------------------------------------------
(* Messages.  The body is abstracted to who sent it and which one it is;   *)
(* a frame is a header and a body, which the session reads one by one into *)
(* the same read_msg_.  A message with the number 0 is one whose header    *)
(* and body are of different frames.                                       *)

Message == [from : Client, num : 0..MaxSends]

\* "junk" is a header that decode_header rejects.
Unit == [part : {"header", "junk", "body"}, msg : Message]

PartOf(p, m) == [part |-> p, msg |-> m]

NextMessage(c) == [from |-> c, num |-> sent[c] + 1]

-----------------------------------------------------------------------------
(* The clients.  A client that has "shut" will send nothing more but still *)
(* receives; on a "reset" connection writes fail, and reads fail once what *)
(* had arrived before is consumed.                                         *)

Connect(c) ==
    /\ peer[c] = "away"
    /\ peer' = [peer EXCEPT ![c] = "open"]
    /\ UNCHANGED <<sent, inbox, started, sessionVars, wire, roomVars>>

\* The client sends the units with the parts ps of its next message.
SendParts(c, ps) ==
    /\ peer[c] = "open"
    /\ sent[c] < MaxSends
    /\ sent' = [sent EXCEPT ![c] = @ + 1]
    /\ inbox' = [inbox EXCEPT ![c] =
                    @ \o [i \in 1..Len(ps) |-> PartOf(ps[i], NextMessage(c))]]
    /\ UNCHANGED <<started, sessionVars, wire, roomVars>>

Send(c) == SendParts(c, <<"header", "body">>) /\ UNCHANGED peer

SendJunk(c) == SendParts(c, <<"junk">>) /\ UNCHANGED peer

\* The client disappears with a frame half sent.
SendHalfAndReset(c) ==
    SendParts(c, <<"header">>) /\ peer' = [peer EXCEPT ![c] = "reset"]

Shut(c) ==
    /\ peer[c] = "open"
    /\ peer' = [peer EXCEPT ![c] = "shut"]
    /\ UNCHANGED <<sent, inbox, started, sessionVars, wire, roomVars>>

Reset(c) ==
    /\ peer[c] \in {"open", "shut"}
    /\ peer' = [peer EXCEPT ![c] = "reset"]
    /\ UNCHANGED <<sent, inbox, started, sessionVars, wire, roomVars>>

-----------------------------------------------------------------------------
(* The sockets: the write that a session has in flight ends.               *)

WriteDone(c) ==
    /\ writer[c] = "writing"
    /\ peer[c] # "reset"
    /\ writer' = [writer EXCEPT ![c] = "done"]
    /\ wire' = [wire EXCEPT ![c] = Append(@, Head(queue[c]))]
    /\ UNCHANGED <<clientVars, inbox, started, reader, header, queue, roomVars>>

WriteFailed(c) ==
    /\ writer[c] = "writing"
    /\ peer[c] = "reset"
    /\ writer' = [writer EXCEPT ![c] = "failed"]
    /\ UNCHANGED <<clientVars, inbox, started, reader, header, queue, wire,
                   roomVars>>

-----------------------------------------------------------------------------
(* chat_room and chat_session::deliver.                                    *)

\* recent_msgs_ after pop_front has brought it back to max_recent_msgs.
Trim(ms) ==
    IF Len(ms) > MaxRecent
    THEN SubSeq(ms, Len(ms) - MaxRecent + 1, Len(ms))
    ELSE ms

\* Mutant: deliver does not look whether a write is in flight.
WriterAlwaysStarted(c, ms) == IF ms # <<>> THEN "writing" ELSE writer[c]

\* do_write is called by the deliver that finds write_msgs_ empty: after
\* it, a write is in flight.
WriterAfter(c, ms) ==
    IF queue[c] = <<>> /\ ms # <<>> THEN "writing" ELSE writer[c]

\* chat_session::deliver of every message of ms, in order, to those in who.
DeliverAll(who, ms) ==
    /\ queue'  = [c \in Client |-> IF c \in who THEN queue[c] \o ms ELSE queue[c]]
    /\ writer' = [c \in Client |-> IF c \in who THEN WriterAfter(c, ms) ELSE writer[c]]

\* Mutant: join forgets the replay.
RoomJoinNoReplay(c) ==
    /\ participants' = participants \cup {c}
    /\ UNCHANGED <<recent, log, queue, writer>>

RoomJoin(c) ==
    /\ participants' = participants \cup {c}
    /\ DeliverAll({c}, recent)
    /\ UNCHANGED <<recent, log>>

\* Mutant: leave does not find the participant it is to erase.
RoomLeaveErasesNothing(c) == UNCHANGED <<participants, recent, log>>

RoomLeave(c) ==
    /\ participants' = participants \ {c}
    /\ UNCHANGED <<recent, log>>

\* Mutant: deliver goes to every session there has been.
RoomDeliverToStarted(m) ==
    /\ recent' = Trim(Append(recent, m))
    /\ log' = Append(log, m)
    /\ DeliverAll(started, <<m>>)
    /\ UNCHANGED participants

RoomDeliver(m) ==
    /\ recent' = Trim(Append(recent, m))
    /\ log' = Append(log, m)
    /\ DeliverAll(participants, <<m>>)
    /\ UNCHANGED participants

\* chat_session::start: the session joins the room and reads a header.
SessionStart(c) ==
    /\ started' = started \cup {c}
    /\ RoomJoin(c)
    /\ reader' = [reader EXCEPT ![c] = "header"]

-----------------------------------------------------------------------------
(* The handlers.                                                           *)

\* The accept completes: the session is constructed and started, and the
\* next accept is in flight again.  An accept that fails changes nothing
\* but that it is in flight again, a stuttering step.
Accept(c) ==
    /\ peer[c] # "away"
    /\ c \notin started
    /\ SessionStart(c)
    /\ UNCHANGED <<clientVars, inbox, header, wire>>

\* A read that finds its input completes with success.
Reads(c, part) ==
    /\ inbox[c] # <<>>
    /\ Head(inbox[c]).part = part
    /\ inbox' = [inbox EXCEPT ![c] = Tail(@)]

\* A read fails once the client sends no more and its input is consumed.
ReadFails(c) ==
    /\ inbox[c] = <<>>
    /\ peer[c] \in {"shut", "reset"}
    /\ UNCHANGED inbox

\* What arrives as a header overwrites the one in read_msg_.
ReadsHeader(c, part) ==
    /\ Reads(c, part)
    /\ header' = [header EXCEPT ![c] = Head(inbox[c]).msg.num]

ReadHeader(c) ==
    /\ reader[c] = "header"
    /\ ReadsHeader(c, "header")
    /\ reader' = [reader EXCEPT ![c] = "body"]
    /\ UNCHANGED <<clientVars, started, writer, queue, wire, roomVars>>

ReadHeaderError(c) ==
    /\ reader[c] = "header"
    /\ \/ ReadsHeader(c, "junk")
       \/ ReadFails(c) /\ UNCHANGED header
    /\ reader' = [reader EXCEPT ![c] = "none"]
    /\ RoomLeave(c)
    /\ UNCHANGED <<clientVars, started, writer, queue, wire>>

\* Mutant: do_read_header is called before the message is delivered; a next
\* header that has arrived is read at once and overwrites read_msg_.
ReadMsgReadAhead(c) ==
    [Head(inbox[c]).msg EXCEPT !.num =
        IF header[c] = @ /\ Tail(inbox[c]) = <<>> THEN @ ELSE 0]

\* read_msg_ once the body at the head of the input is read behind the header.
ReadMsg(c) ==
    [Head(inbox[c]).msg EXCEPT !.num = IF header[c] = @ THEN @ ELSE 0]

ReadBody(c) ==
    /\ reader[c] = "body"
    /\ Reads(c, "body")
    /\ RoomDeliver(ReadMsg(c))
    /\ reader' = [reader EXCEPT ![c] = "header"]
    /\ UNCHANGED <<clientVars, header, started, wire>>

ReadBodyError(c) ==
    /\ reader[c] = "body"
    /\ ReadFails(c)
    /\ reader' = [reader EXCEPT ![c] = "none"]
    /\ RoomLeave(c)
    /\ UNCHANGED <<clientVars, header, started, writer, queue, wire>>

\* Mutant: the handler of a write does not start the next one.
WrittenAndIdle(c) ==
    /\ writer[c] = "done"
    /\ queue' = [queue EXCEPT ![c] = Tail(@)]
    /\ writer' = [writer EXCEPT ![c] = "none"]
    /\ UNCHANGED <<clientVars, inbox, started, reader, header, wire, roomVars>>

Written(c) ==
    /\ writer[c] = "done"
    /\ queue' = [queue EXCEPT ![c] = Tail(@)]
    /\ writer' = [writer EXCEPT ![c] =
                    IF Tail(queue[c]) # <<>> THEN "writing" ELSE "none"]
    /\ UNCHANGED <<clientVars, inbox, started, reader, header, wire, roomVars>>

\* The handler of a failed write leaves the room; it neither empties
\* write_msgs_ nor closes the socket, and the read goes on.
WriteError(c) ==
    /\ writer[c] = "failed"
    /\ writer' = [writer EXCEPT ![c] = "none"]
    /\ RoomLeave(c)
    /\ UNCHANGED <<clientVars, inbox, started, reader, header, queue, wire>>

-----------------------------------------------------------------------------
Init ==
    /\ peer = [c \in Client |-> "away"]
    /\ sent = [c \in Client |-> 0]
    /\ inbox = [c \in Client |-> <<>>]
    /\ started = {}
    /\ reader = [c \in Client |-> "none"]
    /\ header = [c \in Client |-> 0]
    /\ writer = [c \in Client |-> "none"]
    /\ queue = [c \in Client |-> <<>>]
    /\ wire = [c \in Client |-> <<>>]
    /\ participants = {}
    /\ recent = <<>>
    /\ log = <<>>

ClientStep(c) ==
    \/ Connect(c)
    \/ Send(c)
    \/ SendJunk(c)
    \/ SendHalfAndReset(c)
    \/ Shut(c)
    \/ Reset(c)

ReadHandler(c) ==
    \/ ReadHeader(c)
    \/ ReadHeaderError(c)
    \/ ReadBody(c)
    \/ ReadBodyError(c)

WriteHandler(c) == Written(c) \/ WriteError(c)

SocketStep(c) == WriteDone(c) \/ WriteFailed(c)

Next ==
    \E c \in Client :
        \/ ClientStep(c)
        \/ SocketStep(c)
        \/ Accept(c)
        \/ ReadHandler(c)
        \/ WriteHandler(c)

\* io_context::run runs every ready handler in the order they became ready,
\* so none is passed over forever; a socket's write ends, one way or the
\* other, as long as the client reads or disappears.
Fairness ==
    \A c \in Client :
        /\ WF_vars(Accept(c))
        /\ WF_vars(ReadHandler(c))
        /\ WF_vars(WriteHandler(c))
        /\ WF_vars(SocketStep(c))

Spec == Init /\ [][Next]_vars

FairSpec == Spec /\ Fairness

-----------------------------------------------------------------------------
(* Properties.                                                             *)

\* Every variable holds what the source's types let it hold, and the replay
\* buffer never grows past max_recent_msgs.
TypeOK ==
    /\ peer \in [Client -> {"away", "open", "shut", "reset"}]
    /\ sent \in [Client -> 0..MaxSends]
    /\ inbox \in [Client -> Seq(Unit)]
    /\ started \subseteq Client
    /\ reader \in [Client -> {"none", "header", "body"}]
    /\ header \in [Client -> 0..MaxSends]
    /\ writer \in [Client -> {"none", "writing", "done", "failed"}]
    /\ queue \in [Client -> Seq(Message)]
    /\ wire \in [Client -> Seq(Message)]
    /\ participants \subseteq Client
    /\ recent \in Seq(Message) /\ Len(recent) <= MaxRecent
    /\ log \in Seq(Message)

\* chat_session::deliver starts a write exactly when it finds write_msgs_
\* empty.  That is right only if a non-empty write_msgs_ always means that a
\* write or its handler is still to come, and an empty one that none is; the
\* exception is a session whose write failed, and that one is out of the
\* room, where nothing is delivered to it any more.
WriteInProgress ==
    \A c \in Client :
        /\ writer[c] # "none" => queue[c] # <<>>
        /\ queue[c] # <<>> /\ writer[c] = "none" => c \notin participants

\* Every participant of the room has a read in flight: the handler that sees
\* the client leave will run, so no session stays in participants_ forever
\* and receives messages for a client that is gone.
ParticipantsAreReading ==
    \A c \in participants : c \in started /\ reader[c] # "none"

\* What the client has been sent and what waits for it.
Stream(c) ==
    wire[c] \o (IF writer[c] = "done" THEN Tail(queue[c]) ELSE queue[c])

\* A session's output is a stretch of the room's conversation without a
\* gap, a duplicate or a swap, from the replay that chat_room::join makes
\* through what deliver adds later; the stretch of a participant reaches to
\* the latest message and starts at most max_recent_msgs before it joined.
StreamIsStretchOfLog ==
    \A c \in started :
        \E k \in 0..Len(log) :
            /\ k + Len(Stream(c)) <= Len(log)
            /\ Stream(c) = SubSeq(log, k + 1, k + Len(Stream(c)))
            /\ c \in participants => k + Len(Stream(c)) = Len(log)

\* The messages of one client enter the room in the order it sent them,
\* none skipped and none twice, and each with the header and the body of one
\* frame, although two alternating handlers read these into the one read_msg_
\* and the client's next header may have arrived already.
SendersInOrder ==
    \A i \in 1..Len(log) :
        LET Earlier(n) == \E j \in 1..i - 1 : log[j] = [log[i] EXCEPT !.num = n]
        IN  /\ log[i].num # 0
            /\ \A n \in 1..MaxSends : Earlier(n) <=> n < log[i].num

\* A session that has left the room does not come back, and nothing is added
\* to its write_msgs_ although its last handlers are still running.
LeavingIsFinal ==
    [][ \A c \in started \ participants :
            /\ c \notin participants'
            /\ Len(queue'[c]) <= Len(queue[c]) ]_vars

\* The room or a handler in flight holds the session's shared_ptr.
Alive(c) == c \in participants \/ reader[c] # "none" \/ writer[c] # "none"

\* As long as a session stays in the room its write_msgs_ drains: no message
\* waits forever behind a write that nobody starts.
ParticipantsAreServed ==
    \A c \in Client :
        queue[c] # <<>> ~> (queue[c] = <<>> \/ c \notin participants)

\* When the client has stopped sending or is gone, every shared_ptr to its
\* session is dropped in the end, so that the socket is closed.
GoneClientsAreReleased ==
    \A c \in Client :
        (c \in started /\ peer[c] \in {"shut", "reset"}) ~> ~Alive(c)

-----------------------------------------------------------------------------
(* The server implements the feed.                                         *)

\* A client whose write has failed: its write_msgs_ keeps the message that
\* was being written, and no handler will take it out any more.
CutOff ==
    {c \in Client : writer[c] = "failed" \/ (writer[c] = "none" /\ queue[c] # <<>>)}

FeedOf(c) == IF c \in CutOff THEN wire[c] ELSE Stream(c)

Feed == INSTANCE ChatFeed WITH
    Reader       <- Client,
    Replay       <- MaxRecent,
    conversation <- log,
    members      <- participants,
    cut          <- CutOff,
    seen         <- wire,
    feed         <- [c \in Client |-> FeedOf(c)]

\* Room, sessions and sockets together do what ChatFeed says: no interleaving
\* of joins, leaves, deliveries and failing writes gives a client anything
\* but its feed in order, and a client that keeps its connection sees it all.
ImplementsFeed == Feed!Spec
=============================================================================
