--------------------------- MODULE ChatServerProofs ---------------------------
(***************************************************************************)
(* Proofs about ChatServer, for any set of clients, any bound on what they *)
(* send and any length of the replay buffer.                               *)
(***************************************************************************)
EXTENDS ChatServer, SequenceTheorems, TLAPS

\* A client whose session has not been started has left no trace.
FreshIsEmpty ==
    \A c \in Client \ started :
        /\ c \notin participants
        /\ reader[c] = "none"
        /\ writer[c] = "none"
        /\ queue[c] = <<>>
        /\ wire[c] = <<>>

IInv == TypeOK /\ FreshIsEmpty /\ WriteInProgress /\ ParticipantsAreReading

-----------------------------------------------------------------------------
(* Lemmas about the operators of the model.                                *)

\* What chat_room keeps is a sequence of messages, max_recent_msgs at most.
LEMMA TrimType ==
    ASSUME NEW ms \in Seq(Message)
    PROVE  Trim(ms) \in Seq(Message) /\ Len(Trim(ms)) <= MaxRecent
<1>1. CASE Len(ms) > MaxRecent
  <2>1. /\ Len(ms) - MaxRecent + 1 \in 1..Len(ms) + 1
        /\ Len(ms) \in Len(ms) - MaxRecent + 1 - 1 .. Len(ms)
    BY <1>1, MaxRecentAssumption
  <2>2. SubSeq(ms, Len(ms) - MaxRecent + 1, Len(ms)) \in Seq(Message)
    BY <2>1, SubSeqProperties
  <2>3. Len(SubSeq(ms, Len(ms) - MaxRecent + 1, Len(ms))) = MaxRecent
    BY <2>1, <1>1, SubSeqProperties, MaxRecentAssumption
  <2> QED BY <1>1, <2>2, <2>3, MaxRecentAssumption DEF Trim
<1>2. CASE ~(Len(ms) > MaxRecent)
  BY <1>2, MaxRecentAssumption DEF Trim
<1> QED BY <1>1, <1>2

\* Delivering messages to sessions that are idle or writing keeps the types,
\* only lengthens queues, and leaves a write in flight where one is needed.
LEMMA DeliverAllEffect ==
    ASSUME TypeOK, WriteInProgress,
           NEW who \in SUBSET Client,
           NEW ms \in Seq(Message),
           \A c \in who : queue[c] = <<>> \/ writer[c] # "none",
           DeliverAll(who, ms)
    PROVE  /\ queue' \in [Client -> Seq(Message)]
           /\ writer' \in [Client -> {"none", "writing", "done", "failed"}]
           /\ \A c \in Client :
                 /\ writer'[c] # "none" => queue'[c] # <<>>
                 /\ queue'[c] # <<>> /\ writer'[c] = "none" =>
                       c \notin who /\ queue[c] # <<>> /\ writer[c] = "none"
                 /\ c \notin who => queue'[c] = queue[c] /\ writer'[c] = writer[c]
<1>1. \A c \in Client : queue[c] \o ms \in Seq(Message)
  BY DEF TypeOK
<1>2. queue' \in [Client -> Seq(Message)]
  BY <1>1 DEF TypeOK, DeliverAll
<1>3. writer' \in [Client -> {"none", "writing", "done", "failed"}]
  BY DEF TypeOK, DeliverAll, WriterAfter
<1>4. ASSUME NEW c \in Client
      PROVE  /\ writer'[c] # "none" => queue'[c] # <<>>
             /\ queue'[c] # <<>> /\ writer'[c] = "none" =>
                   c \notin who /\ queue[c] # <<>> /\ writer[c] = "none"
             /\ c \notin who => queue'[c] = queue[c] /\ writer'[c] = writer[c]
  <2>1. CASE c \notin who
    BY <2>1 DEF DeliverAll, WriteInProgress
  <2>2. CASE c \in who
    <3>1. /\ queue'[c] = queue[c] \o ms
          /\ writer'[c] = WriterAfter(c, ms)
      BY <2>2 DEF DeliverAll
    <3>2. queue[c] \in Seq(Message)
      BY DEF TypeOK
    <3>3. CASE queue[c] = <<>>
      <4>1. writer[c] = "none"
        BY <3>3 DEF WriteInProgress
      <4>2. queue'[c] = ms
        BY <3>1, <3>3
      <4>3. writer'[c] = IF ms # <<>> THEN "writing" ELSE "none"
        BY <3>1, <3>3, <4>1 DEF WriterAfter
      <4> QED BY <2>2, <4>2, <4>3
    <3>4. CASE queue[c] # <<>>
      <4>1. writer'[c] = writer[c] /\ writer[c] # "none"
        BY <2>2, <3>1, <3>4 DEF WriterAfter
      <4>2. Len(queue'[c]) = Len(queue[c]) + Len(ms) /\ Len(queue[c]) # 0
        BY <3>1, <3>2, <3>4
      <4>3. queue'[c] # <<>>
        BY <4>2, <3>2
      <4> QED BY <2>2, <4>1, <4>3
    <3> QED BY <3>3, <3>4
  <2> QED BY <2>1, <2>2
<1> QED BY <1>2, <1>3, <1>4

\* What the handlers find in read_msg_ is a message.
LEMMA ReadMsgType ==
    ASSUME TypeOK, NEW c \in Client, NEW part, Reads(c, part)
    PROVE  /\ inbox' \in [Client -> Seq(Unit)]
           /\ Head(inbox[c]).msg \in Message
           /\ ReadMsg(c) \in Message
<1>1. inbox[c] \in Seq(Unit) /\ inbox[c] # <<>>
  BY DEF Reads, TypeOK
<1>2. Tail(inbox[c]) \in Seq(Unit) /\ Head(inbox[c]) \in Unit
  BY <1>1
<1>3. Head(inbox[c]).msg \in Message
  BY <1>2 DEF Unit
<1>4. ReadMsg(c) \in Message
  BY <1>3, MaxSendsAssumption DEF ReadMsg, Message
<1> QED BY <1>2, <1>3, <1>4 DEF Reads, TypeOK

\* The head of a sequence moved to the end of the one before it.
LEMMA MoveHead ==
    ASSUME NEW S, NEW s \in Seq(S), NEW t \in Seq(S), t # <<>>
    PROVE  Append(s, Head(t)) \o Tail(t) = s \o t
<1>1. Tail(t) \in Seq(S) /\ Head(t) \in S /\ Len(Tail(t)) = Len(t) - 1 /\ Len(t) >= 1
  BY HeadTailProperties, LenProperties, EmptySeq
<1>2. Append(s, Head(t)) \in Seq(S) /\ Len(Append(s, Head(t))) = Len(s) + 1
  BY <1>1, AppendProperties
<1> DEFINE l == Append(s, Head(t)) \o Tail(t)
           r == s \o t
<1>3. l \in Seq(S) /\ r \in Seq(S) /\ Len(l) = Len(s) + Len(t) /\ Len(r) = Len(s) + Len(t)
  BY <1>1, <1>2, ConcatProperties
<1>4. ASSUME NEW i \in 1..Len(r) PROVE l[i] = r[i]
  <2>1. CASE i <= Len(s)
    BY <2>1, <1>1, <1>2, <1>3
  <2>2. CASE i = Len(s) + 1
    BY <2>2, <1>1, <1>2, <1>3
  <2>3. CASE i > Len(s) + 1
    BY <2>3, <1>1, <1>2, <1>3
  <2> QED BY <2>1, <2>2, <2>3, <1>3
<1> QED BY <1>3, <1>4, SeqEqual

\* Adding an element to the second of two sequences adds it to both together.
LEMMA ConcatOne ==
    \A s, t \in Seq(Message) : \A e \in Message :
        s \o (t \o <<e>>) = (s \o t) \o <<e>>
<1> SUFFICES ASSUME NEW s \in Seq(Message), NEW t \in Seq(Message),
                    NEW e \in Message
             PROVE  s \o (t \o <<e>>) = (s \o t) \o <<e>>
  OBVIOUS
<1>1. <<e>> \in Seq(Message)
  OBVIOUS
<1> QED BY <1>1, ConcatAssociative

\* Concatenating a single element appends it.
LEMMA ConcatIsAppend ==
    \A s \in Seq(Message) : \A e \in Message : s \o <<e>> = Append(s, e)
OBVIOUS

\* The tail of a longer sequence is the longer tail.
LEMMA TailConcat ==
    ASSUME NEW S, NEW s \in Seq(S), s # <<>>, NEW e \in S
    PROVE  Tail(s \o <<e>>) = Tail(s) \o <<e>>
<1>1. Len(s) >= 1 /\ Tail(s) \in Seq(S) /\ Len(Tail(s)) = Len(s) - 1 
  BY HeadTailProperties, LenProperties, EmptySeq
<1>2. s \o <<e>> \in Seq(S) /\ Len(s \o <<e>>) = Len(s) + 1 /\ s \o <<e>> # <<>>
  BY <1>1
<1>3. Tail(s \o <<e>>) \in Seq(S) /\ Len(Tail(s \o <<e>>)) = Len(s)
  BY <1>2
<1>4. Tail(s) \o <<e>> \in Seq(S) /\ Len(Tail(s) \o <<e>>) = Len(s)
  BY <1>1
<1>5. \A i \in 1..Len(s) : Tail(s \o <<e>>)[i] = (Tail(s) \o <<e>>)[i]
  BY <1>1, <1>2
<1> QED BY <1>3, <1>4, <1>5, SeqEqual

-----------------------------------------------------------------------------
(* The inductive invariant.                                                *)

\* In the initial state nobody has connected.
LEMMA InitIInv == Init => IInv
BY MaxSendsAssumption, MaxRecentAssumption
   DEF Init, IInv, TypeOK, FreshIsEmpty, WriteInProgress, ParticipantsAreReading

\* What a client or its socket does leaves the sessions' bookkeeping alone,
\* but for a write that goes from in flight to ended.
LEMMA EnvironmentKeepsIInv ==
    ASSUME IInv, NEW c \in Client, ClientStep(c) \/ SocketStep(c)
    PROVE  IInv'
<1> USE DEF IInv
<1>1. ASSUME NEW ps \in {<<"header", "body">>, <<"junk">>, <<"header">>},
             SendParts(c, ps)
      PROVE  /\ inbox' \in [Client -> Seq(Unit)]
             /\ sent' \in [Client -> 0..MaxSends]
  <2>1. sent[c] + 1 \in 1..MaxSends
    BY <1>1, MaxSendsAssumption DEF SendParts, TypeOK
  <2>2. NextMessage(c) \in Message
    BY <2>1 DEF NextMessage, Message
  <2>3. \A i \in 1..Len(ps) : PartOf(ps[i], NextMessage(c)) \in Unit
    BY <2>2 DEF PartOf, Unit
  <2>4. [i \in 1..Len(ps) |-> PartOf(ps[i], NextMessage(c))] \in Seq(Unit)
    BY <2>3
  <2> DEFINE units == [i \in 1..Len(ps) |-> PartOf(ps[i], NextMessage(c))]
  <2>5. inbox[c] \o units \in Seq(Unit)
    BY <2>4 DEF TypeOK
  <2>6. inbox' = [inbox EXCEPT ![c] = @ \o units]
    BY <1>1 DEF SendParts
  <2> QED BY <1>1, <2>1, <2>5, <2>6 DEF SendParts, TypeOK
<1>2. CASE ClientStep(c)
  <2>1. UNCHANGED <<started, sessionVars, wire, roomVars>>
    BY <1>2 DEF ClientStep, Connect, Send, SendJunk, SendHalfAndReset, SendParts,
                Shut, Reset
  <2>2. peer' \in [Client -> {"away", "open", "shut", "reset"}]
    BY <1>2 DEF ClientStep, Connect, Send, SendJunk, SendHalfAndReset, SendParts,
                Shut, Reset, TypeOK
  <2>3. inbox' \in [Client -> Seq(Unit)] /\ sent' \in [Client -> 0..MaxSends]
    BY <1>1, <1>2 DEF ClientStep, Connect, Send, SendJunk, SendHalfAndReset,
                      Shut, Reset, TypeOK
  <2> QED
    BY <2>1, <2>2, <2>3 DEF sessionVars, roomVars, TypeOK, FreshIsEmpty,
                            WriteInProgress, ParticipantsAreReading
<1>3. CASE WriteDone(c)
  <2>1. queue[c] # <<>> /\ queue[c] \in Seq(Message)
    BY <1>3 DEF WriteDone, WriteInProgress, TypeOK
  <2>2. Head(queue[c]) \in Message
    BY <2>1
  <2>3. Append(wire[c], Head(queue[c])) \in Seq(Message)
    BY <2>2 DEF TypeOK
  <2>4. wire' \in [Client -> Seq(Message)]
    BY <1>3, <2>3 DEF WriteDone, TypeOK
  <2>5. c \in started
    BY <1>3 DEF WriteDone, FreshIsEmpty
  <2> QED
    BY <1>3, <2>4, <2>5 DEF WriteDone, clientVars, roomVars, TypeOK, FreshIsEmpty,
                            WriteInProgress, ParticipantsAreReading
<1>4. CASE WriteFailed(c)
  <2>1. c \in started
    BY <1>4 DEF WriteFailed, FreshIsEmpty
  <2> QED
    BY <1>4, <2>1 DEF WriteFailed, clientVars, roomVars, TypeOK, FreshIsEmpty,
                      WriteInProgress, ParticipantsAreReading
<1> QED BY <1>2, <1>3, <1>4 DEF SocketStep

\* Accepting a client starts its session in the room, with a read in flight
\* and with a write in flight if there is something to replay.
LEMMA AcceptKeepsIInv ==
    ASSUME IInv, NEW c \in Client, Accept(c)
    PROVE  IInv'
<1> USE DEF IInv
<1>1. queue[c] = <<>> /\ writer[c] = "none"
  BY DEF Accept, SessionStart, FreshIsEmpty
<1>2. DeliverAll({c}, recent) /\ recent \in Seq(Message)
  BY DEF Accept, SessionStart, RoomJoin, TypeOK
<1>3. /\ queue' \in [Client -> Seq(Message)]
      /\ writer' \in [Client -> {"none", "writing", "done", "failed"}]
      /\ \A d \in Client :
            /\ writer'[d] # "none" => queue'[d] # <<>>
            /\ queue'[d] # <<>> /\ writer'[d] = "none" =>
                  d \notin {c} /\ queue[d] # <<>> /\ writer[d] = "none"
            /\ d \notin {c} => queue'[d] = queue[d] /\ writer'[d] = writer[d]
  BY <1>1, <1>2, DeliverAllEffect
<1>4. /\ participants' = participants \cup {c}
      /\ started' = started \cup {c}
      /\ reader' = [reader EXCEPT ![c] = "header"]
      /\ UNCHANGED <<peer, sent, inbox, header, wire, recent, log>>
  BY DEF Accept, SessionStart, RoomJoin, clientVars
<1>5. TypeOK'
  BY <1>3, <1>4 DEF TypeOK
<1>6. FreshIsEmpty'
  BY <1>3, <1>4 DEF FreshIsEmpty, TypeOK
<1>7. WriteInProgress'
  BY <1>3, <1>4 DEF WriteInProgress
<1>8. ParticipantsAreReading'
  BY <1>4 DEF ParticipantsAreReading, TypeOK
<1> QED BY <1>5, <1>6, <1>7, <1>8

\* A read handler goes on reading, or ends the reading and leaves the room.
LEMMA ReadHandlerKeepsIInv ==
    ASSUME IInv, NEW c \in Client, ReadHandler(c)
    PROVE  IInv'
<1> USE DEF IInv
<1>1. ASSUME NEW part, ReadsHeader(c, part)
      PROVE  /\ inbox' \in [Client -> Seq(Unit)]
             /\ header' \in [Client -> 0..MaxSends]
  <2>1. Reads(c, part)
    BY <1>1 DEF ReadsHeader
  <2>2. inbox' \in [Client -> Seq(Unit)] /\ Head(inbox[c]).msg.num \in 0..MaxSends
    BY <2>1, ReadMsgType DEF Message
  <2> QED BY <1>1, <2>2 DEF ReadsHeader, TypeOK
<1>2. ASSUME ReadHandler(c) PROVE c \in started
  BY <1>2 DEF ReadHandler, ReadHeader, ReadHeaderError, ReadBody, ReadBodyError,
              FreshIsEmpty
<1>3. CASE ReadHeader(c)
  <2>1. inbox' \in [Client -> Seq(Unit)] /\ header' \in [Client -> 0..MaxSends]
    BY <1>1, <1>3 DEF ReadHeader
  <2> QED
    BY <1>2, <1>3, <2>1 DEF ReadHeader, clientVars, roomVars, TypeOK, FreshIsEmpty,
                            WriteInProgress, ParticipantsAreReading
<1>4. CASE ReadHeaderError(c) \/ ReadBodyError(c)
  <2>1. inbox' \in [Client -> Seq(Unit)] /\ header' \in [Client -> 0..MaxSends]
    BY <1>1, <1>4 DEF ReadHeaderError, ReadBodyError, ReadFails, TypeOK
  <2>2. /\ reader' = [reader EXCEPT ![c] = "none"]
        /\ participants' = participants \ {c}
        /\ UNCHANGED <<peer, sent, started, writer, queue, wire, recent, log>>
    BY <1>4 DEF ReadHeaderError, ReadBodyError, RoomLeave, clientVars
  <2> QED
    BY <1>2, <2>1, <2>2 DEF TypeOK, FreshIsEmpty, WriteInProgress,
                            ParticipantsAreReading
<1>5. CASE ReadBody(c)
  <2> DEFINE m == ReadMsg(c)
  <2>1. inbox' \in [Client -> Seq(Unit)] /\ m \in Message
    BY <1>5, ReadMsgType DEF ReadBody
  <2>2. DeliverAll(participants, <<m>>) /\ <<m>> \in Seq(Message)
    BY <1>5, <2>1 DEF ReadBody, RoomDeliver
  <2>3. /\ \A d \in participants : queue[d] = <<>> \/ writer[d] # "none"
        /\ participants \in SUBSET Client
    BY DEF WriteInProgress, TypeOK
  <2> HIDE DEF m
  <2>4. /\ queue' \in [Client -> Seq(Message)]
        /\ writer' \in [Client -> {"none", "writing", "done", "failed"}]
        /\ \A d \in Client :
              /\ writer'[d] # "none" => queue'[d] # <<>>
              /\ queue'[d] # <<>> /\ writer'[d] = "none" =>
                    d \notin participants /\ queue[d] # <<>> /\ writer[d] = "none"
              /\ d \notin participants =>
                    queue'[d] = queue[d] /\ writer'[d] = writer[d]
    BY <2>2, <2>3, DeliverAllEffect
  <2>5. /\ reader' = [reader EXCEPT ![c] = "header"]
        /\ recent' = Trim(Append(recent, m))
        /\ log' = Append(log, m)
        /\ UNCHANGED <<peer, sent, header, started, wire, participants>>
    BY <1>5 DEF ReadBody, RoomDeliver, clientVars, m
  <2>6. /\ recent' \in Seq(Message) /\ Len(recent') <= MaxRecent
        /\ log' \in Seq(Message)
    <3>1. Append(recent, m) \in Seq(Message) /\ Append(log, m) \in Seq(Message)
      BY <2>1 DEF TypeOK
    <3> QED BY <2>5, <3>1, TrimType
  <2>7. TypeOK'
    BY <2>1, <2>4, <2>5, <2>6 DEF TypeOK
  <2>8. FreshIsEmpty'
    BY <1>2, <1>5, <2>4, <2>5 DEF FreshIsEmpty, TypeOK, ReadHandler
  <2>9. WriteInProgress'
    BY <2>4, <2>5 DEF WriteInProgress
  <2>10. ParticipantsAreReading'
    BY <2>5 DEF ParticipantsAreReading, TypeOK
  <2> QED BY <2>7, <2>8, <2>9, <2>10
<1> QED BY <1>3, <1>4, <1>5 DEF ReadHandler

\* A write handler starts the next write, or finds nothing left to write, or
\* leaves the room.
LEMMA WriteHandlerKeepsIInv ==
    ASSUME IInv, NEW c \in Client, WriteHandler(c)
    PROVE  IInv'
<1> USE DEF IInv
<1>1. c \in started
  BY DEF WriteHandler, Written, WriteError, FreshIsEmpty
<1>2. CASE Written(c)
  <2>1. queue[c] \in Seq(Message) /\ queue[c] # <<>>
    BY <1>2 DEF Written, WriteInProgress, TypeOK
  <2>2. Tail(queue[c]) \in Seq(Message)
    BY <2>1
  <2>3. /\ queue' = [queue EXCEPT ![c] = Tail(queue[c])]
        /\ writer' = [writer EXCEPT ![c] =
                         IF Tail(queue[c]) # <<>> THEN "writing" ELSE "none"]
        /\ UNCHANGED <<peer, sent, inbox, started, reader, header, wire,
                       participants, recent, log>>
    BY <1>2 DEF Written, clientVars, roomVars
  <2>4. TypeOK'
    BY <2>2, <2>3 DEF TypeOK
  <2>5. WriteInProgress'
    BY <2>3 DEF WriteInProgress, TypeOK
  <2> QED
    BY <1>1, <2>3, <2>4, <2>5 DEF FreshIsEmpty, ParticipantsAreReading
<1>3. CASE WriteError(c)
  BY <1>1, <1>3 DEF WriteError, RoomLeave, clientVars, TypeOK, FreshIsEmpty,
                    WriteInProgress, ParticipantsAreReading
<1> QED BY <1>2, <1>3 DEF WriteHandler

\* Every step of clients, sockets and handlers keeps the invariant.
LEMMA NextKeepsIInv == IInv /\ [Next]_vars => IInv'
<1>1. ASSUME IInv, UNCHANGED vars PROVE IInv'
  BY <1>1 DEF vars, clientVars, sessionVars, roomVars, IInv, TypeOK, FreshIsEmpty,
              WriteInProgress, ParticipantsAreReading
<1>2. ASSUME IInv, Next PROVE IInv'
  BY <1>2, EnvironmentKeepsIInv, AcceptKeepsIInv, ReadHandlerKeepsIInv,
     WriteHandlerKeepsIInv DEF Next
<1> QED BY <1>1, <1>2

\* The invariant holds in every state the server can reach.
LEMMA Invariance == Spec => []IInv
BY InitIInv, NextKeepsIInv, PTL DEF Spec

-----------------------------------------------------------------------------
(* The stream of a session is a stretch of the conversation.               *)

\* chat_room::recent_msgs_ is always the end of the room's conversation, and
\* all of it while it is no longer than max_recent_msgs.
RecentIsEndOfLog == recent = Trim(log)

\* The stream of c starts after the first k messages of the conversation.
StreamStartsAt(c, k) ==
    /\ k + Len(Stream(c)) <= Len(log)
    /\ \A i \in 1..Len(Stream(c)) : Stream(c)[i] = log[k + i]
    /\ c \in participants => k + Len(Stream(c)) = Len(log)

StreamsAligned ==
    \A c \in started : \E k \in 0..Len(log) : StreamStartsAt(c, k)

\* What is kept of a long conversation.
LEMMA TrimEntries ==
    ASSUME NEW ms \in Seq(Message), Len(ms) >= MaxRecent
    PROVE  /\ Trim(ms) \in Seq(Message) /\ Len(Trim(ms)) = MaxRecent
           /\ \A i \in 1..MaxRecent : Trim(ms)[i] = ms[Len(ms) - MaxRecent + i]
<1>1. MaxRecent \in Nat /\ MaxRecent >= 1 /\ Len(ms) \in Nat
  BY MaxRecentAssumption
<1>2. CASE Len(ms) = MaxRecent
  <2>1. Trim(ms) = ms
    BY <1>1, <1>2 DEF Trim
  <2>2. \A i \in 1..MaxRecent : Len(ms) - MaxRecent + i = i
    BY <1>1, <1>2
  <2> QED BY <1>2, <2>1, <2>2
<1>3. CASE Len(ms) > MaxRecent
  <2> DEFINE k == Len(ms) - MaxRecent + 1
  <2>1. Trim(ms) = SubSeq(ms, k, Len(ms))
    BY <1>3 DEF Trim
  <2>2. /\ k \in 1..Len(ms) /\ Len(ms) - k + 1 = MaxRecent
        /\ \A i \in 1..MaxRecent : k + i - 1 = Len(ms) - MaxRecent + i
    BY <1>1, <1>3
  <2> HIDE DEF k
  <2>3. \A j \in k..Len(ms) : ms[j] \in Message
    BY <2>2
  <2>4. /\ SubSeq(ms, k, Len(ms)) \in Seq(Message)
        /\ Len(SubSeq(ms, k, Len(ms))) = IF k <= Len(ms) THEN Len(ms) - k + 1 ELSE 0
        /\ \A i \in 1..(Len(ms) - k + 1) : SubSeq(ms, k, Len(ms))[i] = ms[k + i - 1]
    BY <1>1, <2>2, <2>3, SubSeqProperties
  <2> QED BY <1>1, <2>1, <2>2, <2>4
<1> QED BY <1>1, <1>2, <1>3

\* Trimming the kept messages after each addition keeps the same as trimming
\* the whole conversation.
LEMMA TrimAppend ==
    ASSUME NEW ms \in Seq(Message), NEW m \in Message
    PROVE  Trim(Append(Trim(ms), m)) = Trim(Append(ms, m))
<1>1. CASE Len(ms) < MaxRecent
  BY <1>1, MaxRecentAssumption DEF Trim
<1>2. CASE Len(ms) >= MaxRecent
  <2> DEFINE n == Len(ms)
             kept == Append(Trim(ms), m)
             all == Append(ms, m)
  <2>1. n \in Nat /\ MaxRecent \in Nat /\ MaxRecent >= 1 /\ n >= MaxRecent
    BY <1>2, MaxRecentAssumption
  <2>2. /\ Trim(ms) \in Seq(Message) /\ Len(Trim(ms)) = MaxRecent
        /\ \A i \in 1..MaxRecent : Trim(ms)[i] = ms[n - MaxRecent + i]
    BY <1>2, TrimEntries
  <2>3. /\ kept \in Seq(Message) /\ Len(kept) = MaxRecent + 1
        /\ \A i \in 1..MaxRecent : kept[i] = Trim(ms)[i]
        /\ kept[MaxRecent + 1] = m
    BY <2>2, AppendProperties
  <2>4. /\ all \in Seq(Message) /\ Len(all) = n + 1
        /\ \A i \in 1..n : all[i] = ms[i]
        /\ all[n + 1] = m
    BY AppendProperties
  <2> HIDE DEF n, kept, all
  <2>5. /\ Trim(kept) \in Seq(Message) /\ Len(Trim(kept)) = MaxRecent
        /\ \A i \in 1..MaxRecent : Trim(kept)[i] = kept[Len(kept) - MaxRecent + i]
    <3>1. Len(kept) >= MaxRecent
      BY <2>1, <2>3
    <3> QED BY <2>3, <3>1, TrimEntries
  <2>6. /\ Trim(all) \in Seq(Message) /\ Len(Trim(all)) = MaxRecent
        /\ \A i \in 1..MaxRecent : Trim(all)[i] = all[Len(all) - MaxRecent + i]
    <3>1. Len(all) >= MaxRecent
      BY <2>1, <2>4
    <3> QED BY <2>4, <3>1, TrimEntries
  <2>7. ASSUME NEW i \in 1..MaxRecent PROVE Trim(kept)[i] = Trim(all)[i]
    <3>1. Trim(kept)[i] = kept[i + 1]
      <4>1. Len(kept) - MaxRecent + i = i + 1
        BY <2>1, <2>3
      <4> QED BY <2>5, <4>1
    <3>2. Trim(all)[i] = all[n - MaxRecent + (i + 1)]
      <4>1. Len(all) - MaxRecent + i = n - MaxRecent + (i + 1)
        BY <2>1, <2>4
      <4> QED BY <2>6, <4>1
    <3>3. CASE i = MaxRecent
      <4>1. n - MaxRecent + (i + 1) = n + 1
        BY <2>1, <3>3
      <4> QED BY <2>3, <2>4, <3>1, <3>2, <3>3, <4>1
    <3>4. CASE i # MaxRecent
      <4>1. i + 1 \in 1..MaxRecent /\ n - MaxRecent + (i + 1) \in 1..n
        BY <2>1, <3>4
      <4> QED BY <2>2, <2>3, <2>4, <3>1, <3>2, <4>1
    <3> QED BY <3>3, <3>4
  <2>8. Trim(kept) = Trim(all)
    BY <2>5, <2>6, <2>7, SeqEqual
  <2> QED BY <2>8 DEF kept, all
<1> QED BY <1>1, <1>2, MaxRecentAssumption

\* The type of a stream.
LEMMA StreamType ==
    ASSUME IInv, NEW c \in Client
    PROVE  Stream(c) \in Seq(Message)
<1>1. wire[c] \in Seq(Message) /\ queue[c] \in Seq(Message)
  BY DEF IInv, TypeOK
<1>2. writer[c] = "done" => Tail(queue[c]) \in Seq(Message)
  BY <1>1 DEF IInv, WriteInProgress
<1> QED BY <1>1, <1>2 DEF Stream

\* A step that neither adds to the conversation nor lets anyone join leaves
\* the alignment alone if it leaves the streams alone.
LEMMA SameStreams ==
    ASSUME IInv, StreamsAligned, RecentIsEndOfLog,
           UNCHANGED <<log, recent, started>>,
           participants' \subseteq participants,
           \A c \in started : Stream(c)' = Stream(c)
    PROVE  StreamsAligned' /\ RecentIsEndOfLog'
<1>1. ASSUME NEW c \in started', NEW k \in 0..Len(log), StreamStartsAt(c, k)
      PROVE  StreamStartsAt(c, k)'
  BY <1>1 DEF StreamStartsAt
<1> QED BY <1>1 DEF StreamsAligned, RecentIsEndOfLog, Trim

\* Clients, sockets and the handlers of writes only move a stream's messages
\* from write_msgs_ to the wire.
LEMMA EnvironmentKeepsStreams ==
    ASSUME IInv, StreamsAligned, RecentIsEndOfLog, NEW c \in Client,
           ClientStep(c) \/ SocketStep(c) \/ WriteHandler(c)
    PROVE  StreamsAligned' /\ RecentIsEndOfLog'
<1>1. /\ UNCHANGED <<log, recent, started>>
      /\ participants' \subseteq participants
  BY DEF ClientStep, Connect, Send, SendJunk, SendHalfAndReset, SendParts, Shut,
         Reset, SocketStep, WriteDone, WriteFailed, WriteHandler, Written,
         WriteError, RoomLeave, roomVars
<1>2. ASSUME NEW d \in started PROVE Stream(d)' = Stream(d)
  <2>1. d \in Client
    BY DEF IInv, TypeOK
  <2>2. CASE ClientStep(c)
    BY <2>2 DEF ClientStep, Connect, Send, SendJunk, SendHalfAndReset, SendParts,
                Shut, Reset, sessionVars, Stream
  <2>3. CASE WriteDone(c)
    <3>1. CASE d # c
      BY <2>1, <2>3, <3>1 DEF WriteDone, Stream, IInv, TypeOK
    <3>2. CASE d = c
      <4>1. /\ queue[c] \in Seq(Message) /\ queue[c] # <<>>
            /\ wire[c] \in Seq(Message)
        BY <2>3 DEF WriteDone, IInv, TypeOK, WriteInProgress
      <4>2. Stream(c) = wire[c] \o queue[c]
        BY <2>3 DEF WriteDone, Stream
      <4>3. Stream(c)' = Append(wire[c], Head(queue[c])) \o Tail(queue[c])
        BY <2>3 DEF WriteDone, Stream, IInv, TypeOK
      <4> QED BY <3>2, <4>1, <4>2, <4>3, MoveHead
    <3> QED BY <3>1, <3>2
  <2>4. CASE WriteFailed(c)
    BY <2>1, <2>4 DEF WriteFailed, Stream, IInv, TypeOK
  <2>5. CASE Written(c)
    BY <2>1, <2>5 DEF Written, Stream, IInv, TypeOK
  <2>6. CASE WriteError(c)
    BY <2>1, <2>6 DEF WriteError, Stream, IInv, TypeOK
  <2> QED BY <2>2, <2>3, <2>4, <2>5, <2>6 DEF SocketStep, WriteHandler
<1> QED BY <1>1, <1>2, SameStreams

\* The replay that a new participant is given is a stretch that reaches to
\* the latest message.
LEMMA AcceptKeepsStreams ==
    ASSUME IInv, StreamsAligned, RecentIsEndOfLog, NEW c \in Client, Accept(c)
    PROVE  StreamsAligned' /\ RecentIsEndOfLog'
<1>1. /\ queue[c] = <<>> /\ writer[c] = "none" /\ wire[c] = <<>>
      /\ c \notin started
  BY DEF Accept, SessionStart, IInv, FreshIsEmpty
<1>2. /\ UNCHANGED <<log, recent, wire>>
      /\ started' = started \cup {c}
      /\ participants' = participants \cup {c}
      /\ DeliverAll({c}, recent)
  BY DEF Accept, SessionStart, RoomJoin
<1>3. ASSUME NEW d \in started
      PROVE  \E k \in 0..Len(log') : StreamStartsAt(d, k)'
  <2>1. d \in Client /\ d # c
    BY <1>1 DEF IInv, TypeOK
  <2>2. Stream(d)' = Stream(d) /\ log' = log
    BY <1>2, <2>1 DEF DeliverAll, Stream
  <2>3. PICK k \in 0..Len(log) : StreamStartsAt(d, k)
    BY DEF StreamsAligned
  <2>4. StreamStartsAt(d, k)'
    BY <1>2, <2>1, <2>2, <2>3 DEF StreamStartsAt
  <2> QED BY <2>2, <2>4
<1>4. \E k \in 0..Len(log') : StreamStartsAt(c, k)'
  <2>1. recent \in Seq(Message) /\ log \in Seq(Message)
    BY DEF IInv, TypeOK
  <2>2. Stream(c)' = recent
    <3>1. queue'[c] = recent /\ wire'[c] = <<>>
      BY <1>1, <1>2, <2>1 DEF DeliverAll
    <3>2. writer'[c] # "done"
      BY <1>1, <1>2 DEF DeliverAll, WriterAfter
    <3> QED BY <2>1, <3>1, <3>2 DEF Stream
  <2>3. recent = Trim(log)
    BY DEF RecentIsEndOfLog
  <2> DEFINE k == Len(log) - Len(recent)
  <2>4. /\ k \in 0..Len(log) /\ k + Len(recent) = Len(log)
        /\ \A i \in 1..Len(recent) : recent[i] = log[k + i]
    <3>1. CASE Len(log) > MaxRecent
      <4>1. recent = SubSeq(log, Len(log) - MaxRecent + 1, Len(log))
        BY <2>3, <3>1 DEF Trim
      <4>2. Len(recent) = MaxRecent
        BY <2>1, <3>1, <4>1, MaxRecentAssumption
      <4>3. ASSUME NEW i \in 1..MaxRecent
            PROVE  recent[i] = log[Len(log) - MaxRecent + i]
        BY <2>1, <3>1, <4>1, MaxRecentAssumption
      <4>4. k = Len(log) - MaxRecent /\ k \in 0..Len(log)
        BY <2>1, <3>1, <4>2, MaxRecentAssumption
      <4> QED BY <2>1, <4>2, <4>3, <4>4, MaxRecentAssumption
    <3>2. CASE ~(Len(log) > MaxRecent)
      BY <2>1, <2>3, <3>2, MaxRecentAssumption DEF Trim
    <3> QED BY <3>1, <3>2
  <2>5. StreamStartsAt(c, k)'
    BY <1>2, <2>1, <2>2, <2>4 DEF StreamStartsAt
  <2> QED BY <1>2, <2>4, <2>5
<1>5. RecentIsEndOfLog'
  BY <1>2 DEF RecentIsEndOfLog, Trim
<1> QED BY <1>2, <1>3, <1>4, <1>5 DEF StreamsAligned

\* A message put into the room extends the stream of every participant and
\* of nobody else.
LEMMA ReadHandlerKeepsStreams ==
    ASSUME IInv, StreamsAligned, RecentIsEndOfLog, NEW c \in Client,
           ReadHandler(c)
    PROVE  StreamsAligned' /\ RecentIsEndOfLog'
<1>1. CASE ReadHeader(c) \/ ReadHeaderError(c) \/ ReadBodyError(c)
  <2>1. /\ UNCHANGED <<log, recent, started, wire, queue, writer>>
        /\ participants' \subseteq participants
    BY <1>1 DEF ReadHeader, ReadHeaderError, ReadBodyError, RoomLeave, roomVars
  <2>2. \A d \in started : Stream(d)' = Stream(d)
    BY <2>1 DEF Stream
  <2> QED BY <2>1, <2>2, SameStreams
<1>2. CASE ReadBody(c)
  <2> DEFINE m == ReadMsg(c)
  <2>1. m \in Message
    BY <1>2, ReadMsgType DEF ReadBody, IInv
  <2>2. /\ recent' = Trim(Append(recent, m))
        /\ log' = Append(log, m)
        /\ DeliverAll(participants, <<m>>)
        /\ UNCHANGED <<started, wire, participants>>
    BY <1>2 DEF ReadBody, RoomDeliver
  <2> HIDE DEF m
  <2>3. /\ log \in Seq(Message) /\ Len(log') = Len(log) + 1
        /\ \A i \in 1..Len(log) : log'[i] = log[i]
        /\ log'[Len(log) + 1] = m
    BY <2>1, <2>2 DEF IInv, TypeOK
  <2>4. RecentIsEndOfLog'
    BY <2>1, <2>2, <2>3, TrimAppend DEF RecentIsEndOfLog, Trim
  <2>5. ASSUME NEW d \in started
        PROVE  \E k \in 0..Len(log') : StreamStartsAt(d, k)'
    <3>1. d \in Client
      BY DEF IInv, TypeOK
    <3>2. PICK k \in 0..Len(log) : StreamStartsAt(d, k)
      BY DEF StreamsAligned
    <3>3. Stream(d) \in Seq(Message)
      BY <3>1, StreamType
    <3>4. CASE d \notin participants
      <4>1. Stream(d)' = Stream(d)
        BY <2>2, <3>1, <3>4 DEF DeliverAll, Stream
      <4>2. StreamStartsAt(d, k)'
        BY <2>2, <2>3, <3>2, <3>3, <3>4, <4>1 DEF StreamStartsAt
      <4> QED BY <2>3, <4>2
    <3>5. CASE d \in participants
      <4>1. queue[d] \in Seq(Message) /\ wire[d] \in Seq(Message)
        BY <3>1 DEF IInv, TypeOK
      <4>2. /\ queue'[d] = queue[d] \o <<m>> /\ wire'[d] = wire[d]
            /\ writer'[d] = WriterAfter(d, <<m>>)
        BY <2>2, <3>1, <3>5 DEF DeliverAll
      <4>3. Stream(d)' = Stream(d) \o <<m>>
        <5>1. CASE writer[d] = "done"
          <6>1. queue[d] # <<>> /\ Tail(queue[d]) \in Seq(Message)
            BY <3>1, <4>1, <5>1 DEF IInv, WriteInProgress
          <6>2. writer'[d] = "done"
            BY <4>2, <5>1, <6>1 DEF WriterAfter
          <6>3. Tail(queue[d] \o <<m>>) = Tail(queue[d]) \o <<m>>
            BY <2>1, <4>1, <6>1, TailConcat
          <6>4. /\ Stream(d)' = wire[d] \o (Tail(queue[d]) \o <<m>>)
                /\ Stream(d) = wire[d] \o Tail(queue[d])
            BY <4>2, <5>1, <6>2, <6>3 DEF Stream
          <6>5. wire[d] \o (Tail(queue[d]) \o <<m>>) = (wire[d] \o Tail(queue[d])) \o <<m>>
            BY <2>1, <4>1, <6>1, ConcatOne
          <6> QED BY <6>4, <6>5
        <5>2. CASE writer[d] # "done"
          <6>1. writer'[d] # "done"
            BY <4>2, <5>2 DEF WriterAfter
          <6>2. /\ Stream(d)' = wire[d] \o (queue[d] \o <<m>>)
                /\ Stream(d) = wire[d] \o queue[d]
            BY <4>2, <5>2, <6>1 DEF Stream
          <6>3. wire[d] \o (queue[d] \o <<m>>) = (wire[d] \o queue[d]) \o <<m>>
            BY <2>1, <4>1, ConcatOne
          <6> QED BY <6>2, <6>3
        <5> QED BY <5>1, <5>2
      <4>4. /\ Len(Stream(d)') = Len(Stream(d)) + 1
            /\ \A i \in 1..Len(Stream(d)) : Stream(d)'[i] = Stream(d)[i]
            /\ Stream(d)'[Len(Stream(d)) + 1] = m
        BY <2>1, <3>3, <4>3
      <4>5. k + Len(Stream(d)) = Len(log)
        BY <3>2, <3>5 DEF StreamStartsAt
      <4>6. ASSUME NEW i \in 1..Len(Stream(d)) + 1
            PROVE  Stream(d)'[i] = log'[k + i]
        <5>1. CASE i = Len(Stream(d)) + 1
          BY <2>3, <3>3, <4>4, <4>5, <5>1
        <5>2. CASE i \in 1..Len(Stream(d))
          BY <2>3, <3>2, <3>3, <4>4, <4>5, <5>2 DEF StreamStartsAt
        <5> QED BY <3>3, <5>1, <5>2
      <4>7. StreamStartsAt(d, k)'
        BY <2>2, <2>3, <3>3, <4>4, <4>5, <4>6 DEF StreamStartsAt
      <4> QED BY <2>3, <4>7
    <3> QED BY <3>4, <3>5
  <2> QED BY <2>2, <2>4, <2>5 DEF StreamsAligned
<1> QED BY <1>1, <1>2 DEF ReadHandler

\* Said without SubSeq, the alignment is what the property says.
LEMMA AlignedIsStretch ==
    ASSUME IInv, StreamsAligned
    PROVE  StreamIsStretchOfLog
<1> SUFFICES ASSUME NEW c \in started
             PROVE  \E k \in 0..Len(log) :
                       /\ Stream(c) = SubSeq(log, k + 1, k + Len(Stream(c)))
                       /\ k + Len(Stream(c)) <= Len(log)
                       /\ c \in participants => k + Len(Stream(c)) = Len(log)
  BY DEF StreamIsStretchOfLog
<1>1. c \in Client /\ log \in Seq(Message)
  BY DEF IInv, TypeOK
<1>2. Stream(c) \in Seq(Message)
  BY <1>1, StreamType
<1>3. PICK k \in 0..Len(log) : StreamStartsAt(c, k)
  BY DEF StreamsAligned
<1> DEFINE stretch == SubSeq(log, k + 1, k + Len(Stream(c)))
<1>4. k + Len(Stream(c)) <= Len(log)
  BY <1>3 DEF StreamStartsAt
<1>5. /\ stretch \in Seq(Message)
      /\ Len(stretch) = Len(Stream(c))
      /\ \A i \in 1..Len(Stream(c)) : stretch[i] = log[k + i]
  BY <1>1, <1>2, <1>4
<1>6. Stream(c) = stretch
  BY <1>2, <1>3, <1>5, SeqEqual DEF StreamStartsAt
<1> QED BY <1>3, <1>4, <1>6 DEF StreamStartsAt

\* Streams stay aligned with the conversation, and recent_msgs_ stays its end.
LEMMA StreamInvariance == Spec => [](IInv /\ StreamsAligned /\ RecentIsEndOfLog)
<1>1. Init => StreamsAligned /\ RecentIsEndOfLog
  BY MaxRecentAssumption DEF Init, StreamsAligned, RecentIsEndOfLog, Trim
<1>2. ASSUME IInv, StreamsAligned, RecentIsEndOfLog, [Next]_vars
      PROVE  StreamsAligned' /\ RecentIsEndOfLog'
  <2>1. CASE UNCHANGED vars
    <3>1. /\ UNCHANGED <<log, recent, started, participants, wire, queue, writer>>
      BY <2>1 DEF vars, roomVars, sessionVars
    <3>2. \A c \in started : Stream(c)' = Stream(c)
      BY <3>1 DEF Stream
    <3> QED BY <1>2, <3>1, <3>2, SameStreams
  <2>2. CASE Next
    BY <1>2, <2>2, EnvironmentKeepsStreams, AcceptKeepsStreams,
       ReadHandlerKeepsStreams DEF Next
  <2> QED BY <1>2, <2>1, <2>2
<1> QED BY <1>1, <1>2, Invariance, PTL DEF Spec

-----------------------------------------------------------------------------
(* The theorems.                                                           *)

\* The types, and the bound of the replay buffer.
THEOREM TypeCorrect == Spec => []TypeOK
BY Invariance, PTL DEF IInv

\* chat_session's write_in_progress test is right in every reachable state.
THEOREM WriteInProgressCorrect == Spec => []WriteInProgress
BY Invariance, PTL DEF IInv

\* No participant is left in the room without a read in flight.
THEOREM ParticipantsReadCorrect == Spec => []ParticipantsAreReading
BY Invariance, PTL DEF IInv

\* What a session is sent is a stretch of the room's conversation: nothing
\* is lost, doubled or swapped between the replay and the live messages.
THEOREM StreamCorrect == Spec => []StreamIsStretchOfLog
<1>1. IInv /\ StreamsAligned => StreamIsStretchOfLog
  BY AlignedIsStretch
<1> QED BY <1>1, StreamInvariance, PTL

\* A session that has left the room stays out of it, and nothing is added to
\* its write_msgs_ any more.
THEOREM LeavingCorrect == Spec => LeavingIsFinal
<1>1. ASSUME IInv, Next, NEW d \in started \ participants
      PROVE  d \notin participants' /\ Len(queue'[d]) <= Len(queue[d])
  <2>1. PICK c \in Client : \/ ClientStep(c) \/ SocketStep(c) \/ Accept(c)
                            \/ ReadHandler(c) \/ WriteHandler(c)
    BY <1>1 DEF Next
  <2>2. d \in Client /\ queue \in [Client -> Seq(Message)]
    BY <1>1 DEF IInv, TypeOK
  <2>3. Len(queue[d]) \in Nat
    BY <2>2
  <2>4. CASE UNCHANGED <<participants, queue>>
    BY <1>1, <2>3, <2>4
  <2>5. CASE Accept(c)
    BY <1>1, <2>2, <2>3, <2>5 DEF Accept, SessionStart, RoomJoin, DeliverAll
  <2>6. CASE ReadBody(c)
    BY <1>1, <2>2, <2>3, <2>6 DEF ReadBody, RoomDeliver, DeliverAll
  <2>7. CASE ReadHeaderError(c) \/ ReadBodyError(c) \/ WriteError(c)
    BY <1>1, <2>3, <2>7 DEF ReadHeaderError, ReadBodyError, WriteError, RoomLeave
  <2>8. CASE Written(c)
    <3>1. queue[c] # <<>>
      BY <1>1, <2>8 DEF Written, IInv, WriteInProgress
    <3>2. queue' = [queue EXCEPT ![c] = Tail(@)] /\ participants' = participants
      BY <2>8 DEF Written, roomVars
    <3>3. CASE d = c
      BY <1>1, <2>2, <3>1, <3>2, <3>3
    <3>4. CASE d # c
      BY <1>1, <2>2, <2>3, <3>2, <3>4
    <3> QED BY <3>3, <3>4
  <2> QED
    BY <2>1, <2>4, <2>5, <2>6, <2>7, <2>8
       DEF ClientStep, Connect, Send, SendJunk, SendHalfAndReset, SendParts, Shut,
           Reset, SocketStep, WriteDone, WriteFailed, ReadHandler, ReadHeader,
           WriteHandler, sessionVars, roomVars
<1>2. IInv /\ [Next]_vars
         => [ \A c \in started \ participants :
                /\ c \notin participants'
                /\ Len(queue'[c]) <= Len(queue[c]) ]_vars
  BY <1>1
<1> QED BY <1>2, Invariance, PTL DEF Spec, LeavingIsFinal

-----------------------------------------------------------------------------
(* The server implements the feed, step by step.                           *)

\* A step after which everyone has the same stream, the same wire and the
\* same standing gives everyone the same feed.
LEMMA SameFeeds ==
    ASSUME CutOff' = CutOff, wire' = wire,
           \A d \in Client : Stream(d)' = Stream(d)
    PROVE  [d \in Client |-> FeedOf(d)]' = [d \in Client |-> FeedOf(d)]
BY DEF FeedOf

\* Nobody has said, joined or seen anything before the first client connects.
LEMMA FeedInit == Init => Feed!Init
<1> SUFFICES ASSUME Init PROVE Feed!Init
  OBVIOUS
<1>1. CutOff = {}
  BY DEF Init, CutOff
<1>2. \A c \in Client : FeedOf(c) = <<>>
  BY <1>1, ConcatEmptySeq DEF Init, FeedOf, Stream
<1> QED BY <1>1, <1>2 DEF Init, Feed!Init

\* What clients do, the header of a frame and the end of a write with success
\* are no steps of the feed.
LEMMA FeedUnchanged ==
    ASSUME IInv, NEW c \in Client,
           ClientStep(c) \/ ReadHeader(c) \/ Written(c)
    PROVE  UNCHANGED Feed!vars
<1>1. UNCHANGED <<log, participants, wire>>
  BY DEF ClientStep, Connect, Send, SendJunk, SendHalfAndReset, SendParts, Shut,
         Reset, ReadHeader, Written, roomVars
<1>2. CutOff' = CutOff /\ \A d \in Client : Stream(d)' = Stream(d)
  <2>1. CASE UNCHANGED <<writer, queue>>
    BY <1>1, <2>1 DEF CutOff, Stream
  <2>2. CASE Written(c)
    <3>1. /\ writer \in [Client -> {"none", "writing", "done", "failed"}]
          /\ queue \in [Client -> Seq(Message)]
      BY DEF IInv, TypeOK
    <3>2. \A d \in Client : d \in CutOff' <=> d \in CutOff
      BY <2>2, <3>1 DEF Written, CutOff
    <3>3. \A d \in Client : Stream(d)' = Stream(d)
      BY <1>1, <2>2, <3>1 DEF Written, Stream
    <3> QED BY <3>2, <3>3 DEF CutOff
  <2> QED
    BY <2>1, <2>2 DEF ClientStep, Connect, Send, SendJunk, SendHalfAndReset,
       SendParts, Shut, Reset, ReadHeader, sessionVars
<1> QED BY <1>1, <1>2, SameFeeds DEF Feed!vars

\* An accepted client joins the feed and is given the end of the conversation.
LEMMA AcceptIsJoin ==
    ASSUME IInv, RecentIsEndOfLog, NEW c \in Client, Accept(c)
    PROVE  Feed!Join(c)
<1>1. /\ queue[c] = <<>> /\ writer[c] = "none" /\ wire[c] = <<>>
      /\ c \notin participants
  BY DEF Accept, SessionStart, IInv, FreshIsEmpty
<1>2. /\ UNCHANGED <<log, wire>>
      /\ participants' = participants \cup {c}
      /\ DeliverAll({c}, recent)
  BY DEF Accept, SessionStart, RoomJoin
<1>3. recent \in Seq(Message) /\ recent = Feed!LastOf(log, MaxRecent)
  BY DEF IInv, TypeOK, RecentIsEndOfLog, Trim, Feed!LastOf
<1>4. \A d \in Client \ {c} : queue'[d] = queue[d] /\ writer'[d] = writer[d]
  BY <1>2 DEF DeliverAll
<1>5. /\ queue'[c] = recent
      /\ writer'[c] = IF recent # <<>> THEN "writing" ELSE "none"
  BY <1>1, <1>2, <1>3 DEF DeliverAll, WriterAfter
<1>6. c \notin CutOff /\ CutOff' = CutOff
  BY <1>1, <1>4, <1>5 DEF CutOff
<1>7. FeedOf(c) = <<>>
  BY <1>1, <1>6, ConcatEmptySeq DEF FeedOf, Stream
<1>8. FeedOf(c)' = recent
  <2>1. Stream(c)' = <<>> \o recent
    BY <1>1, <1>2, <1>5 DEF Stream
  <2> QED BY <1>3, <1>6, <2>1, ConcatEmptySeq DEF FeedOf
<1>9. \A d \in Client \ {c} : FeedOf(d)' = FeedOf(d)
  BY <1>2, <1>4, <1>6 DEF FeedOf, Stream
<1> QED
  BY <1>1, <1>2, <1>3, <1>6, <1>7, <1>8, <1>9 DEF Feed!Join

\* A write that succeeds shows its client the next message of its feed.
LEMMA WriteDoneIsSee ==
    ASSUME IInv, NEW c \in Client, WriteDone(c)
    PROVE  Feed!See(c)
<1>1. /\ queue[c] \in Seq(Message) /\ queue[c] # <<>>
      /\ wire[c] \in Seq(Message)
      /\ wire \in [Client -> Seq(Message)]
      /\ writer \in [Client -> {"none", "writing", "done", "failed"}]
  BY DEF WriteDone, IInv, TypeOK, WriteInProgress
<1>2. /\ UNCHANGED <<log, participants, queue>>
      /\ writer[c] = "writing" /\ writer' = [writer EXCEPT ![c] = "done"]
      /\ wire' = [wire EXCEPT ![c] = Append(@, Head(queue[c]))]
  BY DEF WriteDone, roomVars
<1>3. CutOff' = CutOff /\ c \notin CutOff
  BY <1>1, <1>2 DEF CutOff
<1>4. FeedOf(c) = wire[c] \o queue[c]
  BY <1>2, <1>3 DEF FeedOf, Stream
<1>5. FeedOf(c)' = FeedOf(c)
  <2>1. FeedOf(c)' = Append(wire[c], Head(queue[c])) \o Tail(queue[c])
    BY <1>1, <1>2, <1>3 DEF FeedOf, Stream
  <2> QED BY <1>1, <1>4, <2>1, MoveHead
<1>6. \A d \in Client \ {c} : FeedOf(d)' = FeedOf(d)
  BY <1>1, <1>2, <1>3 DEF FeedOf, Stream
<1>7. /\ Len(wire[c]) < Len(FeedOf(c))
      /\ FeedOf(c)[Len(wire[c]) + 1] = Head(queue[c])
  BY <1>1, <1>4
<1>8. wire' = [wire EXCEPT ![c] = Append(@, FeedOf(c)[Len(@) + 1])]
  BY <1>1, <1>2, <1>7
<1> QED BY <1>2, <1>3, <1>5, <1>6, <1>7, <1>8 DEF Feed!See

\* A write that fails cuts its client off: the rest of its feed is lost.
LEMMA WriteFailedIsCutOff ==
    ASSUME IInv, NEW c \in Client, WriteFailed(c)
    PROVE  Feed!CutOff(c)
<1>1. /\ UNCHANGED <<log, participants, wire, queue>>
      /\ writer[c] = "writing" /\ writer' = [writer EXCEPT ![c] = "failed"]
      /\ writer \in [Client -> {"none", "writing", "done", "failed"}]
  BY DEF WriteFailed, roomVars, IInv, TypeOK
<1>2. CutOff' = CutOff \cup {c}
  BY <1>1 DEF CutOff
<1>3. FeedOf(c)' = wire[c]
  BY <1>1, <1>2 DEF FeedOf
<1>4. \A d \in Client \ {c} : FeedOf(d)' = FeedOf(d)
  BY <1>1, <1>2 DEF FeedOf, Stream
<1> QED BY <1>1, <1>2, <1>3, <1>4 DEF Feed!CutOff

\* A handler that ends a session's reading or learns of a failed write takes
\* the client out of the room, once.
LEMMA ErrorIsLeave ==
    ASSUME IInv, NEW c \in Client,
           ReadHeaderError(c) \/ ReadBodyError(c) \/ WriteError(c)
    PROVE  Feed!Leave(c) \/ UNCHANGED Feed!vars
<1>1. /\ UNCHANGED <<log, wire, queue>>
      /\ participants' = participants \ {c}
  BY DEF ReadHeaderError, ReadBodyError, WriteError, RoomLeave
<1>2. CutOff' = CutOff /\ \A d \in Client : Stream(d)' = Stream(d)
  <2>1. CASE ReadHeaderError(c) \/ ReadBodyError(c)
    BY <1>1, <2>1 DEF ReadHeaderError, ReadBodyError, CutOff, Stream
  <2>2. CASE WriteError(c)
    <3>1. /\ writer[c] = "failed" /\ queue[c] # <<>>
          /\ writer' = [writer EXCEPT ![c] = "none"]
          /\ writer \in [Client -> {"none", "writing", "done", "failed"}]
      BY <2>2 DEF WriteError, IInv, TypeOK, WriteInProgress
    <3> QED BY <1>1, <3>1 DEF CutOff, Stream
  <2> QED BY <2>1, <2>2
<1>3. [d \in Client |-> FeedOf(d)]' = [d \in Client |-> FeedOf(d)]
  BY <1>1, <1>2, SameFeeds
<1>4. CASE c \in participants
  BY <1>1, <1>2, <1>3, <1>4 DEF Feed!Leave
<1>5. CASE c \notin participants
  BY <1>1, <1>2, <1>3, <1>5 DEF Feed!vars
<1> QED BY <1>4, <1>5

\* A body that has been read is said to every member that is not cut off.
LEMMA ReadBodyIsSay ==
    ASSUME IInv, NEW c \in Client, ReadBody(c)
    PROVE  \E m \in Message : Feed!Say(m)
<1> DEFINE m == ReadMsg(c)
<1>1. m \in Message
  BY ReadMsgType DEF ReadBody, IInv
<1>2. /\ log' = Append(log, m)
      /\ DeliverAll(participants, <<m>>)
      /\ UNCHANGED <<wire, participants>>
  BY DEF ReadBody, RoomDeliver
<1> HIDE DEF m
<1>3. \A d \in Client \ participants : queue'[d] = queue[d] /\ writer'[d] = writer[d]
  BY <1>2 DEF DeliverAll
<1>4. ASSUME NEW d \in participants
      PROVE  /\ d \in Client
             /\ queue[d] \in Seq(Message) /\ wire[d] \in Seq(Message)
             /\ queue[d] = <<>> <=> writer[d] = "none"
             /\ queue'[d] = queue[d] \o <<m>> /\ queue'[d] # <<>>
             /\ writer'[d] = IF writer[d] = "none" THEN "writing" ELSE writer[d]
  <2>1. /\ d \in Client
        /\ queue[d] \in Seq(Message) /\ wire[d] \in Seq(Message)
        /\ queue[d] = <<>> <=> writer[d] = "none"
    BY DEF IInv, TypeOK, WriteInProgress
  <2>2. queue'[d] = queue[d] \o <<m>> /\ writer'[d] = WriterAfter(d, <<m>>)
    BY <1>2, <2>1 DEF DeliverAll
  <2>3. queue'[d] # <<>>
    BY <1>1, <2>1, <2>2
  <2> QED BY <2>1, <2>2, <2>3 DEF WriterAfter
<1>5. CutOff' = CutOff
  <2>1. \A d \in Client : d \in CutOff' <=> d \in CutOff
    BY <1>3, <1>4 DEF CutOff
  <2> QED BY <2>1 DEF CutOff
<1>6. ASSUME NEW d \in Client \ (participants \ CutOff)
      PROVE  FeedOf(d)' = FeedOf(d)
  <2>1. CASE d \in CutOff
    BY <1>2, <1>5, <2>1 DEF FeedOf
  <2>2. CASE d \notin participants
    BY <1>2, <1>3, <1>5, <2>2 DEF FeedOf, Stream
  <2> QED BY <2>1, <2>2
<1>7. ASSUME NEW d \in participants \ CutOff
      PROVE  FeedOf(d)' = Append(FeedOf(d), m)
  <2>1. FeedOf(d) = Stream(d) /\ FeedOf(d)' = Stream(d)'
    BY <1>5 DEF FeedOf
  <2>2. CASE writer[d] = "done"
    <3>1. queue[d] # <<>> /\ Tail(queue[d]) \in Seq(Message)
      BY <1>4, <2>2
    <3>2. Tail(queue[d] \o <<m>>) = Tail(queue[d]) \o <<m>>
      BY <1>1, <1>4, <3>1, TailConcat
    <3>3. /\ Stream(d) = wire[d] \o Tail(queue[d])
          /\ Stream(d)' = wire[d] \o (Tail(queue[d]) \o <<m>>)
      BY <1>2, <1>4, <2>2, <3>2 DEF Stream
    <3>4. wire[d] \o (Tail(queue[d]) \o <<m>>) = (wire[d] \o Tail(queue[d])) \o <<m>>
      BY <1>1, <1>4, <3>1, ConcatOne
    <3>5. wire[d] \o Tail(queue[d]) \in Seq(Message)
      BY <1>4, <3>1
    <3> QED BY <1>1, <2>1, <3>3, <3>4, <3>5, ConcatIsAppend
  <2>3. CASE writer[d] # "done"
    <3>1. /\ Stream(d) = wire[d] \o queue[d]
          /\ Stream(d)' = wire[d] \o (queue[d] \o <<m>>)
      BY <1>2, <1>4, <2>3 DEF Stream
    <3>2. wire[d] \o (queue[d] \o <<m>>) = (wire[d] \o queue[d]) \o <<m>>
      BY <1>1, <1>4, ConcatOne
    <3>3. wire[d] \o queue[d] \in Seq(Message)
      BY <1>4
    <3> QED BY <1>1, <2>1, <3>1, <3>2, <3>3, ConcatIsAppend
  <2> QED BY <2>2, <2>3
<1>8. [d \in Client |-> FeedOf(d)]' =
         [d \in Client |-> IF d \in participants \ CutOff
                           THEN Append([e \in Client |-> FeedOf(e)][d], m)
                           ELSE [e \in Client |-> FeedOf(e)][d]]
  BY <1>6, <1>7
<1>9. Feed!Say(m)
  BY <1>2, <1>5, <1>8 DEF Feed!Say
<1> QED BY <1>1, <1>9

\* Every step of the server is a step of the feed, or none.
LEMMA NextIsFeedStep ==
    ASSUME IInv, RecentIsEndOfLog, [Next]_vars
    PROVE  [Feed!Next]_(Feed!vars)
<1>1. CASE UNCHANGED vars
  BY <1>1 DEF vars, sessionVars, roomVars, Feed!vars, FeedOf, CutOff, Stream
<1>2. ASSUME NEW c \in Client,
             \/ ClientStep(c) \/ SocketStep(c) \/ Accept(c)
             \/ ReadHandler(c) \/ WriteHandler(c)
      PROVE  [Feed!Next]_(Feed!vars)
  <2>1. CASE ClientStep(c) \/ ReadHeader(c) \/ Written(c)
    BY <2>1, FeedUnchanged
  <2>2. CASE Accept(c)
    BY <2>2, AcceptIsJoin DEF Feed!Next
  <2>3. CASE WriteDone(c)
    BY <2>3, WriteDoneIsSee DEF Feed!Next
  <2>4. CASE WriteFailed(c)
    BY <2>4, WriteFailedIsCutOff DEF Feed!Next
  <2>5. CASE ReadHeaderError(c) \/ ReadBodyError(c) \/ WriteError(c)
    BY <2>5, ErrorIsLeave DEF Feed!Next
  <2>6. CASE ReadBody(c)
    BY <2>6, ReadBodyIsSay DEF Feed!Next
  <2> QED
    BY <1>2, <2>1, <2>2, <2>3, <2>4, <2>5, <2>6
       DEF SocketStep, ReadHandler, WriteHandler
<1> QED BY <1>1, <1>2 DEF Next

\* The room, its sessions and their sockets implement the safety part of
\* ChatFeed: every run of the server, seen through the mapping, is a run of
\* the conversation and its feeds.
THEOREM ServerImplementsFeed == Spec => Feed!Safety
<1>1. IInv /\ RecentIsEndOfLog /\ [Next]_vars => [Feed!Next]_(Feed!vars)
  BY NextIsFeedStep
<1> QED BY <1>1, FeedInit, StreamInvariance, PTL DEF Spec, Feed!Safety

-----------------------------------------------------------------------------
(* The messages of one client enter the room in the order it sent them.    *)

\* The room has been given the first n messages of c, and no later one nor
\* one mixed from two frames.
HeardUpTo(c, n) ==
    \A m \in Message :
        m.from = c => ((\E j \in 1..Len(log) : log[j] = m) <=> m.num \in 1..n)

\* What a client sends starts with a header, or with junk in its place.
IsStart(u) == u.part \in {"header", "junk"}

\* A header is followed by the body of the same message, and a message by the
\* next one.
Follows(u, v) ==
    /\ u.part = "header" => v.part = "body" /\ v.msg.num = u.msg.num
    /\ u.part # "header" => IsStart(v) /\ v.msg.num = u.msg.num + 1

\* The unread input of c goes on after the message n, where its session's
\* reading has got to, and reaches to the latest frame the client has sent;
\* while a body is to be read, read_msg_ holds the header it belongs to.
GoesOnAfter(c, n) ==
    LET units == inbox[c]
    IN  /\ reader[c] = "body" => header[c] = n + 1
        /\ \A i \in 1..Len(units) : units[i].msg.from = c
        /\ \A i \in 1..Len(units) - 1 : Follows(units[i], units[i + 1])
        /\ units # <<>> =>
              /\ units[1].msg.num = n + 1
              /\ reader[c] = "body" => units[1].part = "body"
              /\ reader[c] # "body" => IsStart(units[1])
              /\ units[Len(units)].msg.num = sent[c]
              /\ units[Len(units)].part = "header" => peer[c] = "reset"
        /\ units = <<>> =>
              /\ reader[c] = "body" => sent[c] = n + 1 /\ peer[c] = "reset"
              /\ reader[c] # "body" => sent[c] = n

\* As long as c has a session that reads, or none yet, the room has heard all
\* its messages but those that are on their way.
InputIsNext ==
    \A c \in Client :
        \E n \in 0..MaxSends :
            /\ HeardUpTo(c, n)
            /\ c \notin started \/ reader[c] # "none" => GoesOnAfter(c, n)

\* What leaves a client's input and its reading alone keeps them in order.
LEMMA SameInput ==
    ASSUME NEW c \in Client, NEW n \in 0..MaxSends, GoesOnAfter(c, n),
           inbox'[c] = inbox[c], sent'[c] = sent[c], header'[c] = header[c],
           reader'[c] = "body" <=> reader[c] = "body",
           peer[c] = "reset" => peer'[c] = "reset"
    PROVE  GoesOnAfter(c, n)'
BY DEF GoesOnAfter, Follows, IsStart

\* A client sends its next message, whole, as junk, or by half and for the
\* last time.
LEMMA SendKeepsInput ==
    ASSUME IInv, NEW c \in Client, NEW n \in 0..MaxSends, GoesOnAfter(c, n),
           Send(c) \/ SendJunk(c) \/ SendHalfAndReset(c)
    PROVE  GoesOnAfter(c, n)'
<1> DEFINE u == inbox[c]
           w == inbox'[c]
           s == sent[c]
<1>1. /\ u \in Seq(Unit) /\ s \in Nat
      /\ peer[c] = "open" /\ reader'[c] = reader[c] /\ sent'[c] = s + 1
      /\ header'[c] = header[c]
  BY MaxSendsAssumption DEF Send, SendJunk, SendHalfAndReset, SendParts,
     sessionVars, IInv, TypeOK
<1>2. ASSUME NEW ps \in {<<"header", "body">>, <<"junk">>, <<"header">>},
             SendParts(c, ps)
      PROVE  /\ Len(w) = Len(u) + Len(ps)
             /\ \A i \in 1..Len(u) : w[i] = u[i]
             /\ \A i \in 1..Len(ps) : /\ w[Len(u) + i].part = ps[i]
                                      /\ w[Len(u) + i].msg.from = c
                                      /\ w[Len(u) + i].msg.num = s + 1
  <2> DEFINE new == [i \in 1..Len(ps) |-> PartOf(ps[i], NextMessage(c))]
  <2>1. w = u \o new
    BY <1>2 DEF SendParts, IInv, TypeOK
  <2>2. /\ Len(new) = Len(ps) /\ Len(ps) \in {1, 2}
        /\ \A i \in 1..Len(ps) : new[i] = PartOf(ps[i], NextMessage(c))
    OBVIOUS
  <2>3. /\ Len(w) = Len(u) + Len(ps)
        /\ \A i \in 1..Len(u) : w[i] = u[i]
        /\ \A i \in 1..Len(ps) : w[Len(u) + i] = new[i]
    <3>1. NextMessage(c) \in Message
      BY <1>2, <1>1, MaxSendsAssumption DEF SendParts, NextMessage, Message, IInv, TypeOK
    <3>2. \A i \in 1..Len(ps) : PartOf(ps[i], NextMessage(c)) \in Unit
      BY <3>1 DEF PartOf, Unit
    <3>3. new \in Seq(Unit)
      BY <3>2
    <3> HIDE DEF u, w, new
    <3>4. Len(new) \in Nat /\ Len(u) \in Nat
      BY <1>1, <3>3
    <3>5. /\ Len(u \o new) = Len(u) + Len(new)
          /\ \A i \in 1..Len(u) : (u \o new)[i] = u[i]
          /\ \A i \in 1..Len(new) : (u \o new)[Len(u) + i] = new[i]
      BY <1>1, <3>3, <3>4
    <3> QED BY <2>1, <2>2, <3>5, Zenon
  <2> HIDE DEF u, w, new
  <2>4. ASSUME NEW i \in 1..Len(ps)
        PROVE  /\ w[Len(u) + i].part = ps[i]
               /\ w[Len(u) + i].msg.from = c
               /\ w[Len(u) + i].msg.num = s + 1
    <3>1. w[Len(u) + i] = PartOf(ps[i], NextMessage(c))
      BY <2>2, <2>3
    <3> QED BY <3>1 DEF PartOf, NextMessage, s
  <2> QED BY <2>3, <2>4, Zenon
<1>3. /\ reader[c] = "body" => header[c] = n + 1
      /\ \A i \in 1..Len(u) : u[i].msg.from = c
      /\ \A i \in 1..Len(u) - 1 : Follows(u[i], u[i + 1])
      /\ Len(u) # 0 => /\ u[1].msg.num = n + 1
                       /\ reader[c] = "body" => u[1].part = "body"
                       /\ reader[c] # "body" => IsStart(u[1])
                       /\ u[Len(u)].msg.num = s
                       /\ u[Len(u)].part # "header"
      /\ Len(u) = 0 => reader[c] # "body" /\ s = n
  <2>1. u = <<>> <=> Len(u) = 0
    BY <1>1
  <2>2. peer[c] # "reset"
    BY <1>1
  <2> QED BY <2>1, <2>2 DEF GoesOnAfter
<1>4. ASSUME NEW k \in 1..2, Len(w) = Len(u) + k,
             \A i \in 1..Len(u) : w[i] = u[i],
             \A i \in 1..k : w[Len(u) + i].msg.from = c
                             /\ w[Len(u) + i].msg.num = s + 1,
             \/ k = 1 /\ w[Len(u) + 1].part = "junk"
             \/ k = 1 /\ w[Len(u) + 1].part = "header" /\ peer'[c] = "reset"
             \/ k = 2 /\ w[Len(u) + 1].part = "header" /\ w[Len(u) + 2].part = "body"
      PROVE  GoesOnAfter(c, n)'
  <2> HIDE DEF u, w, s
  <2>1. Len(u) \in Nat /\ n \in Nat
    BY <1>1, MaxSendsAssumption
  <2>2. \A i \in 1..Len(w) : w[i].msg.from = c
    <3> SUFFICES ASSUME NEW i \in 1..Len(w) PROVE w[i].msg.from = c
      OBVIOUS
    <3>1. CASE i \in 1..Len(u)
      BY <1>3, <1>4, <3>1
    <3>2. CASE i - Len(u) \in 1..k
      <4>1. i = Len(u) + (i - Len(u))
        BY <2>1, <1>4
      <4> QED BY <1>4, <3>2, <4>1
    <3> QED BY <1>4, <2>1, <3>1, <3>2
  <2>3. \A i \in 1..Len(w) - 1 : Follows(w[i], w[i + 1])
    <3> SUFFICES ASSUME NEW i \in 1..Len(w) - 1 PROVE Follows(w[i], w[i + 1])
      OBVIOUS
    <3>1. CASE i \in 1..Len(u) - 1
      <4>1. i \in 1..Len(u) /\ i + 1 \in 1..Len(u)
        BY <2>1, <3>1
      <4> QED BY <1>3, <1>4, <3>1, <4>1
    <3>2. CASE i = Len(u)
      <4>1. w[i] = u[Len(u)] /\ Len(u) # 0
        BY <1>4, <2>1, <3>2
      <4>2. IsStart(w[i + 1]) /\ w[i + 1].msg.num = s + 1
        BY <1>4, <2>1, <3>2 DEF IsStart
      <4> QED BY <1>3, <4>1, <4>2 DEF Follows
    <3>3. CASE i = Len(u) + 1
      <4>1. k = 2 /\ i + 1 = Len(u) + 2
        BY <1>4, <2>1, <3>3
      <4> QED BY <1>4, <2>1, <3>3, <4>1 DEF Follows
    <3> QED BY <1>4, <2>1, <3>1, <3>2, <3>3
  <2>4. Len(w) >= 1
    BY <1>4, <2>1
  <2>5. /\ w[1].msg.num = n + 1
        /\ reader[c] = "body" => w[1].part = "body"
        /\ reader[c] # "body" => IsStart(w[1])
    <3>1. CASE Len(u) = 0
      BY <1>3, <1>4, <3>1 DEF IsStart
    <3>2. CASE Len(u) # 0
      <4>1. w[1] = u[1]
        BY <1>4, <2>1, <3>2
      <4> QED BY <1>3, <3>2, <4>1
    <3> QED BY <3>1, <3>2
  <2>6. /\ w[Len(w)].msg.num = s + 1
        /\ w[Len(w)].part = "header" => peer'[c] = "reset"
    BY <1>4, <2>1
  <2>7. w # <<>>
    BY <2>4
  <2> QED BY <1>1, <1>3, <2>2, <2>3, <2>5, <2>6, <2>7 DEF GoesOnAfter, Follows, IsStart, w
<1>5. CASE Send(c)
  <2>1. SendParts(c, <<"header", "body">>)
    BY <1>5 DEF Send
  <2> HIDE DEF u, w, s
  <2> QED BY <1>2, <1>4, <2>1
<1>6. CASE SendJunk(c)
  <2>1. SendParts(c, <<"junk">>)
    BY <1>6 DEF SendJunk
  <2> HIDE DEF u, w, s
  <2> QED BY <1>2, <1>4, <2>1
<1>7. CASE SendHalfAndReset(c)
  <2>1. SendParts(c, <<"header">>) /\ peer'[c] = "reset"
    BY <1>7 DEF SendHalfAndReset, IInv, TypeOK
  <2> HIDE DEF u, w, s
  <2> QED BY <1>2, <1>4, <2>1
<1> QED BY <1>5, <1>6, <1>7

\* A handler that has read a header waits for its body; one that has read a
\* body has the next message of its client, and waits for the one after it.
LEMMA ReadKeepsInput ==
    ASSUME IInv, NEW c \in Client, NEW n \in 0..MaxSends, GoesOnAfter(c, n)
    PROVE  /\ ReadHeader(c) => GoesOnAfter(c, n)'
           /\ ReadBody(c) => /\ n + 1 \in 0..MaxSends
                             /\ ReadMsg(c) = [from |-> c, num |-> n + 1]
                             /\ GoesOnAfter(c, n + 1)'
<1> SUFFICES ASSUME ReadHeader(c) \/ ReadBody(c)
             PROVE  /\ ReadHeader(c) => GoesOnAfter(c, n)'
                    /\ ReadBody(c) => /\ n + 1 \in 0..MaxSends
                                      /\ ReadMsg(c) = [from |-> c, num |-> n + 1]
                                      /\ GoesOnAfter(c, n + 1)'
  OBVIOUS
<1> DEFINE u == inbox[c]
           w == inbox'[c]
<1>1. /\ u \in Seq(Unit) /\ u # <<>> /\ w = Tail(u)
      /\ sent' = sent /\ peer' = peer /\ sent[c] \in Nat
  BY MaxSendsAssumption DEF ReadHeader, ReadsHeader, ReadBody, Reads, clientVars,
     IInv, TypeOK
<1>2. /\ Len(u) \in Nat \ {0} /\ Len(w) = Len(u) - 1
      /\ \A i \in 1..Len(w) : w[i] = u[i + 1]
      /\ Head(u) = u[1] /\ u[1] \in Unit
      /\ w = <<>> <=> Len(w) = 0
  <2> HIDE DEF u, w
  <2>1. Len(u) \in Nat \ {0} /\ Head(u) = u[1] /\ u[1] \in Unit
    BY <1>1
  <2>2. w \in Seq(Unit) /\ Len(w) = Len(u) - 1
    BY <1>1
  <2>3. \A i \in 1..Len(w) : w[i] = u[i + 1]
    BY <1>1, <2>1, <2>2
  <2>4. w = <<>> <=> Len(w) = 0
    BY <2>2
  <2> QED BY <2>1, <2>2, <2>3, <2>4
<1>3. /\ ReadBody(c) => header[c] = n + 1
      /\ \A i \in 1..Len(u) : u[i].msg.from = c
      /\ \A i \in 1..Len(u) - 1 : Follows(u[i], u[i + 1])
      /\ u[1].msg.num = n + 1
      /\ u[Len(u)].msg.num = sent[c]
      /\ u[Len(u)].part = "header" => peer[c] = "reset"
  BY <1>1 DEF GoesOnAfter, ReadBody
<1>4. /\ ReadHeader(c) => u[1].part = "header" /\ reader'[c] = "body"
      /\ ReadBody(c) => u[1].part = "body" /\ reader'[c] = "header"
  BY <1>2 DEF ReadHeader, ReadsHeader, ReadBody, Reads, IInv, TypeOK
<1>5. u[1].msg = [from |-> c, num |-> n + 1] /\ n + 1 \in 1..MaxSends
  BY <1>2, <1>3, MaxSendsAssumption DEF Unit, Message
<1>12. ReadBody(c) => ReadMsg(c) = [from |-> c, num |-> n + 1]
  BY <1>2, <1>3, <1>5 DEF ReadMsg
<1>13. ReadHeader(c) => header'[c] = n + 1
  BY <1>2, <1>5 DEF ReadHeader, ReadsHeader, IInv, TypeOK
<1> HIDE DEF u, w
<1>6. \A i \in 1..Len(w) : w[i].msg.from = c
  BY <1>2, <1>3
<1>7. \A i \in 1..Len(w) - 1 : Follows(w[i], w[i + 1])
  <2> SUFFICES ASSUME NEW i \in 1..Len(w) - 1 PROVE Follows(w[i], w[i + 1])
    OBVIOUS
  <2>1. /\ i + 1 \in 1..Len(u) - 1
        /\ w[i] = u[i + 1] /\ w[i + 1] = u[(i + 1) + 1]
    BY <1>2
  <2> QED BY <1>3, <2>1
<1>8. Len(w) # 0 => /\ Follows(u[1], w[1])
                   /\ w[Len(w)] = u[Len(u)]
  <2> SUFFICES ASSUME Len(w) # 0
               PROVE  Follows(u[1], w[1]) /\ w[Len(w)] = u[Len(u)]
    OBVIOUS
  <2>1. 1 \in 1..Len(u) - 1 /\ w[1] = u[1 + 1]
    BY <1>2
  <2> QED BY <1>2, <1>3, <2>1
<1>9. Len(w) = 0 => u[Len(u)] = u[1]
  <2>1. Len(w) = 0 => Len(u) = 1
    BY <1>2
  <2> QED BY <2>1
<1>10. CASE ReadHeader(c)
  <2>1. Len(w) # 0 => w[1].part = "body" /\ w[1].msg.num = n + 1
    BY <1>3, <1>4, <1>8, <1>10 DEF Follows
  <2>2. Len(w) = 0 => sent[c] = n + 1 /\ peer[c] = "reset"
    BY <1>3, <1>4, <1>9, <1>10
  <2>3. GoesOnAfter(c, n)'
    BY <1>1, <1>13, <1>2, <1>3, <1>4, <1>6, <1>7, <1>8, <1>10, <2>1, <2>2
       DEF GoesOnAfter, Follows, IsStart, w
  <2> QED BY <1>4, <1>10, <2>3
<1>11. CASE ReadBody(c)
  <2>1. Len(w) # 0 => IsStart(w[1]) /\ w[1].msg.num = (n + 1) + 1
    BY <1>3, <1>4, <1>8, <1>11 DEF Follows
  <2>2. Len(w) = 0 => sent[c] = n + 1
    BY <1>3, <1>9
  <2>3. GoesOnAfter(c, n + 1)'
    BY <1>1, <1>2, <1>3, <1>4, <1>6, <1>7, <1>8, <1>11, <2>1, <2>2
       DEF GoesOnAfter, Follows, IsStart, w
  <2> QED BY <1>4, <1>5, <1>11, <1>12, <2>3
<1> QED BY <1>10, <1>11

\* A step that adds nothing to the conversation keeps what has been heard.
LEMMA SameHeard ==
    ASSUME NEW c \in Client, NEW n \in 0..MaxSends, HeardUpTo(c, n), log' = log
    PROVE  HeardUpTo(c, n)'
BY DEF HeardUpTo

\* A message of c is the next one of c and none of anybody else.
LEMMA HearNext ==
    ASSUME log \in Seq(Message),
           NEW d \in Client, NEW n \in 0..MaxSends, HeardUpTo(d, n),
           NEW m \in Message, log' = Append(log, m)
    PROVE  /\ m.from # d => HeardUpTo(d, n)'
           /\ m.from = d /\ m.num = n + 1 => HeardUpTo(d, n + 1)'
<1>1. \A x \in Message :
         (\E j \in 1..Len(log') : log'[j] = x)
            <=> (\E j \in 1..Len(log) : log[j] = x) \/ x = m
  <2>1. /\ Len(log) \in Nat /\ Len(log') = Len(log) + 1
        /\ \A j \in 1..Len(log) : log'[j] = log[j]
        /\ log'[Len(log) + 1] = m
    OBVIOUS
  <2> QED BY <2>1
<1>2. CASE m.from # d
  BY <1>1, <1>2 DEF HeardUpTo
<1>3. CASE m.from = d /\ m.num = n + 1
  <2>1. ASSUME NEW x \in Message, x.from = d
        PROVE  x.num \in 1..n + 1 <=> x.num \in 1..n \/ x = m
    <3>1. x = m <=> x.num = n + 1
      BY <1>3, <2>1 DEF Message
    <3>2. n \in Nat /\ x.num \in Nat
      BY MaxSendsAssumption DEF Message
    <3> QED BY <3>1, <3>2
  <2> QED BY <1>1, <1>3, <2>1 DEF HeardUpTo
<1> QED BY <1>2, <1>3

\* Every step keeps the reading of every session in the order of sending.
LEMMA NextKeepsInput ==
    ASSUME IInv, InputIsNext, [Next]_vars
    PROVE  InputIsNext'
<1> SUFFICES ASSUME NEW d \in Client
             PROVE  \E n \in 0..MaxSends :
                       /\ HeardUpTo(d, n)'
                       /\ (d \notin started \/ reader[d] # "none")' => GoesOnAfter(d, n)'
  BY DEF InputIsNext
<1>1. PICK n \in 0..MaxSends :
         /\ HeardUpTo(d, n)
         /\ d \notin started \/ reader[d] # "none" => GoesOnAfter(d, n)
  BY DEF InputIsNext
<1>2. /\ peer \in [Client -> {"away", "open", "shut", "reset"}]
      /\ sent \in [Client -> 0..MaxSends] /\ inbox \in [Client -> Seq(Unit)]
      /\ reader \in [Client -> {"none", "header", "body"}]
      /\ log \in Seq(Message)
  BY DEF IInv, TypeOK
<1>3. ASSUME log' = log, inbox'[d] = inbox[d], sent'[d] = sent[d],
             header'[d] = header[d],
             peer[d] = "reset" => peer'[d] = "reset",
             \/ reader'[d] = reader[d] /\ (d \in started' <=> d \in started)
             \/ reader'[d] = "none" /\ d \in started'
             \/ reader'[d] = "header" /\ reader[d] = "none" /\ d \notin started
      PROVE  \E k \in 0..MaxSends :
                /\ HeardUpTo(d, k)'
                /\ (d \notin started \/ reader[d] # "none")' => GoesOnAfter(d, k)'
  BY <1>1, <1>3, SameHeard, SameInput
<1>4. CASE UNCHANGED vars
  BY <1>3, <1>4 DEF vars, clientVars, sessionVars, roomVars
<1>5. ASSUME NEW c \in Client, ClientStep(c)
      PROVE  \E k \in 0..MaxSends :
                /\ HeardUpTo(d, k)'
                /\ (d \notin started \/ reader[d] # "none")' => GoesOnAfter(d, k)'
  <2>1. UNCHANGED <<log, reader, header, started>>
    BY <1>5 DEF ClientStep, Connect, Send, SendJunk, SendHalfAndReset, SendParts,
                Shut, Reset, sessionVars, roomVars
  <2>2. CASE c # d
    <3>1. inbox'[d] = inbox[d] /\ sent'[d] = sent[d] /\ peer'[d] = peer[d]
      BY <1>2, <1>5, <2>2 DEF ClientStep, Connect, Send, SendJunk,
         SendHalfAndReset, SendParts, Shut, Reset
    <3> QED BY <1>3, <2>1, <3>1
  <2>3. CASE c = d /\ (Connect(c) \/ Shut(c) \/ Reset(c))
    <3>1. /\ inbox'[d] = inbox[d] /\ sent'[d] = sent[d]
          /\ peer[d] = "reset" => peer'[d] = "reset"
      BY <1>2, <2>3 DEF Connect, Shut, Reset
    <3> QED BY <1>3, <2>1, <3>1
  <2>4. CASE c = d /\ (Send(c) \/ SendJunk(c) \/ SendHalfAndReset(c))
    BY <1>1, <2>1, <2>4, SendKeepsInput, SameHeard
  <2> QED BY <1>5, <2>2, <2>3, <2>4 DEF ClientStep
<1>6. ASSUME NEW c \in Client, Accept(c) \/ SocketStep(c) \/ WriteHandler(c)
      PROVE  \E k \in 0..MaxSends :
                /\ HeardUpTo(d, k)'
                /\ (d \notin started \/ reader[d] # "none")' => GoesOnAfter(d, k)'
  <2>1. UNCHANGED <<log, inbox, header, sent, peer>>
    BY <1>6 DEF Accept, SessionStart, RoomJoin, SocketStep, WriteDone, WriteFailed,
                WriteHandler, Written, WriteError, RoomLeave, clientVars, roomVars
  <2>2. CASE Accept(c)
    BY <1>2, <1>3, <2>1, <2>2 DEF Accept, SessionStart, IInv, FreshIsEmpty
  <2>3. CASE SocketStep(c) \/ WriteHandler(c)
    <3>1. UNCHANGED <<reader, started>>
      BY <2>3 DEF SocketStep, WriteDone, WriteFailed, WriteHandler, Written, WriteError
    <3> QED BY <1>3, <2>1, <3>1
  <2> QED BY <1>6, <2>2, <2>3
<1>7. ASSUME NEW c \in Client, ReadHandler(c)
      PROVE  \E k \in 0..MaxSends :
                /\ HeardUpTo(d, k)'
                /\ (d \notin started \/ reader[d] # "none")' => GoesOnAfter(d, k)'
  <2>1. /\ UNCHANGED <<sent, peer, started>>
        /\ c # d => /\ inbox'[d] = inbox[d] /\ reader'[d] = reader[d]
                    /\ header'[d] = header[d]
    BY <1>2, <1>7 DEF ReadHandler, ReadHeader, ReadHeaderError, ReadsHeader,
       ReadBody, ReadBodyError, Reads, ReadFails, clientVars, IInv, TypeOK
  <2>2. CASE ReadHeaderError(c) \/ ReadBodyError(c)
    <3>1. /\ log' = log /\ reader' = [reader EXCEPT ![c] = "none"]
          /\ c \in started
      BY <2>2 DEF ReadHeaderError, ReadBodyError, RoomLeave, IInv, FreshIsEmpty
    <3>2. CASE c # d
      BY <1>3, <2>1, <3>1, <3>2
    <3>3. CASE c = d
      BY <1>1, <1>2, <2>1, <3>1, <3>3, SameHeard
    <3> QED BY <3>2, <3>3
  <2>3. CASE ReadHeader(c)
    <3>1. log' = log /\ reader[c] # "none"
      BY <2>3 DEF ReadHeader, roomVars
    <3>2. CASE c # d
      BY <1>3, <2>1, <3>1, <3>2
    <3>3. CASE c = d
      BY <1>1, <2>3, <3>1, <3>3, SameHeard, ReadKeepsInput
    <3> QED BY <3>2, <3>3
  <2>4. CASE ReadBody(c)
    <3> DEFINE m == ReadMsg(c)
    <3>1. PICK k \in 0..MaxSends : GoesOnAfter(c, k) /\ HeardUpTo(c, k)
      BY <2>4 DEF InputIsNext, ReadBody
    <3>2. /\ k + 1 \in 0..MaxSends /\ m = [from |-> c, num |-> k + 1]
          /\ GoesOnAfter(c, k + 1)'
      BY <2>4, <3>1, ReadKeepsInput
    <3>3. log' = Append(log, m)
      BY <2>4 DEF ReadBody, RoomDeliver
    <3>4. m \in Message
      BY <3>2, MaxSendsAssumption DEF Message
    <3> HIDE DEF m
    <3>5. CASE c = d
      <4>1. HeardUpTo(d, k + 1)'
        BY <1>2, <3>1, <3>2, <3>3, <3>4, <3>5, HearNext
      <4> QED BY <3>2, <3>5, <4>1
    <3>6. CASE c # d
      <4>1. HeardUpTo(d, n)'
        BY <1>1, <1>2, <3>2, <3>3, <3>4, <3>6, HearNext
      <4>2. d \notin started \/ reader[d] # "none" => GoesOnAfter(d, n)'
        BY <1>1, <2>1, <3>6, SameInput
      <4> QED BY <2>1, <3>6, <4>1, <4>2
    <3> QED BY <3>5, <3>6
  <2> QED BY <1>7, <2>2, <2>3, <2>4 DEF ReadHandler
<1> QED BY <1>4, <1>5, <1>6, <1>7 DEF Next

\* A message read is the next of its client, so that the messages of every
\* client stay in the order of their numbers.
LEMMA NextKeepsOrder ==
    ASSUME IInv, InputIsNext, SendersInOrder, [Next]_vars
    PROVE  SendersInOrder'
<1>1. CASE log' = log
  BY <1>1 DEF SendersInOrder
<1>2. CASE \E c \in Client : ReadBody(c)
  <2>1. PICK c \in Client : ReadBody(c)
    BY <1>2
  <2> DEFINE m == ReadMsg(c)
  <2>2. PICK k \in 0..MaxSends : GoesOnAfter(c, k) /\ HeardUpTo(c, k)
    BY <2>1 DEF InputIsNext, ReadBody
  <2>3. m = [from |-> c, num |-> k + 1] /\ log' = Append(log, m) /\ k + 1 \in 0..MaxSends
    BY <2>1, <2>2, ReadKeepsInput DEF ReadBody, RoomDeliver
  <2>4. log \in Seq(Message) /\ m \in Message
    BY <2>3, MaxSendsAssumption DEF IInv, TypeOK, Message
  <2> HIDE DEF m
  <2>5. /\ Len(log) \in Nat /\ Len(log') = Len(log) + 1
        /\ \A j \in 1..Len(log) : log'[j] = log[j]
        /\ log'[Len(log) + 1] = m
    BY <2>3, <2>4
  <2>8. \A i \in 1..Len(log') : log'[i].num # 0
    BY <2>3, <2>5, MaxSendsAssumption DEF SendersInOrder
  <2> SUFFICES ASSUME NEW i \in 1..Len(log'), NEW n \in 1..MaxSends
               PROVE  (\E j \in 1..i - 1 : log'[j] = [log'[i] EXCEPT !.num = n])
                         <=> n < log'[i].num
    BY <2>8 DEF SendersInOrder
  <2>6. CASE i \in 1..Len(log)
    <3>1. \A j \in 1..i : log'[j] = log[j]
      BY <2>5, <2>6
    <3>2. (\E j \in 1..i - 1 : log[j] = [log[i] EXCEPT !.num = n]) <=> n < log[i].num
      BY <2>6 DEF SendersInOrder
    <3> QED BY SMTT(30), <2>6, <3>1, <3>2
  <2>7. CASE i = Len(log) + 1
    <3> DEFINE x == [from |-> c, num |-> n]
    <3>1. log'[i] = m /\ [m EXCEPT !.num = n] = x /\ x.from = c /\ x.num = n
      BY <2>3, <2>5, <2>7
    <3>2. x \in Message
      BY DEF Message
    <3> HIDE DEF x
    <3>3. (\E j \in 1..Len(log) : log[j] = x) <=> n \in 1..k
      BY <2>2, <3>1, <3>2 DEF HeardUpTo
    <3>4. i - 1 = Len(log) /\ m.num = k + 1 /\ (n \in 1..k <=> n < k + 1)
      BY <2>3, <2>5, <2>7, MaxSendsAssumption
    <3> QED BY <2>5, <3>1, <3>3, <3>4
  <2> QED BY <2>5, <2>6, <2>7
<1>3. log' = log \/ \E c \in Client : ReadBody(c)
  BY DEF Next, ClientStep, Connect, Send, SendJunk, SendHalfAndReset, SendParts,
     Shut, Reset, SocketStep, WriteDone, WriteFailed, Accept, SessionStart,
     RoomJoin, ReadHandler, ReadHeader, ReadHeaderError, ReadBodyError,
     WriteHandler, Written, WriteError, RoomLeave, vars, roomVars
<1> QED BY <1>1, <1>2, <1>3

\* The messages of one client enter the room in the order it sent them, none
\* skipped and none twice, each with the header and the body of one frame.
THEOREM SendersCorrect == Spec => []SendersInOrder
<1>1. Init => InputIsNext /\ SendersInOrder
  <2> SUFFICES ASSUME Init PROVE InputIsNext /\ SendersInOrder
    OBVIOUS
  <2>1. Len(log) = 0 /\ 1..Len(log) = {}
    BY DEF Init
  <2>2. ASSUME NEW c \in Client PROVE HeardUpTo(c, 0) /\ GoesOnAfter(c, 0)
    <3>1. HeardUpTo(c, 0)
      BY <2>1 DEF HeardUpTo, Message
    <3>2. inbox[c] = <<>> /\ reader[c] = "none" /\ sent[c] = 0
      BY DEF Init
    <3> QED BY <3>1, <3>2 DEF GoesOnAfter
  <2> QED BY <2>1, <2>2, MaxSendsAssumption DEF InputIsNext, SendersInOrder
<1>2. IInv /\ InputIsNext /\ SendersInOrder /\ [Next]_vars
         => InputIsNext' /\ SendersInOrder'
  BY NextKeepsInput, NextKeepsOrder
<1> QED BY <1>1, <1>2, Invariance, PTL DEF Spec
=============================================================================
