--------------------------- MODULE ChatClientProofs ---------------------------
(***************************************************************************)
(* That ChatClient's variables keep their types, that a line is never      *)
(* queued behind a write that nobody starts, and that the lines keep their *)
(* order, for any numbers of lines, frames and endpoints.  The first two   *)
(* need each other: a handler takes the head of write_msgs_, which must    *)
(* not be empty, and a socket that has been closed must never be used for  *)
(* another attempt to connect.                                             *)
(*                                                                         *)
(* At the end, what is proved of ChatMessage, the codec that the client    *)
(* frames its lines with.                                                  *)
(***************************************************************************)
EXTENDS ChatClient, ChatMessage, SequenceTheorems, TLAPS

\* An attempt to connect is under way only on a socket that is connecting.
AttemptNeedsSocket == connect = "pending" => socket = "connecting"

-----------------------------------------------------------------------------
(* The conjuncts of TypeOK, with what strengthens them, grouped as the     *)
(* variables are: what is posted, the socket, the reader, the writer and   *)
(* the server.  Together they are the inductive invariant.                 *)

MainOK ==
    /\ typed \in 0..MaxLines
    /\ main \in {"input", "joining", "done"}
    /\ posted \in Seq(0..MaxLines)
    /\ running \in BOOLEAN

SocketOK ==
    /\ tries \in 0..Endpoints - 1
    /\ socket \in {"connecting", "connected", "refused", "closed"}
    /\ connect \in {"none", "pending", "ok", "refused", "aborted"}
    /\ AttemptNeedsSocket

ReadOK ==
    /\ reader \in {"none", "header", "body"}
    /\ readState \in {"none", "pending", "header", "junk", "body", "failed"}
    /\ reader = "none" <=> readState = "none"

WriteOK ==
    /\ writer \in {"none", "pending", "ok", "failed"}
    /\ queue \in Seq(1..MaxLines)
    /\ wire \in Seq(1..MaxLines)
    /\ WriteInProgress

ServerOK ==
    /\ inbound \in Seq({"header", "junk", "body"})
    /\ frames \in 0..MaxFrames
    /\ link \in {"up", "down"}

IInv == MainOK /\ SocketOK /\ ReadOK /\ WriteOK /\ ServerOK

\* What a step leaves alone keeps its type.  The socket counts among the
\* writer's variables, since a queued line excuses itself with a closed one.
LEMMA Unchanged ==
    /\ MainOK /\ UNCHANGED <<typed, main, posted, running>> => MainOK'
    /\ SocketOK /\ UNCHANGED <<tries, socket, connect>> => SocketOK'
    /\ ReadOK /\ UNCHANGED <<reader, readState>> => ReadOK'
    /\ WriteOK /\ UNCHANGED <<writer, queue, wire, socket>> => WriteOK'
    /\ ServerOK /\ UNCHANGED <<inbound, frames, link>> => ServerOK'
BY DEF MainOK, SocketOK, ReadOK, WriteOK, ServerOK, AttemptNeedsSocket,
       WriteInProgress

-----------------------------------------------------------------------------
\* The constructor starts the first attempt; nothing is queued yet.
LEMMA InitIInv == Init => IInv
<1> SUFFICES ASSUME Init PROVE IInv
  OBVIOUS
<1>1. MainOK
  BY BoundsAssumption DEF Init, MainOK
<1>2. SocketOK
  BY EndpointsAssumption DEF Init, SocketOK, AttemptNeedsSocket
<1>3. ReadOK
  BY DEF Init, ReadOK
<1>4. WriteOK
  BY DEF Init, WriteOK, WriteInProgress
<1>5. ServerOK
  BY BoundsAssumption DEF Init, ServerOK
<1> QED
  BY <1>1, <1>2, <1>3, <1>4, <1>5 DEF IInv

\* What socket_.close() leaves behind: it ends a read or write, and makes
\* neither.  The handlers that call it pass the state they leave.
LEMMA CloseKeeps ==
    ASSUME SocketOK, WriteOK, NEW reading, NEW writing,
           reading \in {"none", "pending", "header", "junk", "body", "failed"},
           writing \in {"none", "pending", "ok", "failed"},
           writing = writer \/ writing = "none",
           Close(reading, writing), UNCHANGED <<tries, queue, wire>>
    PROVE  /\ SocketOK'
           /\ WriteOK'
           /\ readState' \in {"none", "header", "junk", "body", "failed"}
           /\ readState' = "none" <=> reading = "none"
BY DEF SocketOK, WriteOK, Close, Abort, AttemptNeedsSocket, WriteInProgress

\* The heads and the frames that the steps below handle.
LEMMA Frames ==
    ASSUME NEW S, NEW a \in S, NEW b \in S
    PROVE  <<>> \in Seq(S) /\ <<a>> \in Seq(S) /\ <<a, b>> \in Seq(S)
OBVIOUS

LEMMA HeadIsElement ==
    ASSUME NEW S, NEW s \in Seq(S), s # <<>>
    PROVE  Head(s) \in S
OBVIOUS

\* The main thread's steps, and the server's.
LEMMA OthersKeep ==
    ASSUME IInv, TypeLine \/ EndInput \/ Join \/ Server
    PROVE  IInv'
<1> USE Unchanged DEF IInv, mainVars, socketVars, readVars, writeVars, serverVars
<1>1. CASE TypeLine
  <2>1. MainOK'
    BY <1>1, BoundsAssumption DEF TypeLine, MainOK
  <2> QED
    BY <1>1, <2>1 DEF TypeLine
<1>2. CASE EndInput
  <2>1. MainOK'
    BY <1>2, BoundsAssumption DEF EndInput, MainOK
  <2> QED
    BY <1>2, <2>1 DEF EndInput
<1>3. CASE Join
  <2>1. MainOK'
    BY <1>3 DEF Join, MainOK
  <2> QED
    BY <1>3, <2>1 DEF Join
<1>4. CASE Server
  <2>1. ServerOK'
    <3>1. ASSUME NEW frame \in {<<"header", "body">>, <<"junk">>},
                 ServerSends(frame)
          PROVE  ServerOK'
      <4>1. frame \in Seq({"header", "junk", "body"})
        BY Frames
      <4>2. inbound \o frame \in Seq({"header", "junk", "body"})
        BY <4>1 DEF ServerOK
      <4>3. frames' \in 0..MaxFrames
        BY <3>1, BoundsAssumption DEF ServerSends, ServerOK
      <4> QED
        BY <3>1, <4>2, <4>3 DEF ServerSends, ServerOK
    <3>2. ASSUME NEW half \in {<<>>, <<"header">>}, ServerGoes(half)
          PROVE  ServerOK'
      <4>1. half \in Seq({"header", "junk", "body"})
        BY Frames
      <4>2. inbound \o half \in Seq({"header", "junk", "body"})
        BY <4>1 DEF ServerOK
      <4> QED
        BY <3>2, <4>2 DEF ServerGoes, ServerOK
    <3> QED
      BY <1>4, <3>1, <3>2 DEF Server
  <2>2. UNCHANGED <<mainVars, posted, running, socketVars, readVars, writeVars>>
    BY <1>4 DEF Server, ServerSends, ServerGoes
  <2> QED
    BY <2>1, <2>2 DEF socketVars
<1> QED
  BY <1>1, <1>2, <1>3, <1>4

\* What the network does: it completes or fails what is pending.
LEMMA NetworkKeeps == ASSUME IInv, Network PROVE IInv'
<1> USE Unchanged DEF IInv, mainVars, socketVars, readVars, writeVars, serverVars
<1>1. CASE Connected
  <2>1. SocketOK' /\ WriteOK'
    BY <1>1 DEF Connected, SocketOK, WriteOK, AttemptNeedsSocket,
                WriteInProgress
  <2> QED
    BY <1>1, <2>1 DEF Connected
<1>2. CASE Refused
  <2>1. SocketOK' /\ WriteOK'
    BY <1>2 DEF Refused, SocketOK, WriteOK, AttemptNeedsSocket, WriteInProgress
  <2> QED
    BY <1>2, <2>1 DEF Refused
<1>3. CASE ReadCompletes
  <2>1. ReadOK' /\ ServerOK'
    BY <1>3 DEF ReadCompletes, ReadOK, ServerOK
  <2> QED
    BY <1>3, <2>1 DEF ReadCompletes
<1>4. CASE ReadFails
  <2>1. ReadOK'
    BY <1>4 DEF ReadFails, ReadOK
  <2> QED
    BY <1>4, <2>1 DEF ReadFails
<1>5. CASE WriteCompletes
  <2>1. Head(queue) \in 1..MaxLines
    BY <1>5, HeadIsElement DEF WriteCompletes, WriteOK, WriteInProgress
  <2>2. Append(wire, Head(queue)) \in Seq(1..MaxLines)
    BY <2>1 DEF WriteOK
  <2>3. WriteOK'
    BY <1>5, <2>2 DEF WriteCompletes, WriteOK, WriteInProgress
  <2> QED
    BY <1>5, <2>3 DEF WriteCompletes
<1>6. CASE WriteFails
  <2>1. WriteOK'
    BY <1>6 DEF WriteFails, WriteOK, WriteInProgress
  <2> QED
    BY <1>6, <2>1 DEF WriteFails
<1> QED
  BY <1>1, <1>2, <1>3, <1>4, <1>5, <1>6 DEF Network

\* What the io_context's thread runs: the posted lambdas and the handlers.
LEMMA IoThreadKeeps == ASSUME IInv, IoThread PROVE IInv'
<1> USE Unchanged DEF IInv, mainVars, socketVars, readVars, writeVars, serverVars
<1>1. CASE PostedLine
  <2>1. Head(posted) \in 1..MaxLines /\ Tail(posted) \in Seq(0..MaxLines)
    BY <1>1, BoundsAssumption DEF PostedLine, MainOK
  <2>2. MainOK'
    BY <1>1, <2>1 DEF PostedLine, MainOK
  <2>3. WriteOK'
    BY <1>1, <2>1 DEF PostedLine, WriteOK, WriteInProgress, Started
  <2> QED
    BY <1>1, <2>2, <2>3 DEF PostedLine
<1>2. CASE PostedClose
  <2>1. MainOK'
    BY <1>2 DEF PostedClose, MainOK
  <2>2. SocketOK' /\ WriteOK' /\ ReadOK'
    BY <1>2, CloseKeeps DEF PostedClose, ReadOK, WriteOK
  <2> QED
    BY <1>2, <2>1, <2>2 DEF PostedClose
<1>3. CASE OnConnectNext
  <2>1. SocketOK'
    BY <1>3, EndpointsAssumption DEF OnConnectNext, SocketOK, AttemptNeedsSocket
  <2>2. WriteOK'
    BY <1>3 DEF OnConnectNext, WriteOK, WriteInProgress
  <2> QED
    BY <1>3, <2>1, <2>2 DEF OnConnectNext
<1>4. CASE OnConnect
  <2>1. SocketOK'
    BY <1>4 DEF OnConnect, SocketOK, AttemptNeedsSocket
  <2>2. ReadOK'
    BY <1>4 DEF OnConnect, ReadOK
  <2> QED
    BY <1>4, <2>1, <2>2 DEF OnConnect
<1>5. CASE OnRead
  <2>1. ReadOK'
    BY <1>5 DEF OnRead, ReadOK, Started
  <2> QED
    BY <1>5, <2>1 DEF OnRead
<1>6. CASE OnReadError
  <2>1. SocketOK' /\ WriteOK' /\ readState' = "none"
    BY <1>6, CloseKeeps DEF OnReadError, WriteOK
  <2>2. ReadOK'
    BY <1>6, <2>1 DEF OnReadError, ReadOK
  <2> QED
    BY <1>6, <2>1, <2>2 DEF OnReadError
<1>7. CASE OnWritten
  <2>1. queue # <<>> /\ Tail(queue) \in Seq(1..MaxLines)
    BY <1>7 DEF OnWritten, WriteOK, WriteInProgress
  <2>2. WriteOK'
    BY <1>7, <2>1 DEF OnWritten, WriteOK, WriteInProgress, Started
  <2> QED
    BY <1>7, <2>2 DEF OnWritten
<1>8. CASE OnWriteError
  <2>1. SocketOK' /\ WriteOK' /\ ReadOK'
    BY <1>8, CloseKeeps DEF OnWriteError, ReadOK
  <2> QED
    BY <1>8, <2>1 DEF OnWriteError
<1>9. CASE RunReturns
  <2>1. MainOK'
    BY <1>9 DEF RunReturns, MainOK
  <2> QED
    BY <1>9, <2>1 DEF RunReturns
<1> QED
  BY <1>1, <1>2, <1>3, <1>4, <1>5, <1>6, <1>7, <1>8, <1>9 DEF IoThread

LEMMA NextIInv == IInv /\ [Next]_vars => IInv'
<1> SUFFICES ASSUME IInv, [Next]_vars PROVE IInv'
  OBVIOUS
<1>1. CASE UNCHANGED vars
  BY <1>1, Unchanged DEF IInv, vars, mainVars, socketVars, readVars, writeVars,
     serverVars
<1> QED
  BY <1>1, OthersKeep, NetworkKeeps, IoThreadKeeps DEF Next

-----------------------------------------------------------------------------
(* The lines in order.                                                     *)

Line == 0..MaxLines

Typed == [i \in 1..typed |-> i]

\* Everything that write and close have posted, sent or not, done or not.
AllPosted == wire \o Waiting \o posted

\* LinesInOrder, with the close posted only once the input has ended.
InOrder ==
    \E closing \in {<<>>, <<0>>} :
        /\ AllPosted = Typed \o closing
        /\ main = "input" => closing = <<>>

\* The head of a sequence moved to the end of the one before it.
LEMMA MoveHead ==
    ASSUME NEW S, NEW s \in Seq(S), NEW t \in Seq(S), t # <<>>
    PROVE  Append(s, Head(t)) \o Tail(t) = s \o t
<1>1. Tail(t) \in Seq(S) /\ Head(t) \in S /\ Len(Tail(t)) = Len(t) - 1 /\ Len(t) >= 1
  BY HeadTailProperties, LenProperties, EmptySeq
<1>2. Append(s, Head(t)) \in Seq(S) /\ Len(Append(s, Head(t))) = Len(s) + 1
  BY <1>1, AppendProperties
<1> DEFINE l == Append(s, Head(t)) \o Tail(t)
           r == s \o t
<1>3. l \in Seq(S) /\ r \in Seq(S) /\ Len(l) = Len(s) + Len(t) /\ Len(r) = Len(s) + Len(t)
  BY <1>1, <1>2, ConcatProperties
<1>4. ASSUME NEW i \in 1..Len(r) PROVE l[i] = r[i]
  <2>1. CASE i <= Len(s)
    BY <2>1, <1>1, <1>2, <1>3
  <2>2. CASE i = Len(s) + 1
    BY <2>2, <1>1, <1>2, <1>3
  <2>3. CASE i > Len(s) + 1
    BY <2>3, <1>1, <1>2, <1>3
  <2> QED BY <2>1, <2>2, <2>3, <1>3
<1> QED BY <1>3, <1>4, SeqEqual

\* An element added to the second of two sequences is added to both.
LEMMA AppendRight ==
    ASSUME NEW S, NEW s \in Seq(S), NEW t \in Seq(S), NEW e \in S
    PROVE  s \o Append(t, e) = Append(s \o t, e)
<1>1. <<e>> \in Seq(S) /\ s \o t \in Seq(S)
  OBVIOUS
<1>2. Append(t, e) = t \o <<e>> /\ Append(s \o t, e) = (s \o t) \o <<e>>
  BY <1>1, AppendIsConcat
<1> QED BY <1>1, <1>2, ConcatAssociative

LEMMA TailAppend ==
    ASSUME NEW S, NEW s \in Seq(S), s # <<>>, NEW e \in S
    PROVE  Tail(Append(s, e)) = Append(Tail(s), e)
<1>1. /\ Len(s) \in Nat \ {0} /\ Tail(s) \in Seq(S) /\ Len(Tail(s)) = Len(s) - 1
      /\ \A i \in 1..Len(Tail(s)) : Tail(s)[i] = s[i + 1]
  OBVIOUS
<1>2. /\ Append(s, e) \in Seq(S) /\ Len(Append(s, e)) = Len(s) + 1
      /\ Append(s, e) # <<>>
  BY <1>1
<1>3. /\ Tail(Append(s, e)) \in Seq(S) /\ Len(Tail(Append(s, e))) = Len(s)
      /\ Append(Tail(s), e) \in Seq(S) /\ Len(Append(Tail(s), e)) = Len(s)
  BY <1>1, <1>2
<1>4. ASSUME NEW i \in 1..Len(s) PROVE Tail(Append(s, e))[i] = Append(Tail(s), e)[i]
  <2>1. Tail(Append(s, e))[i] = Append(s, e)[i + 1]
    BY <1>1, <1>2, <1>3
  <2>2. CASE i = Len(s)
    BY <1>1, <2>1, <2>2, AppendProperties
  <2>3. CASE i \in 1..Len(s) - 1
    <3>1. Append(s, e)[i + 1] = s[i + 1]
      BY <1>1, <2>3, AppendProperties
    <3>2. Append(Tail(s), e)[i] = Tail(s)[i]
      BY <1>1, <2>3, AppendProperties
    <3> QED BY <1>1, <2>1, <2>3, <3>1, <3>2
  <2>4. i = Len(s) \/ i \in 1..Len(s) - 1
    <3>1. Len(s) \in Nat
      BY LenProperties
    <3> QED BY <3>1
  <2> QED BY <2>2, <2>3, <2>4
<1> QED BY <1>3, <1>4, SeqEqual

\* The types that the lemmas about sequences ask for.
LEMMA LineTypes ==
    ASSUME IInv
    PROVE  /\ wire \in Seq(Line) /\ queue \in Seq(Line) /\ posted \in Seq(Line)
           /\ Waiting \in Seq(Line) /\ wire \o Waiting \in Seq(Line)
           /\ Typed \in Seq(Line) /\ Len(Typed) = typed /\ typed \in Nat
<1>1. wire \in Seq(Line) /\ queue \in Seq(Line) /\ posted \in Seq(Line)
  BY BoundsAssumption DEF IInv, MainOK, WriteOK, Line
<1>2. Waiting \in Seq(Line)
  BY <1>1 DEF Waiting, IInv, WriteOK, WriteInProgress
<1>3. typed \in Nat /\ \A i \in 1..typed : i \in Line
  BY BoundsAssumption DEF IInv, MainOK, Line
<1>4. Typed \in Seq(Line) /\ Len(Typed) = typed
  BY <1>3 DEF Typed
<1> QED BY <1>1, <1>2, <1>3, <1>4

\* What is typed, and the end of the input, is posted behind the rest.
LEMMA MainKeepsOrder ==
    ASSUME IInv, InOrder, TypeLine \/ EndInput
    PROVE  InOrder'
<1>1. AllPosted = Typed
  <2>1. main = "input"
    BY DEF TypeLine, EndInput
  <2> QED BY <2>1, LineTypes, ConcatEmptySeq DEF InOrder
<1>2. wire' = wire /\ Waiting' = Waiting
  BY DEF TypeLine, EndInput, writeVars, Waiting
<1>3. ASSUME NEW e \in Line, posted' = Append(posted, e)
      PROVE  AllPosted' = Append(Typed, e)
  <2>1. AllPosted' = (wire \o Waiting) \o Append(posted, e)
    BY <1>2, <1>3 DEF AllPosted
  <2>2. wire \o Waiting \in Seq(Line) /\ posted \in Seq(Line)
    BY LineTypes
  <2> QED BY SMTT(30), <1>1, <2>1, <2>2, AppendRight DEF AllPosted
<1>4. CASE TypeLine
  <2>1. typed + 1 \in Line /\ typed \in Nat
    BY <1>4, BoundsAssumption DEF TypeLine, IInv, MainOK, Line
  <2>2. AllPosted' = Append(Typed, typed + 1)
    BY <1>3, <1>4, <2>1 DEF TypeLine
  <2>3. Append(Typed, typed + 1) = Typed'
    <3>1. Typed' = [i \in 1..typed + 1 |-> i]
      BY <1>4 DEF TypeLine, Typed
    <3>2. /\ Append(Typed, typed + 1) \in Seq(Line)
          /\ Len(Append(Typed, typed + 1)) = typed + 1
      BY <2>1, LineTypes, AppendProperties
    <3>3. \A i \in 1..typed + 1 : i \in Line
      BY <2>1, BoundsAssumption DEF Line
    <3>4. Typed' \in Seq(Line) /\ Len(Typed') = typed + 1
      BY <2>1, <3>1, <3>3
    <3>5. \A i \in 1..typed + 1 : Append(Typed, typed + 1)[i] = i
      BY <2>1, LineTypes, AppendProperties DEF Typed
    <3> QED BY <3>1, <3>2, <3>4, <3>5, SeqEqual
  <2>4. Typed' = Typed' \o <<>>
    <3>1. Typed' \in Seq(Line)
      BY <2>1, <2>3, LineTypes, AppendProperties
    <3> QED BY <3>1, ConcatEmptySeq
  <2> QED BY <2>2, <2>3, <2>4 DEF InOrder
<1>5. CASE EndInput
  <2>1. 0 \in Line
    BY BoundsAssumption DEF Line
  <2>2. AllPosted' = Typed \o <<0>>
    BY <1>3, <1>5, <2>1, LineTypes, AppendIsConcat DEF EndInput
  <2>3. Typed' = Typed /\ main' # "input"
    BY <1>5 DEF EndInput, Typed
  <2> QED BY <2>2, <2>3 DEF InOrder
<1> QED BY <1>4, <1>5

\* A step that moves nothing keeps the order.
LEMMA SameOrder ==
    ASSUME InOrder, AllPosted' = AllPosted, typed' = typed,
           main' = main \/ main' # "input"
    PROVE  InOrder'
BY DEF InOrder, Typed

\* Posting a line into write_msgs_ and writing it move it along.
LEMMA MovesKeepOrder ==
    ASSUME IInv, InOrder, PostedLine \/ WriteCompletes \/ OnWritten
    PROVE  InOrder'
<1>1. typed' = typed /\ main' = main
  BY DEF PostedLine, WriteCompletes, OnWritten, mainVars
<1>2. CASE PostedLine
  <2>1. /\ posted # <<>> /\ Head(posted) \in Line /\ posted' = Tail(posted)
        /\ queue' = Append(queue, Head(posted)) /\ wire' = wire
        /\ writer' = IF queue = <<>> THEN Started ELSE writer
    BY <1>2, LineTypes DEF PostedLine
  <2>2. Waiting' = Append(Waiting, Head(posted))
    <3>1. CASE writer = "ok"
      <4>1. queue # <<>> /\ writer' = "ok"
        BY <2>1, <3>1 DEF IInv, WriteOK, WriteInProgress
      <4> QED BY <2>1, <3>1, <4>1, LineTypes, TailAppend DEF Waiting
    <3>2. CASE writer # "ok"
      BY <2>1, <3>2 DEF Waiting, Started
    <3> QED BY <3>1, <3>2, Zenon
  <2>3. wire \o Append(Waiting, Head(posted)) = Append(wire \o Waiting, Head(posted))
    <3>1. wire \in Seq(Line) /\ Waiting \in Seq(Line)
      BY LineTypes
    <3> QED BY <2>1, <3>1, AppendRight
  <2>4. Append(wire \o Waiting, Head(posted)) \o Tail(posted) = (wire \o Waiting) \o posted
    BY <2>1, LineTypes, MoveHead
  <2>5. AllPosted' = AllPosted
    BY <2>1, <2>2, <2>3, <2>4 DEF AllPosted
  <2> QED BY <1>1, <2>5, SameOrder
<1>3. CASE WriteCompletes
  <2>1. /\ writer = "pending" /\ writer' = "ok" /\ queue # <<>>
        /\ wire' = Append(wire, Head(queue)) /\ UNCHANGED <<queue, posted>>
    BY <1>3 DEF WriteCompletes, IInv, WriteOK, WriteInProgress
  <2>2. Waiting = queue /\ Waiting' = Tail(queue)
    BY <2>1 DEF Waiting
  <2>3. Append(wire, Head(queue)) \o Tail(queue) = wire \o queue
    BY <2>1, LineTypes, MoveHead
  <2>4. AllPosted' = AllPosted
    BY <2>1, <2>2, <2>3 DEF AllPosted
  <2> QED BY <1>1, <2>4, SameOrder
<1>4. CASE OnWritten
  <2>1. Waiting' = Waiting /\ UNCHANGED <<wire, posted>>
    BY <1>4 DEF OnWritten, Waiting, Started
  <2> QED BY <1>1, <2>1, SameOrder DEF AllPosted
<1> QED BY <1>2, <1>3, <1>4

\* A close that is run was the last thing posted.
LEMMA CloseKeepsOrder ==
    ASSUME IInv, InOrder, PostedClose
    PROVE  InOrder'
<1>1. /\ posted \in Seq(Line) /\ posted # <<>> /\ posted[1] = 0
      /\ posted' = Tail(posted) /\ UNCHANGED <<typed, main, wire, queue>>
  BY LineTypes DEF PostedClose, mainVars
<1>2. Waiting' = Waiting
  BY <1>1 DEF PostedClose, Close, Abort, Waiting
<1> DEFINE ahead == wire \o Waiting
<1>3. ahead \in Seq(Line) /\ Typed \in Seq(Line) /\ Len(Typed) = typed /\ typed \in Nat
  BY LineTypes
<1>4. PICK closing \in {<<>>, <<0>>} : ahead \o posted = Typed \o closing
                                  /\ (main = "input" => closing = <<>>)
  BY DEF InOrder, AllPosted
<1>5. \A i \in 1..typed : Typed[i] # 0
  BY DEF Typed
<1> HIDE DEF ahead
<1>6. /\ Len(ahead) \in Nat /\ Len(posted) \in Nat \ {0}
      /\ Len(ahead \o posted) = Len(ahead) + Len(posted)
      /\ (ahead \o posted)[Len(ahead) + 1] = 0
      /\ \A i \in 1..Len(ahead) : (ahead \o posted)[i] = ahead[i]
  BY <1>1, <1>3
<1>7. closing = <<0>>
  <2>1. CASE closing = <<>>
    <3>1. ahead \o posted = Typed
      BY <1>3, <1>4, <2>1, ConcatEmptySeq
    <3>2. Len(ahead) + 1 \in 1..typed
      BY <1>3, <1>6, <3>1
    <3> QED BY <1>5, <1>6, <3>1, <3>2
  <2> QED BY <1>4, <2>1
<1>8. /\ Len(Typed \o closing) = typed + 1
      /\ \A i \in 1..typed : (Typed \o closing)[i] = Typed[i]
  <2>1. <<0>> \in Seq({0}) /\ Len(<<0>>) = 1
    OBVIOUS
  <2> QED BY <1>3, <1>7, <2>1, BoundsAssumption
<1>9. Len(ahead) = typed
  <2>1. ~(Len(ahead) + 1 \in 1..typed)
    BY <1>4, <1>5, <1>6, <1>8
  <2> QED BY <1>3, <1>4, <1>6, <1>8, <2>1
<1>10. ahead = Typed
  <2>1. \A i \in 1..typed : ahead[i] = Typed[i]
    BY <1>4, <1>6, <1>8, <1>9
  <2> QED BY <1>3, <1>9, <2>1, SeqEqual
<1>11. posted' = <<>>
  BY <1>1, <1>3, <1>4, <1>6, <1>8, <1>9
<1>12. AllPosted' = ahead \o <<>> /\ Typed' = Typed
  BY <1>1, <1>2, <1>11 DEF AllPosted, ahead, Typed
<1> QED BY <1>10, <1>12 DEF InOrder

\* Every step keeps the lines in order.
LEMMA NextKeepsOrder == IInv /\ InOrder /\ [Next]_vars => InOrder'
<1> SUFFICES ASSUME IInv, InOrder, [Next]_vars PROVE InOrder'
  OBVIOUS
<1>1. CASE TypeLine \/ EndInput
  BY <1>1, MainKeepsOrder
<1>2. CASE PostedLine \/ WriteCompletes \/ OnWritten
  BY <1>2, MovesKeepOrder
<1>3. CASE PostedClose
  BY <1>3, CloseKeepsOrder
<1>4. CASE \/ Join \/ Server \/ Connected \/ Refused \/ ReadCompletes \/ ReadFails
           \/ WriteFails \/ OnConnectNext \/ OnConnect \/ OnRead \/ OnReadError
           \/ OnWriteError \/ RunReturns \/ UNCHANGED vars
  <2>1. UNCHANGED <<wire, posted, typed, queue>> /\ (main' = main \/ main' # "input")
    BY <1>4 DEF Join, Server, ServerSends, ServerGoes, Connected, Refused,
       ReadCompletes, ReadFails, WriteFails, OnConnectNext, OnConnect, OnRead,
       OnReadError, OnWriteError, RunReturns, vars, mainVars, writeVars
  <2>2. writer = "ok" <=> writer' = "ok"
    BY <1>4 DEF Join, Server, ServerSends, ServerGoes, Connected, Refused,
       ReadCompletes, ReadFails, WriteFails, OnConnectNext, OnConnect, OnRead,
       OnReadError, OnWriteError, RunReturns, Close, Abort, vars, writeVars
  <2> QED BY <2>1, <2>2, SameOrder DEF AllPosted, Waiting
<1> QED BY <1>1, <1>2, <1>3, <1>4 DEF Next, Network, IoThread

-----------------------------------------------------------------------------
(* The theorems.                                                           *)

LEMMA SpecIInv == Spec => []IInv
BY InitIInv, NextIInv, PTL DEF Spec

\* Every variable keeps its type: in particular no endpoint is tried that the
\* resolver did not find, and no handler takes the head of an empty queue.
THEOREM TypeCorrect == Spec => []TypeOK
<1>1. IInv => TypeOK
  BY DEF IInv, TypeOK, MainOK, SocketOK, ReadOK, WriteOK, ServerOK
<1> QED
  BY <1>1, SpecIInv, PTL

\* A line is never queued behind a write that nobody has started, for any
\* number of lines, frames and endpoints.
THEOREM WritesAreStarted == Spec => []WriteInProgress
<1>1. IInv => WriteInProgress
  BY DEF IInv, WriteOK
<1> QED
  BY <1>1, SpecIInv, PTL

\* The lines go out in the order in which they were typed, none twice and
\* none left out, and a close comes after all of them.
THEOREM LinesKeepTheirOrder == Spec => []LinesInOrder
<1>1. Init => InOrder
  <2> SUFFICES ASSUME Init PROVE InOrder
    OBVIOUS
  <2>1. IInv /\ typed = 0 /\ wire = <<>> /\ Waiting = <<>> /\ posted = <<>>
    BY InitIInv DEF Init, Waiting
  <2>2. Typed = <<>>
    BY <2>1, LineTypes, EmptySeq
  <2> QED BY <2>1, <2>2 DEF InOrder, AllPosted
<1>2. InOrder => LinesInOrder
  BY DEF InOrder, LinesInOrder, AllPosted, Typed
<1> QED
  BY <1>1, <1>2, NextKeepsOrder, SpecIInv, PTL DEF Spec

-----------------------------------------------------------------------------
(* The header of a frame: what the client and the server at its two ends   *)
(* can rely on, for every header and every length, where a size_t has at   *)
(* least sixteen bits.                                                     *)

Number == [at : {"blanks", "digits", "end"}, sign : {"plus", "minus"}, value : Nat]

\* What atoi has read so far, which is below a bound.
Partial(n, bound) == n \in Number /\ n.value < bound

\* One more byte makes a number at most ten times as large.
LEMMA ReadBound ==
    ASSUME NEW n, NEW bound \in Nat, NEW next \in Nat, next = 10 * bound,
           Partial(n, bound), NEW b \in 0..255
    PROVE  Partial(Read(n, b), next)
<1>1. n \in Number /\ n.value \in Nat /\ n.value < bound /\ n.value < next
  BY DEF Partial, Number
<1>2. CASE n.at = "blanks" /\ IsSpace(b)
  BY <1>1, <1>2 DEF Read, Partial
<1>3. CASE n.at = "blanks" /\ ~IsSpace(b) /\ b \in {43, 45}
  <2>1. Read(n, b) = [n EXCEPT !.at = "digits", !.sign = IF b = 45 THEN "minus" ELSE "plus"]
    BY <1>3 DEF Read
  <2>2. Read(n, b) \in Number /\ Read(n, b).value = n.value
    BY <1>1, <2>1 DEF Number
  <2> QED
    BY <1>1, <2>2 DEF Partial
<1>4. CASE /\ ~(n.at = "blanks" /\ (IsSpace(b) \/ b \in {43, 45}))
           /\ n.at # "end" /\ IsDigit(b)
  <2> DEFINE longer == n.value * 10 + (b - 48)
  <2>1. Read(n, b) = [n EXCEPT !.at = "digits", !.value = longer]
    BY <1>1, <1>4 DEF Read, Number
  <2>2. longer \in Nat /\ longer < next
    BY <1>1, <1>4 DEF IsDigit
  <2> HIDE DEF longer
  <2>3. Read(n, b) \in Number /\ Read(n, b).value = longer
    BY <1>1, <2>1, <2>2 DEF Number
  <2> QED
    BY <2>2, <2>3 DEF Partial
<1>5. CASE /\ ~(n.at = "blanks" /\ (IsSpace(b) \/ b \in {43, 45}))
           /\ ~(n.at # "end" /\ IsDigit(b))
  <2>1. Read(n, b) = [n EXCEPT !.at = "end"]
    BY <1>5 DEF Read
  <2>2. Read(n, b) \in Number /\ Read(n, b).value = n.value
    BY <1>1, <2>1 DEF Number
  <2> QED
    BY <1>1, <2>2 DEF Partial
<1> QED
  BY <1>2, <1>3, <1>4, <1>5

FourDigits == 0..9999

\* Four bytes make a number of at most four digits.
LEMMA AtoiBound ==
    ASSUME NEW h \in Header
    PROVE  Atoi(h) \in Number /\ Atoi(h).value \in FourDigits
<1> DEFINE p1 == 10
           p2 == 100
           p3 == 1000
           p4 == 10000
           n1 == Read(Start, h[1])
           n2 == Read(n1, h[2])
           n3 == Read(n2, h[3])
           n4 == Read(n3, h[4])
<1>1. Partial(Start, 1) /\ p1 = 10 * 1 /\ p2 = 10 * p1 /\ p3 = 10 * p2 /\ p4 = 10 * p3
  BY DEF Partial, Number, Start
<1>2. p1 \in Nat /\ p2 \in Nat /\ p3 \in Nat /\ p4 \in Nat /\ 1 \in Nat
  OBVIOUS
<1>3. h[1] \in 0..255 /\ h[2] \in 0..255 /\ h[3] \in 0..255 /\ h[4] \in 0..255
  BY DEF Header
<1>4. Atoi(h) = n4
  BY DEF Atoi
<1> HIDE DEF p1, p2, p3, p4, n1, n2, n3, n4
<1>5. Partial(n1, p1)
  BY <1>1, <1>2, <1>3, ReadBound DEF n1
<1>6. Partial(n2, p2)
  BY <1>1, <1>2, <1>3, <1>5, ReadBound DEF n2
<1>7. Partial(n3, p3)
  BY <1>1, <1>2, <1>3, <1>6, ReadBound DEF n3
<1>8. Partial(n4, p4)
  BY <1>1, <1>2, <1>3, <1>7, ReadBound DEF n4
<1>9. n4 \in Number /\ n4.value \in FourDigits
  <2>1. n4 \in Number /\ n4.value \in Nat /\ n4.value < p4
    BY <1>8 DEF Partial, Number
  <2>2. \A v \in Nat : v < p4 => v \in FourDigits
    BY DEF p4, FourDigits
  <2> QED
    BY <2>1, <2>2
<1> QED
  BY <1>4, <1>9

\* Only a small number that is not negative becomes a small size.
LEMMA SizeIsExact ==
    ASSUME SizeModulus \in Nat, SizeModulus >= 65536, NEW sign, NEW v \in FourDigits
    PROVE  /\ AsSize(sign, v) \in Nat
           /\ AsSize(sign, v) <= max_body_length <=>
                 v <= max_body_length /\ (sign = "minus" => v = 0)
BY DEF AsSize, FourDigits, max_body_length

\* Whatever four bytes arrive, body_length_ is afterwards a length for which
\* data_ has room, and that of an empty body if the header was rejected.
THEOREM BodyFits ==
    ASSUME SizeModulus \in Nat, SizeModulus >= 65536, NEW h \in Header
    PROVE  /\ DecodeHeader(h).length \in 0..max_body_length
           /\ ~DecodeHeader(h).accepted => DecodeHeader(h).length = 0
<1> DEFINE size == AsSize(Atoi(h).sign, Atoi(h).value)
<1>1. size \in Nat
  BY AtoiBound, SizeIsExact
<1>2. DecodeHeader(h) = IF size > max_body_length
                        THEN [accepted |-> FALSE, length |-> 0]
                        ELSE [accepted |-> TRUE, length |-> size]
  BY DEF DecodeHeader
<1> HIDE DEF size
<1>3. CASE size > max_body_length
  BY <1>2, <1>3 DEF max_body_length
<1>4. CASE size <= max_body_length
  <2>1. size \in 0..max_body_length /\ ~(size > max_body_length)
    BY <1>1, <1>4 DEF max_body_length
  <2> QED
    BY <1>2, <2>1
<1> QED
  BY <1>1, <1>3, <1>4 DEF max_body_length

\* A negative number, which a size_t cannot hold, is rejected like one that
\* is too large, however wide a size_t is.
THEOREM NegativeIsRejected ==
    ASSUME SizeModulus \in Nat, SizeModulus >= 65536, NEW h \in Header
    PROVE  DecodeHeader(h).accepted <=>
              /\ Atoi(h).value <= max_body_length
              /\ Atoi(h).sign = "minus" => Atoi(h).value = 0
<1> DEFINE size == AsSize(Atoi(h).sign, Atoi(h).value)
<1>1. size \in Nat
  BY AtoiBound, SizeIsExact
<1>2. size <= max_body_length <=>
          /\ Atoi(h).value <= max_body_length
          /\ Atoi(h).sign = "minus" => Atoi(h).value = 0
  BY AtoiBound, SizeIsExact
<1>3. DecodeHeader(h).accepted <=> ~(size > max_body_length)
  BY DEF DecodeHeader
<1>4. size > max_body_length <=> ~(size <= max_body_length)
  BY <1>1 DEF max_body_length
<1> QED
  BY <1>2, <1>3, <1>4

\* A number that begins with no sign, as far as atoi has read it.
Num(at, v) == [at |-> at, sign |-> "plus", value |-> v]

\* A blank is skipped, and a digit is put behind those before it.
LEMMA ReadBlank == Read(Num("blanks", 0), 32) = Num("blanks", 0)
BY DEF Read, Num, IsSpace

Longer(v, b) == v * 10 + (b - 48)

LEMMA ReadDigit ==
    ASSUME NEW at \in {"blanks", "digits"}, NEW v \in Nat, NEW b, IsDigit(b)
    PROVE  Read(Num(at, v), b) = Num("digits", Longer(v, b))
<1>1. ~IsSpace(b) /\ b \notin {43, 45} /\ IsDigit(b)
  BY DEF IsSpace, IsDigit
<1>2. Num(at, v).at # "end" /\ Num(at, v).value = v
  BY DEF Num
<1>3. Read(Num(at, v), b) =
          [Num(at, v) EXCEPT !.at = "digits", !.value = Longer(v, b)]
  BY <1>1, <1>2 DEF Read, Longer
<1> QED
  BY <1>3 DEF Num

\* What the sender encodes the receiver decodes: every length that
\* body_length() can have set comes back as it was.
THEOREM RoundTrip ==
    ASSUME SizeModulus \in Nat, SizeModulus >= 65536, NEW n \in Nat
    PROVE  DecodeHeader(EncodeHeader(BodyLength(n))) =
              [accepted |-> TRUE, length |-> BodyLength(n)]
<1> DEFINE l == BodyLength(n)
           h == EncodeHeader(l)
           hundreds == (l \div 100) % 10
           tens     == (l \div 10) % 10
           ones     == l % 10
<1>1. l \in 0..max_body_length
  BY DEF BodyLength, max_body_length
<1>2. /\ hundreds \in 0..9 /\ tens \in 0..9 /\ ones \in 0..9
      /\ l = 100 * hundreds + 10 * tens + ones
      /\ l < 100 => hundreds = 0
      /\ l < 10 => tens = 0
  BY <1>1 DEF max_body_length
<1>3. /\ h[1] = 32
      /\ h[2] = IF l < 100 THEN 32 ELSE 48 + hundreds
      /\ h[3] = IF l < 10 THEN 32 ELSE 48 + tens
      /\ h[4] = 48 + ones
  BY <1>1 DEF EncodeHeader, Place, max_body_length
<1>4. Start = Num("blanks", 0)
  BY DEF Start, Num
<1> HIDE DEF hundreds, tens, ones, h, l
<1>5. Read(Start, h[1]) = Num("blanks", 0)
  BY <1>3, <1>4, ReadBlank
<1>6. Atoi(h) = Num("digits", l)
  <2>1. CASE l < 10
    <3>1. h[2] = 32 /\ h[3] = 32 /\ IsDigit(h[4]) /\ h[4] - 48 = l
      BY <1>1, <1>2, <1>3, <2>1 DEF IsDigit, max_body_length
    <3>2. Read(Read(Num("blanks", 0), h[2]), h[3]) = Num("blanks", 0)
      BY <3>1, ReadBlank
    <3>3. Read(Num("blanks", 0), h[4]) = Num("digits", Longer(0, h[4]))
      BY <3>1, ReadDigit
    <3>4. Longer(0, h[4]) = l
      BY <1>1, <3>1 DEF Longer
    <3> QED
      BY <1>5, <3>2, <3>3, <3>4 DEF Atoi
  <2>2. CASE l >= 10 /\ l < 100
    <3>1. h[2] = 32 /\ IsDigit(h[3]) /\ IsDigit(h[4])
      BY <1>1, <1>2, <1>3, <2>2 DEF IsDigit, Longer, max_body_length
    <3>2. Read(Num("blanks", 0), h[2]) = Num("blanks", 0)
      BY <3>1, ReadBlank
    <3> DEFINE v == Longer(0, h[3])
    <3>3. v \in Nat /\ Longer(v, h[4]) = l
      BY <1>1, <1>2, <1>3, <2>2 DEF IsDigit, Longer, max_body_length
    <3>4. Read(Num("blanks", 0), h[3]) = Num("digits", v)
      BY <3>1, ReadDigit
    <3> HIDE DEF v
    <3>5. Read(Num("digits", v), h[4]) = Num("digits", Longer(v, h[4]))
      BY <3>1, <3>3, ReadDigit
    <3> QED
      BY <1>5, <3>2, <3>3, <3>4, <3>5 DEF Atoi
  <2>3. CASE l >= 100
    <3>1. IsDigit(h[2]) /\ IsDigit(h[3]) /\ IsDigit(h[4])
      BY <1>1, <1>2, <1>3, <2>3 DEF IsDigit, Longer, max_body_length
    <3> DEFINE v == Longer(0, h[2])
               w == Longer(v, h[3])
    <3>2. v \in Nat /\ w \in Nat /\ Longer(w, h[4]) = l
      BY <1>1, <1>2, <1>3, <2>3 DEF IsDigit, Longer, max_body_length
    <3>3. Read(Num("blanks", 0), h[2]) = Num("digits", v)
      BY <3>1, ReadDigit
    <3> HIDE DEF v
    <3>4. Read(Num("digits", v), h[3]) = Num("digits", w)
      BY <3>1, <3>2, ReadDigit
    <3> HIDE DEF w
    <3>5. Read(Num("digits", w), h[4]) = Num("digits", Longer(w, h[4]))
      BY <3>1, <3>2, ReadDigit
    <3> QED
      BY <1>5, <3>2, <3>3, <3>4, <3>5 DEF Atoi
  <2> QED
    BY <1>1, <2>1, <2>2, <2>3 DEF max_body_length
<1>7. DecodeHeader(h) = [accepted |-> TRUE, length |-> l]
  BY <1>1, <1>6 DEF DecodeHeader, AsSize, Num, max_body_length
<1> QED
  BY <1>7 DEF h, l
=============================================================================
