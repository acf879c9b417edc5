-------------------------- MODULE HttpServer1Proofs --------------------------
(***************************************************************************)
(* What is proved of HttpServer1 for any connections and chunks: its       *)
(* types, what the manager and the server know of the open sockets, and    *)
(* that each request gets its reply.                                       *)
(***************************************************************************)
EXTENDS HttpServer1, TLAPS

Operation == [kind : {"none", "read", "write"}, state : OpState]

\* What is written to a client has been made before.
RepliesAreMade == \A c \in Conn : op[c].kind = "write" => reply[c] # "none"

TypeInv == TypeOK /\ RepliesAreMade

-----------------------------------------------------------------------------
(* What the helpers do to sockets and operations.                          *)

LEMMA StopConnectionsTyped ==
    ASSUME TypeInv, NEW cs, NEW ops \in [Conn -> Operation], StopConnections(cs, ops),
           \A c \in Conn : ops[c].kind = "write" => reply[c] # "none",
           reply' = reply
    PROVE  /\ socket' \in [Conn -> {"none", "open", "closed"}]
           /\ op' \in [Conn -> Operation]
           /\ RepliesAreMade'
<1>1. ASSUME NEW c \in Conn
      PROVE  /\ [ops[c] EXCEPT !.state = "aborted"] \in Operation
             /\ [ops[c] EXCEPT !.state = "aborted"].kind = ops[c].kind
  BY DEF Operation, OpState
<1> QED BY <1>1 DEF StopConnections, TypeInv, TypeOK, RepliesAreMade

LEMMA ManagerStopTyped ==
    ASSUME TypeInv, NEW c \in Conn, ManagerStop(c), reply' = reply
    PROVE  /\ connections' \subseteq Conn
           /\ socket' \in [Conn -> {"none", "open", "closed"}]
           /\ op' \in [Conn -> Operation]
           /\ RepliesAreMade'
<1> DEFINE ops == [op EXCEPT ![c] = Idle]
<1>1. /\ ops \in [Conn -> Operation]
      /\ \A d \in Conn : ops[d].kind = "write" => reply[d] # "none"
  BY DEF TypeInv, TypeOK, RepliesAreMade, Operation, OpState, Idle
<1>2. StopConnections({c}, ops) /\ connections' = connections \ {c}
  BY DEF ManagerStop
<1> HIDE DEF ops
<1> QED BY <1>1, <1>2, StopConnectionsTyped DEF TypeInv, TypeOK

LEMMA SetStateTyped ==
    ASSUME TypeInv, NEW c \in Conn, NEW state \in OpState, SetState(c, state), reply' = reply
    PROVE  op' \in [Conn -> Operation] /\ RepliesAreMade'
BY DEF TypeInv, TypeOK, RepliesAreMade, SetState, Operation

-----------------------------------------------------------------------------
(* Types.                                                                  *)

LEMMA ClientsTyped ==
    ASSUME TypeInv, NEW c \in Conn, ClientStep(c)
    PROVE  TypeInv'
<1> USE DEF TypeInv, TypeOK, RepliesAreMade
<1>1. CASE Connect(c)
  BY <1>1 DEF Connect, serverVars, connVars
<1>2. ASSUME NEW result \in ParseResult, SendChunk(c, result)
      PROVE  TypeInv'
  <2>1. chunks' \in [Conn -> Seq(ParseResult)]
    BY <1>2 DEF SendChunk
  <2>2. \A d \in Conn : Len(chunks'[d]) >= Len(chunks[d])
    BY <1>2 DEF SendChunk
  <2>3. \A d \in Conn : taken[d] <= Len(chunks'[d])
    BY <2>1, <2>2
  <2> QED BY <1>2, <2>1, <2>3 DEF SendChunk, serverVars, connVars
<1>3. ASSUME NEW how \in {"shut", "reset"}, Quit(c, how)
      PROVE  TypeInv'
  BY <1>3 DEF Quit, serverVars, connVars
<1> QED BY <1>1, <1>2, <1>3 DEF ClientStep

LEMMA OutcomesTyped ==
    ASSUME TypeInv, NEW c \in Conn, Outcome(c)
    PROVE  TypeInv'
<1> USE DEF Operation
<1>1. CASE ReadCompletes(c)
  <2>1. op' \in [Conn -> Operation] /\ RepliesAreMade'
    BY <1>1, SetStateTyped DEF ReadCompletes, OpState
  <2>2. taken' \in [Conn -> Nat] /\ \A d \in Conn : taken'[d] <= Len(chunks[d])
    BY <1>1 DEF ReadCompletes, TypeInv, TypeOK
  <2> QED BY <1>1, <2>1, <2>2 DEF ReadCompletes, TypeInv, TypeOK, clientVars, serverVars
<1>2. CASE ReadFails(c)
  <2>1. op' \in [Conn -> Operation] /\ RepliesAreMade'
    BY <1>2, SetStateTyped DEF ReadFails, OpState
  <2> QED BY <1>2, <2>1 DEF ReadFails, TypeInv, TypeOK, clientVars, serverVars
<1>3. CASE WriteCompletes(c)
  <2>1. op' \in [Conn -> Operation] /\ RepliesAreMade'
    BY <1>3, SetStateTyped DEF WriteCompletes, OpState
  <2>2. reply[c] \in {"page", "bad_request"}
    BY <1>3 DEF WriteCompletes, OpIs, TypeInv, TypeOK, RepliesAreMade
  <2>3. received' \in [Conn -> Seq({"page", "bad_request"})]
    BY <1>3, <2>2 DEF WriteCompletes, TypeInv, TypeOK
  <2> QED BY <1>3, <2>1, <2>3 DEF WriteCompletes, TypeInv, TypeOK, clientVars, serverVars
<1>4. CASE WriteFails(c)
  <2>1. op' \in [Conn -> Operation] /\ RepliesAreMade'
    BY <1>4, SetStateTyped DEF WriteFails, OpState
  <2> QED BY <1>4, <2>1 DEF WriteFails, TypeInv, TypeOK, clientVars, serverVars
<1> QED BY <1>1, <1>2, <1>3, <1>4 DEF Outcome

LEMMA HandlersTyped ==
    ASSUME TypeInv, NEW c \in Conn, Handler(c)
    PROVE  TypeInv'
<1> USE DEF Operation
<1>1. CASE OnRead(c)
  <2>1. ASSUME NEW kind \in {"read", "write"}
        PROVE  Start(c, kind) \in Operation /\ Start(c, kind).kind = kind
    BY DEF Start, OpState
  <2>2. CASE Buffer(c) = "indeterminate"
    <3>1. op' = [op EXCEPT ![c] = Start(c, "read")] /\ reply' = reply
      BY <1>1, <2>2 DEF OnRead
    <3>2. op' \in [Conn -> Operation] /\ RepliesAreMade'
      BY <3>1, <2>1 DEF TypeInv, TypeOK, RepliesAreMade
    <3> QED BY <1>1, <3>1, <3>2 DEF OnRead, TypeInv, TypeOK, clientVars, serverVars
  <2>3. CASE Buffer(c) # "indeterminate"
    <3>1. PICK text \in {"page", "bad_request"} : reply' = [reply EXCEPT ![c] = text]
      BY <1>1, <2>3 DEF OnRead
    <3>2. op' = [op EXCEPT ![c] = Start(c, "write")]
      BY <1>1, <2>3 DEF OnRead
    <3>3. op' \in [Conn -> Operation] /\ RepliesAreMade'
      BY <3>1, <3>2, <2>1 DEF TypeInv, TypeOK, RepliesAreMade
    <3>4. reply' \in [Conn -> {"none", "page", "bad_request"}]
      BY <3>1 DEF TypeInv, TypeOK
    <3> QED BY <1>1, <3>3, <3>4 DEF OnRead, TypeInv, TypeOK, clientVars, serverVars
  <2> QED BY <2>2, <2>3
<1>2. CASE OnError(c)
  <2>1. /\ connections' \subseteq Conn
        /\ socket' \in [Conn -> {"none", "open", "closed"}]
        /\ op' \in [Conn -> Operation]
        /\ RepliesAreMade'
    BY <1>2, ManagerStopTyped DEF OnError
  <2> QED BY <1>2, <2>1 DEF OnError, TypeInv, TypeOK, clientVars, serverVars
<1>3. CASE OnAborted(c)
  <2>1. op' \in [Conn -> Operation] /\ RepliesAreMade'
    BY <1>3 DEF OnAborted, Idle, TypeInv, TypeOK, OpState, RepliesAreMade
  <2> QED BY <1>3, <2>1 DEF OnAborted, TypeInv, TypeOK, clientVars, serverVars
<1>4. CASE OnWritten(c)
  <2>1. /\ connections' \subseteq Conn
        /\ socket' \in [Conn -> {"none", "open", "closed"}]
        /\ op' \in [Conn -> Operation]
        /\ RepliesAreMade'
    BY <1>4, ManagerStopTyped DEF OnWritten
  <2> QED BY <1>4, <2>1 DEF OnWritten, TypeInv, TypeOK, clientVars, serverVars
<1> QED BY <1>1, <1>2, <1>3, <1>4 DEF Handler

LEMMA ServerTyped ==
    ASSUME TypeInv,
           \/ \E c \in Conn : AcceptCompletes(c)
           \/ Signal \/ AcceptFails \/ OnAccept \/ OnSignal \/ Exit
    PROVE  TypeInv'
<1> USE DEF TypeInv, TypeOK, Operation
<1>1. ASSUME NEW c \in Conn, AcceptCompletes(c) PROVE TypeInv'
  BY <1>1 DEF AcceptCompletes, OpState, clientVars, connVars, RepliesAreMade
<1>2. CASE Signal
  BY <1>2 DEF Signal, clientVars, connVars, RepliesAreMade
<1>3. CASE AcceptFails
  BY <1>3 DEF AcceptFails, OpState, clientVars, connVars, RepliesAreMade
<1>4. CASE OnAccept
  <2>1. CASE acceptorOpen
    <3>1. StartAccepted /\ reply' = reply
      BY <1>4, <2>1 DEF OnAccept
    <3>2. op' \in [Conn -> Operation] /\ RepliesAreMade'
      BY <3>1 DEF StartAccepted, ManagerStart, OpState, RepliesAreMade
    <3>3. /\ connections' \subseteq Conn
          /\ socket' \in [Conn -> {"none", "open", "closed"}]
          /\ accept' = "pending" /\ accepted' = {}
      BY <3>1 DEF StartAccepted, ManagerStart
    <3> QED BY <1>4, <3>2, <3>3 DEF OnAccept, OpState, clientVars
  <2>2. CASE ~acceptorOpen
    BY <1>4, <2>2 DEF OnAccept, DropAccepted, OpState, clientVars, RepliesAreMade
  <2> QED BY <2>1, <2>2
<1>5. CASE OnSignal
  <2>1. /\ socket' \in [Conn -> {"none", "open", "closed"}]
        /\ op' \in [Conn -> Operation]
        /\ RepliesAreMade'
    BY <1>5, StopConnectionsTyped DEF OnSignal, StopAll, RepliesAreMade
  <2> QED BY <1>5, <2>1 DEF OnSignal, StopAll, OpState, clientVars
<1>6. CASE Exit
  BY <1>6 DEF Exit, clientVars, serverVars, connVars, RepliesAreMade
<1> QED BY <1>1, <1>2, <1>3, <1>4, <1>5, <1>6

LEMMA Typed ==
    TypeInv /\ [Next]_vars => TypeInv'
<1> SUFFICES ASSUME TypeInv, [Next]_vars PROVE TypeInv'
  OBVIOUS
<1>1. CASE UNCHANGED vars
  BY <1>1 DEF vars, clientVars, serverVars, connVars, TypeInv, TypeOK, RepliesAreMade
<1> QED BY <1>1, ClientsTyped, OutcomesTyped, HandlersTyped, ServerTyped DEF Next

LEMMA InitTyped == Init => TypeInv
<1> SUFFICES ASSUME Init PROVE TypeInv
  OBVIOUS
<1>1. op \in [Conn -> Operation] /\ \A c \in Conn : op[c].kind = "none"
  BY DEF Init, Idle, Operation, OpState
<1>2. \A c \in Conn : taken[c] = 0 /\ chunks[c] = <<>>
  BY DEF Init
<1>3. taken \in [Conn -> Nat] /\ \A c \in Conn : taken[c] <= Len(chunks[c])
  BY <1>2 DEF Init
<1>4. /\ chunks \in [Conn -> Seq(ParseResult)]
      /\ received \in [Conn -> Seq({"page", "bad_request"})]
  BY DEF Init
<1>5. RepliesAreMade
  BY <1>1 DEF RepliesAreMade
<1>6. TypeOK
  BY <1>1, <1>3, <1>4 DEF Init, TypeOK, Operation, OpState
<1> QED BY <1>5, <1>6 DEF TypeInv

\* Every variable holds what the source's types let it hold.
THEOREM TypeCorrect == Spec => []TypeOK
<1>1. TypeInv => TypeOK
  BY DEF TypeInv
<1> QED BY <1>1, InitTyped, Typed, PTL DEF Spec

-----------------------------------------------------------------------------
(* The manager and the sockets.                                            *)

ManagerInv == TypeInv /\ ManagedAreOpen

\* A step that leaves the sockets alone and the operation of a managed
\* connection in a state in which its handler will run.
LEMMA OperationGoesOn ==
    ASSUME ManagerInv, UNCHANGED <<connections, socket, acceptorOpen>>,
           \A c \in connections : \/ op'[c] = op[c]
                                  \/ op'[c].state \in {"pending", "ok", "error"}
    PROVE  ManagedAreOpen'
BY DEF ManagerInv, TypeInv, TypeOK, ManagedAreOpen

LEMMA StateGoesOn ==
    ASSUME ManagerInv, NEW c \in Conn, NEW state \in {"ok", "error"}, SetState(c, state),
           UNCHANGED <<connections, socket, acceptorOpen>>
    PROVE  ManagedAreOpen'
<1>1. \A d \in Conn : op'[d] = op[d] \/ op'[d].state \in {"pending", "ok", "error"}
  BY DEF SetState, ManagerInv, TypeInv, TypeOK
<1> QED BY <1>1, OperationGoesOn DEF ManagerInv, TypeInv, TypeOK

\* manager.stop takes one connection out, and closes its socket only.
LEMMA ManagerStops ==
    ASSUME ManagerInv, NEW c \in Conn, ManagerStop(c), UNCHANGED acceptorOpen
    PROVE  ManagedAreOpen'
<1> DEFINE ops == [op EXCEPT ![c] = Idle]
<1>1. \A d \in Conn \ {c} : op'[d] = op[d] /\ socket'[d] = socket[d]
  BY DEF ManagerStop, StopConnections, ManagerInv, TypeInv, TypeOK
<1>2. socket'[c] = "closed" /\ connections' = connections \ {c}
  BY DEF ManagerStop, StopConnections
<1> QED BY <1>1, <1>2 DEF ManagerInv, TypeInv, TypeOK, ManagedAreOpen

LEMMA Managed ==
    ASSUME ManagerInv, [Next]_vars
    PROVE  ManagedAreOpen'
<1> USE DEF ManagerInv
<1>1. ASSUME NEW c \in Conn, ClientStep(c) PROVE ManagedAreOpen'
  BY <1>1, OperationGoesOn DEF ClientStep, Connect, SendChunk, Quit, serverVars, connVars
<1>2. ASSUME NEW c \in Conn, AcceptCompletes(c) PROVE ManagedAreOpen'
  BY <1>2, OperationGoesOn DEF AcceptCompletes, connVars
<1>3. ASSUME NEW c \in Conn, Outcome(c) PROVE ManagedAreOpen'
  BY <1>3, StateGoesOn
     DEF Outcome, ReadCompletes, ReadFails, WriteCompletes, WriteFails, serverVars
<1>4. ASSUME NEW c \in Conn, Handler(c) PROVE ManagedAreOpen'
  <2>1. CASE OnRead(c)
    <3>1. \A d \in Conn : op'[d] = op[d] \/ op'[d].state \in {"pending", "error"}
      BY <2>1 DEF OnRead, Start, TypeInv, TypeOK
    <3> QED BY <2>1, <3>1, OperationGoesOn DEF OnRead, serverVars, TypeInv, TypeOK
  <2>2. CASE OnError(c) \/ OnWritten(c)
    BY <2>2, ManagerStops DEF OnError, OnWritten, serverVars
  <2>3. CASE OnAborted(c)
    <3>1. c \notin connections
      BY <2>3 DEF OnAborted, ManagedAreOpen
    <3>2. \A d \in connections : op'[d] = op[d]
      BY <2>3, <3>1 DEF OnAborted, TypeInv, TypeOK
    <3> QED BY <2>3, <3>2, OperationGoesOn DEF OnAborted, serverVars
  <2> QED BY <1>4, <2>1, <2>2, <2>3 DEF Handler
<1>5. CASE Signal \/ AcceptFails \/ Exit \/ UNCHANGED vars
  BY <1>5, OperationGoesOn
     DEF Signal, AcceptFails, Exit, vars, clientVars, connVars, serverVars
<1>6. CASE OnAccept
  <2>1. CASE acceptorOpen
    BY <1>6, <2>1
       DEF OnAccept, StartAccepted, ManagerStart, TypeInv, TypeOK, ManagedAreOpen
  <2>2. CASE ~acceptorOpen
    BY <1>6, <2>2 DEF OnAccept, DropAccepted, TypeInv, TypeOK, ManagedAreOpen
  <2> QED BY <2>1, <2>2
<1>7. CASE OnSignal
  <2>1. connections' = {} /\ \A c \in Conn : socket'[c] # "open"
    BY <1>7 DEF OnSignal, StopAll, StopConnections, ManagedAreOpen
  <2> QED BY <2>1 DEF ManagedAreOpen
<1> QED BY <1>1, <1>2, <1>3, <1>4, <1>5, <1>6, <1>7 DEF Next

\* The manager has the connections whose sockets are open, each with an
\* operation whose handler will run, and none once the acceptor is closed:
\* stop_all, which goes by the manager alone, reaches everything there is.
THEOREM ManagerKnows == Spec => []ManagedAreOpen
<1>1. Init => ManagerInv
  BY InitTyped DEF ManagerInv, ManagedAreOpen, Init
<1>2. ManagerInv /\ [Next]_vars => ManagerInv'
  BY Typed, Managed DEF ManagerInv
<1>3. ManagerInv => ManagedAreOpen
  BY DEF ManagerInv
<1> QED BY <1>1, <1>2, <1>3, PTL DEF Spec

-----------------------------------------------------------------------------
(* The accept.                                                             *)

\* run() does not return while the acceptor is open: each accept is followed
\* by another one, whatever its outcome.
THEOREM AcceptGoesOn == Spec => []AcceptIsOutstanding
<1> USE DEF AcceptIsOutstanding
<1>1. Init => AcceptIsOutstanding
  BY DEF Init
<1>2. AcceptIsOutstanding /\ [Next]_vars => AcceptIsOutstanding'
  <2> SUFFICES ASSUME AcceptIsOutstanding, [Next]_vars PROVE AcceptIsOutstanding'
    OBVIOUS
  <2>1. ASSUME NEW c \in Conn,
               ClientStep(c) \/ AcceptCompletes(c) \/ Outcome(c) \/ Handler(c)
        PROVE  AcceptIsOutstanding'
    <3>1. UNCHANGED <<acceptorOpen, exited>> /\ (accept' = accept \/ accept' = "ok")
      BY <2>1 DEF ClientStep, Connect, SendChunk, Quit, AcceptCompletes, Outcome,
                  ReadCompletes, ReadFails, WriteCompletes, WriteFails, Handler,
                  OnRead, OnError, OnAborted, OnWritten, serverVars
    <3> QED BY <3>1
  <2>2. CASE OnAccept
    BY <2>2 DEF OnAccept, StartAccepted, DropAccepted
  <2>3. CASE Signal \/ AcceptFails \/ OnSignal \/ Exit \/ UNCHANGED vars
    BY <2>3 DEF Signal, AcceptFails, OnSignal, Exit, vars, serverVars
  <2> QED BY <2>1, <2>2, <2>3 DEF Next
<1> QED BY <1>1, <1>2, PTL DEF Spec

-----------------------------------------------------------------------------
(* The reply and the request.                                              *)

\* None of the first n chunks ends the request.
Undecided(c, n) == \A j \in 1..n : chunks[c][j] = "indeterminate"

\* The chunk that was read last ends the request, and this is its reply.
Decides(c, text) ==
    /\ taken[c] > 0 /\ Undecided(c, taken[c] - 1)
    /\ \/ Buffer(c) = "good" /\ text = "page"
       \/ Buffer(c) = "bad" /\ text = "bad_request"

\* A connection reads until a chunk decides, then writes, then ends.
Fits(c) ==
    /\ c \in accepted => socket[c] = "none"
    /\ socket[c] = "none" => op[c] = Idle /\ taken[c] = 0 /\ received[c] = <<>>
    /\ op[c].kind = "read" => received[c] = <<>>
    /\ OpIs(c, "read", "pending") => Undecided(c, taken[c])
    /\ OpIs(c, "read", "ok") => taken[c] > 0 /\ Undecided(c, taken[c] - 1)
    /\ op[c].kind = "write" => Decides(c, reply[c])
    /\ op[c].kind = "write" /\ op[c].state # "ok" => received[c] = <<>>
    /\ received[c] # <<>> => Len(received[c]) = 1 /\ Decides(c, received[c][1])

FitInv == ManagerInv /\ \A c \in Conn : Fits(c)

\* A connection that is left alone, or whose operation ends without a chunk
\* or a reply having passed.
LEMMA StillFits ==
    ASSUME NEW c \in Conn, Fits(c), taken[c] \in Nat,
           taken'[c] = taken[c], received'[c] = received[c], reply'[c] = reply[c],
           \A j \in 1..taken[c] : chunks'[c][j] = chunks[c][j],
           socket'[c] = "none" => socket[c] = "none",
           c \in accepted' => socket'[c] = "none",
           \/ op'[c] = op[c]
           \/ op'[c] = Idle
           \/ /\ op[c].state = "pending" /\ op'[c].kind = op[c].kind
              /\ op'[c].state \in {"error", "aborted"}
    PROVE  Fits(c)'
<1>1. /\ Undecided(c, taken[c]) => Undecided(c, taken[c])'
      /\ taken[c] > 0 => taken[c] \in 1..taken[c] /\ taken[c] - 1 \in Nat
      /\ Undecided(c, taken[c] - 1) => Undecided(c, taken[c] - 1)'
  <2>1. \A j \in 1..(taken[c] - 1) : j \in 1..taken[c]
    OBVIOUS
  <2> QED BY <2>1 DEF Undecided
<1>2. ASSUME NEW text, Decides(c, text)
      PROVE  taken'[c] > 0 /\ Undecided(c, taken[c] - 1)' /\ Buffer(c)' = Buffer(c)
  BY <1>1, <1>2 DEF Decides, Buffer
<1>3. ASSUME op[c].kind = "write" PROVE Decides(c, reply[c])'
  <2>1. Decides(c, reply[c])
    BY <1>3 DEF Fits
  <2> QED BY <1>2, <2>1 DEF Decides
<1>4. ASSUME received[c] # <<>>
      PROVE  Len(received'[c]) = 1 /\ Decides(c, received[c][1])'
  <2>1. Len(received[c]) = 1 /\ Decides(c, received[c][1])
    BY <1>4 DEF Fits
  <2> QED BY <1>2, <2>1 DEF Decides
<1>5. socket'[c] = "none" => op'[c] = Idle /\ taken'[c] = 0 /\ received'[c] = <<>>
  BY DEF Fits, Idle
<1>6. CASE op'[c] = op[c]
  BY <1>1, <1>3, <1>4, <1>5, <1>6 DEF Fits, OpIs
<1>7. CASE op'[c] = Idle
  BY <1>4, <1>5, <1>7 DEF Fits, OpIs, Idle
<1>8. CASE /\ op[c].state = "pending" /\ op'[c].kind = op[c].kind
           /\ op'[c].state \in {"error", "aborted"}
  BY <1>3, <1>4, <1>5, <1>8 DEF Fits, OpIs
<1> QED BY <1>6, <1>7, <1>8

\* Connections that a step of another one does not reach.
LEMMA OthersFit ==
    ASSUME FitInv, NEW c \in Conn,
           \A d \in Conn \ {c} :
              /\ taken'[d] = taken[d] /\ received'[d] = received[d] /\ reply'[d] = reply[d]
              /\ chunks'[d] = chunks[d] /\ socket'[d] = socket[d] /\ op'[d] = op[d]
              /\ d \in accepted' => d \in accepted,
           Fits(c)'
    PROVE  \A d \in Conn : Fits(d)'
<1> SUFFICES ASSUME NEW d \in Conn \ {c} PROVE Fits(d)'
  OBVIOUS
<1>1. Fits(d) /\ taken[d] \in Nat
  BY DEF FitInv, ManagerInv, TypeInv, TypeOK
<1>2. d \in accepted => socket[d] = "none"
  BY <1>1 DEF Fits
<1> QED BY <1>1, <1>2, StillFits

\* The steps of the clients.
LEMMA ClientsFit ==
    ASSUME FitInv, NEW c \in Conn, ClientStep(c)
    PROVE  \A d \in Conn : Fits(d)'
<1>1. UNCHANGED <<taken, received, reply, socket, op, accepted>>
  BY DEF ClientStep, Connect, SendChunk, Quit, serverVars, connVars
<1>2. \A d \in Conn : \A j \in 1..taken[d] : chunks'[d][j] = chunks[d][j]
  <2>1. CASE \E result \in ParseResult : SendChunk(c, result)
    <3>1. PICK result \in ParseResult : chunks' = [chunks EXCEPT ![c] = Append(@, result)]
      BY <2>1 DEF SendChunk
    <3>2. /\ chunks \in [Conn -> Seq(ParseResult)]
          /\ \A d \in Conn : taken[d] \in Nat /\ taken[d] <= Len(chunks[d])
      BY DEF FitInv, ManagerInv, TypeInv, TypeOK
    <3>3. \A j \in 1..Len(chunks[c]) : chunks'[c][j] = chunks[c][j]
      BY <3>1, <3>2
    <3>4. \A d \in Conn \ {c} : chunks'[d] = chunks[d]
      BY <3>1, <3>2
    <3>5. \A j \in 1..taken[c] : j \in 1..Len(chunks[c])
      <4>1. Len(chunks[c]) \in Nat
        BY <3>2
      <4> QED BY <3>2, <4>1
    <3> QED BY <3>3, <3>4, <3>5
  <2>2. CASE ~\E result \in ParseResult : SendChunk(c, result)
    BY <2>2 DEF ClientStep, Connect, Quit
  <2> QED BY <2>1, <2>2
<1> SUFFICES ASSUME NEW d \in Conn PROVE Fits(d)'
  OBVIOUS
<1>3. Fits(d) /\ taken[d] \in Nat
  BY DEF FitInv, ManagerInv, TypeInv, TypeOK
<1>4. d \in accepted' => socket'[d] = "none"
  BY <1>1, <1>3 DEF Fits
<1> QED BY <1>1, <1>2, <1>3, <1>4, StillFits

\* The outcomes of reads and writes.
LEMMA OutcomesFit ==
    ASSUME FitInv, NEW c \in Conn, Outcome(c)
    PROVE  \A d \in Conn : Fits(d)'
<1>1. /\ Fits(c) /\ taken[c] \in Nat /\ op \in [Conn -> Operation]
      /\ taken \in [Conn -> Nat] /\ received \in [Conn -> Seq({"page", "bad_request"})]
  BY DEF FitInv, ManagerInv, TypeInv, TypeOK, Operation
<1>2. UNCHANGED <<chunks, socket, reply, accepted>>
  BY DEF Outcome, ReadCompletes, ReadFails, WriteCompletes, WriteFails, clientVars, serverVars
<1>3. \A d \in Conn \ {c} :
         taken'[d] = taken[d] /\ received'[d] = received[d] /\ op'[d] = op[d]
  BY <1>1 DEF Outcome, ReadCompletes, ReadFails, WriteCompletes, WriteFails, SetState
<1>4. ASSUME NEW state \in OpState, SetState(c, state)
      PROVE  op'[c].kind = op[c].kind /\ op'[c].state = state
  BY <1>1, <1>4 DEF SetState, Operation
<1>5. CASE ReadCompletes(c)
  <2>1. /\ OpIs(c, "read", "pending") /\ op'[c].kind = "read" /\ op'[c].state = "ok"
        /\ taken'[c] = taken[c] + 1 /\ received' = received
    BY <1>1, <1>4, <1>5 DEF ReadCompletes, OpState, OpIs
  <2>2. Undecided(c, taken[c]) /\ received[c] = <<>> /\ socket[c] # "none" /\ c \notin accepted
    BY <1>1, <2>1 DEF Fits, OpIs, Idle
  <2>3. taken'[c] > 0 /\ Undecided(c, taken[c] - 1)'
    <3>1. taken'[c] > 0 /\ taken'[c] - 1 = taken[c]
      BY <1>1, <2>1
    <3> QED BY <1>2, <2>2, <3>1 DEF Undecided
  <2>4. Fits(c)'
    BY <1>2, <2>1, <2>2, <2>3 DEF Fits, OpIs
  <2> QED BY <1>2, <1>3, <2>4, OthersFit
<1>6. CASE WriteCompletes(c)
  <2>1. /\ OpIs(c, "write", "pending") /\ op'[c].kind = "write" /\ op'[c].state = "ok"
        /\ taken' = taken /\ received'[c] = Append(received[c], reply[c])
    BY <1>1, <1>4, <1>6 DEF WriteCompletes, OpState, OpIs
  <2>2. Decides(c, reply[c]) /\ received[c] = <<>> /\ socket[c] # "none" /\ c \notin accepted
    BY <1>1, <2>1 DEF Fits, OpIs, Idle
  <2>3. received'[c] = <<reply[c]>>
    BY <2>1, <2>2
  <2>4. Decides(c, reply[c])' /\ reply'[c] = reply[c]
    BY <1>2, <2>1, <2>2 DEF Decides, Undecided, Buffer
  <2>5. Len(received'[c]) = 1 /\ received'[c][1] = reply'[c]
    BY <2>3, <2>4
  <2>6. Fits(c)'
    BY <1>2, <2>1, <2>2, <2>4, <2>5 DEF Fits, OpIs
  <2> QED BY <1>2, <1>3, <2>6, OthersFit
<1>7. CASE ReadFails(c) \/ WriteFails(c)
  <2>1. /\ op[c].state = "pending" /\ op'[c].kind = op[c].kind /\ op'[c].state = "error"
        /\ taken' = taken /\ received' = received
    BY <1>1, <1>4, <1>7 DEF ReadFails, WriteFails, OpState, OpIs
  <2>2. Fits(c)'
    <3>1. c \in accepted' => socket'[c] = "none"
      BY <1>1, <1>2 DEF Fits
    <3> QED BY <1>1, <1>2, <2>1, <3>1, StillFits
  <2> QED BY <1>2, <1>3, <2>2, OthersFit
<1> QED BY <1>5, <1>6, <1>7 DEF Outcome

\* A connection with an operation has been started: it is not the one that
\* an accept has just brought.
LEMMA StartedIsNotAccepted ==
    ASSUME NEW c \in Conn, Fits(c), op[c].state # "idle"
    PROVE  c \notin accepted /\ socket[c] # "none"
BY DEF Fits, Idle

\* The handlers of the connections.
LEMMA HandlersFit ==
    ASSUME FitInv, NEW c \in Conn, Handler(c)
    PROVE  \A d \in Conn : Fits(d)'
<1>1. /\ Fits(c) /\ taken[c] \in Nat /\ op \in [Conn -> Operation]
      /\ taken[c] <= Len(chunks[c]) /\ chunks[c] \in Seq(ParseResult)
      /\ reply \in [Conn -> {"none", "page", "bad_request"}]
      /\ socket \in [Conn -> {"none", "open", "closed"}]
  BY DEF FitInv, ManagerInv, TypeInv, TypeOK, Operation
<1>2. /\ UNCHANGED <<chunks, taken, received, accepted>>
      /\ op[c].state # "idle"
  BY DEF Handler, OnRead, OnError, OnAborted, OnWritten, clientVars, serverVars, OpIs
<1>3. c \notin accepted /\ socket[c] # "none"
  BY <1>1, <1>2, StartedIsNotAccepted
<1>4. CASE OnRead(c)
  <2>1. /\ OpIs(c, "read", "ok") /\ socket' = socket
        /\ \A d \in Conn \ {c} : op'[d] = op[d] /\ reply'[d] = reply[d]
    BY <1>1, <1>4 DEF OnRead
  <2>2. taken[c] > 0 /\ Undecided(c, taken[c] - 1) /\ received[c] = <<>>
    BY <1>1, <2>1 DEF Fits, OpIs
  <2>3. Buffer(c) \in ParseResult
    <3>1. taken[c] \in 1..Len(chunks[c])
      <4>1. Len(chunks[c]) \in Nat
        BY <1>1
      <4> QED BY <1>1, <2>2, <4>1
    <3> QED BY <1>1, <3>1 DEF Buffer
  <2>4. ASSUME NEW kind, op' = [op EXCEPT ![c] = Start(c, kind)]
        PROVE  /\ op'[c].kind = kind /\ op'[c].state \in {"pending", "error"}
    BY <1>1, <2>4 DEF Start
  <2>5. CASE Buffer(c) = "indeterminate"
    <3>1. op'[c].kind = "read" /\ op'[c].state \in {"pending", "error"} /\ reply' = reply
      BY <1>4, <2>4, <2>5 DEF OnRead
    <3>2. Undecided(c, taken[c])
      <4>1. \A j \in 1..taken[c] : j \in 1..(taken[c] - 1) \/ j = taken[c]
        BY <1>1
      <4> QED BY <2>2, <2>5, <4>1 DEF Undecided, Buffer
    <3>3. Undecided(c, taken[c])'
      BY <1>2, <3>2 DEF Undecided
    <3>4. Fits(c)'
      BY <1>2, <1>3, <2>1, <2>2, <3>1, <3>3 DEF Fits, OpIs
    <3> QED BY <1>2, <2>1, <3>4, OthersFit
  <2>6. CASE Buffer(c) # "indeterminate"
    <3>1. op'[c].kind = "write" /\ op'[c].state \in {"pending", "error"}
      BY <1>4, <2>4, <2>6 DEF OnRead
    <3>2. reply'[c] = IF Buffer(c) = "good" THEN "page" ELSE "bad_request"
      BY <1>1, <1>4, <2>6 DEF OnRead
    <3>3. \/ Buffer(c) = "good" /\ reply'[c] = "page"
          \/ Buffer(c) = "bad" /\ reply'[c] = "bad_request"
      BY <2>3, <2>6, <3>2 DEF ParseResult
    <3>4. Decides(c, reply[c])'
      BY <1>2, <2>2, <3>3 DEF Decides, Undecided, Buffer
    <3>5. Fits(c)'
      BY <1>2, <1>3, <2>1, <2>2, <3>1, <3>4 DEF Fits, OpIs
    <3> QED BY <1>2, <2>1, <3>5, OthersFit
  <2> QED BY <2>5, <2>6
<1>5. CASE OnError(c) \/ OnWritten(c)
  <2>1. /\ reply' = reply /\ ManagerStop(c)
    BY <1>5 DEF OnError, OnWritten
  <2> DEFINE ops == [op EXCEPT ![c] = Idle]
  <2>2. ops[c] = Idle /\ \A d \in Conn \ {c} : ops[d] = op[d]
    BY <1>1
  <2>3. StopConnections({c}, ops)
    BY <2>1 DEF ManagerStop
  <2> HIDE DEF ops
  <2>4. /\ op'[c] = Idle /\ socket'[c] = "closed"
        /\ \A d \in Conn \ {c} : op'[d] = op[d] /\ socket'[d] = socket[d]
    BY <2>2, <2>3 DEF StopConnections, Idle
  <2>5. Fits(c)'
    BY <1>1, <1>2, <1>3, <2>1, <2>4, StillFits
  <2> QED BY <1>2, <2>1, <2>4, <2>5, OthersFit
<1>6. CASE OnAborted(c)
  <2>1. /\ UNCHANGED <<reply, socket>> /\ op'[c] = Idle
        /\ \A d \in Conn \ {c} : op'[d] = op[d]
    BY <1>1, <1>6 DEF OnAborted
  <2>2. Fits(c)'
    BY <1>1, <1>2, <1>3, <2>1, StillFits
  <2> QED BY <1>2, <2>1, <2>2, OthersFit
<1> QED BY <1>4, <1>5, <1>6 DEF Handler

\* The accept and the signal.
LEMMA ServerFits ==
    ASSUME FitInv,
           \/ \E c \in Conn : AcceptCompletes(c)
           \/ Signal \/ AcceptFails \/ OnAccept \/ OnSignal \/ Exit \/ UNCHANGED vars
    PROVE  \A d \in Conn : Fits(d)'
<1> SUFFICES ASSUME NEW d \in Conn PROVE Fits(d)'
  OBVIOUS
<1>1. /\ Fits(d) /\ taken[d] \in Nat /\ (d \in accepted => socket[d] = "none")
      /\ op \in [Conn -> Operation]
  BY DEF FitInv, ManagerInv, TypeInv, TypeOK, Fits, Operation
<1>2. UNCHANGED <<chunks, taken, received, reply>>
  BY DEF AcceptCompletes, Signal, AcceptFails, OnAccept, OnSignal, Exit, vars, clientVars,
         connVars
<1>3. CASE \E c \in Conn : AcceptCompletes(c)
  <2>1. UNCHANGED <<socket, op>> /\ (d \in accepted' => socket[d] = "none")
    BY <1>3 DEF AcceptCompletes, connVars
  <2> QED BY <1>1, <1>2, <2>1, StillFits
<1>4. CASE Signal \/ AcceptFails \/ Exit \/ UNCHANGED vars
  <2>1. UNCHANGED <<socket, op, accepted>>
    BY <1>4 DEF Signal, AcceptFails, Exit, vars, connVars, serverVars
  <2> QED BY <1>1, <1>2, <2>1, StillFits
<1>5. CASE OnAccept /\ acceptorOpen
  <2>1. StartAccepted /\ accepted' = {}
    BY <1>5 DEF OnAccept, StartAccepted
  <2>2. CASE d \in accepted
    <3>1. op'[d].kind = "read" /\ op'[d].state = "pending" /\ socket'[d] = "open"
      BY <2>1, <2>2 DEF StartAccepted, ManagerStart
    <3>2. taken'[d] = 0 /\ received'[d] = <<>>
      BY <1>1, <1>2, <2>2 DEF Fits
    <3>3. Undecided(d, taken[d])'
      BY <3>2 DEF Undecided
    <3> QED BY <2>1, <3>1, <3>2, <3>3 DEF Fits, OpIs
  <2>3. CASE d \notin accepted
    <3>1. op'[d] = op[d] /\ socket'[d] = socket[d]
      BY <2>1, <2>3 DEF StartAccepted, ManagerStart
    <3> QED BY <1>1, <1>2, <2>1, <3>1, StillFits
  <2> QED BY <2>2, <2>3
<1>6. CASE OnAccept /\ ~acceptorOpen
  <2>1. /\ op' = op /\ accepted' = {}
        /\ socket'[d] = IF d \in accepted THEN "closed" ELSE socket[d]
    BY <1>6 DEF OnAccept, DropAccepted
  <2> QED BY <1>1, <1>2, <2>1, StillFits
<1>7. CASE OnSignal
  <2>1. accepted' = accepted /\ StopConnections(connections, op)
    BY <1>7 DEF OnSignal, StopAll
  <2>2. connections = {c \in Conn : socket[c] = "open"}
    BY DEF FitInv, ManagerInv, ManagedAreOpen
  <2>3. /\ socket'[d] = "none" <=> socket[d] = "none"
        /\ op'[d] = op[d]
           \/ (op[d].state = "pending" /\ op'[d] = [op[d] EXCEPT !.state = "aborted"])
    BY <2>1, <2>2 DEF StopConnections
  <2>4. \/ op'[d] = op[d]
        \/ op[d].state = "pending" /\ op'[d].kind = op[d].kind /\ op'[d].state = "aborted"
    BY <1>1, <2>3 DEF Operation
  <2> QED BY <1>1, <1>2, <2>1, <2>3, <2>4, StillFits
<1> QED BY <1>3, <1>4, <1>5, <1>6, <1>7

\* A client gets at most one reply, and the one its request deserves, in
\* whatever pieces the request comes and whatever is sent behind it: one
\* operation at a time is under way, and nothing is read after the chunk that
\* decides.
THEOREM RepliesFit == Spec => []ReplyFitsRequest
<1>1. Init => FitInv
  <2> SUFFICES ASSUME Init PROVE \A c \in Conn : Fits(c)
    BY InitTyped DEF FitInv, ManagerInv, ManagedAreOpen, Init
  <2> QED BY DEF Init, Fits, OpIs, Idle
<1>2. FitInv /\ [Next]_vars => FitInv'
  <2> SUFFICES ASSUME FitInv, [Next]_vars PROVE \A d \in Conn : Fits(d)'
    BY Typed, Managed DEF FitInv, ManagerInv
  <2> QED BY ClientsFit, OutcomesFit, HandlersFit, ServerFits DEF Next
<1>3. FitInv => ReplyFitsRequest
  <2> SUFFICES ASSUME FitInv, NEW c \in Conn, received[c] # <<>>
               PROVE  /\ Len(received[c]) = 1
                      /\ \E i \in 1..Len(chunks[c]) :
                            /\ \A j \in 1..(i - 1) : chunks[c][j] = "indeterminate"
                            /\ received[c][1] = (CASE chunks[c][i] = "good" -> "page"
                                                   [] chunks[c][i] = "bad"  -> "bad_request"
                                                   [] OTHER -> "none")
    BY DEF ReplyFitsRequest
  <2>1. Len(received[c]) = 1 /\ Decides(c, received[c][1])
    BY DEF FitInv, Fits
  <2>2. taken[c] \in 1..Len(chunks[c])
    <3>1. taken[c] \in Nat /\ taken[c] <= Len(chunks[c]) /\ chunks[c] \in Seq(ParseResult)
      BY DEF FitInv, ManagerInv, TypeInv, TypeOK
    <3>2. Len(chunks[c]) \in Nat
      BY <3>1
    <3> QED BY <2>1, <3>1, <3>2 DEF Decides
  <2>3. \A j \in 1..(taken[c] - 1) : chunks[c][j] = "indeterminate"
    BY <2>1 DEF Decides, Undecided
  <2>4. received[c][1] = (CASE chunks[c][taken[c]] = "good" -> "page"
                            [] chunks[c][taken[c]] = "bad"  -> "bad_request"
                            [] OTHER -> "none")
    <3>1. CASE Buffer(c) = "good" /\ received[c][1] = "page"
      BY <3>1 DEF Buffer
    <3>2. CASE Buffer(c) = "bad" /\ received[c][1] = "bad_request"
      BY <3>2 DEF Buffer
    <3> QED BY <2>1, <3>1, <3>2 DEF Decides
  <2> QED BY <2>1, <2>2, <2>3, <2>4
<1> QED BY <1>1, <1>2, <1>3, PTL DEF Spec
=============================================================================
