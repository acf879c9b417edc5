-------------------------- MODULE HttpServer3Proofs --------------------------
(***************************************************************************)
(* What is proved of HttpServer3 for any threads, connections and chunks.  *)
(***************************************************************************)
EXTENDS HttpServer3, FiniteSetTheorems, TLAPS

-----------------------------------------------------------------------------
(* The strand excludes: whoever is inside holds its lock.                  *)

\* Every thread does something, and every connection has a strand.
Shape ==
    /\ at = [t \in Thread |-> at[t]]
    /\ strand = [c \in Conn |-> strand[c]]

\* The handler in a strand is alone, and the strand is locked while it is
\* there: one that is free or about to run its invoker is empty.
Locked ==
    \A c \in Conn : \A t \in Inside(c) :
        /\ strand[c] = "running"
        /\ Inside(c) = {t}

StrandInv == Shape /\ Locked

\* A thread that goes from outside a strand to outside.
LEMMA StaysOutside ==
    ASSUME StrandInv, NEW t \in Thread, NEW what, Goes(t, what),
           at[t].step \notin ConnStep, what.step \notin ConnStep,
           UNCHANGED strand
    PROVE  StrandInv'
<1>1. Shape'
  BY DEF StrandInv, Shape, Goes
<1>2. \A c \in Conn : Inside(c)' = Inside(c)
  BY DEF StrandInv, Shape, Goes, Inside
<1> QED BY <1>1, <1>2 DEF StrandInv, Locked

\* A thread that is in a strand and remains in it.
LEMMA StaysInside ==
    ASSUME StrandInv, NEW t \in Thread, NEW c \in Conn, NEW what, Goes(t, what),
           at[t].step \in ConnStep, at[t].conn = c,
           what.step \in ConnStep, what.conn = c,
           UNCHANGED strand
    PROVE  StrandInv'
<1>1. Shape'
  BY DEF StrandInv, Shape, Goes
<1>2. \A d \in Conn : Inside(d)' = Inside(d)
  BY DEF StrandInv, Shape, Goes, Inside
<1> QED BY <1>1, <1>2 DEF StrandInv, Locked

\* A thread that enters a strand nobody is in.
LEMMA GoesIn ==
    ASSUME StrandInv, NEW t \in Thread, NEW c \in Conn, NEW what, Goes(t, what),
           at[t].step \notin ConnStep,
           what.step \in ConnStep, what.conn = c,
           strand[c] # "running",
           strand' = [strand EXCEPT ![c] = "running"]
    PROVE  StrandInv'
<1>1. Shape'
  BY DEF StrandInv, Shape, Goes
<1>2. Inside(c) = {}
  BY DEF StrandInv, Locked
<1>3. Inside(c)' = {t} /\ strand'[c] = "running"
  BY <1>2 DEF StrandInv, Shape, Goes, Inside
<1>4. ASSUME NEW d \in Conn, d # c
      PROVE  Inside(d)' = Inside(d) /\ strand'[d] = strand[d]
  BY <1>4 DEF StrandInv, Shape, Goes, Inside
<1> QED BY <1>1, <1>3, <1>4 DEF StrandInv, Locked

\* A thread that leaves a strand.
LEMMA GoesOut ==
    ASSUME StrandInv, NEW t \in Thread, NEW c \in Conn, NEW what, Goes(t, what),
           at[t].step \in ConnStep, at[t].conn = c,
           what.step \notin ConnStep,
           NEW next, strand' = [strand EXCEPT ![c] = next]
    PROVE  StrandInv'
<1>1. Shape'
  BY DEF StrandInv, Shape, Goes
<1>2. Inside(c) = {t}
  BY DEF StrandInv, Locked, Inside
<1>3. Inside(c)' = {}
  BY <1>2 DEF StrandInv, Shape, Goes, Inside
<1>4. ASSUME NEW d \in Conn, d # c
      PROVE  Inside(d)' = Inside(d) /\ strand'[d] = strand[d]
  BY <1>4 DEF StrandInv, Shape, Goes, Inside
<1> QED BY <1>1, <1>3, <1>4 DEF StrandInv, Locked

\* Every strand is free at first.
LEMMA InitStrandInv == Init => StrandInv
  BY DEF Init, StrandInv, Shape, Locked, Inside, Running, ConnStep

\* No step lets two handlers of one connection into its strand.
LEMMA NextKeepsStrandInv == StrandInv /\ [Next]_vars => StrandInv'
<1> USE DEF ConnStep, Running, Returned, Signalled, OnAccept, OnConn
<1> SUFFICES ASSUME StrandInv, [Next]_vars PROVE StrandInv'
  OBVIOUS
<1> DEFINE Quiet == UNCHANGED <<strand, at>>
<1>1. CASE Quiet
  BY <1>1 DEF StrandInv, Shape, Locked, Inside
<1>2. ASSUME NEW c \in Conn, ClientStep(c) \/ AcceptCompletes(c) \/ Outcome(c)
      PROVE  Quiet
  BY <1>2 DEF ClientStep, Connect, SendChunk, Quit, AcceptCompletes, Outcome,
              ReadCompletes, WriteCompletes, Fails, strandVars
<1>3. Signal \/ AcceptFails \/ Join \/ UNCHANGED vars => Quiet
  BY DEF Signal, AcceptFails, Join, vars, strandVars
<1>4. ASSUME NEW t \in Thread, TakeAccept(t) \/ TakeSignal(t) \/ Exit(t)
      PROVE  StrandInv'
  <2>1. CASE TakeAccept(t)
    <3>1. Goes(t, OnAccept("accept", incoming)) /\ at[t] = Running /\ UNCHANGED strand
      BY <2>1 DEF TakeAccept, strandVars
    <3> QED BY <3>1, StaysOutside
  <2>2. CASE TakeSignal(t)
    <3>1. Goes(t, Signalled) /\ at[t] = Running /\ UNCHANGED strand
      BY <2>2 DEF TakeSignal, strandVars
    <3> QED BY <3>1, StaysOutside
  <2>3. CASE Exit(t)
    <3>1. Goes(t, Returned) /\ at[t] = Running /\ UNCHANGED strand
      BY <2>3 DEF Exit, strandVars
    <3> QED BY <3>1, StaysOutside
  <2> QED BY <1>4, <2>1, <2>2, <2>3
<1>5. ASSUME NEW t \in Thread, NEW c \in Conn, TakeOp(t, c) \/ TakeInvoker(t, c)
      PROVE  StrandInv'
  <2>1. CASE TakeOp(t, c)
    <3>1. /\ Goes(t, OnConn("enter", c, op[c], "none")) /\ at[t] = Running
          /\ UNCHANGED strand
      BY <2>1 DEF TakeOp, strandVars
    <3> QED BY <3>1, StaysOutside
  <2>2. CASE TakeInvoker(t, c)
    <3>1. /\ \E what : Goes(t, what) /\ what.step \in ConnStep /\ what.conn = c
          /\ at[t].step \notin ConnStep
          /\ strand[c] # "running" /\ strand' = [strand EXCEPT ![c] = "running"]
      BY <2>2 DEF TakeInvoker
    <3> QED BY <3>1, GoesIn
  <2> QED BY <1>5, <2>1, <2>2
<1>6. ASSUME NEW t \in Thread,
             OnAccepted(t) \/ AcceptAgain(t) \/ AcceptReturns(t) \/ Stop(t)
      PROVE  StrandInv'
  <2>1. /\ at[t].step \in {"accept", "accept_again", "accept_return", "signal"}
        /\ \E what : Goes(t, what) /\ what.step \in {"accept_again", "accept_return", "run"}
        /\ UNCHANGED strand
    BY <1>6 DEF OnAccepted, AcceptAgain, AcceptReturns, Stop, strandVars
  <2> QED BY <2>1, StaysOutside
<1>7. ASSUME NEW t \in Thread, NEW c \in Conn, Enter(t, c)
      PROVE  StrandInv'
  <2>1. CASE strand[c] = "free"
    <3>1. /\ \E what : Goes(t, what) /\ what.step \in ConnStep /\ what.conn = c
          /\ at[t].step \notin ConnStep
          /\ strand' = [strand EXCEPT ![c] = "running"]
      BY <1>7, <2>1 DEF Enter
    <3> QED BY <2>1, <3>1, GoesIn
  <2>2. CASE strand[c] # "free"
    <3>1. Goes(t, Running) /\ at[t].step = "enter" /\ UNCHANGED strand
      BY <1>7, <2>2 DEF Enter
    <3> QED BY <3>1, StaysOutside
  <2> QED BY <2>1, <2>2
<1>8. ASSUME NEW t \in Thread, NEW c \in Conn,
             OnRead(t, c) \/ OnParsed(t, c) \/ OnWritten(t, c) \/ OnError(t, c)
      PROVE  StrandInv'
  <2>1. /\ at[t].step \in ConnStep /\ at[t].conn = c
        /\ \E what : Goes(t, what) /\ what.step \in ConnStep /\ what.conn = c
        /\ UNCHANGED strand
    BY <1>8 DEF OnRead, OnParsed, OnWritten, OnError, strandVars
  <2> QED BY <2>1, StaysInside
<1>9. ASSUME NEW t \in Thread, NEW c \in Conn, Leave(t, c)
      PROVE  StrandInv'
  <2>1. /\ Goes(t, Running) /\ at[t].step = "return" /\ at[t].conn = c
        /\ \E next : strand' = [strand EXCEPT ![c] = next]
    BY <1>9 DEF Leave
  <2> QED BY <2>1, GoesOut
<1> QED BY <1>1, <1>2, <1>3, <1>4, <1>5, <1>6, <1>7, <1>8, <1>9 DEF Next, Step

\* The strands exclude in every reachable state.
LEMMA StrandInvariance == Spec => []StrandInv
  BY InitStrandInv, NextKeepsStrandInv, PTL DEF Spec

\* Two threads are never inside two completion handlers of one connection.
THEOREM StrandsExclude == Spec => []HandlersDoNotOverlap
<1>1. StrandInv => HandlersDoNotOverlap
  <2> SUFFICES ASSUME StrandInv, NEW c \in Conn
               PROVE  Cardinality(Inside(c)) <= 1
    BY DEF HandlersDoNotOverlap
  <2>1. CASE Inside(c) = {}
    BY <2>1, FS_EmptySet
  <2>2. CASE Inside(c) # {}
    <3>1. PICK t \in Inside(c) : Inside(c) = {t}
      BY <2>2 DEF StrandInv, Locked
    <3> QED BY <3>1, FS_Singleton
  <2> QED BY <2>1, <2>2
<1> QED BY <1>1, StrandInvariance, PTL

-----------------------------------------------------------------------------
(* The chain of accepts: an accept is outstanding or one thread has its    *)
(* handler, never both and never two.                                      *)

AcceptStarts == {"accept", "accept_again"}

ChainInv ==
    /\ at = [t \in Thread |-> at[t]]
    /\ accept # "none" => Acceptors = {}
    /\ accept = "none" => \E t \in Thread : Acceptors = {t}

\* A thread that had nothing to do with the accept and has nothing to do
\* with it afterwards.
LEMMA NotAnAcceptor ==
    ASSUME ChainInv, NEW t \in Thread, NEW what, Goes(t, what),
           at[t].step \notin AcceptStarts, what.step \notin AcceptStarts,
           UNCHANGED accept
    PROVE  ChainInv'
<1>1. Acceptors' = Acceptors
  BY DEF ChainInv, Goes, Acceptors, AcceptStarts
<1>2. at' = [u \in Thread |-> at'[u]]
  BY DEF ChainInv, Goes
<1> QED BY <1>1, <1>2 DEF ChainInv

\* The first accept is started before the threads are.
LEMMA InitChainInv == Init => ChainInv
  BY DEF Init, ChainInv, Acceptors, Running

\* Every step carries the chain on.
LEMMA NextKeepsChainInv == ChainInv /\ [Next]_vars => ChainInv'
<1> USE DEF ConnStep, Running, Returned, Signalled, OnAccept, OnConn
<1> SUFFICES ASSUME ChainInv, [Next]_vars PROVE ChainInv'
  OBVIOUS
<1> DEFINE Quiet == UNCHANGED <<accept, at>>
<1>1. CASE Quiet
  BY <1>1 DEF ChainInv, Acceptors
<1>2. ASSUME NEW c \in Conn, ClientStep(c) \/ Outcome(c)
      PROVE  Quiet
  BY <1>2 DEF ClientStep, Connect, SendChunk, Quit, Outcome, ReadCompletes,
              WriteCompletes, Fails, acceptVars
<1>3. Signal \/ Join \/ UNCHANGED vars => Quiet
  BY DEF Signal, Join, vars, acceptVars
<1>4. ASSUME AcceptFails \/ \E c \in Conn : AcceptCompletes(c)
      PROVE  ChainInv'
  <2>1. accept # "none" /\ accept' # "none" /\ UNCHANGED at
    BY <1>4 DEF AcceptFails, AcceptCompletes
  <2> QED BY <2>1 DEF ChainInv, Acceptors
<1>5. ASSUME NEW t \in Thread, TakeAccept(t)
      PROVE  ChainInv'
  <2>1. /\ accept # "none" /\ accept' = "none"
        /\ \E what : Goes(t, what) /\ what.step = "accept"
    BY <1>5 DEF TakeAccept
  <2>2. Acceptors' = {t}
    BY <2>1 DEF ChainInv, Goes, Acceptors
  <2>3. at' = [u \in Thread |-> at'[u]]
    BY <2>1 DEF ChainInv, Goes
  <2> QED BY <2>1, <2>2, <2>3 DEF ChainInv
<1>6. ASSUME NEW t \in Thread, OnAccepted(t)
      PROVE  ChainInv'
  <2>1. /\ at[t].step = "accept" /\ UNCHANGED accept
        /\ \E what : Goes(t, what) /\ what.step = "accept_again"
    BY <1>6 DEF OnAccepted, acceptVars
  <2>2. Acceptors' = Acceptors
    BY <2>1 DEF ChainInv, Goes, Acceptors
  <2>3. at' = [u \in Thread |-> at'[u]]
    BY <2>1 DEF ChainInv, Goes
  <2> QED BY <2>1, <2>2, <2>3 DEF ChainInv
<1>7. ASSUME NEW t \in Thread, AcceptAgain(t)
      PROVE  ChainInv'
  <2>1. /\ at[t].step = "accept_again" /\ accept' = "pending"
        /\ \E what : Goes(t, what) /\ what.step = "accept_return"
    BY <1>7 DEF AcceptAgain
  <2>2. Acceptors = {t}
    BY <2>1 DEF ChainInv, Acceptors
  <2>3. Acceptors' = {}
    BY <2>1, <2>2 DEF ChainInv, Goes, Acceptors
  <2>4. at' = [u \in Thread |-> at'[u]]
    BY <2>1 DEF ChainInv, Goes
  <2> QED BY <2>1, <2>3, <2>4 DEF ChainInv
<1>8. ASSUME NEW t \in Thread, TakeSignal(t) \/ Exit(t) \/ AcceptReturns(t) \/ Stop(t)
      PROVE  ChainInv'
  <2>1. /\ at[t].step \notin AcceptStarts /\ UNCHANGED accept
        /\ \E what : Goes(t, what) /\ what.step \notin AcceptStarts
    BY <1>8 DEF TakeSignal, Exit, AcceptReturns, Stop, acceptVars, AcceptStarts
  <2> QED BY <2>1, NotAnAcceptor
<1>9. ASSUME NEW t \in Thread, NEW c \in Conn,
             \/ TakeOp(t, c) \/ TakeInvoker(t, c) \/ Enter(t, c) \/ Leave(t, c)
             \/ OnRead(t, c) \/ OnParsed(t, c) \/ OnWritten(t, c) \/ OnError(t, c)
      PROVE  ChainInv'
  <2>1. at[t].step \notin AcceptStarts /\ UNCHANGED accept
    BY <1>9 DEF TakeOp, TakeInvoker, Enter, Leave, OnRead, OnParsed, OnWritten,
                OnError, acceptVars, AcceptStarts
  <2>2. \E what : Goes(t, what) /\ what.step \notin AcceptStarts
    BY <1>9 DEF TakeOp, TakeInvoker, Enter, Leave, OnRead, OnParsed, OnWritten,
                OnError, AcceptStarts
  <2> QED BY <2>1, <2>2, NotAnAcceptor
<1> QED
  BY <1>1, <1>2, <1>3, <1>4, <1>5, <1>6, <1>7, <1>8, <1>9 DEF Next, Step

\* Whatever an accept comes to, the next one follows, and only one: the chain
\* of server::do_accept neither breaks nor forks.
THEOREM AcceptChainUnbroken == Spec => []AcceptChainHolds
<1>1. ChainInv => AcceptChainHolds
  <2> SUFFICES ASSUME ChainInv PROVE AcceptChainHolds
    OBVIOUS
  <2>1. CASE accept # "none"
    <3>1. Cardinality(Acceptors) = 0
      BY <2>1, FS_EmptySet DEF ChainInv
    <3> QED BY <2>1, <3>1 DEF AcceptChainHolds
  <2>2. CASE accept = "none"
    <3>1. Cardinality(Acceptors) = 1
      BY <2>2, FS_Singleton DEF ChainInv
    <3> QED BY <2>2, <3>1 DEF AcceptChainHolds
  <2> QED BY <2>1, <2>2
<1> QED BY <1>1, InitChainInv, NextKeepsChainInv, PTL DEF Spec

-----------------------------------------------------------------------------
(* Types.                                                                  *)

\* TypeOK but for the length of the strands' queues, which is a matter of who
\* owns a connection.
Types ==
    /\ client \in [Conn -> {"away", "open", "gone"}]
    /\ chunks \in [Conn -> Seq(ParseResult)]
    /\ taken \in [Conn -> Nat] /\ \A c \in Conn : taken[c] <= Len(chunks[c])
    /\ received \in [Conn -> Seq({"page", "bad_request"})]
    /\ accept \in {"none", "pending", "ok", "error"}
    /\ incoming \subseteq Conn /\ accepted \subseteq Conn
    /\ op \in [Conn -> Operation]
    /\ reply \in [Conn -> {"none", "page", "bad_request"}]
    /\ strand \in [Conn -> {"free", "running", "posted"}]
    /\ waiting \in [Conn -> Seq(Operation)]
    /\ signal \in {"none", "pending", "ok"}
    /\ stopped \in BOOLEAN /\ joined \in BOOLEAN
    /\ at \in [Thread -> Doing]

ReadOk == [kind |-> "read", state |-> "ok"]

\* The handler of a read that succeeded finds something in the buffer,
\* wherever it is on its way.
ReadsTake ==
    \A c \in Conn :
        (\/ op[c] = ReadOk
         \/ \E i \in DOMAIN waiting[c] : waiting[c][i] = ReadOk
         \/ \E t \in Thread : /\ at[t].step \in {"enter", "complete"}
                              /\ at[t].conn = c /\ at[t].ended = ReadOk)
        => taken[c] >= 1

\* Nothing is written before there is a reply.
RepliesAreMade ==
    /\ \A c \in Conn : op[c] = Pending("write") => reply[c] # "none"
    /\ \A t \in Thread :
          at[t].step = "parsed" /\ at[t].result # "indeterminate"
             => reply[at[t].conn] # "none"

\* The invoker is posted only for a handler that waits.
PostedWaits == \A c \in Conn : strand[c] = "posted" => waiting[c] # <<>>

TypeInv == Types /\ ReadsTake /\ RepliesAreMade /\ PostedWaits

\* A thread that has a connection's handler knows which, and what it ends.
LEMMA HasHandler ==
    ASSUME NEW d \in Doing, d.step \in ConnStep \cup {"enter"}
    PROVE  d.conn \in Conn /\ d.ended \in Operation
           /\ d.result \in ParseResult \cup {"none"}
  BY DEF Doing, ConnStep, AcceptStep

LEMMA HasSockets ==
    ASSUME NEW d \in Doing, d.step \in AcceptStep
    PROVE  d.conns \subseteq Conn
  BY DEF Doing, ConnStep, AcceptStep

\* What a thread may be doing next.
LEMMA CanDo ==
    /\ Running \in Doing /\ Returned \in Doing /\ Signalled \in Doing
    /\ \A s \in AcceptStep, cs \in SUBSET Conn : OnAccept(s, cs) \in Doing
    /\ \A s \in ConnStep \cup {"enter"}, c \in Conn, ended \in Operation,
          result \in ParseResult \cup {"none"} :
          OnConn(s, c, ended, result) \in Doing
  BY DEF Doing, Running, Returned, Signalled, OnAccept, OnConn

LEMMA IdleIsOperation ==
    /\ Idle \in Operation /\ Pending("read") \in Operation
    /\ Pending("write") \in Operation /\ ReadOk \in Operation
    /\ Pending("write") # ReadOk /\ Idle # ReadOk /\ Pending("read") # ReadOk
    /\ Idle # Pending("write") /\ Pending("read") # Pending("write")
    /\ Idle # Pending("read")
  BY DEF Idle, Pending, Operation, ReadOk

\* What a step of a thread does to the threads.
LEMMA ThreadGoes ==
    ASSUME at \in [Thread -> Doing], NEW t \in Thread, NEW what \in Doing,
           Goes(t, what)
    PROVE  /\ at' \in [Thread -> Doing]
           /\ at'[t] = what
           /\ \A u \in Thread : u # t => at'[u] = at[u]
  BY DEF Goes

LEMMA InitTypeInv == Init => TypeInv
<1> SUFFICES ASSUME Init PROVE TypeInv
  OBVIOUS
<1>1. \A t \in Thread : at[t].step = "run"
  BY DEF Init, Running
<1>2. at \in [Thread -> Doing] /\ op \in [Conn -> Operation]
  BY IdleIsOperation, CanDo DEF Init
<1>3. Types
  <2>1. /\ <<>> \in Seq(ParseResult) /\ <<>> \in Seq(Operation)
        /\ <<>> \in Seq({"page", "bad_request"}) /\ Len(<<>>) = 0
    OBVIOUS
  <2>2. /\ chunks \in [Conn -> Seq(ParseResult)] /\ waiting \in [Conn -> Seq(Operation)]
        /\ received \in [Conn -> Seq({"page", "bad_request"})]
        /\ taken \in [Conn -> Nat] /\ \A c \in Conn : taken[c] <= Len(chunks[c])
    BY <2>1 DEF Init
  <2> QED BY <1>2, <2>2 DEF Init, Types
<1>4. ReadsTake
  <2>1. \A c \in Conn : op[c] = Idle /\ waiting[c] = <<>>
    BY DEF Init
  <2> QED BY <1>1, <2>1, IdleIsOperation DEF ReadsTake
<1>5. RepliesAreMade /\ PostedWaits
  BY <1>1, IdleIsOperation DEF Init, RepliesAreMade, PostedWaits
<1> QED BY <1>3, <1>4, <1>5 DEF TypeInv

-----------------------------------------------------------------------------
(* The steps that leave the threads alone.                                 *)

LEMMA EnvironmentKeepsTypes ==
    ASSUME TypeInv,
           \/ Signal \/ AcceptFails \/ Join
           \/ \E c \in Conn : ClientStep(c) \/ AcceptCompletes(c)
    PROVE  TypeInv'
<1>1. ASSUME NEW c \in Conn, ClientStep(c)
      PROVE  TypeInv'
  <2>1. /\ UNCHANGED <<taken, received, acceptVars, op, reply, strandVars, stopVars, at>>
        /\ client' \in [Conn -> {"away", "open", "gone"}]
    BY <1>1 DEF ClientStep, Connect, SendChunk, Quit, TypeInv, Types
  <2>2. /\ chunks' \in [Conn -> Seq(ParseResult)]
        /\ \A d \in Conn : Len(chunks[d]) <= Len(chunks'[d])
    <3>1. CASE UNCHANGED chunks
      BY <3>1 DEF TypeInv, Types
    <3>2. ASSUME NEW r \in ParseResult, chunks' = [chunks EXCEPT ![c] = Append(@, r)]
          PROVE  <2>2
      BY <3>2 DEF TypeInv, Types
    <3> QED BY <1>1, <3>1, <3>2 DEF ClientStep, Connect, SendChunk, Quit
  <2>3. Types'
    BY <2>1, <2>2 DEF TypeInv, Types, acceptVars, strandVars, stopVars
  <2> QED
    BY <2>1, <2>3 DEF TypeInv, ReadsTake, RepliesAreMade, PostedWaits, strandVars
<1>2. CASE AcceptFails \/ \E c \in Conn : AcceptCompletes(c)
  <2>1. /\ accept' \in {"ok", "error"} /\ incoming' \subseteq Conn /\ accepted' \subseteq Conn
        /\ UNCHANGED <<clientVars, taken, received, op, reply, strandVars, stopVars, at>>
    BY <1>2 DEF AcceptCompletes, AcceptFails, TypeInv, Types
  <2> QED
    BY <2>1 DEF TypeInv, Types, ReadsTake, RepliesAreMade, PostedWaits, clientVars,
                strandVars, stopVars
<1>3. CASE Signal \/ Join
  <2>1. /\ signal' \in {"none", "pending", "ok"} /\ joined' \in BOOLEAN
        /\ UNCHANGED <<clientVars, taken, received, acceptVars, op, reply, strandVars,
                       stopped, at>>
    BY <1>3 DEF Signal, Join, TypeInv, Types
  <2> QED
    BY <2>1 DEF TypeInv, Types, ReadsTake, RepliesAreMade, PostedWaits, clientVars,
                acceptVars, strandVars
<1> QED BY <1>1, <1>2, <1>3

\* An operation that ends remains what it was.
LEMMA OperationEnds ==
    ASSUME Types, NEW c \in Conn, NEW kind, NEW state,
           op[c] = Pending(kind), SetState(c, state)
    PROVE  op' = [op EXCEPT ![c] = [kind |-> kind, state |-> state]]
<1>1. [Pending(kind) EXCEPT !.state = state] = [kind |-> kind, state |-> state]
  BY DEF Pending
<1>2. op' = [op EXCEPT ![c] = [op[c] EXCEPT !.state = state]]
  BY DEF SetState, Types
<1> QED BY <1>1, <1>2

LEMMA OutcomeKeepsTypes ==
    ASSUME TypeInv, NEW c \in Conn, Outcome(c)
    PROVE  TypeInv'
<1>1. \E kind \in {"read", "write"}, state \in {"ok", "error"} :
         /\ op[c] = Pending(kind)
         /\ op' = [op EXCEPT ![c] = [kind |-> kind, state |-> state]]
         /\ kind = "read" /\ state = "ok" => ReadCompletes(c)
  <2>1. CASE ReadCompletes(c)
    <3>1. /\ op[c] = Pending("read")
          /\ op' = [op EXCEPT ![c] = [kind |-> "read", state |-> "ok"]]
      BY <2>1, OperationEnds DEF TypeInv, ReadCompletes
    <3> QED BY <2>1, <3>1
  <2>2. CASE WriteCompletes(c)
    <3>1. /\ op[c] = Pending("write")
          /\ op' = [op EXCEPT ![c] = [kind |-> "write", state |-> "ok"]]
      BY <2>2, OperationEnds DEF TypeInv, WriteCompletes
    <3> QED BY <3>1
  <2>3. CASE Fails(c)
    <3>1. PICK kind \in {"read", "write"} :
            /\ op[c] = Pending(kind)
            /\ op' = [op EXCEPT ![c] = [kind |-> kind, state |-> "error"]]
      BY <2>3, OperationEnds DEF TypeInv, Fails
    <3> QED BY <3>1
  <2> QED BY <2>1, <2>2, <2>3 DEF Outcome
<1>2. PICK kind \in {"read", "write"}, state \in {"ok", "error"} :
         /\ op[c] = Pending(kind)
         /\ op' = [op EXCEPT ![c] = [kind |-> kind, state |-> state]]
         /\ kind = "read" /\ state = "ok" => ReadCompletes(c)
  BY <1>1
<1>3. /\ op' \in [Conn -> Operation] /\ op'[c] # Pending("write")
      /\ \A d \in Conn : d # c => op'[d] = op[d]
      /\ op'[c] = ReadOk => ReadCompletes(c)
  BY <1>2 DEF TypeInv, Types, Operation, Pending, ReadOk
<1>4. /\ UNCHANGED <<clientVars, acceptVars, reply, strandVars, stopVars, at>>
      /\ taken' \in [Conn -> Nat]
      /\ \A d \in Conn : taken'[d] <= Len(chunks[d]) /\ taken[d] <= taken'[d]
      /\ ReadCompletes(c) => taken'[c] >= 1
  <2>1. CASE ReadCompletes(c)
    BY <2>1 DEF ReadCompletes, TypeInv, Types
  <2>2. CASE ~ReadCompletes(c)
    BY <2>2 DEF Outcome, WriteCompletes, Fails, TypeInv, Types
  <2> QED BY <2>1, <2>2
<1>5. received' \in [Conn -> Seq({"page", "bad_request"})]
  <2>1. CASE UNCHANGED received
    BY <2>1 DEF TypeInv, Types
  <2>2. CASE WriteCompletes(c)
    <3>1. reply[c] \in {"page", "bad_request"}
      BY <2>2 DEF WriteCompletes, TypeInv, Types, RepliesAreMade
    <3> QED BY <2>2, <3>1 DEF WriteCompletes, TypeInv, Types
  <2> QED BY <2>1, <2>2 DEF Outcome, ReadCompletes, Fails
<1>6. Types'
  BY <1>3, <1>4, <1>5 DEF TypeInv, Types, clientVars, acceptVars, strandVars, stopVars
<1>7. ReadsTake'
  <2> SUFFICES ASSUME NEW d \in Conn,
                      \/ op'[d] = ReadOk
                      \/ \E i \in DOMAIN waiting'[d] : waiting'[d][i] = ReadOk
                      \/ \E t \in Thread : /\ at'[t].step \in {"enter", "complete"}
                                           /\ at'[t].conn = d /\ at'[t].ended = ReadOk
               PROVE  taken'[d] >= 1
    BY DEF ReadsTake
  <2>1. taken[d] \in Nat /\ taken'[d] \in Nat
    BY <1>4 DEF TypeInv, Types
  <2>2. CASE op'[d] = ReadOk /\ d = c
    BY <1>3, <1>4, <2>2
  <2>3. CASE ~(op'[d] = ReadOk /\ d = c)
    <3>1. taken[d] >= 1
      BY <1>3, <1>4, <2>3 DEF TypeInv, ReadsTake, strandVars
    <3> QED BY <1>4, <2>1, <3>1
  <2> QED BY <2>2, <2>3
<1>8. RepliesAreMade' /\ PostedWaits'
  BY <1>3, <1>4 DEF TypeInv, RepliesAreMade, PostedWaits, strandVars
<1> QED BY <1>6, <1>7, <1>8 DEF TypeInv

-----------------------------------------------------------------------------
(* The steps of the threads.                                               *)

\* A thread that has no handler of a connection afterwards.
LEMMA AwayKeepsTypes ==
    ASSUME TypeInv, NEW t \in Thread, NEW what \in Doing, Goes(t, what),
           what.step \notin ConnStep \cup {"enter"},
           UNCHANGED <<client, chunks, taken, received, accepted, reply, strand, waiting>>,
           accept' \in {"none", "pending", "ok", "error"}, incoming' \subseteq Conn,
           op' \in [Conn -> Operation],
           \A c \in Conn : op'[c] # op[c] => op'[c] = Pending("read"),
           signal' \in {"none", "pending", "ok"}, stopped' \in BOOLEAN, joined' \in BOOLEAN
    PROVE  TypeInv'
<1>1. /\ at' \in [Thread -> Doing] /\ at'[t] = what
      /\ \A u \in Thread : u # t => at'[u] = at[u]
  BY ThreadGoes DEF TypeInv, Types
<1>2. Types'
  BY <1>1 DEF TypeInv, Types
<1>3. ReadsTake'
  BY <1>1, IdleIsOperation DEF TypeInv, ReadsTake, ConnStep
<1>4. RepliesAreMade' /\ PostedWaits'
  BY <1>1, IdleIsOperation DEF TypeInv, RepliesAreMade, PostedWaits, ConnStep
<1> QED BY <1>2, <1>3, <1>4 DEF TypeInv

\* Outside the strands.
LEMMA ServerKeepsTypes ==
    ASSUME TypeInv, NEW t \in Thread,
           \/ TakeAccept(t) \/ TakeSignal(t) \/ Exit(t) \/ OnAccepted(t)
           \/ AcceptAgain(t) \/ AcceptReturns(t) \/ Stop(t)
    PROVE  TypeInv'
<1> USE DEF ConnStep, AcceptStep, clientVars, acceptVars, strandVars, stopVars
<1>1. /\ at[t] \in Doing /\ incoming \subseteq Conn
      /\ {} \subseteq Conn /\ op \in [Conn -> Operation]
      /\ accept \in {"none", "pending", "ok", "error"}
      /\ signal \in {"none", "pending", "ok"} /\ stopped \in BOOLEAN /\ joined \in BOOLEAN
  BY DEF TypeInv, Types
<1>2. CASE TakeAccept(t)
  <2>1. OnAccept("accept", incoming) \in Doing
    BY <1>1, CanDo
  <2> QED BY <1>1, <1>2, <2>1, AwayKeepsTypes DEF TakeAccept, OnAccept
<1>3. CASE TakeSignal(t)
  BY <1>1, <1>3, CanDo, AwayKeepsTypes DEF TakeSignal, Signalled
<1>4. CASE Exit(t)
  BY <1>1, <1>4, CanDo, AwayKeepsTypes DEF Exit, Returned
<1>5. CASE OnAccepted(t)
  <2>1. OnAccept("accept_again", at[t].conns) \in Doing
    BY <1>1, <1>5, HasSockets, CanDo DEF OnAccepted
  <2>2. /\ op' \in [Conn -> Operation]
        /\ \A c \in Conn : op'[c] # op[c] => op'[c] = Pending("read")
    BY <1>1, <1>5, IdleIsOperation DEF OnAccepted
  <2> QED BY <1>1, <1>5, <2>1, <2>2, AwayKeepsTypes DEF OnAccepted, OnAccept
<1>6. CASE AcceptAgain(t)
  <2>1. OnAccept("accept_return", {}) \in Doing
    BY <1>1, CanDo
  <2> QED BY <1>1, <1>6, <2>1, AwayKeepsTypes DEF AcceptAgain, OnAccept
<1>7. CASE AcceptReturns(t)
  BY <1>1, <1>7, CanDo, AwayKeepsTypes DEF AcceptReturns, Running
<1>8. CASE Stop(t)
  BY <1>1, <1>8, CanDo, AwayKeepsTypes DEF Stop, Running
<1> QED BY <1>2, <1>3, <1>4, <1>5, <1>6, <1>7, <1>8

\* A thread takes an operation that has ended.
LEMMA TakeOpKeepsTypes ==
    ASSUME TypeInv, NEW t \in Thread, NEW c \in Conn, TakeOp(t, c)
    PROVE  TypeInv'
<1> DEFINE what == OnConn("enter", c, op[c], "none")
<1>1. what \in Doing /\ what.step = "enter" /\ what.conn = c /\ what.ended = op[c]
  BY CanDo DEF TypeInv, Types, OnConn
<1> HIDE DEF what
<1>2. /\ Goes(t, what)
      /\ op' = [op EXCEPT ![c] = Idle]
      /\ UNCHANGED <<clientVars, taken, received, acceptVars, reply, strandVars, stopVars>>
  BY DEF TakeOp, what
<1>3. /\ at' \in [Thread -> Doing] /\ at'[t] = what
      /\ \A u \in Thread : u # t => at'[u] = at[u]
  BY <1>1, <1>2, ThreadGoes DEF TypeInv, Types
<1>4. /\ op' \in [Conn -> Operation] /\ op'[c] = Idle
      /\ \A d \in Conn : d # c => op'[d] = op[d]
  BY <1>2, IdleIsOperation DEF TypeInv, Types
<1>5. Types'
  BY <1>2, <1>3, <1>4 DEF TypeInv, Types, clientVars, acceptVars, strandVars, stopVars
<1>6. ReadsTake'
  BY <1>1, <1>2, <1>3, <1>4, IdleIsOperation DEF TypeInv, ReadsTake, strandVars
<1>7. RepliesAreMade' /\ PostedWaits'
  BY <1>1, <1>2, <1>3, <1>4, IdleIsOperation
  DEF TypeInv, RepliesAreMade, PostedWaits, strandVars
<1> QED BY <1>5, <1>6, <1>7 DEF TypeInv

\* The strand's invoker takes the handler that has waited longest.
LEMMA TakeInvokerKeepsTypes ==
    ASSUME TypeInv, NEW t \in Thread, NEW c \in Conn, TakeInvoker(t, c)
    PROVE  TypeInv'
<1> DEFINE what == OnConn("complete", c, Head(waiting[c]), "none")
<1>1. /\ waiting[c] \in Seq(Operation) /\ waiting[c] # <<>>
      /\ Head(waiting[c]) \in Operation /\ Tail(waiting[c]) \in Seq(Operation)
      /\ Head(waiting[c]) = waiting[c][1] /\ 1 \in DOMAIN waiting[c]
      /\ \A i \in DOMAIN Tail(waiting[c]) :
            i + 1 \in DOMAIN waiting[c] /\ Tail(waiting[c])[i] = waiting[c][i + 1]
  BY DEF TypeInv, Types, PostedWaits, TakeInvoker
<1>2. /\ what \in Doing /\ what.step = "complete" /\ what.conn = c
      /\ what.ended = waiting[c][1]
  BY <1>1, CanDo DEF OnConn, ConnStep
<1> HIDE DEF what
<1>3. /\ Goes(t, what)
      /\ strand' = [strand EXCEPT ![c] = "running"]
      /\ waiting' = [waiting EXCEPT ![c] = Tail(waiting[c])]
      /\ UNCHANGED <<clientVars, taken, received, acceptVars, op, reply, stopVars>>
  BY DEF TakeInvoker, TypeInv, Types, what
<1>4. /\ at' \in [Thread -> Doing] /\ at'[t] = what
      /\ \A u \in Thread : u # t => at'[u] = at[u]
  BY <1>2, <1>3, ThreadGoes DEF TypeInv, Types
<1>5. /\ waiting' \in [Conn -> Seq(Operation)] /\ waiting'[c] = Tail(waiting[c])
      /\ \A d \in Conn : d # c => waiting'[d] = waiting[d]
      /\ strand' \in [Conn -> {"free", "running", "posted"}] /\ strand'[c] = "running"
      /\ \A d \in Conn : d # c => strand'[d] = strand[d]
  BY <1>1, <1>3 DEF TypeInv, Types
<1>6. Types'
  BY <1>3, <1>4, <1>5 DEF TypeInv, Types, clientVars, acceptVars, stopVars
<1>7. ReadsTake'
  BY <1>1, <1>2, <1>3, <1>4, <1>5 DEF TypeInv, ReadsTake
<1>8. RepliesAreMade' /\ PostedWaits'
  BY <1>2, <1>3, <1>4, <1>5 DEF TypeInv, RepliesAreMade, PostedWaits
<1> QED BY <1>6, <1>7, <1>8 DEF TypeInv

\* A handler reaches the strand.
LEMMA EnterKeepsTypes ==
    ASSUME TypeInv, NEW t \in Thread, NEW c \in Conn, Enter(t, c)
    PROVE  TypeInv'
<1> USE DEF ConnStep
<1>1. /\ at[t] \in Doing /\ at[t].step = "enter" /\ at[t].conn = c
      /\ at[t].ended \in Operation /\ waiting[c] \in Seq(Operation)
  BY HasHandler DEF Enter, TypeInv, Types
<1>2. UNCHANGED <<clientVars, taken, received, acceptVars, op, reply, stopVars>>
  BY DEF Enter
<1>3. CASE strand[c] = "free"
  <2> DEFINE what == OnConn("complete", c, at[t].ended, "none")
  <2>1. /\ what \in Doing /\ what.step = "complete" /\ what.conn = c
        /\ what.ended = at[t].ended
    BY <1>1, CanDo DEF OnConn
  <2> HIDE DEF what
  <2>2. /\ Goes(t, what) /\ strand' = [strand EXCEPT ![c] = "running"]
        /\ UNCHANGED waiting
    BY <1>3 DEF Enter, what
  <2>3. /\ at' \in [Thread -> Doing] /\ at'[t] = what
        /\ \A u \in Thread : u # t => at'[u] = at[u]
    BY <2>1, <2>2, ThreadGoes DEF TypeInv, Types
  <2>4. /\ strand' \in [Conn -> {"free", "running", "posted"}]
        /\ \A d \in Conn : strand'[d] = "posted" => strand[d] = "posted"
    BY <2>2 DEF TypeInv, Types
  <2>5. Types'
    BY <1>2, <2>2, <2>3, <2>4 DEF TypeInv, Types, clientVars, acceptVars, stopVars
  <2>6. ReadsTake'
    BY <1>1, <1>2, <2>1, <2>2, <2>3 DEF TypeInv, ReadsTake
  <2>7. RepliesAreMade' /\ PostedWaits'
    BY <1>2, <2>1, <2>2, <2>3, <2>4 DEF TypeInv, RepliesAreMade, PostedWaits
  <2> QED BY <2>5, <2>6, <2>7 DEF TypeInv
<1>4. CASE strand[c] # "free"
  <2> DEFINE longer == Append(waiting[c], at[t].ended)
  <2>1. /\ longer \in Seq(Operation) /\ longer # <<>>
        /\ \A i \in DOMAIN longer :
              longer[i] = at[t].ended \/ (i \in DOMAIN waiting[c] /\ longer[i] = waiting[c][i])
    BY <1>1
  <2> HIDE DEF longer
  <2>2. /\ Goes(t, Running) /\ waiting' = [waiting EXCEPT ![c] = longer]
        /\ UNCHANGED strand
    BY <1>4 DEF Enter, TypeInv, Types, longer
  <2>3. /\ at' \in [Thread -> Doing] /\ at'[t].step = "run"
        /\ \A u \in Thread : u # t => at'[u] = at[u]
    BY <2>2, CanDo, ThreadGoes DEF TypeInv, Types, Running
  <2>4. /\ waiting' \in [Conn -> Seq(Operation)] /\ waiting'[c] = longer
        /\ \A d \in Conn : d # c => waiting'[d] = waiting[d]
    BY <2>1, <2>2 DEF TypeInv, Types
  <2>5. Types'
    BY <1>2, <2>2, <2>3, <2>4 DEF TypeInv, Types, clientVars, acceptVars, stopVars
  <2>6. ReadsTake'
    BY <1>1, <1>2, <2>1, <2>3, <2>4 DEF TypeInv, ReadsTake
  <2>7. RepliesAreMade' /\ PostedWaits'
    BY <1>2, <2>1, <2>2, <2>3, <2>4 DEF TypeInv, RepliesAreMade, PostedWaits
  <2> QED BY <2>5, <2>6, <2>7 DEF TypeInv
<1> QED BY <1>3, <1>4

\* A handler in the strand.
LEMMA HandlerKeepsTypes ==
    ASSUME TypeInv, NEW t \in Thread, NEW c \in Conn,
           OnRead(t, c) \/ OnParsed(t, c) \/ OnWritten(t, c) \/ OnError(t, c) \/ Leave(t, c)
    PROVE  TypeInv'
<1> USE DEF ConnStep
<1>1. CASE OnRead(t, c)
  <2> DEFINE what == OnConn("parsed", c, at[t].ended, Buffer(c))
  <2>1. /\ at[t] \in Doing /\ at[t].step = "complete" /\ at[t].conn = c
        /\ at[t].ended = ReadOk /\ ReadOk \in Operation
    BY <1>1, IdleIsOperation DEF OnRead, OnConn, ReadOk, TypeInv, Types
  <2>2. Buffer(c) \in ParseResult
    <3>1. chunks[c] \in Seq(ParseResult) /\ taken[c] \in 1..Len(chunks[c])
      BY <2>1 DEF TypeInv, Types, ReadsTake
    <3> QED BY <3>1 DEF Buffer
  <2>3. /\ what \in Doing /\ what.step = "parsed" /\ what.conn = c
        /\ what.result = Buffer(c)
    BY <2>1, <2>2, CanDo DEF OnConn
  <2> HIDE DEF what
  <2>4. /\ Goes(t, what)
        /\ UNCHANGED <<clientVars, taken, received, acceptVars, op, strandVars, stopVars>>
    BY <1>1 DEF OnRead, what
  <2>5. /\ at' \in [Thread -> Doing] /\ at'[t] = what
        /\ \A u \in Thread : u # t => at'[u] = at[u]
    BY <2>3, <2>4, ThreadGoes DEF TypeInv, Types
  <2>6. /\ reply' \in [Conn -> {"none", "page", "bad_request"}]
        /\ Buffer(c) # "indeterminate" => reply'[c] # "none"
        /\ \A d \in Conn : reply[d] # "none" => reply'[d] # "none"
    BY <1>1, <2>2 DEF OnRead, TypeInv, Types, ParseResult
  <2>7. Types'
    BY <2>4, <2>5, <2>6 DEF TypeInv, Types, clientVars, acceptVars, strandVars, stopVars
  <2>8. ReadsTake' /\ PostedWaits'
    BY <2>3, <2>4, <2>5 DEF TypeInv, ReadsTake, PostedWaits, strandVars
  <2>9. RepliesAreMade'
    <3>1. \A u \in Thread : at[u].step = "parsed" => at[u].conn \in Conn
      BY HasHandler DEF TypeInv, Types
    <3> QED BY <2>3, <2>4, <2>5, <2>6, <3>1 DEF TypeInv, RepliesAreMade
  <2> QED BY <2>7, <2>8, <2>9 DEF TypeInv
<1>2. CASE OnParsed(t, c)
  <2> DEFINE what == OnConn("return", c, at[t].ended, at[t].result)
             next == Pending(IF at[t].result = "indeterminate" THEN "read" ELSE "write")
  <2>1. /\ at[t] \in Doing /\ at[t].step = "parsed" /\ at[t].conn = c
        /\ at[t].ended \in Operation /\ at[t].result \in ParseResult \cup {"none"}
    BY <1>2, HasHandler DEF OnParsed, TypeInv, Types
  <2>2. what \in Doing /\ what.step = "return"
    BY <2>1, CanDo DEF OnConn
  <2>3. /\ next \in Operation /\ next # ReadOk
        /\ next = Pending("write") => reply[c] # "none"
    BY <2>1, IdleIsOperation DEF TypeInv, RepliesAreMade
  <2> HIDE DEF what, next
  <2>4. /\ Goes(t, what) /\ op' = [op EXCEPT ![c] = next]
        /\ UNCHANGED <<clientVars, taken, received, acceptVars, reply, strandVars, stopVars>>
    BY <1>2 DEF OnParsed, what, next
  <2>5. /\ at' \in [Thread -> Doing] /\ at'[t] = what
        /\ \A u \in Thread : u # t => at'[u] = at[u]
    BY <2>2, <2>4, ThreadGoes DEF TypeInv, Types
  <2>6. /\ op' \in [Conn -> Operation] /\ op'[c] = next
        /\ \A d \in Conn : d # c => op'[d] = op[d]
    BY <2>3, <2>4 DEF TypeInv, Types
  <2>7. Types'
    BY <2>4, <2>5, <2>6 DEF TypeInv, Types, clientVars, acceptVars, strandVars, stopVars
  <2>8. ReadsTake'
    BY <2>2, <2>3, <2>4, <2>5, <2>6 DEF TypeInv, ReadsTake, strandVars
  <2>9. RepliesAreMade' /\ PostedWaits'
    BY <2>2, <2>3, <2>4, <2>5, <2>6 DEF TypeInv, RepliesAreMade, PostedWaits, strandVars
  <2> QED BY <2>7, <2>8, <2>9 DEF TypeInv
<1>3. CASE OnWritten(t, c) \/ OnError(t, c)
  <2> DEFINE what == OnConn("return", c, at[t].ended, "none")
  <2>1. at[t] \in Doing /\ at[t].step = "complete" /\ at[t].ended \in Operation
    BY <1>3, HasHandler DEF OnWritten, OnError, OnConn, TypeInv, Types
  <2>2. what \in Doing /\ what.step = "return"
    BY <2>1, CanDo DEF OnConn
  <2> HIDE DEF what
  <2>3. /\ Goes(t, what)
        /\ UNCHANGED <<clientVars, taken, received, acceptVars, op, reply, strandVars,
                       stopVars>>
    BY <1>3 DEF OnWritten, OnError, what
  <2>4. /\ at' \in [Thread -> Doing] /\ at'[t] = what
        /\ \A u \in Thread : u # t => at'[u] = at[u]
    BY <2>2, <2>3, ThreadGoes DEF TypeInv, Types
  <2>5. Types'
    BY <2>3, <2>4 DEF TypeInv, Types, clientVars, acceptVars, strandVars, stopVars
  <2>6. ReadsTake' /\ RepliesAreMade' /\ PostedWaits'
    BY <2>2, <2>3, <2>4 DEF TypeInv, ReadsTake, RepliesAreMade, PostedWaits, strandVars
  <2> QED BY <2>5, <2>6 DEF TypeInv
<1>4. CASE Leave(t, c)
  <2>1. /\ Goes(t, Running)
        /\ strand' = [strand EXCEPT ![c] = IF waiting[c] = <<>> THEN "free" ELSE "posted"]
        /\ UNCHANGED <<clientVars, taken, received, acceptVars, op, reply, waiting, stopVars>>
    BY <1>4 DEF Leave
  <2>2. /\ at' \in [Thread -> Doing] /\ at'[t].step = "run"
        /\ \A u \in Thread : u # t => at'[u] = at[u]
    BY <2>1, CanDo, ThreadGoes DEF TypeInv, Types, Running
  <2>3. /\ strand' \in [Conn -> {"free", "running", "posted"}]
        /\ strand'[c] = "posted" => waiting[c] # <<>>
        /\ \A d \in Conn : d # c => strand'[d] = strand[d]
    BY <2>1 DEF TypeInv, Types
  <2>4. Types'
    BY <2>1, <2>2, <2>3 DEF TypeInv, Types, clientVars, acceptVars, stopVars
  <2>5. ReadsTake' /\ RepliesAreMade' /\ PostedWaits'
    BY <2>1, <2>2, <2>3 DEF TypeInv, ReadsTake, RepliesAreMade, PostedWaits
  <2> QED BY <2>4, <2>5 DEF TypeInv
<1> QED BY <1>1, <1>2, <1>3, <1>4

\* No step spoils the types.
LEMMA NextKeepsTypes == TypeInv /\ [Next]_vars => TypeInv'
<1> SUFFICES ASSUME TypeInv, [Next]_vars PROVE TypeInv'
  OBVIOUS
<1>1. CASE Signal \/ AcceptFails \/ Join
  BY <1>1, EnvironmentKeepsTypes
<1>2. CASE UNCHANGED vars
  BY <1>2 DEF vars, TypeInv, Types, ReadsTake, RepliesAreMade, PostedWaits, clientVars,
              acceptVars, strandVars, stopVars
<1>3. CASE \E c \in Conn : ClientStep(c) \/ AcceptCompletes(c) \/ Outcome(c)
  BY <1>3, EnvironmentKeepsTypes, OutcomeKeepsTypes
<1>4. CASE \E t \in Thread : \/ TakeAccept(t) \/ TakeSignal(t) \/ Exit(t)
                             \/ Step(t)
                             \/ \E c \in Conn : TakeOp(t, c) \/ TakeInvoker(t, c)
  BY <1>4, ServerKeepsTypes, TakeOpKeepsTypes, TakeInvokerKeepsTypes, EnterKeepsTypes,
     HandlerKeepsTypes DEF Step
<1> QED BY <1>1, <1>2, <1>3, <1>4 DEF Next

LEMMA TypeInvariance == Spec => []TypeInv
  BY InitTypeInv, NextKeepsTypes, PTL DEF Spec

-----------------------------------------------------------------------------
(* Owners.  A connection that has been started belongs to its operation,   *)
(* to a handler that waits for the strand, or to a thread; one that has    *)
(* not is at most the socket of an accept.                                 *)

\* Threads that are about to start c.
Starting(c) == {t \in Thread : at[t].step = "accept" /\ c \in at[t].conns}

Unowned(c) == Busy(c) = {} /\ waiting[c] = <<>> /\ op[c] = Idle

OwnedOnce(c) ==
    /\ c \notin accepted => c \notin incoming /\ Starting(c) = {} /\ Unowned(c)
    /\ c \in incoming => Starting(c) = {} /\ Unowned(c)
    /\ Starting(c) # {} => Unowned(c) /\ \E t \in Thread : Starting(c) = {t}
    /\ op[c] # Idle => Busy(c) = {} /\ waiting[c] = <<>>
    /\ waiting[c] # <<>> => Busy(c) = {}
    /\ Len(waiting[c]) <= 1
    /\ Busy(c) # {} => \E t \in Thread : Busy(c) = {t}

OwnerInv == \A c \in Conn : OwnedOnce(c)

\* A connection that a step does not touch.
LEMMA StaysOwned ==
    ASSUME NEW c \in Conn, OwnedOnce(c),
           Busy(c)' = Busy(c), Starting(c)' = Starting(c),
           waiting'[c] = waiting[c], op'[c] = op[c],
           c \in accepted => c \in accepted',
           c \in incoming' => c \in incoming,
           c \in accepted' => c \in accepted
    PROVE  OwnedOnce(c)'
  BY DEF OwnedOnce, Unowned

\* What becomes of the sets when a thread does something else.
LEMMA SetsChange ==
    ASSUME at \in [Thread -> Doing], NEW t \in Thread, NEW what \in Doing, Goes(t, what),
           NEW c \in Conn
    PROVE  /\ Busy(c)' = IF what.step \in {"enter", "complete", "parsed"} /\ what.conn = c
                         THEN Busy(c) \cup {t} ELSE Busy(c) \ {t}
           /\ Starting(c)' = IF what.step = "accept" /\ c \in what.conns
                             THEN Starting(c) \cup {t} ELSE Starting(c) \ {t}
<1>1. /\ at'[t] = what
      /\ \A u \in Thread : u # t => at'[u] = at[u]
  BY ThreadGoes
<1> QED BY <1>1 DEF Busy, Starting

LEMMA InitOwnerInv == Init => OwnerInv
<1> SUFFICES ASSUME Init, NEW c \in Conn PROVE OwnedOnce(c)
  BY DEF OwnerInv
<1>1. Busy(c) = {} /\ Starting(c) = {}
  BY DEF Init, Busy, Starting, Running
<1>2. op[c] = Idle /\ waiting[c] = <<>> /\ incoming = {} /\ Len(waiting[c]) = 0
  BY DEF Init
<1> QED BY <1>1, <1>2 DEF OwnedOnce, Unowned

\* A thread that neither has an owner's part in a connection nor gets one.
LEMMA BystanderKeepsOwners ==
    ASSUME TypeInv, OwnerInv, NEW t \in Thread, NEW what \in Doing, Goes(t, what),
           at[t].step \notin {"accept", "enter", "complete", "parsed"},
           what.step \notin {"accept", "enter", "complete", "parsed"},
           UNCHANGED <<incoming, accepted, op, waiting>>
    PROVE  OwnerInv'
<1> SUFFICES ASSUME NEW c \in Conn PROVE OwnedOnce(c)'
  BY DEF OwnerInv
<1>1. at \in [Thread -> Doing]
  BY DEF TypeInv, Types
<1>2. Busy(c)' = Busy(c) /\ Starting(c)' = Starting(c)
  BY <1>1, SetsChange DEF Busy, Starting
<1> QED BY <1>2, StaysOwned DEF OwnerInv

\* Clients, and the outcomes of operations.
LEMMA EnvironmentKeepsOwners ==
    ASSUME TypeInv, OwnerInv,
           \/ Signal \/ AcceptFails \/ Join
           \/ \E c \in Conn : ClientStep(c) \/ AcceptCompletes(c) \/ Outcome(c)
    PROVE  OwnerInv'
<1> SUFFICES ASSUME NEW d \in Conn PROVE OwnedOnce(d)'
  BY DEF OwnerInv
<1>1. OwnedOnce(d)
  BY DEF OwnerInv
<1>2. CASE \/ Signal \/ AcceptFails \/ Join
           \/ \E c \in Conn : ClientStep(c)
  <2>1. UNCHANGED <<incoming, accepted, op, waiting, at>>
    BY <1>2 DEF Signal, AcceptFails, Join, ClientStep, Connect, SendChunk, Quit,
                acceptVars, strandVars
  <2>2. Busy(d)' = Busy(d) /\ Starting(d)' = Starting(d)
    BY <2>1 DEF Busy, Starting
  <2> QED BY <1>1, <2>1, <2>2, StaysOwned
<1>3. ASSUME NEW c \in Conn, AcceptCompletes(c)
      PROVE  OwnedOnce(d)'
  <2>1. /\ c \notin accepted /\ incoming' = {c} /\ accepted' = accepted \cup {c}
        /\ UNCHANGED <<op, waiting, at>>
    BY <1>3 DEF AcceptCompletes, strandVars
  <2>2. Busy(d)' = Busy(d) /\ Starting(d)' = Starting(d)
    BY <2>1 DEF Busy, Starting
  <2>3. CASE d = c
    BY <1>1, <2>1, <2>2, <2>3 DEF OwnedOnce, Unowned
  <2>4. CASE d # c
    BY <1>1, <2>1, <2>2, <2>4, StaysOwned
  <2> QED BY <2>3, <2>4
<1>4. ASSUME NEW c \in Conn, Outcome(c)
      PROVE  OwnedOnce(d)'
  <2>1. /\ op[c] # Idle
        /\ \A e \in Conn : e # c => op'[e] = op[e]
        /\ UNCHANGED <<incoming, accepted, waiting, at>>
    BY <1>4, IdleIsOperation
    DEF Outcome, ReadCompletes, WriteCompletes, Fails, SetState, acceptVars, strandVars,
        TypeInv, Types
  <2>2. Busy(d)' = Busy(d) /\ Starting(d)' = Starting(d)
    BY <2>1 DEF Busy, Starting
  <2>3. CASE d = c
    <3>1. Starting(d) = {} /\ d \in accepted /\ d \notin incoming
      BY <1>1, <2>1, <2>3 DEF OwnedOnce, Unowned
    <3> QED BY <1>1, <2>1, <2>2, <2>3, <3>1 DEF OwnedOnce, Unowned
  <2>4. CASE d # c
    BY <1>1, <2>1, <2>2, <2>4, StaysOwned
  <2> QED BY <2>3, <2>4
<1> QED BY <1>2, <1>3, <1>4

\* The handler of an accept gets the socket, and starts the connection.
LEMMA AcceptKeepsOwners ==
    ASSUME TypeInv, OwnerInv, NEW t \in Thread, TakeAccept(t) \/ OnAccepted(t)
    PROVE  OwnerInv'
<1> USE DEF AcceptStep
<1> SUFFICES ASSUME NEW d \in Conn PROVE OwnedOnce(d)'
  BY DEF OwnerInv
<1>1. /\ OwnedOnce(d) /\ at \in [Thread -> Doing] /\ at[t] \in Doing
      /\ incoming \subseteq Conn /\ op \in [Conn -> Operation]
  BY DEF OwnerInv, TypeInv, Types
<1>2. CASE TakeAccept(t)
  <2> DEFINE what == OnAccept("accept", incoming)
  <2>1. what \in Doing /\ what.step = "accept" /\ what.conns = incoming
    BY <1>1, CanDo DEF OnAccept
  <2> HIDE DEF what
  <2>2. /\ Goes(t, what) /\ at[t].step = "run" /\ incoming' = {}
        /\ UNCHANGED <<accepted, op, waiting>>
    BY <1>2 DEF TakeAccept, Running, strandVars, what
  <2>3. /\ Busy(d)' = Busy(d) \ {t} /\ t \notin Busy(d) /\ t \notin Starting(d)
        /\ Starting(d)' = IF d \in incoming THEN Starting(d) \cup {t} ELSE Starting(d) \ {t}
    BY <1>1, <2>1, <2>2, SetsChange DEF Busy, Starting
  <2>4. CASE d \in incoming
    BY <1>1, <2>2, <2>3, <2>4 DEF OwnedOnce, Unowned
  <2>5. CASE d \notin incoming
    BY <1>1, <2>2, <2>3, <2>5, StaysOwned
  <2> QED BY <2>4, <2>5
<1>3. CASE OnAccepted(t)
  <2> DEFINE what == OnAccept("accept_again", at[t].conns)
  <2>1. what \in Doing /\ what.step = "accept_again"
    BY <1>1, <1>3, HasSockets, CanDo DEF OnAccepted, OnAccept
  <2> HIDE DEF what
  <2>2. /\ Goes(t, what) /\ at[t].step = "accept"
        /\ op'[d] = IF d \in at[t].conns THEN Pending("read") ELSE op[d]
        /\ UNCHANGED <<incoming, accepted, waiting>>
    BY <1>3 DEF OnAccepted, acceptVars, strandVars, what
  <2>3. /\ Busy(d)' = Busy(d) \ {t} /\ t \notin Busy(d)
        /\ Starting(d)' = Starting(d) \ {t}
        /\ t \in Starting(d) <=> d \in at[t].conns
    BY <1>1, <2>1, <2>2, SetsChange DEF Busy, Starting
  <2>4. CASE d \in at[t].conns
    <3>1. /\ Starting(d) = {t} /\ Unowned(d) /\ d \in accepted /\ d \notin incoming
      BY <1>1, <2>3, <2>4 DEF OwnedOnce
    <3> QED BY <1>1, <2>2, <2>3, <2>4, <3>1, IdleIsOperation DEF OwnedOnce, Unowned
  <2>5. CASE d \notin at[t].conns
    BY <1>1, <2>2, <2>3, <2>5, StaysOwned
  <2> QED BY <2>4, <2>5
<1> QED BY <1>2, <1>3

\* A connection passes from its operation, or its strand, to a thread.
LEMMA TakeKeepsOwners ==
    ASSUME TypeInv, OwnerInv, NEW t \in Thread, NEW c \in Conn,
           TakeOp(t, c) \/ TakeInvoker(t, c)
    PROVE  OwnerInv'
<1> SUFFICES ASSUME NEW d \in Conn PROVE OwnedOnce(d)'
  BY DEF OwnerInv
<1>1. /\ OwnedOnce(c) /\ OwnedOnce(d) /\ at \in [Thread -> Doing]
      /\ op \in [Conn -> Operation] /\ waiting[c] \in Seq(Operation)
  BY DEF OwnerInv, TypeInv, Types
<1>2. PICK what \in Doing :
         /\ Goes(t, what) /\ what.step \in {"enter", "complete"} /\ what.conn = c
  <2>1. CASE TakeOp(t, c)
    <3>1. OnConn("enter", c, op[c], "none") \in Doing
      BY <1>1, CanDo
    <3> QED BY <2>1, <3>1 DEF TakeOp, OnConn
  <2>2. CASE TakeInvoker(t, c)
    <3>1. Head(waiting[c]) \in Operation
      BY <1>1, <2>2 DEF TakeInvoker, TypeInv, PostedWaits
    <3>2. OnConn("complete", c, Head(waiting[c]), "none") \in Doing
      BY <3>1, CanDo DEF ConnStep
    <3> QED BY <2>2, <3>2 DEF TakeInvoker, OnConn
  <2> QED BY <2>1, <2>2
<1>3. /\ at[t].step = "run" /\ UNCHANGED <<incoming, accepted>>
      /\ op[c] # Idle \/ waiting[c] # <<>>
      /\ op'[c] = Idle /\ \A e \in Conn : e # c => op'[e] = op[e]
      /\ waiting'[c] = <<>> /\ \A e \in Conn : e # c => waiting'[e] = waiting[e]
  <2>1. CASE TakeOp(t, c)
    <3>1. op[c] # Idle
      BY <2>1 DEF TakeOp, Idle
    <3> QED BY <1>1, <2>1, <3>1
            DEF TakeOp, Running, acceptVars, strandVars, OwnedOnce, TypeInv, Types
  <2>2. CASE TakeInvoker(t, c)
    <3>1. waiting[c] # <<>> /\ waiting' = [waiting EXCEPT ![c] = Tail(waiting[c])]
      BY <2>2 DEF TakeInvoker, TypeInv, Types, PostedWaits
    <3>2. Tail(waiting[c]) = <<>>
      BY <1>1, <3>1 DEF OwnedOnce
    <3>3. op[c] = Idle
      BY <1>1, <3>1 DEF OwnedOnce
    <3> QED BY <2>2, <3>1, <3>2, <3>3 DEF TakeInvoker, Running, acceptVars, TypeInv, Types
  <2> QED BY <2>1, <2>2
<1>4. /\ Busy(c)' = Busy(c) \cup {t} /\ Starting(c)' = Starting(c) \ {t}
      /\ t \notin Busy(d) /\ t \notin Starting(d)
      /\ d # c => Busy(d)' = Busy(d) \ {t} /\ Starting(d)' = Starting(d) \ {t}
  BY <1>1, <1>2, <1>3, SetsChange DEF Busy, Starting
<1>5. CASE d = c
  <2>1. Busy(c) = {} /\ Starting(c) = {} /\ c \in accepted /\ c \notin incoming
    BY <1>1, <1>3 DEF OwnedOnce, Unowned
  <2>2. Len(waiting'[c]) = 0
    BY <1>3
  <2> QED BY <1>3, <1>4, <1>5, <2>1, <2>2 DEF OwnedOnce, Unowned
<1>6. CASE d # c
  BY <1>1, <1>3, <1>4, <1>6, StaysOwned
<1> QED BY <1>5, <1>6

\* A thread on its way through the strand keeps the connection, or hands it to
\* the strand or to the next operation, or lets go of it.
LEMMA HandlerKeepsOwners ==
    ASSUME TypeInv, OwnerInv, NEW t \in Thread, NEW c \in Conn,
           \/ Enter(t, c) \/ OnRead(t, c) \/ OnParsed(t, c)
           \/ OnWritten(t, c) \/ OnError(t, c)
    PROVE  OwnerInv'
<1> USE DEF ConnStep
<1> SUFFICES ASSUME NEW d \in Conn PROVE OwnedOnce(d)'
  BY DEF OwnerInv
<1>1. /\ OwnedOnce(c) /\ OwnedOnce(d) /\ at \in [Thread -> Doing] /\ at[t] \in Doing
      /\ op \in [Conn -> Operation] /\ waiting[c] \in Seq(Operation)
  BY DEF OwnerInv, TypeInv, Types
<1>2. /\ at[t].step \in {"enter", "complete", "parsed"} /\ at[t].conn = c
      /\ UNCHANGED <<incoming, accepted>>
  BY DEF Enter, OnRead, OnParsed, OnWritten, OnError, OnConn, acceptVars
<1>3. /\ Busy(c) = {t} /\ op[c] = Idle /\ waiting[c] = <<>> /\ Starting(c) = {}
      /\ c \in accepted /\ c \notin incoming
  <2>1. t \in Busy(c)
    BY <1>2 DEF Busy
  <2> QED BY <1>1, <2>1 DEF OwnedOnce, Unowned
<1>4. at[t].ended \in Operation /\ at[t].result \in ParseResult \cup {"none"}
  BY <1>1, <1>2, HasHandler
<1>5. PICK what \in Doing :
         /\ Goes(t, what)
         /\ \/ /\ what.step \in {"complete", "parsed"} /\ what.conn = c
               /\ UNCHANGED <<op, waiting>>
            \/ /\ what.step \in {"run", "return"}
               /\ \A e \in Conn : e # c => op'[e] = op[e] /\ waiting'[e] = waiting[e]
               /\ op'[c] = Idle \/ waiting'[c] = <<>>
               /\ Len(waiting'[c]) <= 1
  <2>1. CASE Enter(t, c) /\ strand[c] = "free"
    <3>1. OnConn("complete", c, at[t].ended, "none") \in Doing
      BY <1>4, CanDo
    <3> QED BY <2>1, <3>1 DEF Enter, OnConn
  <2>2. CASE Enter(t, c) /\ strand[c] # "free"
    <3>1. /\ Goes(t, Running) /\ UNCHANGED op
          /\ waiting' = [waiting EXCEPT ![c] = <<at[t].ended>>]
      BY <1>3, <2>2 DEF Enter
    <3>2. Len(<<at[t].ended>>) = 1
      OBVIOUS
    <3> QED BY <1>3, <3>1, <3>2, CanDo DEF Running, TypeInv, Types
  <2>3. CASE OnRead(t, c)
    <3>1. \E what \in Doing : Goes(t, what) /\ what.step = "parsed" /\ what.conn = c
      <4>1. Buffer(c) \in ParseResult
        <5>1. at[t].ended = ReadOk /\ at[t].step = "complete"
          BY <2>3 DEF OnRead, OnConn, ReadOk
        <5>2. chunks[c] \in Seq(ParseResult) /\ taken[c] \in 1..Len(chunks[c])
          BY <1>2, <5>1 DEF TypeInv, Types, ReadsTake
        <5> QED BY <5>2 DEF Buffer
      <4>2. OnConn("parsed", c, at[t].ended, Buffer(c)) \in Doing
        BY <1>4, <4>1, CanDo
      <4> QED BY <2>3, <4>2 DEF OnRead, OnConn
    <3> QED BY <2>3, <3>1 DEF OnRead, strandVars
  <2>4. CASE OnParsed(t, c)
    <3>1. OnConn("return", c, at[t].ended, at[t].result) \in Doing
      BY <1>4, CanDo
    <3>2. /\ UNCHANGED waiting /\ \A e \in Conn : e # c => op'[e] = op[e]
          /\ Len(waiting'[c]) = 0
      BY <1>3, <2>4 DEF OnParsed, strandVars, TypeInv, Types
    <3> QED BY <1>3, <2>4, <3>1, <3>2 DEF OnParsed, OnConn
  <2>5. CASE OnWritten(t, c) \/ OnError(t, c)
    <3>1. OnConn("return", c, at[t].ended, "none") \in Doing
      BY <1>4, CanDo
    <3>2. UNCHANGED <<op, waiting>> /\ Len(waiting'[c]) = 0
      BY <1>3, <2>5 DEF OnWritten, OnError, strandVars
    <3> QED BY <1>3, <2>5, <3>1, <3>2 DEF OnWritten, OnError, OnConn
  <2> QED BY <2>1, <2>2, <2>3, <2>4, <2>5
<1>6. CASE d = c
  <2>1. CASE what.step \in {"complete", "parsed"}
    <3>1. Busy(c)' = {t} /\ Starting(c)' = {}
      BY <1>1, <1>3, <1>5, <2>1, SetsChange
    <3> QED BY <1>1, <1>2, <1>3, <1>5, <1>6, <2>1, <3>1 DEF OwnedOnce, Unowned
  <2>2. CASE what.step \notin {"complete", "parsed"}
    <3>1. Busy(c)' = {} /\ Starting(c)' = {}
      BY <1>1, <1>3, <1>5, <2>2, SetsChange
    <3> QED BY <1>1, <1>2, <1>3, <1>5, <1>6, <2>2, <3>1 DEF OwnedOnce, Unowned
  <2> QED BY <2>1, <2>2
<1>7. CASE d # c
  <2>1. Busy(d)' = Busy(d) /\ Starting(d)' = Starting(d)
    BY <1>1, <1>2, <1>5, <1>7, SetsChange DEF Busy, Starting
  <2> QED BY <1>1, <1>2, <1>5, <1>7, <2>1, StaysOwned
<1> QED BY <1>6, <1>7

\* No step gives a connection a second owner.
LEMMA NextKeepsOwners == TypeInv /\ OwnerInv /\ [Next]_vars => OwnerInv'
<1> SUFFICES ASSUME TypeInv, OwnerInv, [Next]_vars PROVE OwnerInv'
  OBVIOUS
<1>1. CASE UNCHANGED vars
  <2> SUFFICES ASSUME NEW c \in Conn PROVE OwnedOnce(c)'
    BY DEF OwnerInv
  <2>1. Busy(c)' = Busy(c) /\ Starting(c)' = Starting(c)
    BY <1>1 DEF vars, Busy, Starting
  <2> QED BY <1>1, <2>1, StaysOwned DEF vars, acceptVars, strandVars, OwnerInv
<1>2. CASE \/ Signal \/ AcceptFails \/ Join
           \/ \E c \in Conn : ClientStep(c) \/ AcceptCompletes(c) \/ Outcome(c)
  BY <1>2, EnvironmentKeepsOwners
<1>3. ASSUME NEW t \in Thread,
             \/ TakeSignal(t) \/ Exit(t) \/ AcceptAgain(t) \/ AcceptReturns(t) \/ Stop(t)
             \/ \E c \in Conn : Leave(t, c)
      PROVE  OwnerInv'
  <2>1. /\ at[t].step \notin {"accept", "enter", "complete", "parsed"}
        /\ UNCHANGED <<incoming, accepted, op, waiting>>
    BY <1>3 DEF TakeSignal, Exit, AcceptAgain, AcceptReturns, Stop, Leave, Running,
                acceptVars, strandVars
  <2>2. \E what \in Doing : /\ Goes(t, what)
                            /\ what.step \notin {"accept", "enter", "complete", "parsed"}
    <3>1. OnAccept("accept_return", {}) \in Doing
      BY CanDo DEF AcceptStep
    <3> QED BY <1>3, <3>1, CanDo
            DEF TakeSignal, Exit, AcceptAgain, AcceptReturns, Stop, Leave, Running,
                Returned, Signalled, OnAccept
  <2> QED BY <2>1, <2>2, BystanderKeepsOwners
<1>4. ASSUME NEW t \in Thread,
             \/ TakeAccept(t) \/ OnAccepted(t)
             \/ \E c \in Conn :
                   \/ TakeOp(t, c) \/ TakeInvoker(t, c) \/ Enter(t, c) \/ OnRead(t, c)
                   \/ OnParsed(t, c) \/ OnWritten(t, c) \/ OnError(t, c)
      PROVE  OwnerInv'
  BY <1>4, AcceptKeepsOwners, TakeKeepsOwners, HandlerKeepsOwners
<1> QED BY <1>1, <1>2, <1>3, <1>4 DEF Next, Step

LEMMA OwnerInvariance == Spec => []OwnerInv
  BY InitOwnerInv, NextKeepsOwners, TypeInvariance, PTL DEF Spec

\* Every variable of HttpServer3 keeps its type, and no strand has more than
\* one handler that waits.
THEOREM TypeCorrect == Spec => []TypeOK
<1>1. TypeInv /\ OwnerInv => TypeOK
  BY DEF TypeInv, Types, OwnerInv, OwnedOnce, TypeOK
<1> QED BY <1>1, TypeInvariance, OwnerInvariance, PTL

\* buffer_, reply_ and the parser of a connection have one user at a time,
\* however many threads run the io_context.
THEOREM OwnersAreAlone == Spec => []OneAtATime
<1>1. TypeInv /\ OwnerInv => OneAtATime
  <2> SUFFICES ASSUME TypeInv, OwnerInv, NEW c \in Conn
               PROVE  Cardinality(Busy(c)) + Len(waiting[c])
                         + (IF op[c] # Idle THEN 1 ELSE 0) <= 1
    BY DEF OneAtATime
  <2>1. OwnedOnce(c) /\ waiting[c] \in Seq(Operation)
    BY DEF OwnerInv, TypeInv, Types
  <2> DEFINE n == Len(waiting[c])
             m == IF op[c] # Idle THEN 1 ELSE 0
  <2>2. /\ n \in Nat /\ n <= 1 /\ m \in Nat /\ m <= 1
        /\ Busy(c) # {} => n = 0 /\ m = 0
        /\ m = 1 => n = 0
    <3>1. n \in Nat /\ n <= 1 /\ (waiting[c] = <<>> => n = 0)
      BY <2>1 DEF OwnedOnce
    <3>2. Busy(c) # {} => waiting[c] = <<>> /\ op[c] = Idle
      BY <2>1 DEF OwnedOnce
    <3>3. m \in Nat /\ m <= 1 /\ (m = 1 => op[c] # Idle) /\ (op[c] = Idle => m = 0)
      OBVIOUS
    <3>4. op[c] # Idle => waiting[c] = <<>>
      BY <2>1 DEF OwnedOnce
    <3> HIDE DEF n, m
    <3> QED BY <3>1, <3>2, <3>3, <3>4
  <2> HIDE DEF n, m
  <2>3. n + m <= 1
    BY <2>2
  <2>4. CASE Busy(c) = {}
    <3>1. Cardinality(Busy(c)) = 0
      BY <2>4, FS_EmptySet
    <3>2. Cardinality(Busy(c)) + n + m <= 1
      BY <2>2, <2>3, <3>1
    <3> QED BY <3>2 DEF n, m
  <2>5. CASE Busy(c) # {}
    <3>1. Cardinality(Busy(c)) = 1
      BY <2>1, <2>5, FS_Singleton DEF OwnedOnce
    <3>2. n = 0 /\ m = 0
      BY <2>2, <2>5
    <3>3. Cardinality(Busy(c)) + n + m <= 1
      BY <3>1, <3>2
    <3> QED BY <3>3 DEF n, m
  <2> QED BY <2>4, <2>5
<1> QED BY <1>1, TypeInvariance, OwnerInvariance, PTL

-----------------------------------------------------------------------------
(* The reply and the request.                                              *)

\* None of the first n chunks ends the request.
Undecided(c, n) == \A j \in 1..n : chunks[c][j] = "indeterminate"

\* The chunk that was read last ends the request, and this is its reply.
Decides(c, text) ==
    /\ taken[c] > 0 /\ Undecided(c, taken[c] - 1)
    /\ \/ Buffer(c) = "good" /\ text = "page"
       \/ Buffer(c) = "bad" /\ text = "bad_request"

\* What an operation, in flight or with its handler under way, says of the
\* request: a connection reads until a chunk decides, and then writes.
OpFits(c, x) ==
    /\ x.kind = "read" => received[c] = <<>>
    /\ x = Pending("read") => Undecided(c, taken[c])
    /\ x = ReadOk => taken[c] > 0 /\ Undecided(c, taken[c] - 1)
    /\ x.kind = "write" => Decides(c, reply[c])
    /\ x.kind = "write" /\ x.state # "ok" => received[c] = <<>>

\* The same of a handler that has parsed the chunk.
ResultFits(c, result) ==
    /\ received[c] = <<>>
    /\ result = "indeterminate" => Undecided(c, taken[c])
    /\ result # "indeterminate" => Decides(c, reply[c])

HandlerFits(c, d) ==
    /\ d.step = "parsed" => ResultFits(c, d.result)
    /\ d.step # "parsed" => OpFits(c, d.ended)

Started(c) == c \in accepted /\ c \notin incoming /\ Starting(c) = {}

Fits(c) ==
    /\ ~Started(c) => taken[c] = 0 /\ received[c] = <<>>
    /\ OpFits(c, op[c])
    /\ waiting[c] # <<>> => OpFits(c, Head(waiting[c]))
    /\ \A t \in Busy(c) : HandlerFits(c, at[t])
    /\ received[c] # <<>> => Len(received[c]) = 1 /\ Decides(c, received[c][1])

FitInv == TypeInv /\ OwnerInv /\ \A c \in Conn : Fits(c)

\* The data that say what becomes of the request, as far as it was read.
Kept(c) ==
    /\ taken'[c] = taken[c] /\ received'[c] = received[c] /\ reply'[c] = reply[c]
    /\ \A j \in 1..taken[c] : chunks'[c][j] = chunks[c][j]

\* While they are kept, what was said of the request holds.
LEMMA SaidHolds ==
    ASSUME NEW c \in Conn, taken[c] \in Nat, Kept(c)
    PROVE  /\ \A text : Decides(c, text) => Decides(c, text)'
           /\ \A x : OpFits(c, x) => OpFits(c, x)'
           /\ \A d : HandlerFits(c, d) => HandlerFits(c, d)'
<1>1. /\ Undecided(c, taken[c]) => Undecided(c, taken[c])'
      /\ taken[c] > 0 => taken[c] \in 1..taken[c] /\ taken[c] - 1 \in Nat
      /\ Undecided(c, taken[c] - 1) => Undecided(c, taken[c] - 1)'
  <2>1. \A j \in 1..(taken[c] - 1) : j \in 1..taken[c]
    OBVIOUS
  <2> QED BY <2>1 DEF Kept, Undecided
<1>2. ASSUME NEW text, Decides(c, text)
      PROVE  Decides(c, text)'
  <2>1. Buffer(c)' = Buffer(c)
    BY <1>1, <1>2 DEF Decides, Buffer, Kept
  <2> QED BY <1>1, <1>2, <2>1 DEF Decides, Kept
<1>3. Decides(c, reply[c]) => Decides(c, reply[c])'
  BY <1>2 DEF Kept
<1>4. ASSUME NEW x, OpFits(c, x)
      PROVE  OpFits(c, x)'
  BY <1>1, <1>3, <1>4 DEF OpFits, Kept
<1>5. ASSUME NEW d, HandlerFits(c, d)
      PROVE  HandlerFits(c, d)'
  BY <1>1, <1>3, <1>4, <1>5 DEF HandlerFits, ResultFits, Kept
<1> QED BY <1>2, <1>4, <1>5

\* A connection whose request and reply stay, whoever comes to hold it.
LEMMA StillFits ==
    ASSUME NEW c \in Conn, Fits(c), taken[c] \in Nat, Kept(c),
           Started(c) => Started(c)',
           OpFits(c, op'[c]),
           waiting'[c] # <<>> => OpFits(c, Head(waiting'[c])),
           \A t \in Busy(c)' : HandlerFits(c, at'[t])
    PROVE  Fits(c)'
<1>1. ~Started(c)' => taken'[c] = 0 /\ received'[c] = <<>>
  BY DEF Fits, Kept
<1>2. OpFits(c, op[c])'
  BY SaidHolds
<1>3. waiting'[c] # <<>> => OpFits(c, Head(waiting[c]))'
  BY SaidHolds
<1>4. \A t \in Busy(c)' : HandlerFits(c, at[t])'
  BY SaidHolds
<1>5. received'[c] # <<>> => Len(received'[c]) = 1 /\ Decides(c, received[c][1])'
  <2> SUFFICES ASSUME received[c] # <<>>
               PROVE  Len(received'[c]) = 1 /\ Decides(c, received[c][1])'
    BY DEF Kept
  <2>1. Len(received[c]) = 1 /\ Decides(c, received[c][1])
    BY DEF Fits
  <2>2. \A text : Decides(c, text) => Decides(c, text)'
    BY SaidHolds
  <2>3. \A text : text = received'[c][1] /\ Decides(c, text)' => Decides(c, received[c][1])'
    BY DEF Decides
  <2> QED BY <2>1, <2>2, <2>3 DEF Kept
<1> QED BY <1>1, <1>2, <1>3, <1>4, <1>5 DEF Fits

\* A connection that a step does not reach.
LEMMA OthersFit ==
    ASSUME NEW c \in Conn, Fits(c), taken[c] \in Nat, Kept(c),
           op'[c] = op[c], waiting'[c] = waiting[c], Started(c) => Started(c)',
           Busy(c)' = Busy(c), \A t \in Busy(c) : at'[t] = at[t]
    PROVE  Fits(c)'
<1>1. /\ OpFits(c, op'[c])
      /\ waiting'[c] # <<>> => OpFits(c, Head(waiting'[c]))
      /\ \A t \in Busy(c)' : HandlerFits(c, at'[t])
  BY DEF Fits
<1> QED BY <1>1, StillFits

\* A thread that has nothing to do with accepts, and with no connection but c.
LEMMA ThreadFits ==
    ASSUME FitInv, NEW t \in Thread, NEW c \in Conn, NEW what \in Doing, Goes(t, what),
           UNCHANGED <<chunks, taken, received, reply, incoming, accepted>>,
           at[t].step # "accept", what.step # "accept",
           at[t].step \in {"enter", "complete", "parsed"} => at[t].conn = c,
           what.step \in {"enter", "complete", "parsed"}
              => what.conn = c /\ HandlerFits(c, what),
           \A d \in Conn \ {c} : op'[d] = op[d] /\ waiting'[d] = waiting[d],
           OpFits(c, op'[c]),
           waiting'[c] # <<>> => OpFits(c, Head(waiting'[c]))
    PROVE  \A d \in Conn : Fits(d)'
<1>1. at \in [Thread -> Doing]
  BY DEF FitInv, TypeInv, Types
<1>2. at'[t] = what /\ \A u \in Thread : u # t => at'[u] = at[u]
  BY <1>1, ThreadGoes
<1> SUFFICES ASSUME NEW d \in Conn PROVE Fits(d)'
  OBVIOUS
<1>3. Fits(d) /\ taken[d] \in Nat /\ Kept(d)
  BY DEF FitInv, TypeInv, Types, Kept
<1>4. Starting(d)' = Starting(d)
  BY <1>2 DEF Starting
<1>5. Started(d) => Started(d)'
  BY <1>4 DEF Started
<1>6. CASE d = c
  <2>1. \A u \in Busy(c)' : HandlerFits(c, at'[u])
    <3> SUFFICES ASSUME NEW u \in Busy(c)' PROVE HandlerFits(c, at'[u])
      OBVIOUS
    <3>1. CASE u = t
      BY <1>2, <3>1 DEF Busy
    <3>2. CASE u # t
      <4>1. at'[u] = at[u] /\ u \in Busy(c)
        BY <1>2, <3>2 DEF Busy
      <4> QED BY <1>3, <1>6, <4>1 DEF Fits
    <3> QED BY <3>1, <3>2
  <2> QED BY <1>3, <1>5, <1>6, <2>1, StillFits
<1>7. CASE d # c
  <2>1. t \notin Busy(d) /\ t \notin Busy(d)'
    BY <1>2, <1>7 DEF Busy
  <2>2. Busy(d)' = Busy(d) /\ \A u \in Busy(d) : at'[u] = at[u]
    BY <1>2, <2>1 DEF Busy
  <2> QED BY <1>3, <1>5, <1>7, <2>2, OthersFit
<1> QED BY <1>6, <1>7

\* Clients, the signal and the accept.
LEMMA EnvironmentFits ==
    ASSUME FitInv,
           \/ Signal \/ AcceptFails \/ Join \/ UNCHANGED vars
           \/ \E c \in Conn : ClientStep(c) \/ AcceptCompletes(c)
    PROVE  \A d \in Conn : Fits(d)'
<1> SUFFICES ASSUME NEW d \in Conn PROVE Fits(d)'
  OBVIOUS
<1>1. Fits(d) /\ taken[d] \in Nat /\ OwnedOnce(d)
  BY DEF FitInv, TypeInv, Types, OwnerInv
<1>2. UNCHANGED <<taken, received, reply, op, waiting, at>>
  BY DEF Signal, AcceptFails, Join, vars, strandVars, ClientStep, Connect, SendChunk,
         Quit, AcceptCompletes
<1>3. Starting(d)' = Starting(d) /\ Busy(d)' = Busy(d)
  BY <1>2 DEF Starting, Busy
<1>4. Kept(d)
  <2>1. CASE UNCHANGED chunks
    BY <1>2, <2>1 DEF Kept
  <2>2. ASSUME NEW c \in Conn, NEW result \in ParseResult,
               chunks' = [chunks EXCEPT ![c] = Append(@, result)]
        PROVE  Kept(d)
    <3>1. /\ chunks \in [Conn -> Seq(ParseResult)]
          /\ taken[d] \in Nat /\ taken[d] <= Len(chunks[d])
      BY DEF FitInv, TypeInv, Types
    <3>2. \A j \in 1..Len(chunks[d]) : chunks'[d][j] = chunks[d][j]
      <4>1. CASE d = c
        BY <2>2, <3>1, <4>1
      <4>2. CASE d # c
        BY <2>2, <3>1, <4>2
      <4> QED BY <4>1, <4>2
    <3>3. \A j \in 1..taken[d] : j \in 1..Len(chunks[d])
      BY <3>1
    <3> QED BY <1>2, <3>2, <3>3 DEF Kept
  <2> QED
    BY <2>1, <2>2 DEF Signal, AcceptFails, Join, vars, clientVars, ClientStep, Connect,
                      SendChunk, Quit, AcceptCompletes
<1>5. Started(d) => Started(d)'
  <2>1. CASE \E c \in Conn : AcceptCompletes(c)
    BY <1>3, <2>1 DEF AcceptCompletes, Started
  <2>2. CASE UNCHANGED <<incoming, accepted>>
    BY <1>3, <2>2 DEF Started
  <2> QED BY <2>1, <2>2 DEF Signal, AcceptFails, Join, vars, acceptVars, ClientStep,
                            Connect, SendChunk, Quit
<1> QED BY <1>1, <1>2, <1>3, <1>4, <1>5, OthersFit

\* The outcomes of reads and writes.
LEMMA OutcomesFit ==
    ASSUME FitInv, NEW c \in Conn, Outcome(c)
    PROVE  \A d \in Conn : Fits(d)'
<1>1. /\ Fits(c) /\ OwnedOnce(c) /\ taken \in [Conn -> Nat] /\ op \in [Conn -> Operation]
      /\ received \in [Conn -> Seq({"page", "bad_request"})] /\ Types
  BY DEF FitInv, TypeInv, Types, OwnerInv
<1>2. UNCHANGED <<chunks, reply, incoming, accepted, waiting, at>>
  BY DEF Outcome, ReadCompletes, WriteCompletes, Fails, clientVars, acceptVars, strandVars
<1>3. \A d \in Conn : /\ Starting(d)' = Starting(d) /\ Busy(d)' = Busy(d)
                      /\ Started(d)' <=> Started(d)
  BY <1>2 DEF Starting, Busy, Started
<1>4. op[c] # Idle
  BY IdleIsOperation DEF Outcome, ReadCompletes, WriteCompletes, Fails
<1>5. Busy(c)' = {} /\ waiting'[c] = <<>> /\ Started(c)'
  BY <1>1, <1>2, <1>3, <1>4 DEF OwnedOnce, Unowned, Started
<1>6. Fits(c)'
  <2>1. CASE ReadCompletes(c)
    <3>1. op[c] = Pending("read") /\ op' = [op EXCEPT ![c] = ReadOk]
      BY <1>1, <2>1, OperationEnds DEF ReadCompletes, ReadOk
    <3>2. op'[c] = ReadOk /\ taken'[c] = taken[c] + 1 /\ received' = received
      BY <1>1, <2>1, <3>1 DEF ReadCompletes
    <3>3. Undecided(c, taken[c]) /\ received[c] = <<>>
      BY <1>1, <3>1 DEF Fits, OpFits, Pending
    <3>4. taken'[c] > 0 /\ taken'[c] - 1 = taken[c]
      BY <1>1, <3>2
    <3>5. taken'[c] > 0 /\ Undecided(c, taken[c] - 1)'
      BY <1>2, <3>3, <3>4 DEF Undecided
    <3>6. OpFits(c, op[c])'
      BY <3>2, <3>3, <3>5, IdleIsOperation DEF OpFits, ReadOk
    <3> QED BY <1>5, <3>2, <3>3, <3>6 DEF Fits
  <2>2. CASE WriteCompletes(c)
    <3> DEFINE done == [kind |-> "write", state |-> "ok"]
    <3>1. op[c] = Pending("write") /\ op' = [op EXCEPT ![c] = done]
      BY <1>1, <2>2, OperationEnds DEF WriteCompletes
    <3>2. /\ op'[c] = done /\ taken' = taken
          /\ received'[c] = Append(received[c], reply[c])
      BY <1>1, <2>2, <3>1 DEF WriteCompletes
    <3>3. Decides(c, reply[c]) /\ received[c] = <<>>
      BY <1>1, <3>1 DEF Fits, OpFits, Pending
    <3>4. received'[c] = <<reply[c]>> /\ reply'[c] = reply[c]
      BY <1>2, <3>2, <3>3
    <3>5. Decides(c, reply[c])'
      BY <1>2, <3>2, <3>3 DEF Decides, Undecided, Buffer
    <3>6. Len(received'[c]) = 1 /\ received'[c][1] = reply'[c]
      BY <3>4
    <3>7. OpFits(c, op[c])'
      BY <3>2, <3>5 DEF OpFits, Pending, ReadOk
    <3> HIDE DEF done
    <3> QED BY <1>5, <3>5, <3>6, <3>7 DEF Fits
  <2>3. CASE Fails(c)
    <3>1. PICK kind \in {"read", "write"} : op[c] = Pending(kind)
      BY <2>3 DEF Fails
    <3> DEFINE failed == [kind |-> kind, state |-> "error"]
    <3>2. op' = [op EXCEPT ![c] = failed]
      BY <1>1, <2>3, <3>1, OperationEnds DEF Fails
    <3>3. op'[c] = failed /\ Kept(c)
      BY <1>1, <1>2, <2>3, <3>2 DEF Fails, Kept
    <3>4. OpFits(c, failed)
      BY <1>1, <3>1 DEF Fits, OpFits, Pending, ReadOk
    <3> HIDE DEF failed
    <3>5. OpFits(c, op'[c])
      BY <3>3, <3>4
    <3> QED BY <1>1, <1>3, <1>5, <3>3, <3>5, StillFits
  <2> QED BY <2>1, <2>2, <2>3 DEF Outcome
<1>7. ASSUME NEW d \in Conn, d # c
      PROVE  Fits(d)'
  <2>1. Kept(d) /\ op'[d] = op[d]
    BY <1>1, <1>2, <1>7 DEF Outcome, ReadCompletes, WriteCompletes, Fails, SetState, Kept
  <2>2. Fits(d) /\ taken[d] \in Nat
    BY <1>1 DEF FitInv
  <2> QED BY <1>2, <1>3, <2>1, <2>2, OthersFit
<1> QED BY <1>6, <1>7

\* The handler of an accept, until it has started the connection.
LEMMA AcceptFits ==
    ASSUME FitInv, NEW t \in Thread, TakeAccept(t) \/ OnAccepted(t)
    PROVE  \A d \in Conn : Fits(d)'
<1> SUFFICES ASSUME NEW d \in Conn PROVE Fits(d)'
  OBVIOUS
<1>1. /\ Fits(d) /\ OwnedOnce(d) /\ taken[d] \in Nat /\ at \in [Thread -> Doing]
      /\ at[t] \in Doing /\ incoming \subseteq Conn
  BY DEF FitInv, TypeInv, Types, OwnerInv
<1>2. UNCHANGED <<chunks, taken, received, reply, accepted, waiting>> /\ Kept(d)
  BY DEF TakeAccept, OnAccepted, clientVars, acceptVars, strandVars, Kept
<1>3. CASE TakeAccept(t)
  <2> DEFINE what == OnAccept("accept", incoming)
  <2>1. what \in Doing /\ what.step = "accept" /\ what.conns = incoming
    BY <1>1, CanDo DEF OnAccept, AcceptStep
  <2> HIDE DEF what
  <2>2. Goes(t, what) /\ at[t].step = "run" /\ incoming' = {} /\ op' = op
    BY <1>3 DEF TakeAccept, Running, what
  <2>3. /\ at'[t] = what /\ \A u \in Thread : u # t => at'[u] = at[u]
    BY <1>1, <2>1, <2>2, ThreadGoes
  <2>4. /\ Busy(d)' = Busy(d) /\ \A u \in Busy(d) : at'[u] = at[u]
        /\ d \notin incoming => Starting(d)' = Starting(d)
    BY <2>1, <2>2, <2>3 DEF Busy, Starting
  <2>5. Started(d) => Started(d)'
    BY <1>2, <2>2, <2>4 DEF Started
  <2> QED BY <1>1, <1>2, <2>2, <2>4, <2>5, OthersFit
<1>4. CASE OnAccepted(t)
  <2> DEFINE what == OnAccept("accept_again", at[t].conns)
  <2>1. what \in Doing /\ what.step = "accept_again"
    BY <1>1, <1>4, HasSockets, CanDo DEF OnAccepted, OnAccept, AcceptStep
  <2> HIDE DEF what
  <2>2. /\ Goes(t, what) /\ at[t].step = "accept" /\ incoming' = incoming
        /\ op'[d] = IF d \in at[t].conns THEN Pending("read") ELSE op[d]
    BY <1>4 DEF OnAccepted, acceptVars, what
  <2>3. /\ at'[t] = what /\ \A u \in Thread : u # t => at'[u] = at[u]
    BY <1>1, <2>1, <2>2, ThreadGoes
  <2>4. /\ Busy(d)' = Busy(d) /\ \A u \in Busy(d) : at'[u] = at[u]
        /\ Starting(d)' \subseteq Starting(d)
    BY <2>1, <2>2, <2>3 DEF Busy, Starting
  <2>5. Started(d) => Started(d)'
    BY <1>2, <2>2, <2>4 DEF Started
  <2>6. CASE d \in at[t].conns
    <3>1. t \in Starting(d)
      BY <2>2, <2>6 DEF Starting
    <3>2. taken[d] = 0 /\ received[d] = <<>>
      BY <1>1, <3>1 DEF Fits, Started
    <3>3. OpFits(d, op'[d])
      BY <2>2, <2>6, <3>2, IdleIsOperation DEF OpFits, Undecided, Pending
    <3>4. /\ waiting'[d] # <<>> => OpFits(d, Head(waiting'[d]))
          /\ \A u \in Busy(d)' : HandlerFits(d, at'[u])
      BY <1>1, <1>2, <2>4 DEF Fits
    <3> QED BY <1>1, <1>2, <2>5, <3>3, <3>4, StillFits
  <2>7. CASE d \notin at[t].conns
    BY <1>1, <1>2, <2>2, <2>4, <2>5, <2>7, OthersFit
  <2> QED BY <2>6, <2>7
<1> QED BY <1>3, <1>4

\* A thread without a connection's next step keeps its hands off.
LEMMA BystandersFit ==
    ASSUME FitInv, NEW t \in Thread,
           \/ TakeSignal(t) \/ Exit(t) \/ AcceptAgain(t) \/ AcceptReturns(t) \/ Stop(t)
           \/ \E c \in Conn : Leave(t, c)
    PROVE  \A d \in Conn : Fits(d)'
<1> SUFFICES ASSUME NEW d \in Conn PROVE Fits(d)'
  OBVIOUS
<1>1. /\ at[t].step \notin {"accept", "enter", "complete", "parsed"}
      /\ UNCHANGED <<chunks, taken, received, reply, incoming, accepted, op, waiting>>
  BY DEF TakeSignal, Exit, AcceptAgain, AcceptReturns, Stop, Leave, Running, clientVars,
         acceptVars, strandVars
<1>2. \E what \in Doing : /\ Goes(t, what)
                          /\ what.step \notin {"accept", "enter", "complete", "parsed"}
  <2>1. OnAccept("accept_return", {}) \in Doing
    BY CanDo DEF AcceptStep
  <2> QED BY <2>1, CanDo
          DEF TakeSignal, Exit, AcceptAgain, AcceptReturns, Stop, Leave, Running,
              Returned, Signalled, OnAccept
<1>3. /\ OpFits(d, op'[d])
      /\ waiting'[d] # <<>> => OpFits(d, Head(waiting'[d]))
  BY <1>1 DEF FitInv, Fits
<1> QED BY <1>1, <1>2, <1>3, ThreadFits

\* A thread takes a connection's handler, with what it says of the request.
LEMMA TakeFits ==
    ASSUME FitInv, NEW t \in Thread, NEW c \in Conn, TakeOp(t, c) \/ TakeInvoker(t, c)
    PROVE  \A d \in Conn : Fits(d)'
<1>1. /\ Fits(c) /\ OwnedOnce(c) /\ op \in [Conn -> Operation]
      /\ waiting \in [Conn -> Seq(Operation)]
      /\ strand[c] = "posted" => waiting[c] # <<>>
  BY DEF FitInv, TypeInv, Types, OwnerInv, PostedWaits
<1>2. /\ at[t].step = "run"
      /\ UNCHANGED <<chunks, taken, received, reply, incoming, accepted>>
  BY DEF TakeOp, TakeInvoker, Running, clientVars, acceptVars
<1>3. CASE TakeOp(t, c)
  <2> DEFINE what == OnConn("enter", c, op[c], "none")
  <2>1. what \in Doing
    BY <1>1, CanDo
  <2>2. what.step = "enter" /\ what.conn = c /\ what.ended = op[c]
    BY DEF OnConn
  <2>3. Goes(t, what) /\ op' = [op EXCEPT ![c] = Idle] /\ waiting' = waiting
    BY <1>3 DEF TakeOp, strandVars
  <2> HIDE DEF what
  <2>4. HandlerFits(c, what) /\ OpFits(c, Idle)
    BY <1>1, <2>2, IdleIsOperation DEF Fits, HandlerFits, OpFits, Idle
  <2>5. op'[c] = Idle /\ \A d \in Conn \ {c} : op'[d] = op[d] /\ waiting'[d] = waiting[d]
    BY <1>1, <2>3
  <2>6. waiting'[c] # <<>> => OpFits(c, Head(waiting'[c]))
    BY <1>1, <2>3 DEF Fits
  <2> QED BY <1>2, <2>1, <2>2, <2>3, <2>4, <2>5, <2>6, ThreadFits
<1>4. CASE TakeInvoker(t, c)
  <2> DEFINE what == OnConn("complete", c, Head(waiting[c]), "none")
  <2>1. waiting[c] # <<>> /\ op' = op /\ Goes(t, what)
        /\ waiting' = [waiting EXCEPT ![c] = Tail(waiting[c])]
    BY <1>1, <1>4 DEF TakeInvoker
  <2>2. what \in Doing
    BY <1>1, <2>1, CanDo DEF ConnStep
  <2>3. what.step = "complete" /\ what.conn = c /\ what.ended = Head(waiting[c])
    BY DEF OnConn
  <2> HIDE DEF what
  <2>4. waiting'[c] = <<>> /\ \A d \in Conn \ {c} : op'[d] = op[d] /\ waiting'[d] = waiting[d]
    <3>1. waiting[c] \in Seq(Operation) /\ Len(waiting[c]) <= 1
      BY <1>1 DEF OwnedOnce
    <3>2. Tail(waiting[c]) = <<>>
      BY <2>1, <3>1
    <3> QED BY <1>1, <2>1, <3>2
  <2>5. HandlerFits(c, what) /\ OpFits(c, op'[c])
    BY <1>1, <2>1, <2>3 DEF Fits, HandlerFits
  <2> QED BY <1>2, <2>1, <2>2, <2>3, <2>4, <2>5, ThreadFits
<1> QED BY <1>3, <1>4

\* On its way through the strand.
LEMMA EnterFits ==
    ASSUME FitInv, NEW t \in Thread, NEW c \in Conn, Enter(t, c)
    PROVE  \A d \in Conn : Fits(d)'
<1>1. /\ Fits(c) /\ OwnedOnce(c) /\ at[t] \in Doing
      /\ waiting \in [Conn -> Seq(Operation)]
  BY DEF FitInv, TypeInv, Types, OwnerInv
<1>2. /\ at[t].step = "enter" /\ at[t].conn = c
      /\ UNCHANGED <<chunks, taken, received, reply, incoming, accepted, op>>
  BY DEF Enter, clientVars, acceptVars
<1>3. t \in Busy(c)
  BY <1>2 DEF Busy
<1>4. waiting[c] = <<>> /\ at[t].ended \in Operation
  BY <1>1, <1>2, <1>3, HasHandler DEF OwnedOnce
<1>5. OpFits(c, at[t].ended) /\ OpFits(c, op'[c])
  BY <1>1, <1>2, <1>3 DEF Fits, HandlerFits
<1>6. CASE strand[c] = "free"
  <2> DEFINE what == OnConn("complete", c, at[t].ended, "none")
  <2>1. what \in Doing
    BY <1>4, CanDo DEF ConnStep
  <2>2. what.step = "complete" /\ what.conn = c /\ what.ended = at[t].ended
    BY DEF OnConn
  <2>3. Goes(t, what) /\ waiting' = waiting
    BY <1>6 DEF Enter
  <2> HIDE DEF what
  <2>4. HandlerFits(c, what)
    BY <1>5, <2>2 DEF HandlerFits
  <2> QED BY <1>2, <1>4, <1>5, <2>1, <2>2, <2>3, <2>4, ThreadFits
<1>7. CASE strand[c] # "free"
  <2>1. Goes(t, Running) /\ waiting' = [waiting EXCEPT ![c] = <<at[t].ended>>]
    BY <1>4, <1>7 DEF Enter
  <2>2. /\ Head(waiting'[c]) = at[t].ended
        /\ \A d \in Conn \ {c} : op'[d] = op[d] /\ waiting'[d] = waiting[d]
    BY <1>1, <1>2, <2>1
  <2>3. Running \in Doing /\ Running.step = "run"
    BY CanDo DEF Running
  <2>4. waiting'[c] # <<>> => OpFits(c, Head(waiting'[c]))
    BY <1>5, <2>2
  <2> QED BY <1>2, <1>5, <2>1, <2>2, <2>3, <2>4, ThreadFits
<1> QED BY <1>6, <1>7

\* The handler of a read decides, or does not.
LEMMA ReadFits ==
    ASSUME FitInv, NEW t \in Thread, NEW c \in Conn, OnRead(t, c)
    PROVE  \A d \in Conn : Fits(d)'
<1>1. /\ Fits(c) /\ OwnedOnce(c) /\ at \in [Thread -> Doing] /\ at[t] \in Doing /\ Types
      /\ taken[c] \in Nat /\ taken[c] <= Len(chunks[c]) /\ chunks[c] \in Seq(ParseResult)
  BY DEF FitInv, TypeInv, Types, OwnerInv
<1>2. /\ at[t].step = "complete" /\ at[t].conn = c /\ at[t].ended = ReadOk
      /\ UNCHANGED <<chunks, taken, received, incoming, accepted, op, waiting>>
  BY DEF OnRead, OnConn, ReadOk, clientVars, acceptVars, strandVars
<1>3. t \in Busy(c)
  BY <1>2 DEF Busy
<1>4. Busy(c) = {t} /\ op[c] = Idle /\ waiting[c] = <<>> /\ Starting(c) = {} /\ Started(c)
  BY <1>1, <1>3 DEF OwnedOnce, Unowned, Started
<1>5. taken[c] > 0 /\ Undecided(c, taken[c] - 1) /\ received[c] = <<>>
  <2>1. OpFits(c, ReadOk)
    BY <1>1, <1>2, <1>3 DEF Fits, HandlerFits
  <2> QED BY <2>1 DEF OpFits, ReadOk
<1>6. Buffer(c) \in ParseResult
  BY <1>1, <1>5 DEF Buffer
<1> DEFINE what == OnConn("parsed", c, at[t].ended, Buffer(c))
<1>7. what \in Doing
  BY <1>2, <1>6, IdleIsOperation, CanDo DEF ConnStep
<1>8. what.step = "parsed" /\ what.conn = c /\ what.result = Buffer(c)
  BY DEF OnConn
<1>9. Goes(t, what)
  BY DEF OnRead
<1> HIDE DEF what
<1>10. at'[t] = what /\ \A u \in Thread : u # t => at'[u] = at[u]
  BY <1>1, <1>7, <1>9, ThreadGoes
<1>11. \A d \in Conn : Starting(d)' = Starting(d) /\ Busy(d)' = Busy(d)
  <2> SUFFICES ASSUME NEW d \in Conn
               PROVE  Starting(d)' = Starting(d) /\ Busy(d)' = Busy(d)
    OBVIOUS
  <2>1. Starting(d)' = Starting(d)
    BY <1>2, <1>8, <1>10 DEF Starting
  <2>2. Busy(d)' = Busy(d)
    BY <1>2, <1>8, <1>10 DEF Busy
  <2> QED BY <2>1, <2>2
<1>12. \A d \in Conn \ {c} : reply'[d] = reply[d]
  BY <1>1 DEF OnRead, Types
<1>13. ResultFits(c, Buffer(c))'
  <2>1. CASE Buffer(c) = "indeterminate"
    <3>1. \A j \in 1..taken[c] : j \in 1..(taken[c] - 1) \/ j = taken[c]
      BY <1>1
    <3>2. Undecided(c, taken[c])
      BY <1>5, <2>1, <3>1 DEF Undecided, Buffer
    <3>3. Undecided(c, taken[c])' /\ Buffer(c)' = Buffer(c)
      BY <1>2, <3>2 DEF Undecided, Buffer
    <3> QED BY <1>2, <1>5, <2>1, <3>3 DEF ResultFits
  <2>2. CASE Buffer(c) # "indeterminate"
    <3>1. reply'[c] = IF Buffer(c) = "good" THEN "page" ELSE "bad_request"
      <4>1. CASE Buffer(c) = "good"
        <5>1. reply' = [reply EXCEPT ![c] = "page"]
          BY <4>1 DEF OnRead
        <5> QED BY <1>1, <4>1, <5>1 DEF Types
      <4>2. CASE Buffer(c) = "bad"
        <5>1. reply' = [reply EXCEPT ![c] = "bad_request"]
          BY <4>2 DEF OnRead
        <5> QED BY <1>1, <4>2, <5>1 DEF Types
      <4> QED BY <1>6, <2>2, <4>1, <4>2 DEF ParseResult
    <3>2. \/ Buffer(c) = "good" /\ reply'[c] = "page"
          \/ Buffer(c) = "bad" /\ reply'[c] = "bad_request"
      BY <1>6, <2>2, <3>1 DEF ParseResult
    <3>3. Decides(c, reply[c])'
      BY <1>2, <1>5, <3>2 DEF Decides, Undecided, Buffer
    <3>4. Buffer(c)' = Buffer(c)
      BY <1>2 DEF Buffer
    <3> QED BY <1>2, <1>5, <2>2, <3>3, <3>4 DEF ResultFits
  <2> QED BY <2>1, <2>2
<1>14. Fits(c)'
  <2>1. HandlerFits(c, at[t])'
    <3>1. at'[t].step = "parsed" /\ at'[t].result = Buffer(c)'
      BY <1>2, <1>8, <1>10 DEF Buffer
    <3> QED BY <1>13, <3>1 DEF HandlerFits
  <2>2. Busy(c)' = {t} /\ op'[c] = Idle /\ waiting'[c] = <<>> /\ Started(c)'
    BY <1>2, <1>4, <1>11 DEF Started
  <2>3. OpFits(c, op[c])'
    BY <2>2, IdleIsOperation DEF OpFits, Idle
  <2> QED BY <1>2, <1>5, <2>1, <2>2, <2>3 DEF Fits
<1>15. ASSUME NEW d \in Conn, d # c
       PROVE  Fits(d)'
  <2>1. Fits(d) /\ taken[d] \in Nat /\ Kept(d)
    BY <1>2, <1>12, <1>15 DEF FitInv, TypeInv, Types, Kept
  <2>2. Started(d) => Started(d)'
    BY <1>2, <1>11 DEF Started
  <2>3. \A u \in Busy(d) : at'[u] = at[u]
    BY <1>2, <1>10, <1>15 DEF Busy
  <2> QED BY <1>2, <1>11, <2>1, <2>2, <2>3, OthersFit
<1> QED BY <1>14, <1>15

\* The next operation is the one the result asks for, or there is none.
LEMMA GoesOnFits ==
    ASSUME FitInv, NEW t \in Thread, NEW c \in Conn,
           OnParsed(t, c) \/ OnWritten(t, c) \/ OnError(t, c)
    PROVE  \A d \in Conn : Fits(d)'
<1>1. /\ Fits(c) /\ OwnedOnce(c) /\ at[t] \in Doing /\ op \in [Conn -> Operation]
  BY DEF FitInv, TypeInv, Types, OwnerInv
<1>2. /\ at[t].step \in {"complete", "parsed"} /\ at[t].conn = c
      /\ UNCHANGED <<chunks, taken, received, reply, incoming, accepted, waiting>>
  BY DEF OnParsed, OnWritten, OnError, OnConn, clientVars, acceptVars, strandVars
<1>3. t \in Busy(c)
  BY <1>2 DEF Busy
<1>4. /\ op[c] = Idle /\ waiting[c] = <<>>
      /\ at[t].ended \in Operation /\ at[t].result \in ParseResult \cup {"none"}
  BY <1>1, <1>2, <1>3, HasHandler DEF OwnedOnce, ConnStep
<1>5. PICK result : Goes(t, OnConn("return", c, at[t].ended, result))
                    /\ result \in ParseResult \cup {"none"}
  BY <1>4 DEF OnParsed, OnWritten, OnError
<1> DEFINE what == OnConn("return", c, at[t].ended, result)
<1>6. what \in Doing
  BY <1>4, <1>5, CanDo DEF ConnStep
<1>7. what.step = "return"
  BY DEF OnConn
<1> HIDE DEF what
<1>8. /\ \A d \in Conn \ {c} : op'[d] = op[d] /\ waiting'[d] = waiting[d]
      /\ OpFits(c, op'[c])
  <2>1. CASE OnParsed(t, c)
    <3>1. ResultFits(c, at[t].result)
      BY <1>1, <1>3, <2>1 DEF OnParsed, Fits, HandlerFits
    <3>2. op'[c] = IF at[t].result = "indeterminate" THEN Pending("read")
                                                     ELSE Pending("write")
      BY <1>1, <2>1 DEF OnParsed
    <3>3. OpFits(c, op'[c])
      BY <3>1, <3>2, IdleIsOperation DEF ResultFits, OpFits, Pending
    <3> QED BY <1>1, <1>2, <2>1, <3>3 DEF OnParsed
  <2>2. CASE OnWritten(t, c) \/ OnError(t, c)
    <3>1. op' = op
      BY <2>2 DEF OnWritten, OnError
    <3> QED BY <1>1, <1>2, <3>1 DEF Fits
  <2> QED BY <2>1, <2>2
<1>9. Goes(t, what) /\ waiting'[c] = <<>>
  BY <1>2, <1>4, <1>5 DEF what
<1> QED BY <1>2, <1>6, <1>7, <1>8, <1>9, ThreadFits

LEMMA NextFits == FitInv /\ [Next]_vars => \A d \in Conn : Fits(d)'
<1> SUFFICES ASSUME FitInv, [Next]_vars PROVE \A d \in Conn : Fits(d)'
  OBVIOUS
<1>1. CASE \/ Signal \/ AcceptFails \/ Join \/ UNCHANGED vars
           \/ \E c \in Conn : ClientStep(c) \/ AcceptCompletes(c)
  BY <1>1, EnvironmentFits
<1>2. CASE \E c \in Conn : Outcome(c)
  BY <1>2, OutcomesFit
<1>3. CASE \E t \in Thread :
              \/ TakeSignal(t) \/ Exit(t) \/ AcceptAgain(t) \/ AcceptReturns(t) \/ Stop(t)
              \/ \E c \in Conn : Leave(t, c)
  BY <1>3, BystandersFit
<1>4. CASE \E t \in Thread : TakeAccept(t) \/ OnAccepted(t)
  BY <1>4, AcceptFits
<1>5. CASE \E t \in Thread, c \in Conn :
              \/ TakeOp(t, c) \/ TakeInvoker(t, c) \/ Enter(t, c) \/ OnRead(t, c)
              \/ OnParsed(t, c) \/ OnWritten(t, c) \/ OnError(t, c)
  BY <1>5, TakeFits, EnterFits, ReadFits, GoesOnFits
<1> QED BY <1>1, <1>2, <1>3, <1>4, <1>5 DEF Next, Step

\* A client gets at most one reply, and the one its request deserves, whichever
\* threads read and parse its pieces: the chunk that decides and the reply it
\* calls for pass from one owner of the connection to the next.
THEOREM RepliesFit == Spec => []ReplyFitsRequest
<1>1. Init => FitInv
  <2> SUFFICES ASSUME Init, NEW c \in Conn PROVE Fits(c)
    BY InitTypeInv, InitOwnerInv DEF FitInv
  <2>1. /\ op[c] = Idle /\ waiting[c] = <<>> /\ taken[c] = 0 /\ received[c] = <<>>
        /\ Busy(c) = {}
    BY DEF Init, Busy, Running
  <2>2. OpFits(c, op[c])
    BY <2>1, IdleIsOperation DEF OpFits, Idle
  <2> QED BY <2>1, <2>2 DEF Fits
<1>2. FitInv /\ [Next]_vars => FitInv'
  BY NextKeepsTypes, NextKeepsOwners, NextFits DEF FitInv
<1>3. FitInv => ReplyFitsRequest
  <2> SUFFICES ASSUME FitInv, NEW c \in Conn, received[c] # <<>>
               PROVE  /\ Len(received[c]) = 1
                      /\ \E i \in 1..Len(chunks[c]) :
                            /\ \A j \in 1..(i - 1) : chunks[c][j] = "indeterminate"
                            /\ received[c][1] = (CASE chunks[c][i] = "good" -> "page"
                                                   [] chunks[c][i] = "bad"  -> "bad_request"
                                                   [] OTHER -> "none")
    BY DEF ReplyFitsRequest
  <2>1. Len(received[c]) = 1 /\ Decides(c, received[c][1])
    BY DEF FitInv, Fits
  <2>2. taken[c] \in 1..Len(chunks[c])
    BY <2>1 DEF FitInv, TypeInv, Types, Decides
  <2>3. received[c][1] = (CASE chunks[c][taken[c]] = "good" -> "page"
                            [] chunks[c][taken[c]] = "bad"  -> "bad_request"
                            [] OTHER -> "none")
    BY <2>1 DEF Decides, Buffer
  <2> QED BY <2>1, <2>2, <2>3 DEF Decides, Undecided
<1> QED BY <1>1, <1>2, <1>3, PTL DEF Spec
=============================================================================
