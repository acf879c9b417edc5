---------------------------- MODULE ServersProofs ----------------------------
(***************************************************************************)
(* What is proved of the daytime servers, of the pool of HTTP server 2,    *)
(* and of the request handler of the HTTP servers, for targets of any      *)
(* length.                                                                 *)
(***************************************************************************)
EXTENDS Daytime, IoContextPool, Integers, SequenceTheorems, FiniteSetTheorems, TLAPS

-----------------------------------------------------------------------------
(* The UDP server.                                                         *)

\* A receive whose handler has not run has no reply yet.
Unhandled == IF receive = "done" THEN 1 ELSE 0

\* remote_endpoint_ is the last sender heard, and each reply that is sent or
\* waits for it belongs to a receive of its own.
UdpInv ==
    /\ heard \in Seq(Peer \cup {"error"})
    /\ inbox \in Seq(Peer)
    /\ replies \in Seq(Peer \cup {"nobody"})
    /\ sends \in Seq(Peer \cup {"nobody"})
    /\ remote \in Peer \cup {"nobody"}
    /\ receive \in {"pending", "done"}
    /\ Len(replies) + Len(sends) + Unhandled = Len(heard)
    /\ IsLastOf(heard, remote, Len(heard))
    /\ RepliesGoToSenders
    /\ \A n \in DOMAIN sends : IsLastOf(heard, sends[n], Len(replies) + n)

\* What comes later does not change what an earlier receive has heard.
LEMMA HeardStays ==
    ASSUME NEW S, NEW h \in Seq(S), NEW e \in S,
           NEW n \in 0..Len(h), NEW p, IsLastOf(h, p, n)
    PROVE  IsLastOf(Append(h, e), p, n)
<1>1. \A m \in 1..n : Append(h, e)[m] = h[m]
  OBVIOUS
<1>2. CASE p = "nobody" /\ \A m \in 1..n : h[m] = "error"
  BY <1>1, <1>2 DEF IsLastOf
<1>3. CASE \E m \in 1..n : /\ p = h[m] /\ p # "error"
                           /\ \A l \in (m + 1)..n : h[l] = "error"
  <2>1. PICK m \in 1..n : /\ p = h[m] /\ p # "error"
                          /\ \A l \in (m + 1)..n : h[l] = "error"
    BY <1>3
  <2>2. \A l \in (m + 1)..n : Append(h, e)[l] = "error"
    BY <2>1, <1>1
  <2> QED BY <2>1, <2>2, <1>1 DEF IsLastOf
<1> QED BY <1>2, <1>3 DEF IsLastOf

\* A receive that succeeds names its sender.
LEMMA SenderIsHeard ==
    ASSUME NEW S, NEW h \in Seq(S), NEW p \in S, p # "error"
    PROVE  IsLastOf(Append(h, p), p, Len(h) + 1)
<1>1. /\ Append(h, p)[Len(h) + 1] = p
      /\ Len(h) \in Nat
  OBVIOUS
<1>2. \A l \in (Len(h) + 1 + 1)..(Len(h) + 1) : Append(h, p)[l] = "error"
  BY <1>1
<1>3. Len(h) + 1 \in 1..(Len(h) + 1)
  BY <1>1
<1> QED BY <1>1, <1>2, <1>3 DEF IsLastOf

\* One that fails leaves the last sender's name.
LEMMA ErrorIsSkipped ==
    ASSUME NEW S, NEW h \in Seq(S), "error" \in S, NEW p, IsLastOf(h, p, Len(h))
    PROVE  IsLastOf(Append(h, "error"), p, Len(h) + 1)
<1>1. /\ Append(h, "error")[Len(h) + 1] = "error"
      /\ Len(h) \in Nat
      /\ \A m \in 1..Len(h) : Append(h, "error")[m] = h[m]
  OBVIOUS
<1>2. CASE p = "nobody" /\ \A m \in 1..Len(h) : h[m] = "error"
  <2>1. \A m \in 1..(Len(h) + 1) : Append(h, "error")[m] = "error"
    BY <1>1, <1>2
  <2> QED BY <1>2, <2>1 DEF IsLastOf
<1>3. CASE \E m \in 1..Len(h) :
              /\ p = h[m] /\ p # "error"
              /\ \A l \in (m + 1)..Len(h) : h[l] = "error"
  <2>1. PICK m \in 1..Len(h) :
              /\ p = h[m] /\ p # "error"
              /\ \A l \in (m + 1)..Len(h) : h[l] = "error"
    BY <1>3
  <2>2. \A l \in (m + 1)..(Len(h) + 1) : Append(h, "error")[l] = "error"
    BY <2>1, <1>1
  <2>3. m \in 1..(Len(h) + 1) /\ p = Append(h, "error")[m]
    BY <2>1, <1>1
  <2> QED BY <2>1, <2>2, <2>3 DEF IsLastOf
<1> QED BY <1>2, <1>3 DEF IsLastOf

LEMMA UdpInit ==
    ASSUME Init
    PROVE  UdpInv
BY DEF Init, UdpInv, Unhandled, IsLastOf, RepliesGoToSenders

\* What has been heard grows by the outcome of a receive.
LEMMA ReceiveKeeps ==
    ASSUME UdpInv, NEW e \in Peer \cup {"error"}, heard' = Append(heard, e),
           inbox' \in Seq(Peer), receive = "pending", receive' = "done",
           remote' \in Peer \cup {"nobody"}, IsLastOf(heard', remote', Len(heard) + 1),
           UNCHANGED <<sends, replies>>
    PROVE  UdpInv'
<1>1. /\ heard' \in Seq(Peer \cup {"error"}) /\ Len(heard') = Len(heard) + 1
      /\ Len(heard) \in Nat /\ Len(replies) \in Nat /\ Len(sends) \in Nat
  BY DEF UdpInv
<1>2. Len(replies) + Len(sends) = Len(heard)
  BY <1>1 DEF UdpInv, Unhandled
<1>3. ASSUME NEW n \in DOMAIN replies'
      PROVE  IsLastOf(heard', replies'[n], n)
  <2>1. n \in 0..Len(heard) /\ IsLastOf(heard, replies[n], n)
    BY <1>1, <1>2, <1>3 DEF UdpInv, RepliesGoToSenders
  <2>2. PICK p : p = replies[n]
    OBVIOUS
  <2>3. IsLastOf(heard', p, n)
    BY <2>1, <2>2, HeardStays DEF UdpInv
  <2> QED BY <2>2, <2>3
<1>4. ASSUME NEW n \in DOMAIN sends'
      PROVE  IsLastOf(heard', sends'[n], Len(replies') + n)
  <2>1. /\ Len(replies) + n \in 0..Len(heard)
        /\ IsLastOf(heard, sends[n], Len(replies) + n)
    BY <1>1, <1>2, <1>4 DEF UdpInv
  <2>2. PICK p, k : p = sends[n] /\ k = Len(replies) + n
    OBVIOUS
  <2>3. IsLastOf(heard', p, k)
    BY <2>1, <2>2, HeardStays DEF UdpInv
  <2> QED BY <2>2, <2>3
<1>5. Unhandled' = 1
  BY DEF Unhandled
<1>6. RepliesGoToSenders'
  BY <1>3 DEF RepliesGoToSenders
<1> QED BY <1>1, <1>2, <1>4, <1>5, <1>6 DEF UdpInv

\* The head of the queue is the reply to the receive after those answered.
LEMMA SendKeeps ==
    ASSUME UdpInv, SendEnds
    PROVE  UdpInv'
<1> USE DEF SendEnds, Destination, udpVars, tcpVars
<1>1. /\ sends # <<>> /\ sends \in Seq(Peer \cup {"nobody"})
      /\ replies \in Seq(Peer \cup {"nobody"})
  BY DEF UdpInv
<1>2. /\ sends' \in Seq(Peer \cup {"nobody"}) /\ Len(sends') = Len(sends) - 1
      /\ \A n \in DOMAIN sends' : n + 1 \in DOMAIN sends /\ sends'[n] = sends[n + 1]
  BY <1>1
<1>3. /\ replies' = Append(replies, Head(sends)) /\ Head(sends) = sends[1]
      /\ 1 \in DOMAIN sends /\ sends[1] \in Peer \cup {"nobody"}
  BY <1>1
<1>4. /\ replies' \in Seq(Peer \cup {"nobody"}) /\ Len(replies') = Len(replies) + 1
      /\ \A n \in 1..Len(replies) : replies'[n] = replies[n]
      /\ replies'[Len(replies) + 1] = sends[1] /\ DOMAIN replies' = 1..(Len(replies) + 1)
      /\ Len(replies) \in Nat /\ Len(sends) \in Nat
  BY <1>1, <1>3
<1>5. Len(replies') + Len(sends') = Len(replies) + Len(sends)
  BY <1>2, <1>4
<1>6. ASSUME NEW n \in DOMAIN replies'
      PROVE  IsLastOf(heard, replies'[n], n)
  <2>1. CASE n \in 1..Len(replies)
    <3>1. IsLastOf(heard, replies[n], n)
      BY <2>1, <1>1 DEF UdpInv, RepliesGoToSenders
    <3> QED BY <3>1, <2>1, <1>4
  <2>2. CASE n = Len(replies) + 1
    BY <2>2, <1>3, <1>4 DEF UdpInv
  <2> QED BY <1>4, <1>6, <2>1, <2>2
<1>7. ASSUME NEW n \in DOMAIN sends'
      PROVE  IsLastOf(heard, sends'[n], Len(replies') + n)
  <2>1. n \in Nat
    BY <1>2, <1>7
  <2>2. Len(replies') + n = Len(replies) + (n + 1)
    BY <1>4, <2>1
  <2>3. IsLastOf(heard, sends[n + 1], Len(replies) + (n + 1))
    BY <1>2, <1>7 DEF UdpInv
  <2> QED BY <2>2, <2>3, <1>2, <1>7
<1>8. RepliesGoToSenders'
  BY <1>6 DEF RepliesGoToSenders
<1>9. Unhandled' = Unhandled
  BY DEF Unhandled
<1>10. UNCHANGED <<heard, inbox, remote, receive>>
  OBVIOUS
<1> QED BY <1>2, <1>4, <1>5, <1>7, <1>8, <1>9, <1>10 DEF UdpInv

\* The handler adds the reply to the last receive.
LEMMA HandlerKeeps ==
    ASSUME UdpInv, HandleReceive
    PROVE  UdpInv'
<1> USE DEF HandleReceive
<1>1. /\ sends \in Seq(Peer \cup {"nobody"}) /\ remote \in Peer \cup {"nobody"}
      /\ Len(replies) \in Nat /\ Len(sends) \in Nat
  BY DEF UdpInv
<1>2. /\ sends' \in Seq(Peer \cup {"nobody"}) /\ Len(sends') = Len(sends) + 1
      /\ DOMAIN sends' = 1..(Len(sends) + 1)
      /\ \A n \in 1..Len(sends) : sends'[n] = sends[n]
      /\ sends'[Len(sends) + 1] = remote
  BY <1>1
<1>3. Len(heard) = Len(replies) + (Len(sends) + 1)
  BY <1>1 DEF UdpInv, Unhandled
<1>4. ASSUME NEW n \in DOMAIN sends'
      PROVE  IsLastOf(heard, sends'[n], Len(replies) + n)
  <2>1. CASE n \in 1..Len(sends)
    <3>1. IsLastOf(heard, sends[n], Len(replies) + n)
      BY <2>1, <1>1 DEF UdpInv
    <3> QED BY <3>1, <2>1, <1>2
  <2>2. CASE n = Len(sends) + 1
    <3>1. IsLastOf(heard, remote, Len(replies) + (Len(sends) + 1))
      BY <1>3 DEF UdpInv
    <3> QED BY <3>1, <2>2, <1>2
  <2> QED BY <1>1, <1>2, <1>4, <2>1, <2>2
<1>5. Unhandled' = 0
  BY DEF Unhandled
<1>6. UNCHANGED <<heard, inbox, remote, replies>>
  OBVIOUS
<1>7. RepliesGoToSenders'
  BY <1>6 DEF RepliesGoToSenders, UdpInv
<1>8. Len(replies') + Len(sends') + Unhandled' = Len(heard')
  BY <1>1, <1>2, <1>3, <1>5, <1>6
<1>9. receive' \in {"pending", "done"}
  OBVIOUS
<1> QED BY <1>2, <1>4, <1>6, <1>7, <1>8, <1>9 DEF UdpInv

\* A step that is nothing to the UDP server's operations.
LEMMA OthersKeep ==
    ASSUME UdpInv, inbox' \in Seq(Peer),
           UNCHANGED <<receive, remote, heard, sends, replies>>
    PROVE  UdpInv'
BY DEF UdpInv, Unhandled, RepliesGoToSenders

LEMMA UdpNext ==
    ASSUME UdpInv, [Next]_vars
    PROVE  UdpInv'
<1>1. CASE SendEnds
  BY <1>1, SendKeeps
<1>2. CASE HandleReceive
  BY <1>2, HandlerKeeps
<1>3. CASE ReceiveCompletes
  <2>1. inbox \in Seq(Peer) /\ inbox # <<>> /\ heard \in Seq(Peer \cup {"error"})
    BY <1>3 DEF UdpInv, ReceiveCompletes
  <2>2. Head(inbox) \in Peer /\ Tail(inbox) \in Seq(Peer)
    BY <2>1
  <2>3. Head(inbox) # "error"
    BY <2>2, NamesAssumption
  <2>4. PICK p \in Peer : p = Head(inbox)
    BY <2>2
  <2>5. heard' = Append(heard, p) /\ remote' = p /\ inbox' \in Seq(Peer)
    BY <1>3, <2>2, <2>4 DEF ReceiveCompletes
  <2>6. IsLastOf(Append(heard, p), p, Len(heard) + 1)
    BY <2>1, <2>3, <2>4, SenderIsHeard
  <2>7. /\ receive = "pending" /\ receive' = "done" /\ UNCHANGED <<sends, replies>>
    BY <1>3 DEF ReceiveCompletes
  <2>8. p \in Peer \cup {"error"} /\ p \in Peer \cup {"nobody"}
    OBVIOUS
  <2> QED BY <2>5, <2>6, <2>7, <2>8, ReceiveKeeps
<1>4. CASE ReceiveFails
  <2>1. heard' = Append(heard, "error") /\ UNCHANGED <<remote, inbox, sends, replies>>
    BY <1>4 DEF ReceiveFails
  <2>2. IsLastOf(Append(heard, "error"), remote, Len(heard) + 1)
    BY ErrorIsSkipped DEF UdpInv
  <2>3. receive = "pending" /\ receive' = "done"
    BY <1>4 DEF ReceiveFails
  <2>4. inbox' \in Seq(Peer) /\ remote' \in Peer \cup {"nobody"}
    BY <2>1 DEF UdpInv
  <2> QED BY <2>1, <2>2, <2>3, <2>4, ReceiveKeeps
<1>5. CASE \E p \in Peer : DatagramArrives(p)
  BY <1>5, OthersKeep DEF DatagramArrives, UdpInv
<1>6. CASE UNCHANGED udpVars
  BY <1>6, OthersKeep DEF udpVars, UdpInv
<1>7. UNCHANGED vars => UNCHANGED udpVars
  BY DEF vars
<1>8. (\E c \in Client : Connect(c) \/ Quit(c) \/ AcceptCompletes(c)) => UNCHANGED udpVars
  BY DEF Connect, Quit, AcceptCompletes
<1>9. (\E i \in DOMAIN conns : WriteEnds(i) \/ HandleWrite(i)) => UNCHANGED udpVars
  BY DEF WriteEnds, HandleWrite
<1>10. AcceptFails \/ HandleAccept => UNCHANGED udpVars
  BY DEF AcceptFails, HandleAccept
<1> QED
  BY <1>1, <1>2, <1>3, <1>4, <1>5, <1>6, <1>7, <1>8, <1>9, <1>10 DEF Next

\* Whatever receives fail and however long replies wait to be sent, the n-th
\* reply goes to the sender that the n-th receive has heard, or, if that one
\* failed, the last before it: the next receive may write to remote_endpoint_
\* at any time, but no reply that is under way looks at it again.
THEOREM RepliesReachSenders == Spec => []RepliesGoToSenders
<1>1. Init => UdpInv
  BY UdpInit
<1>2. UdpInv /\ [Next]_vars => UdpInv'
  BY UdpNext
<1>3. UdpInv => RepliesGoToSenders
  BY DEF UdpInv
<1> QED BY <1>1, <1>2, <1>3, PTL DEF Spec

-----------------------------------------------------------------------------
(* The pool.                                                               *)

CONSTANTS MaxPool, Conn, MaxChunks

VARIABLES chunks, taken, received, socketCtx, home, op, reply, signal, stopped,
          at, joined

\* The other variables are those declared so far: the theorems are about one
\* program each, and it does not matter that they share names.
Server == INSTANCE HttpServer2

\* There have been some rounds, and in the one that goes on those before next
\* have had their turn.
PoolInv ==
    /\ size \in Nat \ {0}
    /\ next \in Context
    /\ \E rounds \in Nat :
          given = [k \in Context |-> IF k < next THEN rounds + 1 ELSE rounds]

LEMMA PoolIsSpread ==
    ASSUME PoolInv
    PROVE  IoContextsAreSpread
<1>1. PICK rounds \in Nat :
          given = [k \in Context |-> IF k < next THEN rounds + 1 ELSE rounds]
  BY DEF PoolInv
<1>2. \A k \in Context : given[k] \in {rounds, rounds + 1}
  BY <1>1
<1> QED BY <1>2 DEF IoContextsAreSpread, PoolInv

\* The signal set, the acceptor and the first socket have had a turn.
LEMMA PoolInit ==
    ASSUME Server!Init
    PROVE  PoolInv
<1> DEFINE turns(k) == {i \in 0..2 : i % size = k}
<1>1. size \in Nat \ {0} /\ next = 3 % size
  BY DEF Server!Init
<1>2. given = [k \in Context |-> Cardinality(turns(k))]
  BY DEF Server!Init, Context, Server!Context
<1>3. CASE size = 1
  <2>1. next = 0 /\ Context = {0}
    BY <1>1, <1>3 DEF Context
  <2>2. turns(0) = 0..2
    BY <1>3
  <2>3. Cardinality(0..2) = 3
    <3>1. PICK a \in Int, b \in Int : a = 0 /\ b = 2
      OBVIOUS
    <3>2. Cardinality(a..b) = IF a > b THEN 0 ELSE b - a + 1
      BY FS_Interval
    <3> QED BY <3>1, <3>2
  <2>4. given = [k \in Context |-> IF k < next THEN 3 + 1 ELSE 3]
    BY <1>2, <2>1, <2>2, <2>3, SMTT(30)
  <2> QED BY <1>1, <2>1, <2>4 DEF PoolInv
<1>4. CASE size = 2
  <2>1. next = 1 /\ Context = {0, 1}
    BY <1>1, <1>4 DEF Context
  <2>2. turns(0) = {0, 2} /\ turns(1) = {1}
    BY <1>4
  <2>3. Cardinality({0, 2}) = 2 /\ Cardinality({1}) = 1
    <3>1. IsFiniteSet({0}) /\ Cardinality({0}) = 1 /\ Cardinality({1}) = 1
      BY FS_Singleton
    <3>2. Cardinality({0} \cup {2}) = Cardinality({0}) + 1
      BY <3>1, FS_AddElement
    <3>3. {0} \cup {2} = {0, 2}
      OBVIOUS
    <3> QED BY <3>1, <3>2, <3>3
  <2>4. given = [k \in Context |-> IF k < next THEN 1 + 1 ELSE 1]
    BY <1>2, <2>1, <2>2, <2>3, SMTT(30)
  <2> QED BY <1>1, <2>1, <2>4 DEF PoolInv
<1>5. CASE size > 2
  <2>1. /\ next = IF size = 3 THEN 0 ELSE 3
        /\ next \in Context
    BY <1>1, <1>5 DEF Context
  <2>2. ASSUME NEW k \in Context
        PROVE  Cardinality(turns(k)) = IF k < 3 THEN 1 ELSE 0
    <3>1. CASE k < 3
      <4>1. turns(k) = {k}
        BY <1>1, <1>5, <3>1 DEF Context
      <4> QED BY <3>1, <4>1, FS_Singleton
    <3>2. CASE ~(k < 3)
      <4>1. turns(k) = {}
        BY <1>1, <1>5, <3>2 DEF Context
      <4> QED BY <3>2, <4>1, FS_EmptySet
    <3> QED BY <3>1, <3>2
  <2>3. CASE size = 3
    <3>1. \A k \in Context : k < 3 /\ ~(k < next)
      BY <2>1, <2>3 DEF Context
    <3>2. given = [k \in Context |-> IF k < next THEN 1 + 1 ELSE 1]
      BY <1>2, <2>2, <3>1
    <3> QED BY <1>1, <2>1, <3>2 DEF PoolInv
  <2>4. CASE size # 3
    <3>1. given = [k \in Context |-> IF k < next THEN 0 + 1 ELSE 0]
      BY <1>2, <2>1, <2>2, <2>4
    <3> QED BY <1>1, <2>1, <3>1 DEF PoolInv
  <2> QED BY <2>3, <2>4
<1> QED BY <1>1, <1>3, <1>4, <1>5

\* A turn.
LEMMA TurnKeeps ==
    ASSUME PoolInv, GetIoContext
    PROVE  PoolInv'
<1>1. PICK rounds \in Nat :
          given = [k \in Context |-> IF k < next THEN rounds + 1 ELSE rounds]
  BY DEF PoolInv
<1>2. /\ size \in Nat \ {0} /\ size' = size /\ Context' = Context
      /\ next \in Context /\ next \in Nat
  BY DEF PoolInv, GetIoContext, Context
<1>3. given' = [given EXCEPT ![next] = given[next] + 1]
  BY DEF GetIoContext
<1>4. given[next] = rounds
  BY <1>1, <1>2
<1>5. given' = [k \in Context |-> IF k = next THEN rounds + 1 ELSE given[k]]
  BY <1>1, <1>2, <1>3, <1>4
<1>6. CASE next + 1 = size
  <2>1. next' = 0
    BY <1>6 DEF GetIoContext, NextTurn
  <2>2. \A k \in Context : k = next \/ k < next
    BY <1>2, <1>6 DEF Context
  <2>3. given' = [k \in Context |-> IF k < 0 THEN (rounds + 1) + 1 ELSE rounds + 1]
    <3>1. \A k \in Context : ~(k < 0)
      BY <1>2 DEF Context
    <3> QED BY <1>1, <1>5, <2>2, <3>1
  <2>4. 0 \in Context
    BY <1>2 DEF Context
  <2> QED BY <1>2, <2>1, <2>3, <2>4 DEF PoolInv
<1>7. CASE next + 1 # size
  <2>1. next' = next + 1 /\ next + 1 \in Context
    BY <1>2, <1>7 DEF GetIoContext, NextTurn, Context
  <2>2. \A k \in Context : k < next + 1 <=> k = next \/ k < next
    BY <1>2 DEF Context
  <2>3. given' = [k \in Context |-> IF k < next + 1 THEN rounds + 1 ELSE rounds]
    BY <1>1, <1>5, <2>2
  <2> QED BY <1>2, <2>1, <2>3 DEF PoolInv
<1> QED BY <1>6, <1>7

\* Only the acceptor's handler takes one.
LEMMA PoolNext ==
    ASSUME PoolInv, [Server!Next]_(Server!vars)
    PROVE  PoolInv'
<1> SUFFICES ASSUME ~GetIoContext
             PROVE  UNCHANGED poolVars
  BY TurnKeeps DEF PoolInv, poolVars, Context
<1>1. CASE Server!DoAccept
  BY <1>1 DEF Server!DoAccept, Server!GetIoContext, GetIoContext, Server!NextTurn,
              NextTurn
<1>2. CASE \E c \in Conn : Server!Quit(c) \/ Server!AcceptCompletes(c) \/ Server!Outcome(c)
                           \/ Server!Handler(c)
                           \/ \E result \in Server!ParseResult : Server!SendChunk(c, result)
  BY <1>2 DEF Server!Quit, Server!AcceptCompletes, Server!Outcome, Server!Handler,
              Server!SendChunk, Server!ReadCompletes, Server!WriteCompletes, Server!Fails,
              Server!OnRead, Server!OnEnd, Server!poolVars, poolVars
<1>3. CASE Server!Signal \/ Server!AcceptFails \/ Server!OnAccept \/ Server!OnSignal
           \/ Server!StopNext \/ Server!Join
  BY <1>3 DEF Server!Signal, Server!AcceptFails, Server!OnAccept, Server!OnSignal,
              Server!StopNext, Server!Join, Server!poolVars, poolVars
<1>4. CASE \E k \in Server!Context : Server!Exit(k)
  BY <1>4 DEF Server!Exit, Server!poolVars, poolVars
<1>5. CASE UNCHANGED Server!vars
  BY <1>5 DEF Server!vars, Server!poolVars, poolVars
<1> QED BY <1>1, <1>2, <1>3, <1>4, <1>5 DEF Server!Next

\* However many connections come, and however many accepts fail, no
\* io_context of a pool of any size is handed out twice more than another.
THEOREM TurnsAreSpread == Server!Spec => []IoContextsAreSpread
<1>1. Server!Init => PoolInv
  BY PoolInit
<1>2. PoolInv /\ [Server!Next]_(Server!vars) => PoolInv'
  BY PoolNext
<1>3. PoolInv => IoContextsAreSpread
  BY PoolIsSpread
<1> QED BY <1>1, <1>2, <1>3, PTL DEF Server!Spec

-----------------------------------------------------------------------------
(* The request handler.                                                    *)

CONSTANTS Uris, Openable

VARIABLES uri, index, out

Handler == INSTANCE RequestHandler WITH i <- index, path <- out

\* Targets are sequences of bytes, and so is what is made of them.
Typed ==
    /\ uri \in Seq(0..255)
    /\ out \in Seq(0..255)
    /\ index \in Nat

LEMMA HexDigitsAreRead ==
    ASSUME NEW a \in Handler!HexDigit, NEW b \in Handler!HexDigit
    PROVE  Handler!ReadHex(a, b) = {16 * Handler!HexValue(a) + Handler!HexValue(b)}
BY DEF Handler!ReadHex, Handler!HexDigit, Handler!Blank, Handler!Space, Handler!Plus,
       Handler!Minus

\* What is read from two bytes is a number.
LEMMA ReadsNumbers ==
    ASSUME NEW a \in 0..255, NEW b \in 0..255
    PROVE  Handler!ReadHex(a, b) \subseteq Int
<1>1. \A d \in Handler!HexDigit : Handler!HexValue(d) \in Int
  BY DEF Handler!HexDigit, Handler!HexValue
<1> QED
  BY <1>1 DEF Handler!ReadHex, Handler!Plus, Handler!Minus, Handler!Blank, Handler!Space

-----------------------------------------------------------------------------
(* The loop stays inside the text.                                         *)

LoopInv == Typed /\ Handler!StaysInside

LEMMA LoopInit ==
    ASSUME Uris \subseteq Seq(0..255), Handler!Init
    PROVE  LoopInv
BY DEF Handler!Init, LoopInv, Typed, Handler!StaysInside

LEMMA LoopNext ==
    ASSUME LoopInv, [Handler!Next]_(Handler!vars)
    PROVE  LoopInv'
<1> USE DEF LoopInv, Typed, Handler!StaysInside
<1>1. CASE Handler!DecodePlain
  <2>1. (IF uri[index + 1] = Handler!Plus THEN Handler!Space ELSE uri[index + 1]) \in 0..255
    <3>1. index + 1 \in 1..Len(uri)
      BY <1>1 DEF Handler!DecodePlain, Handler!Decoding
    <3>2. uri[index + 1] \in 0..255
      BY <3>1, ElementOfSeq
    <3> QED BY <3>2 DEF Handler!Space
  <2> QED BY <1>1, <2>1 DEF Handler!DecodePlain, Handler!Decoding
<1>2. CASE Handler!DecodeEscape
  <2>1. PICK value \in Handler!Escape : out' = Append(out, value % 256)
    BY <1>2 DEF Handler!DecodeEscape
  <2>2. /\ index + 3 <= Len(uri)
        /\ value \in Handler!ReadHex(uri[index + 2], uri[index + 3])
    BY <2>1 DEF Handler!Escape
  <2>3. uri[index + 2] \in 0..255 /\ uri[index + 3] \in 0..255
    <3>1. index + 2 \in 1..Len(uri) /\ index + 3 \in 1..Len(uri)
      BY <2>2
    <3> QED BY <3>1, ElementOfSeq
  <2>4. value \in Int
    BY <2>2, <2>3, ReadsNumbers
  <2>5. value % 256 \in 0..255
    BY <2>4
  <2> QED BY <1>2, <2>1, <2>2, <2>5 DEF Handler!DecodeEscape, Handler!Decoding
<1>3. CASE Handler!RefuseEncoding
  BY <1>3 DEF Handler!RefuseEncoding, Handler!Answer
<1>4. CASE Handler!RefusePath
  BY <1>4 DEF Handler!RefusePath, Handler!Answer
<1>5. CASE Handler!OpenFile
  <2>1. Handler!WithIndex(out) \in Seq(0..255)
    <3>1. Handler!IndexHtml \in Seq(0..255)
      BY DEF Handler!IndexHtml
    <3> QED BY <3>1, ConcatProperties DEF Handler!WithIndex
  <2> QED BY <1>5, <2>1 DEF Handler!OpenFile, Handler!Answer
<1>6. CASE UNCHANGED Handler!vars
  BY <1>6 DEF Handler!vars
<1> QED BY <1>1, <1>2, <1>3, <1>4, <1>5, <1>6 DEF Handler!Next

\* url_decode reads only bytes that are there, and does not make more of them
\* than it has read.
THEOREM LoopStaysInside ==
    ASSUME Uris \subseteq Seq(0..255)
    PROVE  Handler!Spec => []Handler!StaysInside
<1>1. Handler!Init => LoopInv
  BY LoopInit
<1>2. LoopInv /\ [Handler!Next]_(Handler!vars) => LoopInv'
  BY LoopNext
<1>3. LoopInv => Handler!StaysInside
  BY DEF LoopInv
<1> QED BY <1>1, <1>2, <1>3, PTL DEF Handler!Spec

-----------------------------------------------------------------------------
(* What is refused, and what is kept.                                      *)

\* url_decode refuses no valid encoding: with InvalidIsRefused, which fails,
\* it would refuse exactly the others.
THEOREM ValidIsDecoded ==
    ASSUME Uris \subseteq Seq(0..255)
    PROVE  Handler!Spec => []Handler!OnlyInvalidIsRefused
<1>1. LoopInv => Handler!OnlyInvalidIsRefused
  <2> SUFFICES ASSUME LoopInv, Handler!ValidEncoding(uri), index < Len(uri),
                      uri[index + 1] = Handler!Percent
               PROVE  Handler!Escape # {}
    BY DEF Handler!OnlyInvalidIsRefused
  <2>1. /\ index + 3 <= Len(uri)
        /\ uri[index + 2] \in Handler!HexDigit
        /\ uri[index + 3] \in Handler!HexDigit
    <3>1. index + 1 \in 1..Len(uri)
      BY DEF LoopInv, Typed
    <3>2. /\ (index + 1) + 2 <= Len(uri)
          /\ uri[(index + 1) + 1] \in Handler!HexDigit
          /\ uri[(index + 1) + 2] \in Handler!HexDigit
      BY <3>1 DEF Handler!ValidEncoding
    <3>3. (index + 1) + 1 = index + 2 /\ (index + 1) + 2 = index + 3
      BY DEF LoopInv, Typed
    <3> QED BY <3>2, <3>3
  <2> QED BY <2>1, HexDigitsAreRead DEF Handler!Escape
<1>2. Handler!Init => LoopInv
  BY LoopInit
<1>3. LoopInv /\ [Handler!Next]_(Handler!vars) => LoopInv'
  BY LoopNext
<1> QED BY <1>1, <1>2, <1>3, PTL DEF Handler!Spec

\* A target without escapes reaches the file system as it is.
THEOREM PlainIsUnchanged ==
    ASSUME Uris \subseteq Seq(0..255)
    PROVE  Handler!Spec => []Handler!PlainIsKept
<1>1. Handler!Init => LoopInv /\ Handler!PlainIsKept
  BY LoopInit DEF Handler!Init, Handler!PlainIsKept
<1>2. LoopInv /\ Handler!PlainIsKept /\ [Handler!Next]_(Handler!vars)
         => LoopInv' /\ Handler!PlainIsKept'
  <2> SUFFICES ASSUME LoopInv, Handler!PlainIsKept, [Handler!Next]_(Handler!vars)
               PROVE  Handler!PlainIsKept'
    BY LoopNext
  <2> USE DEF Handler!PlainIsKept
  <2>1. CASE Handler!DecodePlain
    <3> SUFFICES ASSUME \A k \in 1..Len(uri) : uri[k] \notin {Handler!Percent, Handler!Plus}
                 PROVE  out' = SubSeq(uri, 1, index + 1)
      BY <2>1 DEF Handler!DecodePlain, Handler!Decoding
    <3>1. uri[index + 1] # Handler!Plus
      BY <2>1 DEF Handler!DecodePlain, Handler!Decoding, LoopInv, Typed
    <3>2. out' = Append(SubSeq(uri, 1, index), uri[index + 1])
      BY <2>1, <3>1 DEF Handler!DecodePlain, Handler!Decoding
    <3> QED BY <2>1, <3>2 DEF Handler!DecodePlain, Handler!Decoding, LoopInv, Typed
  <2>2. CASE Handler!DecodeEscape
    BY <2>2 DEF Handler!DecodeEscape, Handler!Decoding, LoopInv, Typed
  <2>3. CASE Handler!RefuseEncoding \/ Handler!RefusePath \/ Handler!OpenFile
    BY <2>3 DEF Handler!RefuseEncoding, Handler!RefusePath, Handler!OpenFile, Handler!Answer
  <2>4. CASE UNCHANGED Handler!vars
    BY <2>4 DEF Handler!vars
  <2> QED BY <2>1, <2>2, <2>3, <2>4 DEF Handler!Next
<1> QED BY <1>1, <1>2, PTL DEF Handler!Spec
=============================================================================
