------------------------------- MODULE Daytime -------------------------------
(***************************************************************************)
(* The daytime servers of tutorial/daytime_7: a TCP and a UDP server on    *)
(* one io_context that one thread runs.  daytime_3 and daytime_6 have the  *)
(* same two classes, one each.                                             *)
(*                                                                         *)
(* The handlers are bound to a default error_code instead of the           *)
(* placeholder, so that each of them takes its operation for a success;    *)
(* and the UDP server receives the next datagram into the remote_endpoint_ *)
(* that it has just told async_send_to to send to.                         *)
(***************************************************************************)
EXTENDS Naturals, Sequences, FiniteSets

CONSTANTS
    Client,        \* TCP clients that may connect
    Peer,          \* endpoints that may send datagrams
    MaxDatagrams,  \* bound: datagrams that arrive
    MaxFails       \* bound: accepts and receives that fail

ASSUME BoundsAssumption == MaxDatagrams \in Nat /\ MaxFails \in Nat

ASSUME NamesAssumption == {"nobody", "error"} \cap Peer = {}

VARIABLES
    client,    \* the client's end: what it has done, or been told
    accept,    \* the async_accept, or its outcome
    incoming,  \* whom the socket of new_conn is connected to, if anybody
    conns,     \* tcp_connections that have been started: whom each is for, and its write
    inbox,     \* the senders of the datagrams that wait in the socket's buffer
    arrived,   \* how many have come so far
    receive,   \* the async_receive_from, or its outcome
    remote,    \* remote_endpoint_
    heard,     \* history: what each receive has come to, a sender or "error"
    sends,     \* the destinations of the async_send_to in flight, in their order
    replies,   \* history: where a reply was sent to, with success or without
    fails      \* how many accepts and receives have failed

tcpVars == <<client, accept, incoming, conns>>
udpVars == <<inbox, arrived, receive, remote, heard, sends, replies>>
vars == <<tcpVars, udpVars, fails>>

-----------------------------------------------------------------------------
(* Those who ask.                                                          *)

Connect(c) ==
    /\ client[c] = "away"
    /\ client' = [client EXCEPT ![c] = "connected"]
    /\ UNCHANGED <<accept, incoming, conns, udpVars, fails>>

Quit(c) ==
    /\ client[c] \in {"connected", "told"}
    /\ client' = [client EXCEPT ![c] = "gone"]
    /\ UNCHANGED <<accept, incoming, conns, udpVars, fails>>

\* One that is lost on its way does not arrive.
DatagramArrives(p) ==
    /\ arrived < MaxDatagrams
    /\ arrived' = arrived + 1
    /\ inbox' = Append(inbox, p)
    /\ UNCHANGED <<tcpVars, receive, remote, heard, sends, replies, fails>>

-----------------------------------------------------------------------------
(* Outcomes of the operations in flight.                                   *)

Accepted(c) == incoming = {c} \/ \E i \in DOMAIN conns : conns[i].for = {c}

AcceptCompletes(c) ==
    /\ accept = "pending"
    /\ client[c] # "away" /\ ~Accepted(c)
    /\ accept' = "done"
    /\ incoming' = {c}
    /\ UNCHANGED <<client, conns, udpVars, fails>>

AcceptFails ==
    /\ accept = "pending" /\ fails < MaxFails
    /\ accept' = "done"
    /\ fails' = fails + 1
    /\ UNCHANGED <<client, incoming, conns, udpVars>>

\* The client gets the string, or is not there any more.
WriteEnds(i) ==
    /\ conns[i].write = "pending"
    /\ conns' = [conns EXCEPT ![i].write = "done"]
    /\ client' = [c \in Client |-> IF c \in conns[i].for /\ client[c] = "connected"
                                   THEN "told" ELSE client[c]]
    /\ UNCHANGED <<accept, incoming, udpVars, fails>>

\* The receive writes its sender to remote_endpoint_ when it is performed,
\* not when its handler runs.
ReceiveCompletes ==
    /\ receive = "pending" /\ inbox # <<>>
    /\ receive' = "done"
    /\ remote' = Head(inbox)
    /\ heard' = Append(heard, Head(inbox))
    /\ inbox' = Tail(inbox)
    /\ UNCHANGED <<tcpVars, arrived, sends, replies, fails>>

ReceiveFails ==
    /\ receive = "pending" /\ fails < MaxFails
    /\ receive' = "done"
    /\ heard' = Append(heard, "error")
    /\ fails' = fails + 1
    /\ UNCHANGED <<tcpVars, inbox, arrived, remote, sends, replies>>

\* Mutant: the operation refers to the caller's endpoint.
CurrentEndpoint(destination) == remote

\* The operation keeps a copy of the endpoint that it was started with.
Destination(destination) == destination

\* The sends of a socket that cannot be performed at once wait in a queue.
SendEnds ==
    /\ sends # <<>>
    /\ replies' = Append(replies, Destination(Head(sends)))
    /\ sends' = Tail(sends)
    /\ UNCHANGED <<tcpVars, inbox, arrived, receive, remote, heard, fails>>

-----------------------------------------------------------------------------
(* The handlers.  That of a send does nothing.                             *)

\* Mutant: the error is looked at, as one might do it.
HandleAcceptGivesUp ==
    /\ accept = "done"
    /\ IF incoming = {} THEN accept' = "none" /\ UNCHANGED conns
       ELSE /\ accept' = "pending"
            /\ conns' = Append(conns, [for |-> incoming, write |-> "pending"])
    /\ incoming' = {}
    /\ UNCHANGED <<client, udpVars, fails>>

\* tcp_server::handle_accept starts the connection whatever has become of the
\* accept; a write on a socket that is not open ends at once.
HandleAccept ==
    /\ accept = "done"
    /\ conns' = Append(conns, [for |-> incoming,
                               write |-> IF incoming = {} THEN "done" ELSE "pending"])
    /\ incoming' = {}
    /\ accept' = "pending"
    /\ UNCHANGED <<client, udpVars, fails>>

\* With the handler goes the last reference to the connection.
HandleWrite(i) ==
    /\ conns[i].write = "done"
    /\ conns' = [conns EXCEPT ![i].write = "none"]
    /\ UNCHANGED <<client, accept, incoming, udpVars, fails>>

\* udp_server::handle_receive replies to remote_endpoint_ whatever has become
\* of the receive, and receives again.
HandleReceive ==
    /\ receive = "done"
    /\ sends' = Append(sends, remote)
    /\ receive' = "pending"
    /\ UNCHANGED <<tcpVars, inbox, arrived, remote, heard, replies, fails>>

-----------------------------------------------------------------------------
Init ==
    /\ client = [c \in Client |-> "away"]
    /\ accept = "pending"
    /\ incoming = {}
    /\ conns = <<>>
    /\ inbox = <<>>
    /\ arrived = 0
    /\ receive = "pending"
    /\ remote = "nobody"
    /\ heard = <<>>
    /\ sends = <<>>
    /\ replies = <<>>
    /\ fails = 0

Next ==
    \/ \E c \in Client : Connect(c) \/ Quit(c) \/ AcceptCompletes(c)
    \/ \E p \in Peer : DatagramArrives(p)
    \/ \E i \in DOMAIN conns : WriteEnds(i) \/ HandleWrite(i)
    \/ AcceptFails \/ ReceiveCompletes \/ ReceiveFails \/ SendEnds
    \/ HandleAccept \/ HandleReceive

\* run() gets to every ready handler; the system hands over connections and
\* datagrams, and an operation that is not held up by the other end completes.
Fairness ==
    /\ WF_vars(\E c \in Client : AcceptCompletes(c))
    /\ WF_vars(ReceiveCompletes) /\ WF_vars(SendEnds)
    /\ WF_vars(HandleAccept) /\ WF_vars(HandleReceive)
    /\ \A i \in 1..(Cardinality(Client) + MaxFails) :
          WF_vars(i \in DOMAIN conns /\ (WriteEnds(i) \/ HandleWrite(i)))

Spec == Init /\ [][Next]_vars /\ Fairness

-----------------------------------------------------------------------------
(* Properties.                                                             *)

\* p is the last sender that the first n receives have come to.
IsLastOf(outcomes, p, n) ==
    \/ p = "nobody" /\ \A m \in 1..n : outcomes[m] = "error"
    \/ \E m \in 1..n : /\ p = outcomes[m] /\ p # "error"
                       /\ \A l \in (m + 1)..n : outcomes[l] = "error"

\* The n-th reply goes to the sender of the n-th datagram, although the next
\* receive, which is started while the reply waits to be sent, writes to the
\* same remote_endpoint_.  Only a failed receive makes a reply nobody asked
\* for: it goes to the one that was heard last.
RepliesGoToSenders == \A n \in DOMAIN replies : IsLastOf(heard, replies[n], n)

\* Whatever fails before, and however busy the other server is, a client that
\* connects is told the time unless it leaves, and every datagram that
\* arrives is replied to.
EveryoneIsAnswered ==
    /\ \A c \in Client : client[c] = "connected" ~> client[c] \in {"told", "gone"}
    /\ \A n \in 1..MaxDatagrams : arrived >= n ~> Len(replies) >= n
=============================================================================
